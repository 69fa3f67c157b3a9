----------------------- MODULE VirtqueueExchangeProofs -----------------------
(* The rings of a queue hold each chain once, and the queue implements the    *)
(* exchange of chains, for every queue size and every number of completers.   *)
EXTENDS VirtqueueExchange, VirtqueueProofs, Sequences, FiniteSetTheorems

(* A list of different chains is no longer than the queue. *)
LEMMA FewerThanChains ==
  ASSUME NEW n \in Nat, NEW sz \in Nat, NEW f \in [1..n -> 0..(sz - 1)],
         \A i, j \in 1..n : f[i] = f[j] => i = j
  PROVE  n <= sz
<1>1. f \in Injection(1..n, 0..(sz - 1))
  BY Zenon DEF Injection, IsInjective
<1>2. IsFiniteSet(0..(sz - 1)) /\ Cardinality(0..(sz - 1)) = IF 0 > sz - 1 THEN 0 ELSE sz - 1 - 0 + 1
  BY FS_Interval
<1>3. Cardinality(1..n) = IF 1 > n THEN 0 ELSE n - 1 + 1
  BY FS_Interval
<1>4. Cardinality(1..n) <= Cardinality(0..(sz - 1))
  BY <1>1, <1>2, FS_Injection
<1> QED
  BY <1>2, <1>3, <1>4

(* The pigeonhole principle that the lemmas on the rings assume. *)
LEMMA OneMoreFits == RoomForOne
<1> SUFFICES ASSUME NEW n \in Nat, NEW sz \in Nat, NEW f \in Lists(n, sz),
                    NEW h \in 0..(sz - 1), \A i \in 0..(n - 1) : f[i] # h
             PROVE  n < sz
  BY Zenon DEF RoomForOne
<1> USE DEF Lists
<1>1. PICK m \in Nat : m = n + 1
  OBVIOUS
<1> DEFINE g == [k \in 1..m |-> IF k <= n THEN f[k - 1] ELSE h]
<1>2. g \in [1..m -> 0..(sz - 1)]
  BY <1>1
<1>3. \A i, j \in 1..m : g[i] = g[j] => i = j
  BY <1>1
<1> HIDE DEF g
<1>4. m <= sz
  BY <1>2, <1>3, FewerThanChains, Zenon
<1> QED
  BY <1>1, <1>4

(* The rings are in order in every state. *)
LEMMA RingInvHolds == Spec => []RingInv
<1>1. Init => RingInv
  <2> SUFFICES ASSUME Init PROVE RingInv
    BY Zenon
  <2>1. TypeOK /\ CleanReset
    BY InitType, Zenon DEF Init, CleanReset, ResetState
  <2>2. EmptyRing
    BY <2>1, Zenon DEF EmptyRing, Init, Heads
  <2> QED
    BY <2>1, <2>2, RingEmpty, Zenon DEF RingInv
<1>2. RingInv /\ [Next]_vars => RingInv'
  BY OneMoreFits, TypeStep, CleanResetStep, RingStep, RingFacts, Zenon DEF RingInv
<1> QED
  BY <1>1, <1>2, PTL DEF Spec

(* For every queue size, every number of completers and every batch:          *)
(* AvailIter::new never answers InvalidAvailRingIndex to a driver that keeps  *)
(* to the queue size, because no chain is ever in two places and the rings    *)
(* have a slot for each; wrap-around of the indices, an undo in the middle of *)
(* an iteration and late stores included.                                     *)
THEOREM IndexNeverRefusedHolds == Spec => []IndexNeverRefused
<1>1. RingInv => IndexNeverRefused
  BY RingFacts, Zenon DEF IndexNeverRefused
<1> QED
  BY <1>1, RingInvHolds, PTL

--------------------------------------------------------------------------------
(* The queue implements the exchange of chains. *)

(* Sequences given by their length and their elements. *)
Listing(n, S) == [1..n -> S]

(* A listing is a sequence. *)
LEMMA IsSeq ==
  ASSUME NEW S, NEW n \in Nat, NEW f \in Listing(n, S)
  PROVE  f \in Seq(S) /\ Len(f) = n /\ DOMAIN f = 1..n
BY DEF Listing

(* The tail of a listing. *)
LEMMA TailOf ==
  ASSUME NEW S, NEW n \in Nat, n > 0, NEW f \in Listing(n, S), NEW g \in Listing(n - 1, S),
         \A i \in 1..(n - 1) : g[i] = f[i + 1]
  PROVE  f # <<>> /\ Head(f) = f[1] /\ g = Tail(f)
<1>1. f \in Seq(S) /\ Len(f) = n
  BY IsSeq, Zenon
<1>2. g \in Seq(S) /\ Len(g) = n - 1
  BY IsSeq
<1>3. f # <<>> /\ Head(f) = f[1]
  BY <1>1
<1>4. Tail(f) \in Seq(S) /\ Len(Tail(f)) = n - 1
  BY <1>1, <1>3
<1>5. \A i \in 1..(n - 1) : Tail(f)[i] = f[i + 1]
  BY <1>1, <1>3
<1>6. g = Tail(f)
  BY <1>2, <1>4, <1>5
<1> QED
  BY <1>3, <1>6, Zenon

(* A listing with one more at the end. *)
LEMMA AppendOf ==
  ASSUME NEW S, NEW n \in Nat, NEW f \in Listing(n, S), NEW g \in Listing(n + 1, S),
         \A i \in 1..n : g[i] = f[i]
  PROVE  g = Append(f, g[n + 1])
<1>1. f \in Seq(S) /\ Len(f) = n
  BY IsSeq, Zenon
<1>2. g \in Seq(S) /\ Len(g) = n + 1 /\ g[n + 1] \in S
  BY IsSeq DEF Listing
<1>3. PICK c \in S : c = g[n + 1]
  BY <1>2, Zenon
<1>4. Append(f, c) \in Seq(S) /\ Len(Append(f, c)) = n + 1
  BY <1>1
<1>5. \A i \in 1..(n + 1) : Append(f, c)[i] = g[i]
  BY <1>1, <1>3
<1> QED
  BY <1>2, <1>3, <1>4, <1>5

(* A listing with one more in front. *)
LEMMA ConsOf ==
  ASSUME NEW S, NEW n \in Nat, NEW f \in Listing(n, S), NEW g \in Listing(n + 1, S),
         \A i \in 1..n : g[i + 1] = f[i]
  PROVE  g = <<g[1]>> \o f
<1>1. f \in Seq(S) /\ Len(f) = n
  BY IsSeq, Zenon
<1>2. g \in Seq(S) /\ Len(g) = n + 1 /\ g[1] \in S
  BY IsSeq DEF Listing
<1>3. PICK c \in S : c = g[1]
  BY <1>2, Zenon
<1>4. <<c>> \o f \in Seq(S) /\ Len(<<c>> \o f) = n + 1
  BY <1>1
<1>5. ASSUME NEW i \in 1..(n + 1) PROVE (<<c>> \o f)[i] = g[i]
  <2>1. CASE i = 1
    BY <1>1, <1>3, <2>1
  <2>2. CASE i # 1
    <3>1. PICK j \in 1..n : i = j + 1
      BY <2>2
    <3>2. (<<c>> \o f)[i] = f[j]
      BY <1>1, <3>1
    <3> QED
      BY <3>1, <3>2, Zenon
  <2> QED
    BY <2>1, <2>2, Zenon
<1> QED
  BY <1>2, <1>3, <1>4, <1>5

(* A listing of nothing. *)
LEMMA EmptyOf ==
  ASSUME NEW S, NEW f \in Listing(0, S)
  PROVE  f = <<>>
BY IsSeq DEF Listing

(* The refinement mapping of Exchange. *)
Offered ==
  [i \in 1..WSub(avail_idx, next_avail) |-> avail_ring[WAdd(next_avail, i - 1) % size]]

Given == [i \in 1..WSub(next_used, last_used) |-> LatestElem(WAdd(last_used, i - 1) % size)]

Held == inflight \union ({got} \ {None})

(* The mapping in terms of the entries of the rings: the chain in hand is not *)
(* offered any more.                                                          *)
OfferedIs ==
  /\ dpc # "got" => /\ Offered \in Listing(Kept, Heads)
                    /\ \A i \in 1..Kept : Offered[i] = AvailAt(i - 1)
  /\ dpc = "got" => /\ Offered \in Listing(Kept - 1, Heads)
                    /\ \A i \in 1..(Kept - 1) : Offered[i] = AvailAt(i)

GivenIs ==
  /\ Given \in Listing(Returned, Heads)
  /\ \A i \in 1..Returned : Given[i] = UsedAt(i - 1)

(* What the rings offer, and have been given back, entry by entry. *)
LEMMA Mapping == RingInv => OfferedIs /\ GivenIs
<1> SUFFICES ASSUME RingInv PROVE OfferedIs /\ GivenIs
  BY Zenon
<1>1. /\ TypeOK /\ ChainsApart /\ IterInside
      /\ Kept \in Nat /\ Returned \in Nat /\ size \in Nat /\ 0..(size - 1) \subseteq Heads
      /\ FirstKept \in Idx /\ next_avail \in Idx /\ avail_idx \in Idx
      /\ Kept <= size /\ size < IdxMod /\ IdxMod \in Nat
  BY RingFacts, RingTypes, Zenon
<1>2. /\ \A i \in 0..(Kept - 1) : AvailAt(i) \in Heads
      /\ \A i \in 0..(Returned - 1) : UsedAt(i) \in Heads
  BY <1>1, Zenon DEF ChainsApart
<1>3. GivenIs
  <2>1. \A i \in 1..Returned : Given[i] = UsedAt(i - 1)
    BY Zenon DEF Given, UsedAt, Entry, Returned
  <2>2. \A i \in 1..Returned : UsedAt(i - 1) \in Heads
    BY <1>1, <1>2
  <2>3. Given = [i \in 1..Returned |-> UsedAt(i - 1)]
    BY Zenon DEF Given, UsedAt, Entry, Returned
  <2> QED
    BY <2>1, <2>2, <2>3, Zenon DEF GivenIs, Listing
<1>4. CASE dpc # "got"
  <2>1. Offered = [i \in 1..Kept |-> AvailAt(i - 1)]
    BY <1>4, Zenon DEF Offered, AvailAt, Entry, Kept, FirstKept
  <2>2. \A i \in 1..Kept : AvailAt(i - 1) \in Heads
    BY <1>1, <1>2
  <2> QED
    BY <1>3, <1>4, <2>1, <2>2, Zenon DEF OfferedIs, Listing
<1>5. CASE dpc = "got"
  <2>1. next_avail = WAdd(FirstKept, 1) /\ Kept > 0
    BY <1>1, <1>5, WSubUndo, Zenon DEF FirstKept, IterInside
  <2>2. FirstKept # avail_idx
    BY <1>1, <2>1, WSubSelf DEF Kept
  <2>3. WSub(avail_idx, next_avail) = Kept - 1
    BY <1>1, <2>1, <2>2, WSubAdvance, Zenon DEF Kept
  <2>4. ASSUME NEW i \in 1..(Kept - 1) PROVE WAdd(next_avail, i - 1) = WAdd(FirstKept, i)
    <3>1. PICK k \in Nat : k = i - 1
      BY <1>1
    <3>2. k < IdxMod /\ i = k + 1
      BY <1>1, <3>1
    <3>3. WAdd(WAdd(FirstKept, 1), k) = WAdd(FirstKept, k + 1)
      BY <1>1, <3>2, WAddNext, Zenon
    <3> QED
      BY <2>1, <3>1, <3>2, <3>3, Zenon
  <2>5. Offered = [i \in 1..(Kept - 1) |-> AvailAt(i)]
    BY <2>3, <2>4, Zenon DEF Offered, AvailAt, Entry
  <2>6. \A i \in 1..(Kept - 1) : AvailAt(i) \in Heads
    BY <1>1, <1>2
  <2> QED
    BY <1>3, <1>5, <2>5, <2>6, Zenon DEF OfferedIs, Listing
<1> QED
  BY <1>4, <1>5, Zenon

(* Rings that hold nothing stand for an exchange in which nothing is offered, *)
(* held or returned.                                                          *)
NothingHeld ==
  /\ TypeOK /\ got = None /\ inflight = {}
  /\ next_avail = avail_idx /\ next_used = last_used

NothingMapped == Offered = <<>> /\ Given = <<>> /\ Held = {}

(* An empty ring offers nothing and gives nothing back. *)
LEMMA EmptyMapping == NothingHeld => NothingMapped
<1> SUFFICES ASSUME NothingHeld PROVE NothingMapped
  BY Zenon
<1>1. WSub(avail_idx, next_avail) = 0 /\ WSub(next_used, last_used) = 0
  BY RingTypes, WSubSelf, Zenon DEF NothingHeld
<1>2. Offered \in Listing(0, Heads) /\ Given \in Listing(0, Heads)
  BY <1>1 DEF Offered, Given, Listing
<1>3. Held = {}
  BY Zenon DEF Held, NothingHeld
<1> QED
  BY <1>2, <1>3, EmptyOf, Zenon DEF NothingMapped

(* A step of the exchange in terms of the mapping. *)
LEMMA ExchangeStutter ==
  ASSUME UNCHANGED <<ready, free, Offered, Held, Given>>
  PROVE  UNCHANGED Exchange!vars
BY Zenon DEF Exchange!vars, Offered, Held, Given

(* What an abstract offer needs. *)
LEMMA ExchangeOffer ==
  ASSUME NEW c \in Heads, c \in free, free' = free \ {c}, Offered' = Append(Offered, c),
         UNCHANGED <<ready, Held, Given>>
  PROVE  Exchange!Next
<1>1. Exchange!Offer(c)
  BY Zenon DEF Exchange!Offer, Offered, Held, Given
<1> QED
  BY <1>1, Zenon DEF Exchange!Next

(* What an abstract take needs. *)
LEMMA ExchangeTake ==
  ASSUME Offered # <<>>, Held' = Held \union {Head(Offered)}, Offered' = Tail(Offered),
         UNCHANGED <<ready, free, Given>>
  PROVE  Exchange!Next
<1>1. Exchange!Take
  BY Zenon DEF Exchange!Take, Offered, Held, Given
<1> QED
  BY <1>1, Zenon DEF Exchange!Next

(* What an abstract put-back needs. *)
LEMMA ExchangePutBack ==
  ASSUME NEW c \in Heads, c \in Held, Held' = Held \ {c}, Offered' = <<c>> \o Offered,
         UNCHANGED <<ready, free, Given>>
  PROVE  Exchange!Next
<1>1. Exchange!PutBack(c)
  BY Zenon DEF Exchange!PutBack, Offered, Held, Given
<1> QED
  BY <1>1, Zenon DEF Exchange!Next

(* What an abstract return needs. *)
LEMMA ExchangeReturn ==
  ASSUME NEW c \in Heads, c \in Held, Held' = Held \ {c}, Given' = Append(Given, c),
         UNCHANGED <<ready, free, Offered>>
  PROVE  Exchange!Next
<1>1. Exchange!Return(c)
  BY Zenon DEF Exchange!Return, Offered, Held, Given
<1> QED
  BY <1>1, Zenon DEF Exchange!Next

(* What an abstract collect needs. *)
LEMMA ExchangeCollect ==
  ASSUME Given # <<>>, free' = free \union {Head(Given)}, Given' = Tail(Given),
         UNCHANGED <<ready, Offered, Held>>
  PROVE  Exchange!Next
<1>1. Exchange!Collect
  BY Zenon DEF Exchange!Collect, Offered, Held, Given
<1> QED
  BY <1>1, Zenon DEF Exchange!Next

(* What opening the abstract exchange needs. *)
LEMMA ExchangeOpen ==
  ASSUME ~ready, ready' = TRUE, free' \in SUBSET Heads, UNCHANGED <<Offered, Held, Given>>
  PROVE  Exchange!Next
<1>1. PICK S \in SUBSET Heads : S = free'
  BY Zenon
<1>2. Exchange!Open(S)
  BY <1>1, Zenon DEF Exchange!Open, Offered, Held, Given
<1> QED
  BY <1>1, <1>2, Zenon DEF Exchange!Next

(* What closing the abstract exchange needs. *)
LEMMA ExchangeClose ==
  ASSUME ready, ready' = FALSE, free' = Heads, NothingMapped'
  PROVE  Exchange!Next
<1>1. Exchange!Close
  BY Zenon DEF Exchange!Close, Offered, Held, Given, NothingMapped
<1> QED
  BY <1>1, Zenon DEF Exchange!Next

(* The chains the device holds: those in flight, and one just taken. *)
LEMMA HeldIs ==
  ASSUME RingInv
  PROVE  /\ dpc # "got" => Held = inflight
         /\ dpc = "got" => got \in Heads /\ got \notin inflight /\ Held = inflight \union {got}
<1>1. TypeOK /\ ChainsApart /\ IterInside /\ Kept \in Nat /\ 0..(size - 1) \subseteq Heads
  BY RingFacts, RingTypes, Zenon
<1>2. CASE dpc # "got"
  BY <1>1, <1>2, Zenon DEF IterInside, Held
<1>3. CASE dpc = "got"
  <2>1. got \in Heads /\ got \notin inflight
    BY <1>1, <1>3 DEF IterInside, ChainsApart
  <2> QED
    BY <1>3, <2>1, ZeroIdx, Zenon DEF Held
<1> QED
  BY <1>2, <1>3, Zenon

(* DriverAdd is Offer. *)
LEMMA MapOffer ==
  ASSUME RingInv, RingInv', NEW h \in Heads, DriverAdd(h)
  PROVE  Exchange!Next
<1>1. /\ h \in free /\ free' = free \ {h} /\ UNCHANGED <<ready, dpc, Held, Given>>
  BY Zenon DEF DriverAdd, queueVars, deviceVars, deviceMem, Held, Given, LatestElem
<1>2. PICK n \in Nat : n = Kept
  BY RingFacts, RingTypes, Zenon
<1>3. /\ Kept' = n + 1 /\ AvailAt(n)' = h
      /\ \A i \in 0..(n - 1) : AvailAt(i)' = AvailAt(i)
  BY <1>2, OneMoreFits, RingOffer, Zenon
<1>4. OfferedIs /\ OfferedIs'
  <2>1. RingInv' => OfferedIs'
    BY Mapping, PTL
  <2> QED
    BY <2>1, Mapping, Zenon
<1>5. Offered' = Append(Offered, h)
  <2>1. CASE dpc # "got"
    <3>1. Offered \in Listing(n, Heads) /\ \A i \in 1..n : Offered[i] = AvailAt(i - 1)
      BY <1>2, <1>4, <2>1, Zenon DEF OfferedIs
    <3>2. Offered' \in Listing(n + 1, Heads) /\ \A i \in 1..(n + 1) : Offered'[i] = AvailAt(i - 1)'
      BY <1>1, <1>3, <1>4, <2>1, Zenon DEF OfferedIs
    <3>3. \A i \in 1..n : Offered'[i] = Offered[i]
      BY <1>3, <3>1, <3>2
    <3>4. Offered'[n + 1] = h
      BY <1>3, <3>2
    <3> QED
      BY <3>1, <3>2, <3>3, <3>4, AppendOf, Zenon
  <2>2. CASE dpc = "got"
    <3>1. n > 0
      BY <1>2, <2>2, RingFacts, Zenon DEF IterInside
    <3>2. PICK m \in Nat : m = n - 1
      BY <3>1
    <3>3. Offered \in Listing(m, Heads) /\ \A i \in 1..m : Offered[i] = AvailAt(i)
      BY <1>2, <1>4, <2>2, <3>2, Zenon DEF OfferedIs
    <3>4. Kept' - 1 = m + 1 /\ n = m + 1
      BY <1>3, <3>2
    <3>5. Offered' \in Listing(m + 1, Heads) /\ \A i \in 1..(m + 1) : Offered'[i] = AvailAt(i)'
      BY <1>1, <1>4, <2>2, <3>4, Zenon DEF OfferedIs
    <3>6. \A i \in 1..m : Offered'[i] = Offered[i]
      BY <1>3, <3>3, <3>4, <3>5, SMTT(30)
    <3>7. Offered'[m + 1] = h
      BY <1>3, <3>4, <3>5, SMTT(30)
    <3> QED
      BY <3>3, <3>5, <3>6, <3>7, AppendOf, Zenon
  <2> QED
    BY <2>1, <2>2, Zenon
<1> QED
  BY <1>1, <1>5, ExchangeOffer, Zenon

(* AvailIter::next is Take. *)
LEMMA MapTake ==
  ASSUME RingInv, RingInv', IterNext
  PROVE  Exchange!Next
<1>1. /\ dpc = "next" /\ dpc' = "got" /\ UNCHANGED <<ready, free, inflight, avail_idx, Given>>
  BY Zenon DEF IterNext, driverMem, deviceMem, driverVars, Given, LatestElem
<1>2. PICK n \in Nat : n = Kept
  BY RingFacts, RingTypes, Zenon
<1>3. n > 0 /\ Kept' = n /\ got' = AvailAt(0)
  BY <1>1, <1>2, RingTake, Zenon DEF Kept
<1>4. \A i : AvailAt(i)' = AvailAt(i)
  BY RingTake, Zenon DEF AvailAt, Entry, IterNext, driverMem
<1>5. OfferedIs /\ OfferedIs'
  <2>1. RingInv' => OfferedIs'
    BY Mapping, PTL
  <2> QED
    BY <2>1, Mapping, Zenon
<1>6. Offered \in Listing(n, Heads) /\ \A i \in 1..n : Offered[i] = AvailAt(i - 1)
  BY <1>1, <1>2, <1>5, Zenon DEF OfferedIs
<1>7. Offered' \in Listing(n - 1, Heads) /\ \A i \in 1..(n - 1) : Offered'[i] = AvailAt(i)'
  BY <1>1, <1>3, <1>5, Zenon DEF OfferedIs
<1>8. \A i \in 1..(n - 1) : Offered'[i] = Offered[i + 1]
  BY <1>4, <1>6, <1>7, SMTT(30)
<1>9. Offered # <<>> /\ Head(Offered) = Offered[1] /\ Offered' = Tail(Offered)
  BY <1>3, <1>6, <1>7, <1>8, TailOf, Zenon
<1>10. got' = Head(Offered)
  BY <1>3, <1>6, <1>9, SMTT(30)
<1>11. Held' = Held \union {got'}
  <2>1. Held = inflight
    BY <1>1, HeldIs, Zenon
  <2>2. got' # None
    BY <1>1, RingFacts, ZeroIdx, Zenon DEF RingInv, TypeOK
  <2> QED
    BY <1>1, <2>1, <2>2, Zenon DEF Held
<1> QED
  BY <1>1, <1>9, <1>10, <1>11, ExchangeTake, Zenon

(* go_to_previous_position is PutBack. *)
LEMMA MapPutBack ==
  ASSUME RingInv, RingInv', NEW keep \in BOOLEAN, GoToPreviousPosition(keep)
  PROVE  Exchange!Next
<1>1. /\ dpc = "got" /\ dpc' # "got" /\ got' = None
      /\ UNCHANGED <<ready, free, inflight, avail_idx, avail_ring, size, Given>>
  BY Zenon DEF GoToPreviousPosition, driverMem, deviceMem, driverVars, Given, LatestElem
<1>2. PICK n \in Nat : n + 1 = Kept
  BY <1>1, RingFacts, RingTypes, SMTT(30) DEF IterInside
<1>3. Kept' = n + 1 /\ \A i : AvailAt(i)' = AvailAt(i)
  BY <1>1, <1>2, RingPutBack, Zenon DEF Kept, AvailAt, Entry
<1>4. OfferedIs /\ OfferedIs'
  <2>1. RingInv' => OfferedIs'
    BY Mapping, PTL
  <2> QED
    BY <2>1, Mapping, Zenon
<1>5. Offered \in Listing(n, Heads) /\ \A i \in 1..n : Offered[i] = AvailAt(i)
  <2>1. Kept - 1 = n
    BY <1>2
  <2> QED
    BY <1>1, <1>4, <2>1, Zenon DEF OfferedIs
<1>6. Offered' \in Listing(n + 1, Heads) /\ \A i \in 1..(n + 1) : Offered'[i] = AvailAt(i - 1)'
  BY <1>1, <1>3, <1>4, Zenon DEF OfferedIs
<1>7. \A i \in 1..n : Offered'[i + 1] = Offered[i]
  BY <1>3, <1>5, <1>6, SMTT(30)
<1>8. Offered'[1] = got
  BY <1>1, <1>3, <1>6, RingFacts, SMTT(30) DEF IterInside
<1>9. Offered' = <<got>> \o Offered
  BY <1>5, <1>6, <1>7, <1>8, ConsOf, Zenon
<1>10. got \in Heads /\ got \in Held /\ Held' = Held \ {got}
  BY <1>1, HeldIs, Zenon DEF Held
<1> QED
  BY <1>1, <1>9, <1>10, ExchangePutBack, Zenon

(* add_used is Return. *)
LEMMA MapReturn ==
  ASSUME RingInv, RingInv', NEW t \in Completers, NEW h \in Heads, AddUsed(t, h)
  PROVE  Exchange!Next
<1>1. /\ dpc # "got" /\ h \in inflight /\ inflight' = inflight \ {h}
      /\ UNCHANGED <<ready, free, got, Offered>>
  BY Zenon DEF AddUsed, LockFree, driverMem, deviceMem, driverVars, Offered
<1>2. PICK n \in Nat : n = Returned
  BY RingFacts, RingTypes, Zenon
<1>3. /\ Returned' = n + 1 /\ UsedAt(n)' = h
      /\ \A i \in 0..(n - 1) : UsedAt(i)' = UsedAt(i)
  BY <1>2, OneMoreFits, RingReturn, Zenon
<1>4. GivenIs /\ GivenIs'
  <2>1. RingInv' => GivenIs'
    BY Mapping, PTL
  <2> QED
    BY <2>1, Mapping, Zenon
<1>5. Given \in Listing(n, Heads) /\ \A i \in 1..n : Given[i] = UsedAt(i - 1)
  BY <1>2, <1>4, Zenon DEF GivenIs
<1>6. Given' \in Listing(n + 1, Heads) /\ \A i \in 1..(n + 1) : Given'[i] = UsedAt(i - 1)'
  BY <1>3, <1>4, Zenon DEF GivenIs
<1>7. \A i \in 1..n : Given'[i] = Given[i]
  BY <1>3, <1>5, <1>6
<1>8. Given'[n + 1] = h
  BY <1>3, <1>6
<1>9. Given' = Append(Given, h)
  BY <1>5, <1>6, <1>7, <1>8, AppendOf, Zenon
<1>10. h \in Held /\ Held' = Held \ {h}
  <2>1. Held = inflight /\ got = None
    BY <1>1, HeldIs, RingFacts, Zenon DEF IterInside
  <2> QED
    BY <1>1, <2>1, Zenon DEF Held
<1> QED
  BY <1>1, <1>9, <1>10, ExchangeReturn, Zenon

(* The driver's read of the used ring is Collect. *)
LEMMA MapCollect ==
  ASSUME RingInv, RingInv', DriverCollect
  PROVE  Exchange!Next
<1>1. /\ free' = free \union {used_ring[last_used % size]}
      /\ UNCHANGED <<ready, Held, Offered>>
  BY Zenon DEF DriverCollect, queueVars, deviceVars, driverMem, deviceMem, Held, Offered
<1>2. PICK n \in Nat : n = Returned
  BY RingFacts, RingTypes, Zenon
<1>3. /\ n > 0 /\ Returned' = n - 1 /\ used_ring[last_used % size] = UsedAt(0)
      /\ \A i \in 0..(n - 2) : UsedAt(i)' = UsedAt(i + 1)
  BY <1>2, RingCollect, Zenon
<1>4. GivenIs /\ GivenIs'
  <2>1. RingInv' => GivenIs'
    BY Mapping, PTL
  <2> QED
    BY <2>1, Mapping, Zenon
<1>5. Given \in Listing(n, Heads) /\ \A i \in 1..n : Given[i] = UsedAt(i - 1)
  BY <1>2, <1>4, Zenon DEF GivenIs
<1>6. Given' \in Listing(n - 1, Heads) /\ \A i \in 1..(n - 1) : Given'[i] = UsedAt(i - 1)'
  BY <1>3, <1>4, Zenon DEF GivenIs
<1>7. \A i \in 1..(n - 1) : Given'[i] = Given[i + 1]
  BY <1>3, <1>5, <1>6
<1>8. Given # <<>> /\ Head(Given) = Given[1] /\ Given' = Tail(Given)
  BY <1>3, <1>5, <1>6, <1>7, TailOf, Zenon
<1>9. Head(Given) = used_ring[last_used % size]
  BY <1>3, <1>5, <1>8
<1> QED
  BY <1>1, <1>8, <1>9, ExchangeCollect, Zenon

(* A store that reaches the memory changes nothing of the exchange. *)
LEMMA MapFlush ==
  ASSUME RingInv, RingInv', NEW s \in Heads, FlushElem(s)
  PROVE  UNCHANGED Exchange!vars
<1>1. UNCHANGED <<ready, free, size, next_used, last_used, Offered, Held>>
  BY Zenon DEF FlushElem, queueVars, deviceVars, driverMem, driverVars, Offered, Held
<1>2. PICK n \in Nat : n = Returned
  BY RingFacts, RingTypes, Zenon
<1>3. Returned' = n
  BY <1>1, <1>2, Zenon DEF Returned
<1>4. ASSUME NEW i \in 0..(n - 1) PROVE UsedAt(i)' = UsedAt(i)
  <2>1. TypeOK /\ n <= size /\ size \in Nat /\ last_used \in Idx
    BY <1>2, RingFacts, RingTypes, Zenon
  <2>2. i \in Nat /\ i < size
    BY <2>1
  <2>3. Entry(last_used, i) \in Heads
    BY <2>1, <2>2, EntriesApart, Zenon
  <2> QED
    BY <1>1, <2>3, RingFlushElem, Zenon DEF UsedAt, Entry
<1>5. GivenIs /\ GivenIs'
  <2>1. RingInv' => GivenIs'
    BY Mapping, PTL
  <2> QED
    BY <2>1, Mapping, Zenon
<1>6. Given \in Listing(n, Heads) /\ \A i \in 1..n : Given[i] = UsedAt(i - 1)
  BY <1>2, <1>5, Zenon DEF GivenIs
<1>7. Given' \in Listing(n, Heads) /\ \A i \in 1..n : Given'[i] = UsedAt(i - 1)'
  BY <1>3, <1>5, Zenon DEF GivenIs
<1>8. \A i \in 1..n : Given'[i] = Given[i]
  BY <1>4, <1>6, <1>7
<1>9. Given' = Given
  BY <1>6, <1>7, <1>8 DEF Listing
<1> QED
  BY <1>1, <1>9, ExchangeStutter, Zenon

(* The activation of the queue is Open. *)
LEMMA MapOpen ==
  ASSUME RingInv, RingInv', NEW sz \in Sizes, NEW ei \in EventIdx, Setup(sz, ei)
  PROVE  Exchange!Next
<1>1. NothingHeld
  BY RingFacts, Zenon DEF Setup, CleanReset, ResetState, IterInside, NothingHeld
<1>2. NothingHeld'
  <2>1. TypeOK'
    BY Zenon DEF RingInv
  <2> QED
    BY <1>1, <2>1, Zenon DEF NothingHeld, Setup, driverMem
<1>3. NothingMapped /\ NothingMapped'
  <2>1. NothingHeld' => NothingMapped'
    BY EmptyMapping, PTL
  <2> QED
    BY <1>1, <1>2, <2>1, EmptyMapping, Zenon
<1>4. free' \in SUBSET Heads
  BY Zenon DEF RingInv, TypeOK
<1>5. ~ready /\ ready' = TRUE
  BY Zenon DEF Setup
<1> QED
  BY <1>3, <1>4, <1>5, ExchangeOpen, Zenon DEF NothingMapped

(* Queue::reset is Close. *)
LEMMA MapClose ==
  ASSUME RingInv, RingInv', Reset
  PROVE  Exchange!Next
<1>1. NothingHeld'
  <2>1. TypeOK' /\ got = None
    BY RingFacts, Zenon DEF RingInv, Reset, IterInside
  <2> QED
    BY <2>1, Zenon DEF NothingHeld, Reset
<1>2. NothingHeld' => NothingMapped'
  BY EmptyMapping, PTL
<1>3. ready /\ ready' = FALSE /\ free' = Heads
  BY Zenon DEF Reset
<1> QED
  BY <1>1, <1>2, <1>3, ExchangeClose, Zenon

(* What a step leaves alone when the exchange does not notice it. *)
MappedSame ==
  /\ UNCHANGED <<ready, free, inflight, got, size, avail_idx, next_avail, avail_ring, next_used,
                 last_used, used_ring>>
  /\ pend'.used_elem = pend.used_elem

(* Every step of the queue is a step of the exchange, or none. *)
LEMMA ExchangeStep ==
  ASSUME RingInv, RingInv', [Next]_vars
  PROVE  [Exchange!Next]_(Exchange!vars)
<1>0. pend \in Stores
  BY RingFacts, Zenon DEF TypeOK
<1> DEFINE Mapped == UNCHANGED <<ready, free, Offered, Held, Given>>
<1>1. ASSUME NEW sz \in Sizes, NEW ei \in EventIdx, Setup(sz, ei) PROVE Exchange!Next
  BY <1>1, MapOpen, Zenon
<1>2. CASE Reset
  BY <1>2, MapClose, Zenon
<1>3. ASSUME SaveRestore PROVE MappedSame
  BY <1>3, Zenon
  DEF MappedSame, SaveRestore, deviceVars, driverMem, deviceMem, driverVars
<1>4. ASSUME DisableNotification PROVE MappedSame
  BY <1>0, <1>4, Zenon
  DEF MappedSame, DisableNotification, queueVars, driverMem, deviceMem, driverVars, Stores
<1>5. ASSUME Iter PROVE MappedSame
  BY <1>5, Zenon
  DEF MappedSame, Iter, queueVars, driverMem, deviceMem, driverVars
<1>6. ASSUME IterEnd PROVE MappedSame
  BY <1>6, Zenon
  DEF MappedSame, IterEnd, queueVars, driverMem, deviceMem, driverVars
<1>7. CASE IterNext
  BY <1>7, MapTake, Zenon
<1>8. ASSUME NEW keep \in BOOLEAN, Dispatch(keep) PROVE Mapped
  <2>1. Held' = Held
    BY <1>8, HeldIs, Zenon DEF Dispatch, Held
  <2>2. /\ UNCHANGED <<ready, free, size, avail_idx, next_avail, avail_ring, next_used, last_used, used_ring>>
        /\ pend'.used_elem = pend.used_elem
    BY <1>8, Zenon DEF Dispatch, queueVars, driverMem, deviceMem, driverVars
  <2> QED
    BY <2>1, <2>2, Zenon DEF Offered, Given, LatestElem
<1>9. ASSUME NEW keep \in BOOLEAN, GoToPreviousPosition(keep) PROVE Exchange!Next
  BY <1>9, MapPutBack, Zenon
<1>10. ASSUME EnableNotification PROVE MappedSame
  BY <1>0, <1>10, Zenon
  DEF MappedSame, EnableNotification, queueVars, driverMem, deviceMem, driverVars, Stores
<1>11. ASSUME RecheckAvail PROVE MappedSame
  BY <1>11, Zenon
  DEF MappedSame, RecheckAvail, queueVars, driverMem, deviceMem, driverVars
<1>12. ASSUME WakeUp PROVE MappedSame
  BY <1>12, Zenon
  DEF MappedSame, WakeUp, queueVars, driverMem, deviceMem, driverVars
<1>13. ASSUME NEW t \in Completers, NEW h \in Heads, AddUsed(t, h) PROVE Exchange!Next
  BY <1>13, MapReturn, Zenon
<1>14. ASSUME NEW t \in Completers, NeedsNotification(t) PROVE MappedSame
  BY <1>14, Zenon
  DEF MappedSame, NeedsNotification, driverMem, deviceMem, driverVars
<1>15. ASSUME NEW s \in Heads, FlushElem(s) PROVE UNCHANGED Exchange!vars
  BY <1>15, MapFlush, Zenon
<1>16. ASSUME FlushUsedIdx PROVE MappedSame
  BY <1>0, <1>16, Zenon
  DEF MappedSame, FlushUsedIdx, queueVars, deviceVars, driverMem, driverVars, Stores
<1>17. ASSUME FlushUsedFlags PROVE MappedSame
  BY <1>0, <1>17, Zenon
  DEF MappedSame, FlushUsedFlags, queueVars, deviceVars, driverMem, driverVars, Stores
<1>18. ASSUME FlushAvailEvent PROVE MappedSame
  BY <1>0, <1>18, Zenon
  DEF MappedSame, FlushAvailEvent, queueVars, deviceVars, driverMem, driverVars, Stores
<1>19. ASSUME NEW h \in Heads, DriverAdd(h) PROVE Exchange!Next
  BY <1>19, MapOffer, Zenon
<1>20. ASSUME DriverKick PROVE MappedSame
  BY <1>20, Zenon
  DEF MappedSame, DriverKick, queueVars, deviceVars, driverMem, deviceMem
<1>21. ASSUME DriverInterrupt PROVE MappedSame
  BY <1>21, Zenon
  DEF MappedSame, DriverInterrupt, queueVars, deviceVars, driverMem, deviceMem
<1>22. CASE DriverCollect
  BY <1>22, MapCollect, Zenon
<1>23. ASSUME DriverEnableInterrupt PROVE MappedSame
  BY <1>23, Zenon
  DEF MappedSame, DriverEnableInterrupt, queueVars, deviceVars, deviceMem
<1>24. ASSUME DriverRecheck PROVE MappedSame
  BY <1>24, Zenon
  DEF MappedSame, DriverRecheck, queueVars, deviceVars, driverMem, deviceMem
<1>25. ASSUME UNCHANGED vars PROVE MappedSame
  BY <1>25, Zenon
  DEF MappedSame, vars, queueVars, deviceVars, driverMem, deviceMem, driverVars
<1>26. MappedSame => Mapped
  BY Zenon DEF MappedSame, Offered, Held, Given, LatestElem
<1>27. Mapped => UNCHANGED Exchange!vars
  BY ExchangeStutter, Zenon
<1> HIDE DEF Mapped
<1> QED
  BY <1>1, <1>2, <1>3, <1>4, <1>5, <1>6, <1>7, <1>8, <1>9, <1>10, <1>11,
     <1>12, <1>13, <1>14, <1>15, <1>16, <1>17, <1>18, <1>19, <1>20, <1>21,
     <1>22, <1>23, <1>24, <1>25, <1>26, <1>27, Zenon
  DEF Next, Config, Poller, Flush, DriverCallback

(* For every queue size, every number of completers and every batch, the      *)
(* rings, the indices that wrap around, the stores that become visible late   *)
(* and the undo of the iterator implement the exchange of chains: the device  *)
(* takes chains in the order they were offered, gives each one back once, and *)
(* the driver collects exactly what was given back, in that order.            *)
THEOREM QueueImplementsExchange == Spec => ImplementsExchange
<1>1. Init => Exchange!Init
  <2> SUFFICES ASSUME Init PROVE Exchange!Init
    BY Zenon
  <2>1. NothingHeld
    BY InitType, Zenon DEF Init, NothingHeld
  <2>2. NothingMapped /\ ready = FALSE /\ free = Heads
    BY <2>1, EmptyMapping, Zenon DEF Init
  <2> QED
    BY <2>2, Zenon DEF Exchange!Init, NothingMapped, Offered, Given, Held
<1>2. RingInv /\ RingInv' /\ [Next]_vars => [Exchange!Next]_(Exchange!vars)
  BY ExchangeStep, Zenon
<1> QED
  BY <1>1, <1>2, RingInvHolds, PTL DEF Spec, ImplementsExchange, Exchange!Spec
==============================================================================
