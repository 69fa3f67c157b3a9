---- MODULE VirtioDevicesProofs ----
(***************************************************************************)
(* What VMM and devices share with the guest, for every queue size and     *)
(* whatever the guest puts in memory.  The dirty page bitmap loses no      *)
(* write; a walk of a descriptor chain sees a bounded number of            *)
(* descriptors and bytes; a vsock packet stays within its limits; the      *)
(* console gives its input in order; the registers of virtio-mmio follow   *)
(* the status the driver has reached.                                      *)
(***************************************************************************)
EXTENDS ConsoleDevice, VsockPacket, VirtioMmio, DirtyBitmap, TLAPS

\* While reset() or reset_addr_range() runs, the pages whose bits it has
\* still to clear are pages its caller copies afterwards.
ClearedAreCollected ==
    Busy(harvest) =>
        /\ harvest.kind # "none"
        /\ harvest.kind = "reset" => Pages \subseteq collected
        /\ harvest.kind = "range" =>
             \A p \in Pages : harvest.next <= p /\ p <= harvest.last => p \in collected

\* While a store of reset() is on its way, so are the copies of the pages it
\* erases the bits of, as the fence holds them back.
UnseenAreCollected == \A p \in Pages : WordOf(p) \in unseen => p \in collected

\* The inductive invariant: bits and written pages lie inside the map.
BitmapInv ==
    /\ BitmapTypeOK
    /\ dirty \subseteq Pages
    /\ stale \subseteq Pages
    /\ ClearedAreCollected
    /\ UnseenAreCollected
    /\ NoWriteLost

-----------------------------------------------------------------------------
\* Page numbers grow with addresses (the divisions of set_reset_addr_range).
LEMMA DivMonotone ==
    ASSUME NEW a \in Nat, NEW b \in Nat, NEW k \in Nat \ {0}, a <= b
    PROVE  a \div k \in Nat /\ a \div k <= b \div k
  BY SMT

\* The next page starts PageSize bytes further on.
LEMMA DivNext ==
    ASSUME NEW a \in Nat, NEW k \in Nat \ {0}
    PROVE  (a + k) \div k = a \div k + 1
  BY SMT

\* Sizes in pages are natural numbers.
LEMMA SizeType ==
    ASSUME NEW b \in Nat
    PROVE  Size(b) \in Nat /\ MapLen(b) \in Nat
  <1>1. PageSize \in Nat \ {0} /\ WordBits \in Nat \ {0}
    BY BitmapAssumption, Zenon
  <1>2. b + PageSize - 1 \in Nat
    BY <1>1, SMT
  <1>3. Size(b) \in Nat
    BY <1>1, <1>2, DivMonotone DEF Size, DivCeil
  <1>4. Size(b) + WordBits - 1 \in Nat
    BY <1>1, <1>3, SMT
  <1> QED
    BY <1>1, <1>3, <1>4, DivMonotone DEF MapLen, DivCeil

\* Every byte of the memory lies in a page of the bitmap.
LEMMA ByteHasPage ==
    ASSUME NEW a \in Nat, NEW b \in Nat, a < b
    PROVE  a \div PageSize \in 0 .. Size(b) - 1
  <1>1. PageSize \in Nat \ {0}
    BY BitmapAssumption, Zenon
  <1>2. a + PageSize \in Nat /\ b + PageSize - 1 \in Nat /\ a + PageSize <= b + PageSize - 1
    BY <1>1, SMT
  <1>3. (a + PageSize) \div PageSize <= (b + PageSize - 1) \div PageSize
    BY <1>1, <1>2, DivMonotone, Zenon
  <1>4. (a + PageSize) \div PageSize = a \div PageSize + 1
    BY <1>1, DivNext, Zenon
  <1>5. a \div PageSize \in Nat
    BY <1>1, DivMonotone
  <1>6. Size(b) = (b + PageSize - 1) \div PageSize
    BY Zenon DEF Size, DivCeil
  <1> QED
    BY <1>3, <1>4, <1>5, <1>6, SizeType, SMT

\* enlarge() only adds pages.
LEMMA SizeMonotone ==
    ASSUME NEW b \in Nat, NEW c \in Nat, b <= c
    PROVE  Size(b) <= Size(c)
  <1>1. PageSize \in Nat \ {0}
    BY BitmapAssumption, Zenon
  <1>2. b + PageSize - 1 \in Nat /\ c + PageSize - 1 \in Nat /\ b + PageSize - 1 <= c + PageSize - 1
    BY <1>1, SMT
  <1> QED
    BY <1>1, <1>2, DivMonotone, Zenon DEF Size, DivCeil

\* The pages a write touches are those mark_dirty will visit.
LEMMA WriteCovered ==
    ASSUME NEW start \in Nat, NEW len \in Nat \ {0}, NEW a \in start .. start + len - 1
    PROVE  /\ FirstBit(start) \in Nat /\ LastBit(start, len) \in Nat
           /\ FirstBit(start) <= a \div PageSize
           /\ a \div PageSize <= LastBit(start, len)
  <1>1. PageSize \in Nat \ {0}
    BY BitmapAssumption, Zenon
  <1>2. a \in Nat /\ start + len - 1 \in Nat /\ start <= a /\ a <= start + len - 1
    BY SMT
  <1> QED
    BY <1>1, <1>2, DivMonotone DEF FirstBit, LastBit

-----------------------------------------------------------------------------
\* A new bitmap is clean.
LEMMA BitmapInitOK == BitmapInit => BitmapInv
  <1> SUFFICES ASSUME BitmapInit PROVE BitmapInv
    BY Zenon
  <1>1. BitmapTypeOK
    BY BitmapAssumption DEF BitmapInit, BitmapTypeOK, Nothing, NoHarvest
  <1>2. ClearedAreCollected
    BY DEF BitmapInit, ClearedAreCollected, Busy, NoHarvest
  <1>3. UnseenAreCollected
    BY Zenon DEF BitmapInit, UnseenAreCollected
  <1> QED
    BY <1>1, <1>2, <1>3, Zenon DEF BitmapInit, BitmapInv, NoWriteLost

\* A write to memory that is still to be marked.
LEMMA WriteStep ==
    ASSUME BitmapInv, NEW w \in Writers, NEW start \in Nat, NEW len \in Nat \ {0},
           WriteSlice(w, start, len)
    PROVE  BitmapInv'
  <1> DEFINE touched == {a \div PageSize : a \in start .. start + len - 1}
             pages == [next |-> FirstBit(start), last |-> LastBit(start, len)]
  <1>1. FirstBit(start) \in Nat /\ LastBit(start, len) \in Nat
    BY WriteCovered, start \in start .. start + len - 1, Zenon
  <1>2. \A p \in touched : p \in Nat /\ pages.next <= p /\ p <= pages.last /\ p \in Pages
    <2> SUFFICES ASSUME NEW a \in start .. start + len - 1
                 PROVE  LET p == a \div PageSize
                        IN  p \in Nat /\ pages.next <= p /\ p <= pages.last /\ p \in Pages
      BY Zenon
    <2>1. a \in Nat /\ a < byteSize /\ byteSize \in Nat
      BY SMT DEF BitmapInv, BitmapTypeOK, WriteSlice
    <2>2. a \div PageSize \in Pages /\ a \div PageSize \in Nat
      BY <2>1, ByteHasPage, SizeType, SMT DEF Pages
    <2>3. FirstBit(start) <= a \div PageSize /\ a \div PageSize <= LastBit(start, len)
      BY WriteCovered, Zenon
    <2> QED
      BY <2>2, <2>3, Zenon
  <1>3. touched \subseteq Pages /\ touched \subseteq Nat
    BY <1>2, Zenon
  <1>4. todo' = [todo EXCEPT ![w] = pages] /\ stale' = stale \cup touched
        /\ UNCHANGED <<byteSize, dirty, unseen, harvest, collected>>
    BY Zenon DEF WriteSlice
  <1>5. BitmapTypeOK'
    <2>1. pages \in [next : Nat, last : Nat]
      BY <1>1, Zenon
    <2> HIDE DEF touched, pages
    <2> QED
      BY <1>3, <1>4, <2>1, Zenon DEF BitmapInv, BitmapTypeOK
  <1>6. Pages' = Pages
    BY <1>4, Zenon DEF Pages
  <1>7. ClearedAreCollected'
    BY <1>4, <1>6, Zenon DEF BitmapInv, ClearedAreCollected
  <1>8. NoWriteLost'
    <2> SUFFICES ASSUME NEW p \in stale'
                 PROVE  p \in dirty' \/ p \in collected'
                        \/ \E v \in Writers : todo'[v].next <= p /\ p <= todo'[v].last
      BY Zenon DEF NoWriteLost
    <2>1. todo' [w] = pages
      BY <1>4, Zenon DEF BitmapInv, BitmapTypeOK
    <2>2. CASE p \in touched
      BY <2>1, <2>2, <1>2, Zenon
    <2>3. CASE p \in stale
      <3>1. CASE \E v \in Writers : todo[v].next <= p /\ p <= todo[v].last
        <4>1. PICK v \in Writers : todo[v].next <= p /\ p <= todo[v].last
          BY <3>1, Zenon
        <4>2. v # w
          <5>1. ~(todo[w].next <= todo[w].last)
            BY Zenon DEF WriteSlice, Busy
          <5>2. p \in Nat /\ todo[w].next \in Nat /\ todo[w].last \in Nat
            BY <2>3, Zenon DEF BitmapInv, BitmapTypeOK
          <5> QED
            BY <4>1, <5>1, <5>2, SMT
        <4>3. todo'[v] = todo[v]
          BY <1>4, <4>2, Zenon DEF BitmapInv, BitmapTypeOK
        <4> QED
          BY <4>1, <4>3, Zenon
      <3> QED
        BY <1>4, <2>3, <3>1, Zenon DEF BitmapInv, NoWriteLost
    <2> QED
      BY <1>4, <2>2, <2>3, Zenon
  <1>9. UnseenAreCollected'
    BY <1>4, <1>6, Zenon DEF BitmapInv, UnseenAreCollected, WordOf
  <1> QED
    BY <1>3, <1>4, <1>5, <1>6, <1>7, <1>8, <1>9, Zenon DEF BitmapInv

\* mark_dirty sets the bits of its pages.
LEMMA MarkStep ==
    ASSUME BitmapInv, NEW w \in Writers, MarkDirty(w)
    PROVE  BitmapInv'
  <1> DEFINE n == todo[w].next
             s == Size(byteSize)
  <1>1. n \in Nat /\ todo[w].last \in Nat /\ n <= todo[w].last /\ s \in Nat
    BY SizeType, Zenon DEF BitmapInv, BitmapTypeOK, MarkDirty, Busy
  <1>2. UNCHANGED <<byteSize, unseen, harvest, collected, stale>> /\ Pages' = Pages
    BY Zenon DEF MarkDirty, Pages
  <1>3. dirty' = IF n >= s THEN dirty ELSE dirty \cup {n}
    BY Zenon DEF MarkDirty
  <1>4. todo' = [todo EXCEPT ![w] = IF n >= s \/ n = todo[w].last THEN Nothing
                                    ELSE [@ EXCEPT !.next = n + 1]]
    BY Zenon DEF MarkDirty
  <1>5. dirty \subseteq dirty' /\ dirty' \subseteq Pages'
    <2>1. n < s => n \in Pages
      BY <1>1, SMT DEF Pages
    <2>2. n >= s \/ n < s
      BY <1>1, SMT
    <2> HIDE DEF n, s
    <2> QED
      BY <1>2, <1>3, <2>1, <2>2, Zenon DEF BitmapInv
  <1>6. todo' \in [Writers -> [next : Nat, last : Nat]]
    BY <1>1, <1>4, SMT DEF BitmapInv, BitmapTypeOK, Nothing
  <1>7. BitmapTypeOK'
    BY <1>1, <1>2, <1>3, <1>6, Zenon DEF BitmapInv, BitmapTypeOK
  <1>8. ClearedAreCollected'
    BY <1>2, Zenon DEF BitmapInv, ClearedAreCollected
  <1>9. NoWriteLost'
    <2> SUFFICES ASSUME NEW p \in stale, p \notin dirty', p \notin collected
                 PROVE  \E v \in Writers : todo'[v].next <= p /\ p <= todo'[v].last
      BY <1>2, Zenon DEF NoWriteLost
    <2>1. PICK v \in Writers : todo[v].next <= p /\ p <= todo[v].last
      BY <1>5, Zenon DEF BitmapInv, NoWriteLost
    <2>2. CASE v # w
      <3>1. todo'[v] = todo[v]
        BY <1>4, <2>2, Zenon DEF BitmapInv, BitmapTypeOK
      <3> QED
        BY <2>1, <3>1, Zenon
    <2>3. CASE v = w
      <3>1. p \in Nat /\ p < s
        BY <1>1, SMT DEF BitmapInv, Pages
      <3>2. n < s
        BY <1>1, <2>1, <2>3, <3>1, SMT
      <3>3. p # n
        BY <1>1, <1>3, <3>2, SMT
      <3>4. n # todo[w].last
        BY <1>1, <2>1, <2>3, <3>1, <3>3, SMT
      <3>5. todo'[w] = [todo[w] EXCEPT !.next = n + 1]
        BY <1>1, <1>4, <3>2, <3>4, SMT DEF BitmapInv, BitmapTypeOK
      <3>6. todo'[w].next = n + 1 /\ todo'[w].last = todo[w].last
        BY <3>5 DEF BitmapInv, BitmapTypeOK
      <3> QED
        BY <1>1, <2>1, <2>3, <3>1, <3>3, <3>6, SMT
    <2> QED
      BY <2>2, <2>3, Zenon
  <1>10. UnseenAreCollected'
    BY <1>2, Zenon DEF BitmapInv, UnseenAreCollected, WordOf
  <1> QED
    BY <1>2, <1>5, <1>7, <1>8, <1>9, <1>10, Zenon DEF BitmapInv

\* One word, or one page, of a harvest of the bitmap.
LEMMA HarvestStepOK ==
    ASSUME BitmapInv, HarvestStep
    PROVE  BitmapInv'
  <1> DEFINE gone == Under(harvest)
  <1>1. UNCHANGED <<byteSize, todo, stale>> /\ Pages' = Pages
    BY Zenon DEF HarvestStep, Pages
  <1>2. collected' = IF harvest.kind \in {"get", "clone"} THEN collected \cup gone ELSE collected
    BY Zenon DEF HarvestStep
  <1>3. /\ dirty' = IF harvest.kind \in {"get", "range"} THEN dirty \ gone ELSE dirty
        /\ unseen' = IF harvest.kind = "reset" THEN unseen \cup {harvest.next} ELSE unseen
    BY Zenon DEF HarvestStep
  <1>4. harvest' = IF harvest.next = harvest.last THEN NoHarvest
                   ELSE [harvest EXCEPT !.next = @ + 1]
    BY Zenon DEF HarvestStep
  <1>5. Busy(harvest) /\ gone \subseteq dirty
    BY Zenon DEF HarvestStep, Under
  <1>6. harvest' \in [kind : {"none", "get", "clone", "reset", "range"}, next : Nat, last : Int]
    BY <1>4 DEF BitmapInv, BitmapTypeOK, NoHarvest
  <1>7. BitmapTypeOK'
    <2>1. harvest.next \in Nat
      BY DEF BitmapInv, BitmapTypeOK
    <2> HIDE DEF gone
    <2> QED
      BY <1>1, <1>2, <1>3, <1>5, <1>6, <2>1, Zenon DEF BitmapInv, BitmapTypeOK
  <1>8. gone \subseteq collected'
    <2>1. CASE harvest.kind \in {"get", "clone"}
      BY <1>2, <2>1, Zenon
    <2>2. CASE harvest.kind = "reset"
      BY <1>2, <1>5, <2>2, Zenon DEF BitmapInv, ClearedAreCollected
    <2>3. CASE harvest.kind = "range"
      <3>1. gone \subseteq {harvest.next}
        BY <2>3, Zenon DEF Under
      <3>2. harvest.next \in Pages => harvest.next \in collected
        BY <1>5, <2>3, SMT DEF BitmapInv, ClearedAreCollected, Busy, BitmapTypeOK
      <3> QED
        BY <1>2, <1>5, <2>3, <3>1, <3>2, Zenon DEF BitmapInv
    <2>4. harvest.kind # "none"
      BY <1>5, Zenon DEF BitmapInv, ClearedAreCollected
    <2> QED
      BY <2>1, <2>2, <2>3, <2>4, Zenon DEF BitmapInv, BitmapTypeOK
  <1>9. ClearedAreCollected'
    <2>1. CASE harvest.next = harvest.last
      BY <1>4, <2>1 DEF ClearedAreCollected, NoHarvest, Busy
    <2>2. CASE harvest.next # harvest.last
      <3>1. harvest'.kind = harvest.kind /\ harvest'.last = harvest.last
            /\ harvest'.next = harvest.next + 1
        BY <1>4, <2>2, Zenon DEF BitmapInv, BitmapTypeOK
      <3>2. collected \subseteq collected'
        BY <1>2, Zenon
      <3>3. \A p \in Pages : harvest.next + 1 <= p => harvest.next <= p
        <4>1. Pages \subseteq Int /\ harvest.next \in Int
          BY DEF Pages, BitmapInv, BitmapTypeOK
        <4> QED
          BY <4>1, SMT
      <3> QED
        BY <1>1, <1>5, <3>1, <3>2, <3>3, Zenon DEF BitmapInv, ClearedAreCollected
    <2> QED
      BY <2>1, <2>2, Zenon
  <1>10. NoWriteLost'
    BY <1>1, <1>2, <1>3, <1>8, Zenon DEF BitmapInv, NoWriteLost
  <1>11. UnseenAreCollected'
    <2>1. collected \subseteq collected'
      BY <1>2, Zenon
    <2>2. harvest.kind = "reset" => Pages \subseteq collected
      BY <1>5, Zenon DEF BitmapInv, ClearedAreCollected
    <2> QED
      BY <1>1, <1>3, <2>1, <2>2, Zenon DEF BitmapInv, UnseenAreCollected, WordOf
  <1> QED
    BY <1>1, <1>3, <1>7, <1>9, <1>10, <1>11, Zenon DEF BitmapInv

\* A store of reset() arrives.
LEMMA LandStep ==
    ASSUME BitmapInv, NEW word \in unseen, StoreLands(word)
    PROVE  BitmapInv'
  <1>1. /\ unseen' = unseen \ {word} /\ dirty' = {p \in dirty : WordOf(p) # word}
        /\ UNCHANGED <<byteSize, todo, harvest, collected, stale>>
    BY Zenon DEF StoreLands
  <1>2. Pages' = Pages
    BY <1>1, Zenon DEF Pages
  <1>3. BitmapTypeOK'
    BY <1>1, Zenon DEF BitmapInv, BitmapTypeOK
  <1>4. ClearedAreCollected'
    BY <1>1, <1>2, Zenon DEF BitmapInv, ClearedAreCollected
  <1>5. UnseenAreCollected'
    BY <1>1, <1>2, Zenon DEF BitmapInv, UnseenAreCollected, WordOf
  <1>6. NoWriteLost'
    <2>1. \A p \in stale : p \in dirty => p \in dirty' \/ p \in collected
      BY <1>1, Zenon DEF BitmapInv, UnseenAreCollected
    <2> QED
      BY <1>1, <2>1, Zenon DEF BitmapInv, NoWriteLost
  <1> QED
    BY <1>1, <1>2, <1>3, <1>4, <1>5, <1>6, Zenon DEF BitmapInv

\* The other steps of the collector.
LEMMA CollectorStep ==
    ASSUME BitmapInv, ResetFenced,
           \/ \E kind \in {"get", "clone"} : StartGather(kind)
           \/ StartReset
           \/ \E start \in Nat, len \in Nat \ {0} : StartResetRange(start, len)
           \/ \E p \in collected : Copy(p)
    PROVE  BitmapInv'
  <1>0. MapLen(byteSize) \in Nat /\ Size(byteSize) \in Nat /\ Pages \subseteq Nat
    BY SizeType DEF BitmapInv, BitmapTypeOK, Pages
  <1>1. CASE \E kind \in {"get", "clone"} : StartGather(kind)
    <2>1. PICK kind \in {"get", "clone"} : StartGather(kind)
      BY <1>1, Zenon
    <2>2. harvest' = [kind |-> kind, next |-> 0, last |-> MapLen(byteSize) - 1]
          /\ UNCHANGED <<byteSize, dirty, unseen, todo, collected, stale>>
      BY <2>1, Zenon DEF StartGather
    <2>3. BitmapTypeOK'
      BY <1>0, <2>2 DEF BitmapInv, BitmapTypeOK
    <2>4. ClearedAreCollected'
      BY <2>2, Zenon DEF ClearedAreCollected
    <2>5. UnseenAreCollected'
      BY <2>2, Zenon DEF BitmapInv, UnseenAreCollected, Pages, WordOf
    <2> QED
      BY <2>2, <2>3, <2>4, <2>5, Zenon DEF BitmapInv, NoWriteLost, Pages
  <1>2. CASE StartReset
    <2>1. harvest' = [kind |-> "reset", next |-> 0, last |-> MapLen(byteSize) - 1]
          /\ collected = {} /\ collected' = Pages /\ UNCHANGED <<byteSize, dirty, unseen, todo, stale>>
      BY <1>2, Zenon DEF StartReset
    <2>2. BitmapTypeOK'
      BY <1>0, <2>1 DEF BitmapInv, BitmapTypeOK
    <2>3. Pages' = Pages
      BY <2>1, Zenon DEF Pages
    <2>4. ClearedAreCollected'
      BY <2>1, <2>3, Zenon DEF ClearedAreCollected
    <2>5. UnseenAreCollected'
      BY <2>1, <2>3, Zenon DEF UnseenAreCollected
    <2> QED
      BY <2>1, <2>2, <2>3, <2>4, <2>5, Zenon DEF BitmapInv, NoWriteLost
  <1>3. CASE \E start \in Nat, len \in Nat \ {0} : StartResetRange(start, len)
    <2>1. PICK start \in Nat, len \in Nat \ {0} : StartResetRange(start, len)
      BY <1>3, Zenon
    <2> DEFINE fst == FirstBit(start)
               lst == LastBit(start, len)
    <2>2. harvest' = [kind |-> "range", next |-> fst, last |-> lst]
          /\ collected = {} /\ collected' = {p \in Pages : fst <= p /\ p <= lst}
          /\ UNCHANGED <<byteSize, dirty, unseen, todo, stale>>
      BY <2>1, Zenon DEF StartResetRange
    <2>3. fst \in Nat /\ lst \in Nat
      BY WriteCovered, start \in start .. start + len - 1, Zenon
    <2> HIDE DEF fst, lst
    <2>4. BitmapTypeOK'
      <3>1. harvest' \in [kind : {"none", "get", "clone", "reset", "range"}, next : Nat, last : Int]
        BY <2>2, <2>3
      <3>2. collected' \subseteq Nat
        BY <1>0, <2>2, Zenon
      <3> QED
        BY <2>2, <3>1, <3>2, Zenon DEF BitmapInv, BitmapTypeOK
    <2>5. Pages' = Pages
      BY <2>2, Zenon DEF Pages
    <2>6. ClearedAreCollected'
      BY <2>2, <2>5, Zenon DEF ClearedAreCollected
    <2>7. UnseenAreCollected'
      BY <2>1, <2>2, Zenon DEF StartResetRange, Drained, UnseenAreCollected
    <2> QED
      BY <2>2, <2>4, <2>5, <2>6, <2>7, Zenon DEF BitmapInv, NoWriteLost
  <1>4. CASE \E p \in collected : Copy(p)
    <2>1. PICK p \in collected : Copy(p)
      BY <1>4, Zenon
    <2>2. ~Busy(harvest) /\ collected' = collected \ {p} /\ stale' = stale \ {p}
          /\ UNCHANGED <<byteSize, dirty, unseen, todo, harvest>>
      BY <2>1, Zenon DEF Copy
    <2>3. BitmapTypeOK'
      BY <2>2, Zenon DEF BitmapInv, BitmapTypeOK
    <2>4. ClearedAreCollected'
      BY <2>2, Zenon DEF ClearedAreCollected, Busy
    <2>5. UnseenAreCollected'
      BY <2>1, <2>2, Zenon DEF Copy, Drained, UnseenAreCollected
    <2> QED
      BY <2>2, <2>3, <2>4, <2>5, Zenon DEF BitmapInv, NoWriteLost, Pages
  <1> QED
    BY <1>1, <1>2, <1>3, <1>4, Zenon

\* enlarge keeps the pages that are there.
LEMMA EnlargeStep ==
    ASSUME BitmapInv, NEW additional \in Nat, Enlarge(additional)
    PROVE  BitmapInv'
  <1>1. byteSize \in Nat /\ byteSize' = byteSize + additional /\ ~Busy(harvest)
        /\ unseen = {} /\ UNCHANGED <<dirty, unseen, todo, harvest, collected, stale>>
    BY Zenon DEF Enlarge, Drained, BitmapInv, BitmapTypeOK
  <1>2. byteSize' \in Nat /\ byteSize <= byteSize'
    BY <1>1, SMT
  <1>3. Size(byteSize) <= Size(byteSize') /\ Size(byteSize) \in Nat /\ Size(byteSize') \in Nat
    BY <1>1, <1>2, SizeMonotone, SizeType, Zenon
  <1>4. Pages \subseteq Pages'
    BY <1>3, SMT DEF Pages
  <1>5. BitmapTypeOK'
    BY <1>1, <1>2, Zenon DEF BitmapInv, BitmapTypeOK
  <1>6. ClearedAreCollected'
    BY <1>1, Zenon DEF ClearedAreCollected, Busy
  <1>7. UnseenAreCollected'
    BY <1>1, Zenon DEF UnseenAreCollected
  <1> QED
    BY <1>1, <1>4, <1>5, <1>6, <1>7, Zenon DEF BitmapInv, NoWriteLost

\* No write to guest memory escapes the collector of dirty pages: for any
\* number of threads, page size, word width and memory size, whatever the
\* interleaving of fetch_or, fetch_and and store on the words of the map and
\* however late the stores of reset() are seen, as long as whoever calls
\* reset() keeps it before the copying with a fence.
THEOREM WritesNeverLost ==
    ASSUME ResetFenced
    PROVE  BitmapSpec => []NoWriteLost
  <1>1. BitmapInv /\ [BitmapNext]_bitmapVars => BitmapInv'
    <2> SUFFICES ASSUME BitmapInv, [BitmapNext]_bitmapVars PROVE BitmapInv'
      BY Zenon
    <2>0. byteSize \in Nat /\ MaxMemory \in Nat
      BY BitmapAssumption, Zenon DEF BitmapInv, BitmapTypeOK
    <2>1. CASE \E w \in Writers, start \in 0 .. byteSize, len \in 1 .. byteSize : WriteSlice(w, start, len)
      BY <2>0, <2>1, WriteStep
    <2>2. CASE \E w \in Writers : MarkDirty(w)
      BY <2>2, MarkStep, Zenon
    <2>3. CASE \E kind \in {"get", "clone"} : StartGather(kind)
      BY <2>3, CollectorStep, Zenon
    <2>4. CASE StartReset
      BY <2>4, CollectorStep, Zenon
    <2>5. CASE \E start \in 0 .. byteSize, len \in 1 .. byteSize : StartResetRange(start, len)
      <3>1. \E start \in Nat, len \in Nat \ {0} : StartResetRange(start, len)
        BY <2>0, <2>5
      <3> QED
        BY <3>1, CollectorStep, Zenon
    <2>6. CASE HarvestStep
      BY <2>6, HarvestStepOK, Zenon
    <2>7. CASE \E p \in collected : Copy(p)
      BY <2>7, CollectorStep, Zenon
    <2>8. CASE \E additional \in 1 .. MaxMemory : Enlarge(additional)
      BY <2>0, <2>8, EnlargeStep
    <2>9. CASE \E word \in unseen : StoreLands(word)
      BY <2>9, LandStep, Zenon
    <2>10. CASE UNCHANGED bitmapVars
      BY <2>10, Zenon DEF bitmapVars, BitmapInv, BitmapTypeOK, ClearedAreCollected,
                          UnseenAreCollected, NoWriteLost, Pages, Busy, WordOf
    <2> QED
      BY <2>1, <2>2, <2>3, <2>4, <2>5, <2>6, <2>7, <2>8, <2>9, <2>10, Zenon DEF BitmapNext
  <1>2. BitmapInv => NoWriteLost
    BY Zenon DEF BitmapInv
  <1> QED
    BY BitmapInitOK, <1>1, <1>2, PTL DEF BitmapSpec


\* The type of the iterator, and of what it has yielded.
ChainTypeOK ==
    /\ chain \in [ttl : Nat, next : Nat, size : Nat, indirect : BOOLEAN, yielded : Nat]
    /\ seen \in [count : Nat, bytes : Nat]

\* The descriptors yielded and those the ttl still allows are those of one
\* table, or of two after the switch; yielded_bytes misses no descriptor.
ChainInv ==
    /\ ChainTypeOK
    /\ ~chain.indirect => seen.count + chain.ttl <= QueueSize
    /\ chain.indirect => seen.count + chain.ttl <= QueueSize + MaxTable
    /\ seen.bytes = chain.yielded
    /\ chain.yielded <= MaxBytes

\* with_ttl starts a chain within the bound.
LEMMA NewChainOK ==
    ASSUME NEW head \in Nat,
           NEW c, c = NewChain(head),
           NEW s, s = NoneSeen
    PROVE  /\ c \in [ttl : Nat, next : Nat, size : Nat, indirect : BOOLEAN, yielded : Nat]
           /\ s \in [count : Nat, bytes : Nat]
           /\ ~c.indirect /\ s.count + c.ttl <= QueueSize
           /\ s.bytes = c.yielded /\ c.yielded <= MaxBytes
  BY ChainAssumption DEF NewChain, NoneSeen

\* switch_to_indirect_table adds the entries of one table, once.
LEMMA SwitchOK ==
    ASSUME ChainInv, NEW n \in 0 .. MaxTable, Switch(n)
    PROVE  ChainInv'
<1>1. chain.ttl \in Nat /\ seen.count \in Nat /\ chain.yielded \in Nat
  BY Zenon DEF ChainInv, ChainTypeOK
<1>2. chain' = [chain EXCEPT !.size = n, !.next = 0, !.ttl = n, !.indirect = TRUE] /\ seen' = seen
  BY Zenon DEF Switch, SwitchTo
<1>3. seen.count <= QueueSize
  BY <1>1, ChainAssumption DEF ChainInv, Switch
<1>4. ChainTypeOK'
  <2>1. chain \in [ttl : Nat, next : Nat, size : Nat, indirect : BOOLEAN, yielded : Nat]
    BY Zenon DEF ChainInv, ChainTypeOK
  <2>2. n \in Nat
    BY ChainAssumption
  <2>3. chain' \in [ttl : Nat, next : Nat, size : Nat, indirect : BOOLEAN, yielded : Nat]
    BY <1>2, <2>1, <2>2, Zenon
  <2>4. QED
    BY <1>2, <2>3, Zenon DEF ChainInv, ChainTypeOK
<1>5. chain'.indirect /\ chain'.ttl = n /\ chain'.yielded = chain.yielded
  BY <1>2, Zenon DEF ChainInv, ChainTypeOK
<1>6. QED
  BY <1>1, <1>2, <1>3, <1>4, <1>5, ChainAssumption DEF ChainInv

\* next() spends one of the ttl for the descriptor it returns, and counts its
\* bytes.
LEMMA YieldOK ==
    ASSUME ChainInv, NEW d \in Descriptor, Yield(d)
    PROVE  ChainInv'
<1>1. /\ chain.ttl \in Nat /\ chain.yielded \in Nat
      /\ seen.count \in Nat /\ seen.bytes \in Nat /\ chain.indirect \in BOOLEAN
  BY Zenon DEF ChainInv, ChainTypeOK
<1>2. d.len \in Nat /\ d.next \in Int
  <2>1. d.len \in Lens /\ d.next \in -1 .. PastTables
    BY Zenon DEF Descriptor
  <2>2. d.len \in Nat
    BY <2>1, ChainAssumption, Zenon
  <2>3. d.next \in Int
    <3>1. -1 .. PastTables \subseteq Int
      BY ChainAssumption DEF PastTables
    <3>2. QED
      BY <2>1, <3>1, Zenon
  <2>4. QED
    BY <2>2, <2>3, Zenon
<1>3. chain.ttl > 0 /\ chain.yielded + d.len <= MaxBytes
  BY Zenon DEF Yield, CanRead
<1>4. seen' = [count |-> seen.count + 1, bytes |-> seen.bytes + d.len]
  BY Zenon DEF Yield
<1>5. /\ chain'.ttl = IF HasNext(d) THEN chain.ttl - 1 ELSE 0
      /\ chain'.yielded = chain.yielded + d.len
      /\ chain'.indirect = chain.indirect
  BY Zenon DEF Yield, YieldFrom, ChainInv, ChainTypeOK
<1>6. chain'.ttl \in Nat /\ chain'.ttl <= chain.ttl - 1
  BY <1>1, <1>3, <1>5
<1>7. ChainTypeOK'
  <2>1. seen' \in [count : Nat, bytes : Nat]
    BY <1>1, <1>2, <1>4
  <2>2. chain' \in [ttl : Nat, next : Nat, size : Nat, indirect : BOOLEAN, yielded : Nat]
    <3>1. chain' = YieldFrom(chain, d) /\ chain \in [ttl : Nat, next : Nat, size : Nat, indirect : BOOLEAN, yielded : Nat]
      BY Zenon DEF Yield, ChainInv, ChainTypeOK
    <3>2. chain.yielded + d.len \in Nat
      BY <1>1, <1>2
    <3>3. HasNext(d) => d.next \in Nat /\ chain.ttl - 1 \in Nat
      BY <1>1, <1>2, <1>3 DEF HasNext
    <3>4. CASE HasNext(d)
      BY <3>1, <3>2, <3>3, <3>4, Zenon DEF YieldFrom
    <3>5. CASE ~HasNext(d)
      BY <3>1, <3>2, <3>5, Zenon DEF YieldFrom
    <3>6. QED
      BY <3>4, <3>5, Zenon
  <2>3. QED
    BY <2>1, <2>2, Zenon DEF ChainTypeOK
<1>8. seen'.count + chain'.ttl <= seen.count + chain.ttl
  BY <1>1, <1>4, <1>6
<1>9. seen'.count \in Nat
  BY <1>1, <1>4
<1>10. QED
  BY <1>1, <1>2, <1>3, <1>4, <1>5, <1>6, <1>7, <1>8, <1>9, ChainAssumption DEF ChainInv

\* A device that uses DescriptorChain in any way sees at most one queue and
\* one indirect table of descriptors in a chain, and no more bytes than the
\* limit, even when the guest links the descriptors in a loop.
THEOREM ChainsAreBounded == ChainSpec => []ChainBounded
<1>1. ChainInit => ChainInv
  BY NewChainOK, ChainAssumption, Zenon DEF ChainInit, ChainInv, ChainTypeOK
<1>2. ASSUME ChainInv, [ChainNext]_chainVars PROVE ChainInv'
  <2>1. ASSUME NEW head \in Nat, StartChain(head) PROVE ChainInv'
    BY <2>1, NewChainOK, ChainAssumption, Zenon DEF StartChain, ChainInv, ChainTypeOK
  <2>2. ASSUME NEW n \in 0 .. MaxTable, Switch(n) PROVE ChainInv'
    BY <1>2, <2>2, SwitchOK, Zenon
  <2>3. ASSUME NEW d \in Descriptor, Yield(d) PROVE ChainInv'
    BY <1>2, <2>3, YieldOK, Zenon
  <2>4. CASE UNCHANGED chainVars
    BY <1>2, <2>4, Zenon DEF chainVars, ChainInv, ChainTypeOK
  <2>5. QED
    BY <1>2, <2>1, <2>2, <2>3, <2>4, Zenon DEF ChainNext
<1>3. ChainInv => ChainBounded
  BY ChainAssumption DEF ChainInv, ChainTypeOK, ChainBounded
<1>4. QED
  BY <1>1, <1>2, <1>3, PTL DEF ChainSpec

-----------------------------------------------------------------------------
(* VsockPacket.                                                            *)

PacketPcs == {"idle", "failed", "txHead", "txData", "rxHead", "rxData", "tx", "txRaw", "rx", "rxRaw"}

Packets == [pc : PacketPcs, len : Nat, data : Nat, room : Nat, own : BOOLEAN]

PacketTypeOK == pkt \in Packets /\ memLen \in Nat

\* The length that was checked is the one that is used.
PacketInv ==
    /\ PacketTypeOK
    /\ pkt.pc = "txData" => pkt.len <= MaxData
    /\ pkt.pc \in {"txRaw", "rxRaw"} => pkt.own
    /\ PacketFits

\* What the guest put in a descriptor is a length and a flag.
LEMMA DescriptorFields ==
    ASSUME NEW d \in Descriptor
    PROVE  d.len \in Nat /\ d.write \in BOOLEAN
<1>1. d.len \in Lens /\ d.write \in BOOLEAN
  BY Zenon DEF Descriptor
<1>2. QED
  BY <1>1, ChainAssumption, Zenon

\* A packet as the constructors make it.
LEMMA MadePacketOK ==
    ASSUME NEW pc \in PacketPcs \ {"txRaw", "rxRaw"}, NEW len \in Nat, NEW data \in Nat, NEW room \in Nat,
           pkt' = Packet(pc, len, data, room),
           memLen' \in Nat,
           pc = "txData" => len <= MaxData,
           pc = "tx" => data = len /\ data <= MaxData,
           pc \in {"tx", "rx"} => data <= room
    PROVE  PacketInv'
<1>1. pkt' \in Packets /\ pkt'.pc = pc /\ pkt'.len = len /\ pkt'.data = data /\ pkt'.room = room
  BY Zenon DEF Packet, Packets
<1>2. QED
  BY <1>1, Zenon DEF PacketInv, PacketTypeOK, PacketFits

\* A packet with another length, as the setters leave it: the data is the same.
LEMMA SetPacketOK ==
    ASSUME PacketInv, pkt' \in Packets, memLen' \in Nat,
           pkt'.data = pkt.data, pkt'.room = pkt.room, pkt'.own,
           \/ pkt.pc \in {"tx", "txRaw"} /\ pkt'.pc \in {"tx", "txRaw"}
           \/ pkt.pc \in {"rx", "rxRaw"} /\ pkt'.pc \in {"rx", "rxRaw"}
    PROVE  PacketInv'
<1>1. /\ pkt.pc \in {"tx", "txRaw"} => pkt.data <= MaxData
      /\ pkt.pc \in {"tx", "txRaw", "rx", "rxRaw"} => pkt.data <= pkt.room
  BY Zenon DEF PacketInv, PacketFits
<1>2. /\ pkt'.pc \in {"tx", "txRaw"} => pkt'.data <= MaxData
      /\ pkt'.pc \in {"tx", "txRaw", "rx", "rxRaw"} => pkt'.data <= pkt'.room
      /\ pkt'.pc # "txData"
  BY <1>1, Zenon
<1>3. QED
  BY <1>2, Zenon DEF PacketInv, PacketTypeOK, PacketFits

\* Every step of VsockPacket keeps the limits of a packet.
LEMMA PacketStep ==
    ASSUME PacketInv, VsockNext
    PROVE  PacketInv'
<1> USE DEF PacketPcs
<1>1. /\ pkt.len \in Nat /\ pkt.data \in Nat /\ pkt.room \in Nat /\ memLen \in Nat
      /\ HeaderSize \in Nat /\ MaxData \in Nat
      /\ pkt.pc = "txData" => pkt.len <= MaxData
      /\ pkt \in Packets
  BY VsockAssumption, Zenon DEF PacketInv, PacketTypeOK, Packets
<1>2. ASSUME pkt' = PacketErr, memLen' = memLen PROVE PacketInv'
  BY <1>1, <1>2, MadePacketOK, Zenon DEF PacketErr
<1>3. ASSUME NEW head, NEW queue \in {"txHead", "rxHead"}, StartPacket(head, queue) PROVE PacketInv'
  BY <1>1, <1>3, MadePacketOK, Zenon DEF StartPacket
<1>4. ASSUME NEW d \in Descriptor, TxHead(d) PROVE PacketInv'
  <2>1. d.len \in Nat /\ memLen' = memLen
    BY <1>4, DescriptorFields, Zenon DEF TxHead
  <2>2. CASE pkt' # PacketErr
    <3>1. PICK room \in Nat : room = d.len - HeaderSize
      BY <1>1, <1>4, <2>1, <2>2 DEF TxHead
    <3>2. \/ memLen = 0 /\ pkt' = Packet("tx", memLen, 0, room)
          \/ memLen <= MaxData /\ pkt' = Packet("txData", memLen, 0, 0)
          \/ memLen <= MaxData /\ memLen <= room /\ pkt' = Packet("tx", memLen, memLen, room)
      BY <1>1, <1>4, <2>2, <3>1 DEF TxHead
    <3>3. QED
      BY <1>1, <2>1, <3>1, <3>2, MadePacketOK
  <2>3. QED
    BY <1>2, <2>1, <2>2, Zenon
<1>5. ASSUME NEW d \in Descriptor, TxData(d) PROVE PacketInv'
  <2>1. d.len \in Nat /\ memLen' = memLen
    BY <1>5, DescriptorFields, Zenon DEF TxData
  <2>2. CASE pkt' # PacketErr
    BY <1>1, <1>5, <2>1, <2>2, MadePacketOK DEF TxData
  <2>3. QED
    BY <1>2, <2>1, <2>2, Zenon
<1>6. ASSUME NEW d \in Descriptor, RxHead(d) PROVE PacketInv'
  <2>1. d.len \in Nat /\ memLen' = memLen
    BY <1>6, DescriptorFields, Zenon DEF RxHead
  <2>2. CASE pkt' # PacketErr
    <3>1. PICK room \in Nat : room = d.len - HeaderSize
      BY <1>1, <1>6, <2>1, <2>2 DEF RxHead
    <3>2. \/ pkt' = Packet("rxData", pkt.len, 0, 0)
          \/ pkt' = Packet("rx", pkt.len, room, room)
      BY <1>6, <2>2, <3>1, Zenon DEF RxHead
    <3>3. QED
      BY <1>1, <2>1, <3>1, <3>2, MadePacketOK
  <2>3. QED
    BY <1>2, <2>1, <2>2, Zenon
<1>7. ASSUME NEW d \in Descriptor, RxData(d) PROVE PacketInv'
  <2>1. d.len \in Nat /\ memLen' = memLen
    BY <1>7, DescriptorFields, Zenon DEF RxData
  <2>2. CASE pkt' # PacketErr
    BY <1>1, <1>7, <2>1, <2>2, MadePacketOK DEF RxData
  <2>3. QED
    BY <1>2, <2>1, <2>2, Zenon
<1>8. CASE UNCHANGED vsockVars
  BY <1>8, Zenon DEF vsockVars, PacketInv, PacketTypeOK, PacketFits
<1>9. CASE PacketFails
  BY <1>2, <1>9, Zenon DEF PacketFails
<1>10. ASSUME NEW n \in HeaderLens, SetLen(n) PROVE PacketInv'
  <2>1. n \in Nat /\ pkt' = [pkt EXCEPT !.len = n, !.own = TRUE] /\ memLen' = n /\ pkt.pc \in {"tx", "rx"}
    BY <1>10, VsockAssumption, Zenon DEF SetLen
  <2>2. /\ pkt' \in Packets /\ pkt'.pc = pkt.pc /\ pkt'.data = pkt.data
        /\ pkt'.room = pkt.room /\ pkt'.own
    BY <1>1, <2>1, Zenon DEF Packets
  <2>3. QED
    BY <2>1, <2>2, SetPacketOK, Zenon
<1>11. ASSUME NEW n \in HeaderLens, SetHeaderFromRaw(n) PROVE PacketInv'
  <2>1. PICK pc : /\ pc = IF pkt.pc = "tx" THEN "txRaw" ELSE "rxRaw"
                  /\ pkt' = [pkt EXCEPT !.pc = pc, !.own = TRUE]
    BY <1>11, Zenon DEF SetHeaderFromRaw
  <2>2. n \in Nat /\ memLen' = n /\ pkt.pc \in {"tx", "rx"} /\ pc \in PacketPcs
    BY <1>11, <2>1, VsockAssumption, Zenon DEF SetHeaderFromRaw
  <2>3. /\ pkt' \in Packets /\ pkt'.pc = pc /\ pkt'.data = pkt.data
        /\ pkt'.room = pkt.room /\ pkt'.own
    BY <1>1, <2>1, <2>2, Zenon DEF Packets
  <2>4. QED
    BY <2>1, <2>2, <2>3, SetPacketOK, Zenon
<1>12. ASSUME NEW n \in HeaderLens, GuestRewrites(n) PROVE PacketInv'
  BY <1>12, VsockAssumption, Zenon DEF GuestRewrites, PacketInv, PacketTypeOK, PacketFits
<1>13. CASE ReadHeaderBack
  <2>1. PICK pc : /\ pc = IF pkt.pc = "txRaw" THEN "tx" ELSE "rx"
                  /\ pkt' = [pkt EXCEPT !.pc = pc, !.len = memLen]
    BY <1>13, Zenon DEF ReadHeaderBack
  <2>2. memLen' = memLen /\ pkt.pc \in {"txRaw", "rxRaw"} /\ pkt.own /\ pc \in PacketPcs
    BY <1>13, <2>1, Zenon DEF ReadHeaderBack, PacketInv
  <2>3. /\ pkt' \in Packets /\ pkt'.pc = pc /\ pkt'.data = pkt.data
        /\ pkt'.room = pkt.room /\ pkt'.own
    BY <1>1, <2>1, <2>2, Zenon DEF Packets
  <2>4. QED
    BY <1>1, <2>1, <2>2, <2>3, SetPacketOK, Zenon
<1>14. QED
  BY <1>3, <1>4, <1>5, <1>6, <1>7, <1>8, <1>9, <1>10, <1>11, <1>12, <1>13, Zenon DEF VsockNext

\* Whatever the chain looks like and whenever the guest rewrites the header,
\* the data of a TX packet is within the limit and as long as the length that
\* was checked, until the device sets another; and the data of a TX or RX
\* packet stays within its descriptor, whatever the device sets
\* (from_tx_virtq_chain, from_rx_virtq_chain, set_len, set_header_from_raw).
THEOREM PacketFitsHolds == VsockSpec => []PacketFits
<1>1. VsockInit => PacketInv
  BY VsockAssumption DEF VsockInit, NoPacket, Packet, PacketInv, PacketTypeOK, Packets, PacketPcs, PacketFits
<1>2. ASSUME PacketInv, [VsockNext]_<<chainVars, vsockVars>> PROVE PacketInv'
  <2>1. UNCHANGED vsockVars => PacketInv'
    BY <1>2, Zenon DEF vsockVars, PacketInv, PacketTypeOK, PacketFits
  <2>2. QED
    BY <1>2, <2>1, PacketStep, Zenon
<1>3. PacketInv => PacketFits
  BY Zenon DEF PacketInv
<1>4. QED
  BY <1>1, <1>2, <1>3, PTL DEF VsockSpec

-----------------------------------------------------------------------------
(* The console.                                                            *)

\* Numbers in the order in which they were accepted.
Increasing(s) == \A i \in 1 .. Len(s), j \in 1 .. Len(s) : i < j => s[i] < s[j]
Before(s, t) == \A i \in 1 .. Len(s), j \in 1 .. Len(t) : s[i] < t[j]

\* The elements of two lists put together.
LEMMA CatElements ==
    ASSUME NEW s \in Seq(Nat), NEW t \in Seq(Nat)
    PROVE  /\ s \o t \in Seq(Nat) /\ Len(s \o t) = Len(s) + Len(t)
           /\ Len(s) \in Nat /\ Len(t) \in Nat
           /\ \A i \in 1 .. Len(s) : (s \o t)[i] = s[i]
           /\ \A i \in 1 .. Len(t) : (s \o t)[Len(s) + i] = t[i]
           /\ \A i \in 1 .. Len(s) + Len(t) : i \in 1 .. Len(s) \/ \E j \in 1 .. Len(t) : i = Len(s) + j
<1>1. s \o t \in Seq(Nat) /\ Len(s \o t) = Len(s) + Len(t) /\ Len(s) \in Nat /\ Len(t) \in Nat
  OBVIOUS
<1>2. \A i \in 1 .. Len(s) : (s \o t)[i] = s[i]
  OBVIOUS
<1>3. \A i \in 1 .. Len(t) : (s \o t)[Len(s) + i] = t[i]
  OBVIOUS
<1>4. ASSUME NEW i \in 1 .. Len(s) + Len(t), i \notin 1 .. Len(s)
      PROVE  \E j \in 1 .. Len(t) : i = Len(s) + j
  <2>1. i - Len(s) \in 1 .. Len(t) /\ i = Len(s) + (i - Len(s))
    BY <1>1, <1>4
  <2>2. QED
    BY <2>1, Zenon
<1>5. QED
  BY <1>1, <1>2, <1>3, <1>4, Zenon

\* The elements of a list of numbers are numbers.
LEMMA ElementsInNat ==
    ASSUME NEW s \in Seq(Nat), NEW i \in 1 .. Len(s)
    PROVE  s[i] \in Nat
  OBVIOUS

\* The numbers of two lists put together.
LEMMA CatRange ==
    ASSUME NEW s \in Seq(Nat), NEW t \in Seq(Nat)
    PROVE  Range(s \o t) = Range(s) \cup Range(t)
<1>1. DOMAIN s = 1 .. Len(s) /\ DOMAIN t = 1 .. Len(t) /\ DOMAIN (s \o t) = 1 .. Len(s) + Len(t)
  BY CatElements
<1>2. ASSUME NEW x \in Range(s \o t) PROVE x \in Range(s) \cup Range(t)
  <2>1. PICK i \in 1 .. Len(s) + Len(t) : x = (s \o t)[i]
    BY <1>1, <1>2, Zenon DEF Range
  <2>2. CASE i \in 1 .. Len(s)
    BY <1>1, <2>1, <2>2, CatElements, ZenonT(30) DEF Range
  <2>3. CASE i \notin 1 .. Len(s)
    <3>1. PICK j \in 1 .. Len(t) : i = Len(s) + j
      BY <2>3, CatElements, Zenon
    <3>2. x = t[j]
      BY <2>1, <3>1, CatElements, Zenon
    <3>3. QED
      BY <1>1, <3>2, Zenon DEF Range
  <2>4. QED
    BY <2>2, <2>3, Zenon
<1>3. ASSUME NEW x \in Range(s) PROVE x \in Range(s \o t)
  <2>1. PICK i \in 1 .. Len(s) : x = s[i]
    BY <1>1, <1>3, Zenon DEF Range
  <2>2. i \in 1 .. Len(s) + Len(t) /\ x = (s \o t)[i]
    BY <2>1, CatElements
  <2>3. QED
    BY <1>1, <2>2, Zenon DEF Range
<1>4. ASSUME NEW x \in Range(t) PROVE x \in Range(s \o t)
  <2>1. PICK j \in 1 .. Len(t) : x = t[j]
    BY <1>1, <1>4, Zenon DEF Range
  <2>2. Len(s) + j \in 1 .. Len(s) + Len(t) /\ x = (s \o t)[Len(s) + j]
    BY <2>1, CatElements
  <2>3. QED
    BY <1>1, <2>2, Zenon DEF Range
<1>5. QED
  BY <1>2, <1>3, <1>4, Zenon

\* Two ordered lists, one before the other, are ordered together.
LEMMA CatIncreasing ==
    ASSUME NEW s \in Seq(Nat), NEW t \in Seq(Nat), Increasing(s), Increasing(t), Before(s, t)
    PROVE  Increasing(s \o t)
<1> SUFFICES ASSUME NEW i \in 1 .. Len(s) + Len(t), NEW j \in 1 .. Len(s) + Len(t), i < j
             PROVE  (s \o t)[i] < (s \o t)[j]
  BY CatElements, Zenon DEF Increasing
<1>1. CASE j \in 1 .. Len(s)
  <2>1. Len(s) \in Nat
    OBVIOUS
  <2>2. i \in 1 .. Len(s)
    BY ONLY <1>1, <2>1, i \in 1 .. Len(s) + Len(t), i < j
  <2>3. (s \o t)[i] = s[i] /\ (s \o t)[j] = s[j]
    BY <1>1, <2>2, CatElements, Zenon
  <2>4. s[i] < s[j]
    BY <1>1, <2>2, Zenon DEF Increasing
  <2>5. QED
    BY <2>3, <2>4, Zenon
<1>2. CASE i \in 1 .. Len(s) /\ j \notin 1 .. Len(s)
  <2>1. PICK k \in 1 .. Len(t) : j = Len(s) + k
    BY <1>2, CatElements, Zenon
  <2>2. (s \o t)[i] = s[i] /\ (s \o t)[j] = t[k]
    BY <1>2, <2>1, CatElements
  <2>3. QED
    BY <1>2, <2>2, Zenon DEF Before
<1>3. CASE i \notin 1 .. Len(s) /\ j \notin 1 .. Len(s)
  <2>1. PICK k \in 1 .. Len(t) : j = Len(s) + k
    BY <1>3, CatElements, Zenon
  <2>2. PICK m \in 1 .. Len(t) : i = Len(s) + m
    BY <1>3, CatElements, Zenon
  <2>3. (s \o t)[i] = t[m] /\ (s \o t)[j] = t[k] /\ m < k
    <3>1. (s \o t)[Len(s) + m] = t[m] /\ (s \o t)[Len(s) + k] = t[k]
      BY CatElements, Zenon
    <3>2. m < k
      BY <2>1, <2>2
    <3>3. QED
      BY <2>1, <2>2, <3>1, <3>2, Zenon
  <2>4. QED
    BY <2>3, Zenon DEF Increasing
<1>4. QED
  <2>1. Len(s) \in Nat
    BY CatElements, Zenon
  <2>2. QED
    BY <1>1, <1>2, <1>3, <2>1, Zenon

\* What comes before or after both parts does so of the whole.
LEMMA CatBefore ==
    ASSUME NEW s \in Seq(Nat), NEW t \in Seq(Nat), NEW u \in Seq(Nat)
    PROVE  /\ Before(s, u) /\ Before(t, u) => Before(s \o t, u)
           /\ Before(u, s) /\ Before(u, t) => Before(u, s \o t)
<1>1. ASSUME Before(s, u), Before(t, u), NEW i \in 1 .. Len(s \o t), NEW j \in 1 .. Len(u)
      PROVE  (s \o t)[i] < u[j]
  <2>1. CASE i \in 1 .. Len(s)
    BY <1>1, <2>1, CatElements DEF Before
  <2>2. CASE i \notin 1 .. Len(s)
    <3>1. PICK k \in 1 .. Len(t) : i = Len(s) + k
      BY <2>2, CatElements
    <3>2. (s \o t)[i] = t[k]
      BY <3>1, CatElements, ZenonT(30)
    <3>3. QED
      BY <1>1, <3>2, Zenon DEF Before
  <2>3. QED
    BY <2>1, <2>2, Zenon
<1>2. ASSUME Before(u, s), Before(u, t), NEW i \in 1 .. Len(s \o t), NEW j \in 1 .. Len(u)
      PROVE  u[j] < (s \o t)[i]
  <2>1. CASE i \in 1 .. Len(s)
    BY <1>2, <2>1, CatElements, ZenonT(30) DEF Before
  <2>2. CASE i \notin 1 .. Len(s)
    <3>1. PICK k \in 1 .. Len(t) : i = Len(s) + k
      BY <2>2, CatElements
    <3>2. (s \o t)[i] = t[k]
      BY <3>1, CatElements, Zenon
    <3>3. QED
      BY <1>2, <3>2, Zenon DEF Before
  <2>3. QED
    BY <2>1, <2>2, Zenon
<1>3. QED
  BY <1>1, <1>2, Zenon DEF Before

\* input_buffer.drain(..n) cuts the buffer in two.
CutAt(s, n, a, b) == n \in 0 .. Len(s) /\ a = SubSeq(s, 1, n) /\ b = SubSeq(s, n + 1, Len(s))

\* An ordered list cut in two parts.
LEMMA Cut ==
    ASSUME NEW s \in Seq(Nat), NEW n, NEW a, NEW b, CutAt(s, n, a, b), Increasing(s)
    PROVE  /\ a \in Seq(Nat) /\ b \in Seq(Nat) /\ Len(b) = Len(s) - n
           /\ Increasing(a) /\ Increasing(b) /\ Before(a, b)
           /\ Range(a) \cup Range(b) = Range(s)
           /\ \A u \in Seq(Nat) : Before(u, s) => Before(u, a) /\ Before(u, b)
<1>1. /\ Len(s) \in Nat /\ n \in Nat
      /\ a \in Seq(Nat) /\ Len(a) = n /\ \A i \in 1 .. n : a[i] = s[i]
  BY DEF CutAt
<1>2. b \in Seq(Nat) /\ Len(b) = Len(s) - n /\ \A i \in 1 .. Len(s) - n : b[i] = s[n + i]
  <2>1. b \in Seq(Nat) /\ Len(b) = Len(s) - n
    BY <1>1 DEF CutAt
  <2>2. ASSUME NEW i \in 1 .. Len(s) - n PROVE b[i] = s[n + i]
    BY <1>1 DEF CutAt
  <2>3. QED
    BY <2>1, <2>2, Zenon
<1>3. \A i \in 1 .. Len(s) : i \in 1 .. n \/ \E j \in 1 .. Len(s) - n : i = n + j
  <2>1. ASSUME NEW i \in 1 .. Len(s), i \notin 1 .. n PROVE i - n \in 1 .. Len(s) - n /\ i = n + (i - n)
    BY <1>1, <2>1 DEF CutAt
  <2>2. QED
    BY <2>1, Zenon
<1>4. /\ \A i \in 1 .. n : i \in 1 .. Len(s)
      /\ \A i \in 1 .. Len(s) - n : n + i \in 1 .. Len(s)
  BY <1>1 DEF CutAt
<1>5. Increasing(a)
  BY <1>1, <1>4, Zenon DEF Increasing
<1>6. Increasing(b)
  <2>1. ASSUME NEW i \in 1 .. Len(b), NEW j \in 1 .. Len(b), i < j PROVE b[i] < b[j]
    <3>1. i \in 1 .. Len(s) - n /\ j \in 1 .. Len(s) - n
      BY <1>2, Zenon
    <3>2. n + i < n + j
      BY <1>1, <2>1
    <3>3. b[i] = s[n + i] /\ b[j] = s[n + j]
      BY <1>2, <3>1, Zenon
    <3>4. QED
      BY <1>4, <3>1, <3>2, <3>3, Zenon DEF Increasing
  <2>2. QED
    BY <2>1, Zenon DEF Increasing
<1>7. Before(a, b)
  <2>1. ASSUME NEW i \in 1 .. n, NEW j \in 1 .. Len(s) - n PROVE a[i] < b[j]
    <3>1. i < n + j /\ a[i] = s[i] /\ b[j] = s[n + j]
      BY <1>1, <1>2, SMTT(30)
    <3>2. QED
      BY <1>4, <3>1, Zenon DEF Increasing
  <2>2. QED
    BY <1>1, <1>2, <2>1, Zenon DEF Before
<1>8. Range(a) \cup Range(b) = Range(s)
  <2>1. DOMAIN a = 1 .. n /\ DOMAIN b = 1 .. Len(s) - n /\ DOMAIN s = 1 .. Len(s)
    BY <1>1, <1>2
  <2>2. ASSUME NEW x \in Range(s) PROVE x \in Range(a) \cup Range(b)
    <3>1. PICK i \in 1 .. Len(s) : x = s[i]
      BY <2>1, <2>2, Zenon DEF Range
    <3>2. CASE i \in 1 .. n
      BY <1>1, <2>1, <3>1, <3>2, Zenon DEF Range
    <3>3. CASE i \notin 1 .. n
      <4>1. PICK j \in 1 .. Len(s) - n : i = n + j
        BY <1>3, <3>3, Zenon
      <4>2. x = b[j]
        BY <1>2, <3>1, <4>1, Zenon
      <4>3. QED
        BY <2>1, <4>2, Zenon DEF Range
    <3>4. QED
      BY <3>2, <3>3, Zenon
  <2>3. Range(a) \subseteq Range(s)
    BY <1>1, <1>4, <2>1, Zenon DEF Range
  <2>4. ASSUME NEW x \in Range(b) PROVE x \in Range(s)
    <3>1. PICK j \in 1 .. Len(s) - n : x = b[j]
      BY <2>1, <2>4, Zenon DEF Range
    <3>2. n + j \in 1 .. Len(s) /\ x = s[n + j]
      BY <1>2, <1>4, <3>1, Zenon
    <3>3. QED
      BY <2>1, <3>2, Zenon DEF Range
  <2>5. QED
    BY <2>2, <2>3, <2>4, Zenon
<1>9. ASSUME NEW u \in Seq(Nat), Before(u, s) PROVE Before(u, a) /\ Before(u, b)
  BY <1>1, <1>2, <1>4, <1>9, Zenon DEF Before
<1>10. QED
  BY <1>1, <1>2, <1>5, <1>6, <1>7, <1>8, <1>9, Zenon

\* No byte is on both sides.
LEMMA BeforeApart ==
    ASSUME NEW s \in Seq(Nat), NEW t \in Seq(Nat), Before(s, t)
    PROVE  Range(s) \cap Range(t) = {}
<1>1. DOMAIN s = 1 .. Len(s) /\ DOMAIN t = 1 .. Len(t)
  OBVIOUS
<1>2. ASSUME NEW i \in 1 .. Len(s), NEW j \in 1 .. Len(t) PROVE s[i] # t[j]
  <2>1. s[i] \in Nat /\ t[j] \in Nat /\ s[i] < t[j]
    BY SMTT(30) DEF Before
  <2>2. QED
    BY <2>1
<1>3. QED
  BY <1>1, <1>2, Zenon DEF Range

HandlerPcs == {"idle", "receive", "transmit", "ok", "error"}

Handlers == [pc : HandlerPcs, put : Seq(Nat), due : Nat, out : Nat]

ConsoleTypeOK ==
    /\ input \in Seq(Nat)
    /\ accepted \in Nat
    /\ given \in Seq(Nat)
    /\ lost \in SUBSET (1 .. accepted)
    /\ handler \in Handlers
    /\ handler.pc # "receive" => handler.put = <<>>

\* What was given, what the chain under way holds and what waits: each in
\* order, each before the next, and together all that was not lost.
InputParts ==
    /\ Increasing(given) /\ Increasing(handler.put) /\ Increasing(input)
    /\ Before(given, handler.put) /\ Before(given, input) /\ Before(handler.put, input)
    /\ Range(given) \cup Range(handler.put) \cup Range(input) = (1 .. accepted) \ lost

ConsoleInv == ConsoleTypeOK /\ InputParts /\ Len(input) <= Capacity

\* What a step leaves of these parts, by their names.
LEMMA NewParts ==
    ASSUME NEW g \in Seq(Nat), given' = g,
           NEW p \in Seq(Nat), handler'.put = p,
           NEW q \in Seq(Nat), input' = q, Len(q) <= Capacity,
           accepted' \in Nat, lost' \in SUBSET (1 .. accepted'),
           handler' \in Handlers, handler'.pc # "receive" => p = <<>>,
           Increasing(g), Increasing(p), Increasing(q), Before(g, p), Before(g, q), Before(p, q),
           Range(g) \cup Range(p) \cup Range(q) = (1 .. accepted') \ lost'
    PROVE  ConsoleInv'
  BY Zenon DEF ConsoleInv, ConsoleTypeOK, InputParts

\* The empty list is ordered with every other.
LEMMA NoneBefore ==
    ASSUME NEW s \in Seq(Nat)
    PROVE  /\ <<>> \in Seq(Nat) /\ Increasing(<<>>) /\ Before(<<>>, s) /\ Before(s, <<>>)
           /\ Range(<<>>) = {} /\ s \o <<>> = s /\ <<>> \o s = s
  BY DEF Increasing, Before, Range

\* A handler at rest holds no input.
LEMMA AtRestType == AtRest \in Handlers /\ AtRest.put = <<>> /\ AtRest.pc = "idle"
  BY DEF AtRest, Handlers, HandlerPcs

\* enqueue_data adds the next numbers.
LEMMA EnqueueOK ==
    ASSUME ConsoleInv, NEW n \in 1 .. Capacity, EnqueueData(n)
    PROVE  ConsoleInv'
<1> DEFINE new == [i \in 1 .. n |-> accepted + i]
<1>1. /\ input \in Seq(Nat) /\ accepted \in Nat /\ given \in Seq(Nat) /\ handler \in Handlers
      /\ lost \in SUBSET (1 .. accepted) /\ handler.put \in Seq(Nat) /\ n \in Nat
      /\ Increasing(given) /\ Increasing(handler.put) /\ Increasing(input)
      /\ Before(given, handler.put) /\ Before(given, input) /\ Before(handler.put, input)
      /\ Range(given) \cup Range(handler.put) \cup Range(input) = (1 .. accepted) \ lost
      /\ handler.pc # "receive" => handler.put = <<>>
  BY ConsoleAssumption DEF ConsoleInv, ConsoleTypeOK, InputParts, Handlers
<1>2. /\ input' = input \o new /\ accepted' = accepted + n /\ Len(input) + n <= Capacity
      /\ given' = given /\ lost' = lost /\ handler' = handler
  BY Zenon DEF EnqueueData
<1>3. new \in Seq(Nat) /\ Len(new) = n /\ DOMAIN new = 1 .. n /\ \A i \in 1 .. n : new[i] = accepted + i
  <2>1. \A i \in 1 .. n : accepted + i \in Nat
    BY <1>1, SMTT(30)
  <2>2. new \in [1 .. n -> Nat] /\ \A i \in 1 .. n : new[i] = accepted + i
    BY <2>1, Zenon
  <2> HIDE DEF new
  <2>3. n \in Nat
    BY <1>1, Zenon
  <2>4. QED
    BY ONLY <2>2, <2>3
<1> HIDE DEF new
<1>4. Increasing(new)
  BY <1>1, <1>3 DEF Increasing
<1>5. ASSUME NEW s \in Seq(Nat), Range(s) \subseteq 1 .. accepted PROVE Before(s, new)
  <2>1. \A i \in 1 .. Len(s) : s[i] \in Range(s)
    BY DEF Range
  <2>2. \A i \in 1 .. Len(s) : s[i] \in 1 .. accepted
    BY <1>5, <2>1, Zenon
  <2>3. ASSUME NEW i \in 1 .. Len(s), NEW j \in 1 .. n
        PROVE  s[i] < new[j]
    <3>1. s[i] \in 1 .. accepted /\ new[j] = accepted + j /\ accepted \in Nat
      BY <1>1, <1>3, <2>2, Zenon
    <3>2. QED
      BY ONLY <3>1, j \in 1 .. n
  <2>4. QED
    BY <1>3, <2>3, Zenon DEF Before
<1>6. Before(given, new) /\ Before(handler.put, new) /\ Before(input, new)
  BY <1>1, <1>5, Zenon
<1>7. Range(new) = (accepted + 1) .. (accepted + n)
  <2>1. ASSUME NEW x \in (accepted + 1) .. (accepted + n) PROVE x \in Range(new)
    <3>1. x - accepted \in 1 .. n /\ new[x - accepted] = x
      BY <1>1, <1>3, SMTT(30)
    <3>2. QED
      BY <1>3, <3>1, Zenon DEF Range
  <2>2. ASSUME NEW x \in Range(new) PROVE x \in (accepted + 1) .. (accepted + n)
    <3>1. PICK i \in 1 .. n : x = new[i]
      BY <1>3, <2>2, Zenon DEF Range
    <3>2. QED
      BY <1>1, <1>3, <3>1, SMTT(30)
  <2>3. QED
    BY <2>1, <2>2, Zenon
<1>8. (1 .. accepted) \cup Range(new) = 1 .. accepted' /\ lost \cap Range(new) = {}
      /\ lost \subseteq 1 .. accepted'
  BY <1>1, <1>2, <1>7, SMTT(30)
<1>9. PICK q \in Seq(Nat) : q = input \o new /\ Len(q) <= Capacity
  <2>1. input \o new \in Seq(Nat) /\ Len(input \o new) = Len(input) + Len(new)
    BY <1>1, <1>3, CatElements, Zenon
  <2>2. Len(input \o new) <= Capacity
    BY <1>2, <1>3, <2>1, Zenon
  <2>3. QED
    BY <2>1, <2>2, Zenon
<1>10. Increasing(q) /\ Before(given, q) /\ Before(handler.put, q) /\ Range(q) = Range(input) \cup Range(new)
  BY <1>1, <1>3, <1>4, <1>6, <1>9, CatIncreasing, CatBefore, CatRange, Zenon
<1>11. Range(given) \cup Range(handler.put) \cup Range(q) = (1 .. accepted') \ lost
  BY <1>1, <1>8, <1>10, Zenon
<1>12. accepted' \in Nat
  BY <1>1, <1>2, SMTT(30)
<1>13. QED
  BY <1>1, <1>2, <1>8, <1>9, <1>10, <1>11, <1>12, NewParts, Zenon

\* A descriptor of receiveq takes the next numbers of the input, or loses them.
LEMMA ReceiveOK ==
    ASSUME ConsoleInv, NEW d \in Descriptor, NEW written \in BOOLEAN, ReceiveDescriptor(d, written)
    PROVE  ConsoleInv'
<1>1. /\ input \in Seq(Nat) /\ accepted \in Nat /\ given \in Seq(Nat) /\ handler \in Handlers
      /\ lost \in SUBSET (1 .. accepted) /\ handler.put \in Seq(Nat)
      /\ Increasing(given) /\ Increasing(handler.put) /\ Increasing(input)
      /\ Before(given, handler.put) /\ Before(given, input) /\ Before(handler.put, input)
      /\ Range(given) \cup Range(handler.put) \cup Range(input) = (1 .. accepted) \ lost
      /\ Len(input) <= Capacity /\ Capacity \in Nat /\ Len(input) \in Nat
  BY ConsoleAssumption, SMTT(30) DEF ConsoleInv, ConsoleTypeOK, InputParts, Handlers
<1>2. d.len \in Nat
  BY DescriptorFields, Zenon
<1>3. PICK n \in 0 .. Len(input) :
        n = IF ~d.write THEN 0 ELSE IF d.len < Len(input) THEN d.len ELSE Len(input)
  BY <1>1, <1>2, SMTT(30)
<1>4. PICK a \in Seq(Nat), q \in Seq(Nat) :
        /\ a = SubSeq(input, 1, n) /\ q = SubSeq(input, n + 1, Len(input))
        /\ Increasing(a) /\ Increasing(q) /\ Before(a, q)
        /\ Range(a) \cup Range(q) = Range(input) /\ Len(q) <= Capacity
        /\ Before(given, a) /\ Before(given, q) /\ Before(handler.put, a) /\ Before(handler.put, q)
  <2>1. PICK a, q : CutAt(input, n, a, q)
    BY Zenon DEF CutAt
  <2>2. /\ a \in Seq(Nat) /\ q \in Seq(Nat) /\ Len(q) = Len(input) - n
        /\ Increasing(a) /\ Increasing(q) /\ Before(a, q)
        /\ Range(a) \cup Range(q) = Range(input)
        /\ \A u \in Seq(Nat) : Before(u, input) => Before(u, a) /\ Before(u, q)
    BY <1>1, <2>1, Cut, Zenon
  <2>3. Len(q) <= Capacity
    BY <1>1, <2>2
  <2>4. QED
    BY <1>1, <2>1, <2>2, <2>3, Zenon DEF CutAt
<1>5. PICK p \in Seq(Nat) : p = handler.put \o a
  BY <1>1, CatElements, Zenon
<1>6. Increasing(p) /\ Before(given, p) /\ Before(p, q) /\ Range(p) = Range(handler.put) \cup Range(a)
  BY <1>1, <1>4, <1>5, CatIncreasing, CatBefore, CatRange, Zenon
<1>7. Range(given) \cup Range(p) \cup Range(q) = (1 .. accepted) \ lost
  BY <1>1, <1>4, <1>6, Zenon
<1>8. /\ input' = q /\ accepted' = accepted
      /\ \/ handler' = AtRest /\ lost' = lost \cup Range(p) /\ given' = given
         \/ handler' = AtRest /\ given' = given \o p /\ lost' = lost
         \/ handler' = [handler EXCEPT !.put = p] /\ given' = given /\ lost' = lost
  BY <1>3, <1>4, <1>5, Zenon DEF ReceiveDescriptor, ReceiveErr, ReceiveOk, Drain
<1>9. accepted' \in Nat /\ Len(q) <= Capacity
  BY <1>1, <1>4, <1>8, Zenon
<1>10. CASE handler' = AtRest /\ lost' = lost \cup Range(p) /\ given' = given
  <2>1. Range(p) \cap Range(q) = {} /\ Range(given) \cap Range(p) = {}
    BY <1>1, <1>6, BeforeApart, Zenon
  <2>2. Range(given) \cup Range(<<>>) \cup Range(q) = (1 .. accepted') \ lost' /\ lost' \in SUBSET (1 .. accepted')
    BY <1>1, <1>7, <1>8, <1>10, <2>1, NoneBefore, Zenon
  <2>3. QED
    BY <1>1, <1>4, <1>8, <1>9, <1>10, <2>2, NoneBefore, AtRestType, NewParts, ZenonT(30)
<1>11. CASE handler' = AtRest /\ given' = given \o p /\ lost' = lost
  <2>1. PICK g \in Seq(Nat) : g = given \o p
    BY <1>1, CatElements, Zenon
  <2>2. Increasing(g) /\ Before(g, q) /\ Range(g) = Range(given) \cup Range(p)
    BY <1>1, <1>4, <1>6, <2>1, CatIncreasing, CatBefore, CatRange, Zenon
  <2>3. Range(g) \cup Range(<<>>) \cup Range(q) = (1 .. accepted') \ lost' /\ lost' \in SUBSET (1 .. accepted')
    BY <1>1, <1>7, <1>8, <1>11, <2>2, NoneBefore, Zenon
  <2>4. QED
    BY <1>4, <1>8, <1>9, <1>11, <2>1, <2>2, <2>3, NoneBefore, AtRestType, NewParts, ZenonT(30)
<1>12. CASE handler' = [handler EXCEPT !.put = p] /\ given' = given /\ lost' = lost
  <2>1. handler' \in Handlers /\ handler'.put = p /\ handler'.pc = "receive"
    BY <1>1, <1>12, Zenon DEF Handlers, ReceiveDescriptor
  <2>2. lost' \in SUBSET (1 .. accepted') /\ Range(given) \cup Range(p) \cup Range(q) = (1 .. accepted') \ lost'
    BY <1>1, <1>7, <1>8, <1>12, Zenon
  <2>3. QED
    BY <1>1, <1>4, <1>6, <1>8, <1>9, <1>12, <2>1, <2>2, NewParts, Zenon
<1>13. QED
  BY <1>8, <1>10, <1>11, <1>12, Zenon

\* Every step of the console keeps its input in order.
LEMMA ConsoleStep ==
    ASSUME ConsoleInv, ConsoleNext
    PROVE  ConsoleInv'
<1>1. /\ input \in Seq(Nat) /\ accepted \in Nat /\ given \in Seq(Nat) /\ handler \in Handlers
      /\ lost \in SUBSET (1 .. accepted) /\ handler.put \in Seq(Nat)
      /\ Increasing(given) /\ Increasing(handler.put) /\ Increasing(input)
      /\ Before(given, handler.put) /\ Before(given, input) /\ Before(handler.put, input)
      /\ Range(given) \cup Range(handler.put) \cup Range(input) = (1 .. accepted) \ lost
      /\ Len(input) <= Capacity /\ Capacity \in Nat
      /\ handler.pc # "receive" => handler.put = <<>>
  BY ConsoleAssumption, Zenon DEF ConsoleInv, ConsoleTypeOK, InputParts, Handlers
<1>2. ASSUME NEW n \in 1 .. Capacity, EnqueueData(n) PROVE ConsoleInv'
  BY <1>2, EnqueueOK, Zenon
<1>3. CASE ClearInputBuffer
  <2>1. /\ input' = <<>> /\ lost' = lost \cup Range(input) /\ handler.put = <<>>
        /\ accepted' = accepted /\ given' = given /\ handler' = handler
    BY <1>1, <1>3, Zenon DEF ClearInputBuffer, LockFree
  <2>2. Range(given) \cap Range(input) = {}
    BY <1>1, BeforeApart, Zenon
  <2>3. Range(given) \cup Range(<<>>) \cup Range(<<>>) = (1 .. accepted') \ lost' /\ lost' \in SUBSET (1 .. accepted')
    BY <1>1, <2>1, <2>2, NoneBefore, Zenon
  <2>4. Len(<<>>) <= Capacity /\ accepted' \in Nat
    BY <1>1, <2>1
  <2>5. QED
    BY <1>1, <2>1, <2>3, <2>4, NoneBefore, NewParts, Zenon
<1>4. ASSUME UNCHANGED <<input, accepted, given, lost>>, handler' \in Handlers,
             handler'.put = handler.put, handler'.pc # "receive" => handler.put = <<>>
      PROVE  ConsoleInv'
  BY <1>1, <1>4, NewParts, Zenon
<1>5. ASSUME NEW head \in 0 .. QueueSize, StartReceive(head) PROVE ConsoleInv'
  BY <1>1, <1>4, <1>5, AtRestType, Zenon DEF StartReceive, AtRest, Handlers, HandlerPcs
<1>6. ASSUME NEW head \in 0 .. QueueSize, StartTransmit(head) PROVE ConsoleInv'
  BY <1>1, <1>4, <1>6, AtRestType, Zenon DEF StartTransmit, AtRest, Handlers, HandlerPcs
<1>7. ASSUME NEW d \in Descriptor, NEW written \in BOOLEAN, ReceiveDescriptor(d, written) PROVE ConsoleInv'
  BY <1>7, ReceiveOK, Zenon
<1>8. CASE ReceiveEnds
  <2>1. PICK g \in Seq(Nat) : g = given \o handler.put
    BY <1>1, CatElements, Zenon
  <2>2. Increasing(g) /\ Before(g, input) /\ Range(g) = Range(given) \cup Range(handler.put)
    BY <1>1, <2>1, CatIncreasing, CatBefore, CatRange, Zenon
  <2>3. /\ input' = input /\ accepted' = accepted /\ given' = g /\ lost' = lost /\ handler' = AtRest
    BY <1>8, <2>1, Zenon DEF ReceiveEnds, ReceiveOk
  <2>4. Range(g) \cup Range(<<>>) \cup Range(input) = (1 .. accepted') \ lost' /\ lost' \in SUBSET (1 .. accepted')
    BY <1>1, <2>2, <2>3, NoneBefore, Zenon
  <2>5. QED
    BY <1>1, <2>1, <2>2, <2>3, <2>4, NoneBefore, AtRestType, NewParts, Zenon
<1>9. ASSUME NEW d \in Descriptor, NEW k \in Lens, NEW failed \in BOOLEAN, TransmitDescriptor(d, k, failed)
      PROVE  ConsoleInv'
  <2>1. d.len \in Nat /\ k \in Nat
    BY DescriptorFields, ChainAssumption, Zenon
  <2>2. handler.put = <<>> /\ handler.due \in Nat /\ handler.out \in Nat
    BY <1>1, <1>9, Zenon DEF TransmitDescriptor, Handlers
  <2>3. handler' \in Handlers /\ handler'.put = <<>>
    <3>1. handler.due + d.len \in Nat /\ handler.out + k \in Nat
      BY <2>1, <2>2, SMTT(30)
    <3>2. CASE d.write
      BY <1>1, <1>9, <2>2, <3>2, Zenon DEF TransmitDescriptor, Handlers, HandlerPcs
    <3>3. CASE ~d.write
      <4>1. PICK pc \in HandlerPcs :
              handler' = [handler EXCEPT !.pc = pc, !.due = handler.due + d.len, !.out = handler.out + k]
        BY <1>1, <1>9, <3>3, Zenon DEF TransmitDescriptor, Handlers, HandlerPcs
      <4>2. QED
        BY <1>1, <2>2, <3>1, <4>1, Zenon DEF Handlers
    <3>4. QED
      BY <3>2, <3>3, Zenon
  <2>4. QED
    BY <1>4, <1>9, <2>2, <2>3, Zenon DEF TransmitDescriptor
<1>10. CASE TransmitEnds
  BY <1>1, <1>4, <1>10, Zenon DEF TransmitEnds, Handlers, HandlerPcs
<1>11. CASE Return
  BY <1>1, <1>4, <1>11, AtRestType, Zenon DEF Return
<1>12. CASE UNCHANGED consoleVars
  BY <1>1, <1>4, <1>12, Zenon DEF consoleVars
<1>13. QED
  BY <1>2, <1>3, <1>5, <1>6, <1>7, <1>8, <1>9, <1>10, <1>11, <1>12, Zenon DEF ConsoleNext

\* The invariant says what the guest sees.
LEMMA ConsoleInvImplies == ConsoleInv => InputInOrder
<1> SUFFICES ASSUME ConsoleInv PROVE InputInOrder
  BY Zenon
<1>1. /\ input \in Seq(Nat) /\ given \in Seq(Nat) /\ handler.put \in Seq(Nat)
      /\ Increasing(given) /\ Increasing(handler.put) /\ Increasing(input)
      /\ Before(given, handler.put) /\ Before(given, input) /\ Before(handler.put, input)
      /\ Range(given) \cup Range(handler.put) \cup Range(input) = (1 .. accepted) \ lost
      /\ Len(input) <= Capacity
  BY Zenon DEF ConsoleInv, ConsoleTypeOK, InputParts, Handlers
<1>2. PICK g \in Seq(Nat) : g = given \o handler.put
  BY <1>1, CatElements, Zenon
<1>3. Increasing(g) /\ Before(g, input) /\ Range(g) = Range(given) \cup Range(handler.put)
  BY <1>1, <1>2, CatIncreasing, CatBefore, CatRange, Zenon
<1>4. PICK k \in Seq(Nat) : k = g \o input
  BY <1>1, CatElements, Zenon
<1>5. Increasing(k) /\ Range(k) = Range(g) \cup Range(input) /\ Len(k) \in Nat
  BY <1>1, <1>3, <1>4, CatIncreasing, CatRange
<1>6. \A i \in 1 .. Len(k) - 1 : k[i] < k[i + 1]
  <2>1. \A i \in 1 .. Len(k) - 1 : i \in 1 .. Len(k) /\ i + 1 \in 1 .. Len(k) /\ i < i + 1
    BY <1>5
  <2>2. QED
    BY <1>5, <2>1, Zenon DEF Increasing
<1>7. QED
  BY <1>1, <1>2, <1>3, <1>4, <1>5, <1>6, Zenon DEF InputInOrder

\* Whatever the other threads enqueue or clear, and wherever a chain ends or
\* fails, the guest is given the accepted bytes in order, none twice and none
\* missing but those that were cleared or in a failed chain, for every
\* capacity and every chain (enqueue_data, process_receiveq_chain).
THEOREM InputInOrderHolds == ConsoleSpec => []InputInOrder
<1>1. ConsoleInit => ConsoleInv
  <2> SUFFICES ASSUME ConsoleInit PROVE ConsoleInv
    BY Zenon
  <2>1. input = <<>> /\ accepted = 0 /\ given = <<>> /\ lost = {} /\ handler = AtRest
    BY Zenon DEF ConsoleInit
  <2>2. ConsoleTypeOK
    BY <2>1, AtRestType DEF ConsoleTypeOK
  <2>3. InputParts
    <3>1. <<>> \in Seq(Nat)
      OBVIOUS
    <3>2. /\ Increasing(<<>>) /\ Before(<<>>, <<>>) /\ Range(<<>>) = {}
      BY <3>1, NoneBefore, Zenon
    <3>3. (1 .. 0) \ {} = {}
      OBVIOUS
    <3>4. QED
      BY <2>1, <3>2, <3>3, AtRestType, Zenon DEF InputParts
  <2>4. Len(input) <= Capacity
    BY <2>1, ConsoleAssumption
  <2>5. QED
    BY <2>2, <2>3, <2>4, Zenon DEF ConsoleInv
<1>2. ASSUME ConsoleInv, [ConsoleNext]_<<chainVars, consoleVars>> PROVE ConsoleInv'
  <2>1. UNCHANGED consoleVars => ConsoleInv'
    BY <1>2, Zenon DEF consoleVars, ConsoleInv, ConsoleTypeOK, InputParts
  <2>2. QED
    BY <1>2, <2>1, ConsoleStep, Zenon
<1>3. QED
  BY <1>1, <1>2, ConsoleInvImplies, PTL DEF ConsoleSpec

-----------------------------------------------------------------------------
Queue == [size : Int, ready : BOOLEAN, event_idx : BOOLEAN,
          addr : [Rings -> [high : Int, low : Int]]]

Shape == queues \in [Qs -> Queue]

(* No queue has EVENT_IDX set before features are settled. *)
NotYet ==
  "FEATURES_OK" \notin device_status /\ "DRIVER_OK" \notin device_status =>
    \A q \in Qs : ~queues[q].event_idx

StatusInv == Shape /\ NotYet /\ Negotiated

--------------------------------------------------------------------------------
(* A queue register changes neither the kind of a queue nor its EVENT_IDX. *)
LEMMA UpdateKeepsEventIdx ==
  ASSUME NEW new \in Queue, UpdateQueueField(new), Shape,
         new.event_idx = Selected.event_idx
  PROVE  Shape' /\ \A q \in Qs : queues'[q].event_idx = queues[q].event_idx
<1>1. queue_select \in Qs /\ queues' = [queues EXCEPT ![queue_select] = new]
  BY Zenon DEF UpdateQueueField
<1>2. Shape'
  BY <1>1, Zenon DEF Shape
<1>3. ASSUME NEW q \in Qs PROVE queues'[q].event_idx = queues[q].event_idx
  <2>1. CASE q = queue_select
    BY <1>1, <2>1, Zenon DEF Shape, Selected
  <2>2. CASE q # queue_select
    BY <1>1, <2>2, Zenon DEF Shape
  <2> QED
    BY <2>1, <2>2, Zenon
<1> QED
  BY <1>2, <1>3, Zenon

\* The setters of Queue leave a queue, with the same event_idx.
LEMMA SettersKeep ==
  ASSUME NEW q \in Queue
  PROVE  /\ \A v \in Words : SetSize(q, v) \in Queue /\ SetSize(q, v).event_idx = q.event_idx
         /\ \A v \in Int : SetReady(q, v) \in Queue /\ SetReady(q, v).event_idx = q.event_idx
         /\ \A ring \in Rings, low \in Lows :
              SetLow(q, ring, low) \in Queue /\ SetLow(q, ring, low).event_idx = q.event_idx
         /\ \A ring \in Rings, high \in Highs :
              SetHigh(q, ring, high) \in Queue /\ SetHigh(q, ring, high).event_idx = q.event_idx
<1>1. ASSUME NEW v \in Words
      PROVE  SetSize(q, v) \in Queue /\ SetSize(q, v).event_idx = q.event_idx
  <2>1. v % Mod16 \in Int
    BY SizeAssumption DEF Words
  <2>2. PICK n \in Int : n = v % Mod16
    BY <2>1, Zenon
  <2>3. SetSize(q, v) = q \/ SetSize(q, v) = [q EXCEPT !.size = n]
    BY <2>2, Zenon DEF SetSize
  <2> QED
    BY <2>3, Zenon DEF Queue
<1>2. ASSUME NEW v \in Int
      PROVE  SetReady(q, v) \in Queue /\ SetReady(q, v).event_idx = q.event_idx
  BY Zenon DEF SetReady, Queue
<1>3. ASSUME NEW ring \in Rings, NEW low \in Lows
      PROVE  SetLow(q, ring, low) \in Queue /\ SetLow(q, ring, low).event_idx = q.event_idx
  <2>1. low \in Int
    BY SizeAssumption
  <2>2. SetLow(q, ring, low) = q \/ SetLow(q, ring, low) = [q EXCEPT !.addr[ring].low = low]
    BY Zenon DEF SetLow
  <2> QED
    BY <2>1, <2>2 DEF Queue
<1>4. ASSUME NEW ring \in Rings, NEW high \in Highs
      PROVE  SetHigh(q, ring, high) \in Queue /\ SetHigh(q, ring, high).event_idx = q.event_idx
  BY SizeAssumption DEF SetHigh, Queue
<1> QED
  BY <1>1, <1>2, <1>3, <1>4, Zenon

(* Every action either leaves the queues alone, or is one of these. *)
WriteQueue ==
  \/ \E v \in Words : WriteQueueNum(v)
  \/ \E v \in 0..2 : WriteQueueReady(v)
  \/ \E ring \in Rings, low \in Lows : WriteQueueLow(ring, low)
  \/ \E ring \in Rings, high \in Highs : WriteQueueHigh(ring, high)

\* A write to a queue register, which happens only before DRIVER_OK.
LEMMA WriteQueueKeeps ==
  ASSUME WriteQueue, Shape
  PROVE  /\ Shape' /\ \A q \in Qs : queues'[q].event_idx = queues[q].event_idx
         /\ UNCHANGED <<device_status, driver_features, activations, config_space>>
         /\ "DRIVER_OK" \notin device_status /\ "FAILED" \notin device_status
<1>1. PICK new : UpdateQueueField(new) /\ (Selected \in Queue =>
                   new \in Queue /\ new.event_idx = Selected.event_idx)
  <2>1. CASE \E v \in Words : WriteQueueNum(v)
    BY <2>1, SettersKeep, Zenon DEF WriteQueueNum
  <2>2. CASE \E v \in 0..2 : WriteQueueReady(v)
    BY <2>2, SettersKeep DEF WriteQueueReady
  <2>3. CASE \E ring \in Rings, low \in Lows : WriteQueueLow(ring, low)
    BY <2>3, SettersKeep DEF WriteQueueLow
  <2>4. CASE \E ring \in Rings, high \in Highs : WriteQueueHigh(ring, high)
    BY <2>4, SettersKeep DEF WriteQueueHigh
  <2> QED
    BY <2>1, <2>2, <2>3, <2>4, Zenon DEF WriteQueue
<1>2. Selected \in Queue
  BY <1>1, Zenon DEF UpdateQueueField, Shape, Selected
<1>3. Shape' /\ \A q \in Qs : queues'[q].event_idx = queues[q].event_idx
  BY <1>1, <1>2, UpdateKeepsEventIdx, Zenon
<1>4. /\ UNCHANGED <<device_status, driver_features, activations, config_space>>
      /\ "DRIVER_OK" \notin device_status /\ "FAILED" \notin device_status
  BY <1>1 DEF UpdateQueueField, CheckDeviceStatus
<1> QED
  BY <1>3, <1>4, Zenon

(* The other register writes do not touch a status, a queue or a feature. *)
Other ==
  \/ \E page \in 0..2 : WriteFeaturesSelect(page)
  \/ \E v \in Words : WriteQueueSelect(v)
  \/ \E bit \in Interrupts : RaiseInterrupt(bit)
  \/ \E v \in SUBSET Interrupts : WriteInterruptAck(v)
  \/ \E offset \in 0..ConfigLen, data \in [1..2 -> Bytes] : WriteConfig(offset, data)

\* The other registers leave status, features and queues alone.
LEMMA OtherKeeps ==
  ASSUME Other
  PROVE  /\ UNCHANGED <<device_status, driver_features, queues, activations>>
         /\ "FAILED" \in device_status => UNCHANGED config_space
BY DEF Other, WriteFeaturesSelect, WriteQueueSelect, RaiseInterrupt, WriteInterruptAck,
       WriteConfig, CheckDeviceStatus

\* The registers, by what a write to them may change.
LEMMA NextCases ==
  ASSUME [MmioNext]_mmioVars
  PROVE  \/ WriteQueue \/ Other \/ UNCHANGED mmioVars
         \/ \E value \in SUBSET (Page0 \union Page1) : WriteDriverFeatures(value)
         \/ \E status \in SUBSET Bits : WriteStatus(status)
BY Zenon DEF MmioNext, WriteQueue, Other

--------------------------------------------------------------------------------
\* A device starts reset.
LEMMA StatusInvInit == MmioInit => StatusInv
<1> SUFFICES ASSUME MmioInit PROVE StatusInv
  BY Zenon
<1>1. NewQueue \in Queue
  BY SizeAssumption DEF NewQueue, Queue, Rings
<1>2. NewQueue.event_idx = FALSE
  BY Zenon DEF NewQueue
<1>3. queues = [q \in Qs |-> NewQueue] /\ device_status = {}
  BY Zenon DEF MmioInit
<1>4. Shape
  BY <1>1, <1>3, Zenon DEF Shape
<1>5. \A q \in Qs : queues[q].event_idx = FALSE
  BY <1>2, <1>3, Zenon
<1> QED
  BY <1>3, <1>4, <1>5, Zenon DEF StatusInv, NotYet, Negotiated

\* A write to the status register sets the bit that is next, or resets.
LEMMA StatusWrite ==
  ASSUME StatusInv, NEW status \in SUBSET Bits, WriteStatus(status)
  PROVE  StatusInv'
<1> USE DEF StatusInv
<1>1. CASE AckAcknowledge(status)
  <2>1. device_status' = {"ACKNOWLEDGE"} /\ device_status = {} /\ UNCHANGED queues
    BY <1>1, Zenon DEF AckAcknowledge, Accept
  <2> QED
    BY <2>1, Zenon DEF Shape, NotYet, Negotiated
<1>2. CASE AckDriver(status)
  <2>1. /\ "FEATURES_OK" \notin device_status' /\ device_status = {"ACKNOWLEDGE"}
        /\ UNCHANGED queues
    BY <1>2 DEF AckDriver, Accept
  <2> QED
    BY <2>1, Zenon DEF Shape, NotYet, Negotiated
<1>3. CASE AckFeaturesOk(status)
  <2>1. /\ device_status = {"ACKNOWLEDGE", "DRIVER"} /\ "FEATURES_OK" \in device_status'
        /\ driver_features \subseteq Offered /\ UNCHANGED driver_features
        /\ queues' = [q \in Qs |->
                        IF EventIdx \in driver_features
                        THEN [queues[q] EXCEPT !.event_idx = TRUE] ELSE queues[q]]
    BY <1>3, Zenon DEF AckFeaturesOk, Accept
  <2>2. \A q \in Qs : ~queues[q].event_idx
    BY <2>1, Zenon DEF NotYet
  <2>3. Shape'
    BY <2>1, Zenon DEF Shape, Queue
  <2>4. CASE EventIdx \in driver_features
    <3>1. \A q \in Qs : queues'[q] = [queues[q] EXCEPT !.event_idx = TRUE]
      BY <2>1, <2>4, Zenon
    <3>2. \A q \in Qs : queues'[q].event_idx = TRUE
      BY <3>1, Zenon DEF Shape, Queue
    <3> QED
      BY <2>1, <2>3, <2>4, <3>2, Zenon DEF NotYet, Negotiated
  <2>5. CASE EventIdx \notin driver_features
    <3>1. \A q \in Qs : queues'[q] = queues[q]
      BY <2>1, <2>5, Zenon
    <3> QED
      BY <2>1, <2>2, <2>3, <2>5, <3>1, Zenon DEF NotYet, Negotiated
  <2> QED
    BY <2>4, <2>5, Zenon
<1>4. CASE AckDriverOk(status)
  <2>1. /\ "DRIVER_OK" \in device_status' /\ "FEATURES_OK" \in device_status
        /\ UNCHANGED <<queues, driver_features>>
    BY <1>4, Zenon DEF AckDriverOk, Accept
  <2> QED
    BY <2>1, Zenon DEF Shape, NotYet, Negotiated
<1>5. CASE AckFailed(status)
  <2>1. /\ device_status' = device_status \union {"FAILED"}
        /\ UNCHANGED <<queues, driver_features>>
    BY <1>5, Zenon DEF AckFailed
  <2> QED
    BY <2>1, Zenon DEF Shape, NotYet, Negotiated
<1>6. CASE AckReset(status)
  <2>1. NewQueue \in Queue
    BY SizeAssumption DEF NewQueue, Queue, Rings
  <2>2. NewQueue.event_idx = FALSE
    BY Zenon DEF NewQueue
  <2>3. queues' = [q \in Qs |-> NewQueue] /\ device_status' = {}
    BY <1>6, Zenon DEF AckReset
  <2>4. Shape'
    BY <2>1, <2>3, Zenon DEF Shape
  <2>5. \A q \in Qs : queues'[q].event_idx = FALSE
    BY <2>2, <2>3, Zenon
  <2> QED
    BY <2>3, <2>4, <2>5, Zenon DEF NotYet, Negotiated
<1> QED
  BY <1>1, <1>2, <1>3, <1>4, <1>5, <1>6, Zenon DEF WriteStatus

\* The status follows the order of the specification.
LEMMA StatusInvHolds == MmioSpec => []StatusInv
<1>1. StatusInv /\ [MmioNext]_mmioVars => StatusInv'
  <2> SUFFICES ASSUME StatusInv, [MmioNext]_mmioVars PROVE StatusInv'
    BY Zenon
  <2>1. CASE WriteQueue
    BY <2>1, WriteQueueKeeps, Zenon DEF StatusInv, NotYet, Negotiated
  <2>2. CASE Other
    BY <2>2, OtherKeeps, Zenon DEF StatusInv, Shape, NotYet, Negotiated
  <2>3. CASE UNCHANGED mmioVars
    BY <2>3, Zenon DEF mmioVars, StatusInv, Shape, NotYet, Negotiated
  <2>4. ASSUME NEW value \in SUBSET (Page0 \union Page1), WriteDriverFeatures(value)
        PROVE  StatusInv'
    BY <2>4 DEF WriteDriverFeatures, CheckDeviceStatus, StatusInv, Shape, NotYet, Negotiated
  <2>5. ASSUME NEW status \in SUBSET Bits, WriteStatus(status)
        PROVE  StatusInv'
    BY <2>5, StatusWrite, Zenon
  <2> QED
    BY <2>1, <2>2, <2>3, <2>4, <2>5, NextCases, Zenon
<1> QED
  BY <1>1, StatusInvInit, PTL DEF MmioSpec

(* Whatever statuses a driver writes, FEATURES_OK stands for features that    *)
(* were offered and for queues that agree on EVENT_IDX.                       *)
THEOREM NegotiatedHolds == MmioSpec => []Negotiated
<1>1. StatusInv => Negotiated
  BY Zenon DEF StatusInv
<1> QED
  BY <1>1, StatusInvHolds, PTL

--------------------------------------------------------------------------------
(* Whatever statuses a driver writes, activate() succeeds at most once        *)
(* between two resets.                                                        *)
THEOREM ActivatedOnceHolds == MmioSpec => []ActivatedOnce
<1>1. MmioInit => ActivatedOnce
  BY Zenon DEF MmioInit, ActivatedOnce
<1>2. Shape /\ ActivatedOnce /\ [MmioNext]_mmioVars => ActivatedOnce'
  <2> SUFFICES ASSUME Shape, ActivatedOnce, [MmioNext]_mmioVars PROVE ActivatedOnce'
    BY Zenon
  <2>1. CASE WriteQueue
    BY <2>1, WriteQueueKeeps, Zenon DEF ActivatedOnce
  <2>2. CASE Other
    BY <2>2, OtherKeeps, Zenon DEF ActivatedOnce
  <2>3. CASE UNCHANGED mmioVars
    BY <2>3, Zenon DEF mmioVars, ActivatedOnce
  <2>4. ASSUME NEW value \in SUBSET (Page0 \union Page1), WriteDriverFeatures(value)
        PROVE  ActivatedOnce'
    BY <2>4, Zenon DEF WriteDriverFeatures, ActivatedOnce
  <2>5. ASSUME NEW status \in SUBSET Bits, WriteStatus(status)
        PROVE  ActivatedOnce'
    <3>1. CASE AckAcknowledge(status) \/ AckDriver(status) \/ AckFeaturesOk(status)
      BY <3>1 DEF AckAcknowledge, AckDriver, AckFeaturesOk, Accept, ActivatedOnce
    <3>2. CASE AckDriverOk(status)
      BY <3>2 DEF AckDriverOk, Accept, ActivatedOnce
    <3>3. CASE AckFailed(status)
      BY <3>3, Zenon DEF AckFailed, ActivatedOnce
    <3>4. CASE AckReset(status)
      BY <3>4, Zenon DEF AckReset, ActivatedOnce
    <3> QED
      BY <2>5, <3>1, <3>2, <3>3, <3>4, Zenon DEF WriteStatus
  <2> QED
    BY <2>1, <2>2, <2>3, <2>4, <2>5, NextCases, Zenon
<1>3. StatusInv => Shape
  BY Zenon DEF StatusInv
<1> QED
  BY <1>1, <1>2, <1>3, StatusInvHolds, PTL DEF MmioSpec

(* No register write changes a queue while DRIVER_OK stays set, for drivers   *)
(* that drop status bits as well.                                             *)
THEOREM QueuesFrozenHolds == MmioSpec => QueuesFrozen
<1>1. Shape /\ [MmioNext]_mmioVars =>
        ["DRIVER_OK" \in device_status /\ "DRIVER_OK" \in device_status'
           => UNCHANGED queues]_mmioVars
  <2> SUFFICES ASSUME Shape, [MmioNext]_mmioVars, "DRIVER_OK" \in device_status,
                      "DRIVER_OK" \in device_status'
               PROVE  UNCHANGED queues
    BY Zenon
  <2>1. CASE WriteQueue
    BY <2>1, WriteQueueKeeps, Zenon
  <2>2. CASE Other
    BY <2>2, OtherKeeps, Zenon
  <2>3. CASE UNCHANGED mmioVars
    BY <2>3, Zenon DEF mmioVars
  <2>4. ASSUME NEW value \in SUBSET (Page0 \union Page1), WriteDriverFeatures(value)
        PROVE  UNCHANGED queues
    BY <2>4, Zenon DEF WriteDriverFeatures
  <2>5. ASSUME NEW status \in SUBSET Bits, WriteStatus(status)
        PROVE  UNCHANGED queues
    BY <2>5 DEF WriteStatus, AckAcknowledge, AckDriver, AckFeaturesOk, AckDriverOk,
                AckFailed, AckReset
  <2> QED
    BY <2>1, <2>2, <2>3, <2>4, <2>5, NextCases, Zenon
<1>2. StatusInv => Shape
  BY Zenon DEF StatusInv
<1> QED
  BY <1>1, <1>2, StatusInvHolds, PTL DEF MmioSpec, QueuesFrozen

--------------------------------------------------------------------------------
(* Once FAILED is set only a reset changes the status, the features, a queue  *)
(* or the configuration space, for drivers that drop status bits as well: no  *)
(* arm of ack_device_status that stores the written value matches then.       *)
THEOREM FailedIsFinalHolds == MmioSpec => FailedIsFinal
<1>1. Shape /\ [MmioNext]_mmioVars =>
        ["FAILED" \in device_status /\ device_status' # {}
           => /\ device_status' = device_status
              /\ UNCHANGED <<driver_features, queues, config_space>>]_mmioVars
  <2> DEFINE Kept == /\ device_status' = device_status
                     /\ UNCHANGED <<driver_features, queues, config_space>>
  <2> SUFFICES ASSUME Shape, [MmioNext]_mmioVars, "FAILED" \in device_status, device_status' # {}
               PROVE  Kept
    BY Zenon
  <2>1. CASE WriteQueue
    BY <2>1, WriteQueueKeeps, Zenon
  <2>2. CASE Other
    BY <2>2, OtherKeeps, Zenon
  <2>3. CASE UNCHANGED mmioVars
    BY <2>3, Zenon DEF mmioVars
  <2>4. ASSUME NEW value \in SUBSET (Page0 \union Page1), WriteDriverFeatures(value)
        PROVE  Kept
    BY <2>4 DEF WriteDriverFeatures, CheckDeviceStatus
  <2>5. ASSUME NEW status \in SUBSET Bits, WriteStatus(status)
        PROVE  Kept
    <3>1. ~(AckAcknowledge(status) \/ AckDriver(status) \/ AckFeaturesOk(status)
              \/ AckDriverOk(status) \/ AckReset(status))
      BY DEF AckAcknowledge, AckDriver, AckFeaturesOk, AckDriverOk, AckReset
    <3> QED
      BY <2>5, <3>1, Zenon DEF WriteStatus, AckFailed
  <2> QED
    BY <2>1, <2>2, <2>3, <2>4, <2>5, NextCases, Zenon
<1>2. StatusInv => Shape
  BY Zenon DEF StatusInv
<1> QED
  BY <1>1, <1>2, StatusInvHolds, PTL DEF MmioSpec, FailedIsFinal

--------------------------------------------------------------------------------
(* With a driver that clears no single bit, DRIVER_OK implies FEATURES_OK. *)
BitsInOrder == "DRIVER_OK" \in device_status => "FEATURES_OK" \in device_status

(* With such a driver the acknowledged features are settled for good once     *)
(* the device is activated.                                                   *)
THEOREM FeaturesFrozenHolds ==
  ASSUME ~DropBits
  PROVE  MmioSpec => FeaturesFrozen
<1>1. MmioInit => BitsInOrder
  BY Zenon DEF MmioInit, BitsInOrder
<1>2. Shape /\ BitsInOrder /\ [MmioNext]_mmioVars => BitsInOrder'
  <2> SUFFICES ASSUME Shape, BitsInOrder, [MmioNext]_mmioVars PROVE BitsInOrder'
    BY Zenon
  <2>1. CASE WriteQueue
    BY <2>1, WriteQueueKeeps, Zenon DEF BitsInOrder
  <2>2. CASE Other
    BY <2>2, OtherKeeps, Zenon DEF BitsInOrder
  <2>3. CASE UNCHANGED mmioVars
    BY <2>3, Zenon DEF mmioVars, BitsInOrder
  <2>4. ASSUME NEW value \in SUBSET (Page0 \union Page1), WriteDriverFeatures(value)
        PROVE  BitsInOrder'
    BY <2>4, Zenon DEF WriteDriverFeatures, BitsInOrder
  <2>5. ASSUME NEW status \in SUBSET Bits, WriteStatus(status)
        PROVE  BitsInOrder'
    <3>1. status = {} \/ device_status \subseteq status
      BY <2>5, Zenon DEF WriteStatus
    <3>2. \/ device_status' = {} \/ device_status' = device_status \union {"FAILED"}
          \/ /\ device_status' = status
             /\ \/ "DRIVER_OK" \notin status
                \/ "FEATURES_OK" \in device_status /\ "DRIVER_OK" \in status
      BY <2>5 DEF WriteStatus, AckAcknowledge, AckDriver, AckFeaturesOk, AckDriverOk,
                  AckFailed, AckReset, Accept
    <3> QED
      BY <3>1, <3>2 DEF BitsInOrder
  <2> QED
    BY <2>1, <2>2, <2>3, <2>4, <2>5, NextCases, Zenon
<1>3. Shape /\ BitsInOrder /\ [MmioNext]_mmioVars =>
        ["DRIVER_OK" \in device_status /\ "DRIVER_OK" \in device_status'
           => UNCHANGED driver_features]_mmioVars
  <2> SUFFICES ASSUME Shape, BitsInOrder, [MmioNext]_mmioVars, "DRIVER_OK" \in device_status,
                      "DRIVER_OK" \in device_status'
               PROVE  UNCHANGED driver_features
    BY Zenon
  <2>1. CASE WriteQueue
    BY <2>1, WriteQueueKeeps, Zenon
  <2>2. CASE Other
    BY <2>2, OtherKeeps, Zenon
  <2>3. CASE UNCHANGED mmioVars
    BY <2>3, Zenon DEF mmioVars
  <2>4. ASSUME NEW value \in SUBSET (Page0 \union Page1), WriteDriverFeatures(value)
        PROVE  UNCHANGED driver_features
    BY <2>4 DEF WriteDriverFeatures, CheckDeviceStatus, BitsInOrder
  <2>5. ASSUME NEW status \in SUBSET Bits, WriteStatus(status)
        PROVE  UNCHANGED driver_features
    BY <2>5, Zenon DEF WriteStatus, AckAcknowledge, AckDriver, AckFeaturesOk, AckDriverOk,
                AckFailed, AckReset, Accept
  <2> QED
    BY <2>1, <2>2, <2>3, <2>4, <2>5, NextCases, Zenon
<1>4. StatusInv => Shape
  BY Zenon DEF StatusInv
<1> QED
  BY <1>1, <1>2, <1>3, <1>4, StatusInvHolds, PTL DEF MmioSpec, FeaturesFrozen

====
