---------------------------- MODULE VmMemoryProofs ----------------------------
(***************************************************************************)
(* Theorems about vm-memory, for any regions, mappings, threads and sizes. *)
(* A map that threads update while others use it loses no update, and the  *)
(* slices of an access under translation follow one snapshot of the map    *)
(* and one translation.                                                    *)
(***************************************************************************)
EXTENDS IommuMemory, WellFoundedInduction, TLAPS

(***************************************************************************)
(* Numbers.                                                                *)
(***************************************************************************)
\* A nonempty set of natural numbers has a least element.
LEMMA LeastOf ==
    ASSUME NEW T \in SUBSET Nat, T # {}
    PROVE  \E m \in T : \A n \in T : m <= n
<1> DEFINE R == {ss \in Nat \X Nat : ss[1] < ss[2]}
<1>1. OpToRel(<, Nat) = R
  BY Zenon DEF OpToRel
<1>2. IsWellFoundedOn(R, Nat)
  BY <1>1, NatLessThanWellFounded, Zenon
<1> HIDE DEF R
<1>3. PICK m \in T : \A n \in T : ~(<<n, m>> \in R)
  BY <1>2, WFMin, Zenon
<1>4. ASSUME NEW n \in T, n < m
      PROVE  FALSE
  BY <1>3, <1>4, Zenon DEF R
<1> QED
  BY <1>4

\* What Min gives.
LEMMA MinIs ==
    ASSUME NEW T \in SUBSET Nat, T # {}
    PROVE  Min(T) \in T /\ \A n \in T : Min(T) <= n
<1>1. \E m \in T : \A n \in T : m <= n
  BY LeastOf, Zenon
<1> QED
  BY <1>1, Zenon DEF Min

\* A number is a multiple and its remainder.
LEMMA Euclid ==
    ASSUME NEW T \in Nat \ {0}, NEW x \in Int
    PROVE  \E p \in Int, y \in 0 .. T - 1 : y = x % T /\ x = T * p + y
<1>1. x % T \in 0 .. T - 1
  OBVIOUS
<1>2. x \div T \in Int
  OBVIOUS
<1>3. x = T * (x \div T) + (x % T)
  OBVIOUS
<1> QED
  BY <1>1, <1>2, <1>3, Zenon

\* The remainder is the only one in range.
LEMMA RemainderIs ==
    ASSUME NEW T \in Nat \ {0}, NEW x \in Int, NEW q \in Int, NEW r \in 0 .. T - 1, x = T * q + r
    PROVE  x % T = r
<1>1. PICK p \in Int, y \in 0 .. T - 1 : y = x % T /\ x = T * p + y
  BY Euclid, Zenon
<1>2. CASE p < q
  <2>1. PICK k \in Nat : q = p + 1 + k
    BY <1>2, q - p - 1 \in Nat
  <2>2. T * q = T * p + T + T * k /\ T * k >= 0
    BY <2>1
  <2> QED
    BY <1>1, <2>2
<1>3. CASE q < p
  <2>1. PICK k \in Nat : p = q + 1 + k
    BY <1>3, p - q - 1 \in Nat
  <2>2. T * p = T * q + T + T * k /\ T * k >= 0
    BY <2>1
  <2> QED
    BY <1>1, <2>2
<1> QED
  BY <1>1, <1>2, <1>3

\* A number below the modulus is its own remainder.
LEMMA RemainderSmall ==
    ASSUME NEW T \in Nat \ {0}, NEW x \in Nat, x < T
    PROVE  x % T = x
<1>1. x = T * 0 + x /\ x \in 0 .. T - 1
  OBVIOUS
<1> QED
  BY <1>1, RemainderIs

\* Sums modulo T may be reduced on the way.
LEMMA RemainderOfSum ==
    ASSUME NEW T \in Nat \ {0}, NEW x \in Int, NEW j \in Int
    PROVE  ((x % T) + j) % T = (x + j) % T
<1>1. PICK p \in Int, y \in 0 .. T - 1 : y = x % T /\ x = T * p + y
  BY Euclid, Zenon
<1>2. PICK q \in Int, z \in 0 .. T - 1 : z = (y + j) % T /\ y + j = T * q + z
  <2>1. y + j \in Int
    OBVIOUS
  <2> QED
    BY <2>1, Euclid, Zenon
<1>3. T * (p + q) = T * p + T * q /\ p + q \in Int
  OBVIOUS
<1>4. x + j = T * (p + q) + z /\ x + j \in Int
  <2>1. x = T * p + y /\ y + j = T * q + z
    BY <1>1, <1>2, Zenon
  <2>2. T * p \in Int /\ T * q \in Int
    OBVIOUS
  <2> QED
    BY <1>3, <2>1, <2>2
<1>5. (x + j) % T = z
  BY <1>3, <1>4, RemainderIs, Zenon
<1> QED
  BY <1>1, <1>2, <1>5, Zenon

\* A set of indices that holds with each index those before it is a prefix.
LEMMA PrefixIs ==
    ASSUME NEW n \in Nat, NEW S \in SUBSET (1 .. n),
           \A i \in S : \A j \in 1 .. n : j < i => j \in S
    PROVE  \E b \in 0 .. n : S = 1 .. b /\ Max({0} \cup S) = b
<1> DEFINE T == {j \in 1 .. n + 1 : j \notin S}
<1>1. n + 1 \in T /\ T \in SUBSET Nat
  OBVIOUS
<1>2. PICK m \in T : \A j \in T : m <= j
  BY <1>1, LeastOf, Zenon
<1>3. m \in 1 .. n + 1 /\ m \notin S
  BY <1>2, Zenon
<1>4. PICK b \in 0 .. n : m = b + 1
  BY <1>3
<1>5. ASSUME NEW i \in 1 .. b
      PROVE  i \in S
  BY <1>2, <1>3, <1>4
<1>6. ASSUME NEW i \in S
      PROVE  i \in 1 .. b
  <2>1. i \in 1 .. n
    BY Zenon
  <2>2. ~(b + 1 < i)
    BY <1>3, <1>4, <2>1
  <2> QED
    BY <1>3, <1>4, <2>1, <2>2
<1>7. S = 1 .. b
  BY <1>5, <1>6, Zenon
<1>8. Max({0} \cup 1 .. b) = b
  <2> DEFINE T0 == {0} \cup 1 .. b
  <2>1. \E x \in T0 : \A y \in T0 : x >= y
    <3>1. b \in T0 /\ \A y \in T0 : b >= y
      OBVIOUS
    <3> QED
      BY <3>1, Zenon
  <2>2. Max(T0) \in T0 /\ \A y \in T0 : Max(T0) >= y
    BY <2>1, Zenon DEF Max
  <2> HIDE DEF T0
  <2>3. b \in T0 /\ \A y \in T0 : y \in Nat /\ y <= b
    BY DEF T0
  <2>4. PICK x : x = Max(T0)
    BY Zenon
  <2>5. x \in T0 /\ b \in T0 /\ x >= b
    BY <2>2, <2>3, <2>4, Zenon
  <2>6. x \in Nat /\ x <= b
    BY <2>3, <2>5, Zenon
  <2>7. x = b
    BY ONLY <2>5, <2>6, b \in 0 .. n, n \in Nat
  <2> QED
    BY <2>4, <2>7, Zenon DEF T0
<1> QED
  BY <1>7, <1>8, Zenon

(***************************************************************************)
(* Collections of regions.                                                 *)
(***************************************************************************)
\* Regions in the order of their addresses, without overlap.
Apart(s) == \A i, j \in DOMAIN s : i < j => LastAddr(s[i]) < s[j].start

\* A region has a last address, below the top of the address space.
LEMMA RegionIs ==
    ASSUME NEW r \in Regions
    PROVE  /\ r.start \in Nat /\ LastAddr(r) \in Nat
           /\ r.start <= LastAddr(r) /\ LastAddr(r) + 1 < Top
<1>1. r.start \in Nat /\ r.len \in Nat /\ r.len > 0 /\ r.start + r.len < Top /\ Top \in Nat
  BY MapAssumption, Zenon DEF Regions
<1> QED
  BY <1>1 DEF LastAddr

\* The starts of such regions grow, and none is there twice.
LEMMA StartsGrow ==
    ASSUME NEW s \in Seq(Regions), Apart(s), NEW i \in DOMAIN s, NEW j \in DOMAIN s, i < j
    PROVE  s[i].start < s[j].start /\ s[i] # s[j]
<1>1. s[i] \in Regions /\ s[j] \in Regions
  OBVIOUS
<1>2. /\ s[i].start \in Nat /\ LastAddr(s[i]) \in Nat /\ s[i].start <= LastAddr(s[i])
      /\ s[j].start \in Nat
  BY <1>1, RegionIs, Zenon
<1>3. LastAddr(s[i]) < s[j].start
  BY Zenon DEF Apart
<1> QED
  BY <1>2, <1>3

\* Where the elements of a sequence are once r has been put behind the k-th.
PutAt(s, k, r, t) == t = SubSeq(s, 1, k) \o <<r>> \o SubSeq(s, k + 1, Len(s))

\* A list with one element put in after the first k.
LEMMA PutIs ==
    ASSUME NEW X, NEW s \in Seq(X), NEW r \in X, NEW k \in 0 .. Len(s), NEW t, PutAt(s, k, r, t)
    PROVE  /\ t \in Seq(X) /\ Len(t) = Len(s) + 1
           /\ \A i \in 1 .. k : t[i] = s[i]
           /\ t[k + 1] = r
           /\ \A i \in k + 1 .. Len(s) : t[i + 1] = s[i]
<1>1. PICK p \in Seq(X) : p = SubSeq(s, 1, k)
  <2>1. SubSeq(s, 1, k) \in Seq(X)
    OBVIOUS
  <2> QED
    BY <2>1, Zenon
<1>2. Len(p) = k /\ \A i \in 1 .. k : p[i] = s[i]
  BY <1>1
<1>3. PICK q \in Seq(X) : q = SubSeq(s, k + 1, Len(s))
  <2>1. SubSeq(s, k + 1, Len(s)) \in Seq(X)
    OBVIOUS
  <2> QED
    BY <2>1, Zenon
<1>4. Len(q) = Len(s) - k /\ \A i \in 1 .. Len(s) - k : q[i] = s[k + i]
  BY <1>3
<1>5. PICK o \in Seq(X) : o = <<r>>
  <2>1. <<r>> \in Seq(X)
    OBVIOUS
  <2> QED
    BY <2>1, Zenon
<1>6. Len(o) = 1 /\ o[1] = r
  BY <1>5, Zenon
<1>7. PICK m \in Seq(X) : m = p \o o
  <2>1. p \o o \in Seq(X)
    OBVIOUS
  <2> QED
    BY <2>1, Zenon
<1>8. m \in Seq(X) /\ Len(m) = k + 1 /\ m[k + 1] = r /\ \A i \in 1 .. k : m[i] = s[i]
  <2>1. Len(m) = Len(p) + Len(o) /\ Len(p) \in Nat
    BY <1>7
  <2>2. \A i \in 1 .. Len(p) : m[i] = p[i]
    BY <1>7
  <2>3. \A i \in 1 .. Len(o) : m[Len(p) + i] = o[i]
    BY <1>7
  <2> QED
    BY <1>2, <1>6, <2>1, <2>2, <2>3
<1>9. t = m \o q
  BY <1>1, <1>3, <1>5, <1>7, Zenon DEF PutAt
<1>10. /\ t \in Seq(X) /\ Len(t) = Len(m) + Len(q)
       /\ \A i \in 1 .. Len(m) : t[i] = m[i]
       /\ \A i \in 1 .. Len(q) : t[Len(m) + i] = q[i]
  <2>1. t \in Seq(X) /\ Len(t) = Len(m) + Len(q)
    BY <1>9
  <2>2. \A i \in 1 .. Len(m) : t[i] = m[i]
    BY <1>9
  <2>3. \A i \in 1 .. Len(q) : t[Len(m) + i] = q[i]
    BY <1>9
  <2> QED
    BY <2>1, <2>2, <2>3, Zenon
<1>11. ASSUME NEW i \in k + 1 .. Len(s)
       PROVE  t[i + 1] = s[i]
  <2>1. PICK j \in 1 .. Len(s) - k : i = k + j
    BY i - k \in 1 .. Len(s) - k
  <2>2. t[Len(m) + j] = q[j] /\ q[j] = s[k + j]
    BY <1>4, <1>10, Zenon
  <2> QED
    BY <1>8, <2>1, <2>2
<1> QED
  BY <1>4, <1>8, <1>10, <1>11, SMTT(30)

\* And once the k-th has been taken away.
TakenAt(s, k, t) == t = SubSeq(s, 1, k - 1) \o SubSeq(s, k + 1, Len(s))

\* A list without its element k.
LEMMA TakenIs ==
    ASSUME NEW X, NEW s \in Seq(X), NEW k \in 1 .. Len(s), NEW t, TakenAt(s, k, t)
    PROVE  /\ t \in Seq(X) /\ Len(t) = Len(s) - 1
           /\ \A i \in 1 .. k - 1 : t[i] = s[i]
           /\ \A i \in k .. Len(s) - 1 : t[i] = s[i + 1]
<1>1. PICK p \in Seq(X) : p = SubSeq(s, 1, k - 1)
  <2>1. SubSeq(s, 1, k - 1) \in Seq(X)
    OBVIOUS
  <2> QED
    BY <2>1, Zenon
<1>2. Len(p) = k - 1 /\ \A i \in 1 .. k - 1 : p[i] = s[i]
  BY <1>1
<1>3. PICK q \in Seq(X) : q = SubSeq(s, k + 1, Len(s))
  <2>1. SubSeq(s, k + 1, Len(s)) \in Seq(X)
    OBVIOUS
  <2> QED
    BY <2>1, Zenon
<1>4. Len(q) = Len(s) - k /\ \A i \in 1 .. Len(s) - k : q[i] = s[k + i]
  BY <1>3
<1>5. t = p \o q
  BY <1>1, <1>3, Zenon DEF TakenAt
<1>6. /\ t \in Seq(X) /\ Len(t) = Len(p) + Len(q)
      /\ \A i \in 1 .. Len(p) : t[i] = p[i]
      /\ \A i \in 1 .. Len(q) : t[Len(p) + i] = q[i]
  BY <1>5
<1>7. ASSUME NEW i \in k .. Len(s) - 1
      PROVE  t[i] = s[i + 1]
  <2>1. PICK j \in 1 .. Len(s) - k : i + 1 = k + j
    BY i + 1 - k \in 1 .. Len(s) - k
  <2>2. t[Len(p) + j] = q[j] /\ q[j] = s[k + j] /\ Len(p) + j = i
    BY <1>2, <1>4, <1>6, <2>1
  <2> QED
    BY <2>1, <2>2, Zenon
<1> QED
  BY <1>2, <1>4, <1>6, <1>7

\* insert_region: what from_arc_regions accepts, looking at neighbours only,
\* is apart everywhere.
LEMMA InsertedIs ==
    ASSUME NEW s \in Seq(Regions), Apart(s), NEW r \in Regions,
           NEW t, t = InsertRegion(s, r), FromArcRegions(t)
    PROVE  t \in Seq(Regions) /\ Apart(t) /\ Range(t) = Range(s) \cup {r}
<1>1. DOMAIN s = 1 .. Len(s) /\ Len(s) \in Nat
  OBVIOUS
<1>2. PICK k \in 0 .. Len(s) : k = Max({0} \cup {i \in DOMAIN s : s[i].start <= r.start})
  <2> DEFINE S == {i \in DOMAIN s : s[i].start <= r.start}
  <2>1. ASSUME NEW i \in S, NEW j \in 1 .. Len(s), j < i
        PROVE  j \in S
    <3>1. s[j].start < s[i].start /\ s[i].start <= r.start
      BY <1>1, <2>1, StartsGrow, Zenon
    <3>2. j \in DOMAIN s /\ i \in DOMAIN s
      BY <1>1, Zenon
    <3>3. s[j] \in Regions /\ s[i] \in Regions
      BY <3>2
    <3>4. s[j].start \in Nat /\ s[i].start \in Nat /\ r.start \in Nat
      BY <3>3, RegionIs, Zenon
    <3>5. s[j].start <= r.start
      BY ONLY <3>1, <3>4
    <3> QED
      BY <3>2, <3>5, Zenon
  <2>2. S \in SUBSET (1 .. Len(s))
    BY <1>1, Zenon
  <2> HIDE DEF S
  <2>3. \E b \in 0 .. Len(s) : S = 1 .. b /\ Max({0} \cup S) = b
    BY <1>1, <2>1, <2>2, PrefixIs, Zenon
  <2> QED
    BY <2>3, Zenon DEF S
<1>3. PutAt(s, k, r, t)
  BY <1>2, Zenon DEF PutAt, InsertRegion
<1>4. /\ t \in Seq(Regions) /\ Len(t) = Len(s) + 1
      /\ \A i \in 1 .. k : t[i] = s[i]
      /\ t[k + 1] = r
      /\ \A i \in k + 1 .. Len(s) : t[i + 1] = s[i]
  BY <1>3, PutIs
<1>5. ASSUME NEW i \in 1 .. Len(t) - 1
      PROVE  LastAddr(t[i]) < t[i + 1].start
  BY Zenon DEF FromArcRegions
<1>6. \A i \in 1 .. Len(s) : s[i] \in Regions
  BY <1>1
<1>7. ASSUME NEW i \in 1 .. k
      PROVE  LastAddr(s[i]) < r.start
  <2>1. k \in 1 .. Len(t) - 1 /\ k \in 1 .. Len(s) /\ i \in 1 .. Len(s)
    BY <1>1, <1>4
  <2>2. LastAddr(s[k]) < r.start
    BY <1>4, <1>5, <2>1
  <2>3. CASE i = k
    BY <2>2, <2>3, Zenon
  <2>4. CASE i < k
    <3>1. LastAddr(s[i]) < s[k].start
      BY <1>1, <2>1, <2>4, Zenon DEF Apart
    <3>2. /\ s[k].start \in Nat /\ LastAddr(s[k]) \in Nat /\ s[k].start <= LastAddr(s[k])
          /\ LastAddr(s[i]) \in Nat /\ r.start \in Nat
      BY <1>6, <2>1, RegionIs, Zenon
    <3> QED
      BY <2>2, <3>1, <3>2
  <2> QED
    BY <2>1, <2>3, <2>4
<1>8. ASSUME NEW j \in k + 1 .. Len(s)
      PROVE  LastAddr(r) < s[j].start
  <2>1. k + 1 \in 1 .. Len(t) - 1 /\ k + 1 \in k + 1 .. Len(s) /\ k + 1 \in 1 .. Len(s) /\ j \in 1 .. Len(s)
    BY <1>1, <1>4
  <2>2. LastAddr(r) < s[k + 1].start
    <3>1. t[(k + 1) + 1] = s[k + 1]
      BY <1>4, <2>1, Zenon
    <3>2. LastAddr(t[k + 1]) < t[(k + 1) + 1].start
      BY <1>5, <2>1, Zenon
    <3> QED
      BY <1>4, <3>1, <3>2, Zenon
  <2>3. CASE j = k + 1
    BY <2>2, <2>3, Zenon
  <2>4. CASE k + 1 < j
    <3>1. LastAddr(s[k + 1]) < s[j].start
      BY <1>1, <2>1, <2>4, Zenon DEF Apart
    <3>2. /\ s[k + 1].start \in Nat /\ LastAddr(s[k + 1]) \in Nat
          /\ s[k + 1].start <= LastAddr(s[k + 1])
          /\ LastAddr(r) \in Nat /\ s[j].start \in Nat
      BY <1>6, <2>1, RegionIs, Zenon
    <3> QED
      BY <2>2, <3>1, <3>2
  <2> QED
    BY <2>3, <2>4
<1>9. ASSUME NEW i \in 1 .. Len(s) + 1
      PROVE  \/ i \in 1 .. k
             \/ i = k + 1
             \/ \E j \in k + 1 .. Len(s) : i = j + 1
  <2>1. CASE i > k + 1
    BY <2>1, <1>1, i - 1 \in k + 1 .. Len(s)
  <2> QED
    BY <1>1, <2>1
<1>10. Apart(t)
  <2>1. SUFFICES ASSUME NEW i \in 1 .. Len(s) + 1, NEW j \in 1 .. Len(s) + 1, i < j
                 PROVE  LastAddr(t[i]) < t[j].start
    BY <1>4 DEF Apart
  <2>2. CASE i \in 1 .. k /\ j \in 1 .. k
    BY <1>1, <1>4, <2>1, <2>2, SMTT(30) DEF Apart
  <2>3. CASE i \in 1 .. k /\ j = k + 1
    BY <1>4, <1>7, <2>3, Zenon
  <2>4. ASSUME i \in 1 .. k, NEW m \in k + 1 .. Len(s), j = m + 1
        PROVE  LastAddr(t[i]) < t[j].start
    <3>1. i \in DOMAIN s /\ m \in DOMAIN s /\ i < m
      BY <1>1, <2>4
    <3> QED
      BY <1>4, <2>4, <3>1, Zenon DEF Apart
  <2>5. ASSUME i = k + 1, NEW m \in k + 1 .. Len(s), j = m + 1
        PROVE  LastAddr(t[i]) < t[j].start
    BY <1>4, <1>8, <2>5, Zenon
  <2>6. ASSUME NEW l \in k + 1 .. Len(s), i = l + 1, NEW m \in k + 1 .. Len(s), j = m + 1
        PROVE  LastAddr(t[i]) < t[j].start
    <3>1. l \in DOMAIN s /\ m \in DOMAIN s /\ l < m
      BY <1>1, <2>1, <2>6
    <3> QED
      BY <1>4, <2>6, <3>1, Zenon DEF Apart
  <2> QED
    BY <1>9, <2>1, <2>2, <2>3, <2>4, <2>5, <2>6
<1>11. Range(t) = Range(s) \cup {r}
  <2>1. DOMAIN t = 1 .. Len(s) + 1
    BY <1>4
  <2>2. ASSUME NEW x \in Range(t)
        PROVE  x \in Range(s) \cup {r}
    <3>1. PICK i \in 1 .. Len(s) + 1 : x = t[i]
      BY <2>1, Zenon DEF Range
    <3>2. CASE i \in 1 .. k
      BY <1>1, <1>4, <3>1, <3>2, SMTT(30) DEF Range
    <3>3. CASE i = k + 1
      BY <1>4, <3>1, <3>3, Zenon
    <3>4. ASSUME NEW j \in k + 1 .. Len(s), i = j + 1
          PROVE  x \in Range(s)
      <4>1. x = s[j] /\ j \in DOMAIN s
        BY <1>1, <1>4, <3>1, <3>4
      <4> QED
        BY <4>1, Zenon DEF Range
    <3> QED
      BY <1>9, <3>2, <3>3, <3>4, Zenon
  <2>3. ASSUME NEW x \in Range(s)
        PROVE  x \in Range(t)
    <3>1. PICK j \in 1 .. Len(s) : x = s[j]
      BY <1>1, Zenon DEF Range
    <3>2. CASE j \in 1 .. k
      <4>1. x = t[j] /\ j \in DOMAIN t
        BY <1>1, <1>4, <2>1, <3>1, <3>2
      <4> QED
        BY <4>1, Zenon DEF Range
    <3>3. CASE j \in k + 1 .. Len(s)
      <4>1. x = t[j + 1] /\ j + 1 \in DOMAIN t
        BY <1>1, <1>4, <2>1, <3>1, <3>3
      <4> QED
        BY <4>1, Zenon DEF Range
    <3> QED
      BY <3>2, <3>3
  <2>4. r \in Range(t)
    <3>1. r = t[k + 1] /\ k + 1 \in DOMAIN t
      BY <1>1, <1>4, <2>1
    <3> QED
      BY <3>1, Zenon DEF Range
  <2> QED
    BY <2>2, <2>3, <2>4, Zenon
<1> QED
  BY <1>4, <1>10, <1>11, Zenon

\* remove_region takes one region away and leaves the others in order.
LEMMA RemovedIs ==
    ASSUME NEW s \in Seq(Regions), Apart(s), NEW k \in 1 .. Len(s),
           NEW t, t = RemoveRegion(s, k)
    PROVE  t \in Seq(Regions) /\ Apart(t) /\ Range(t) = Range(s) \ {s[k]}
<1>1. DOMAIN s = 1 .. Len(s) /\ Len(s) \in Nat
  OBVIOUS
<1>2. TakenAt(s, k, t)
  BY Zenon DEF TakenAt, RemoveRegion
<1>3. /\ t \in Seq(Regions) /\ Len(t) = Len(s) - 1
      /\ \A i \in 1 .. k - 1 : t[i] = s[i]
      /\ \A i \in k .. Len(s) - 1 : t[i] = s[i + 1]
  BY <1>2, TakenIs
<1>4. DOMAIN t = 1 .. Len(s) - 1
  BY <1>1, <1>3
<1>5. ASSUME NEW i \in 1 .. Len(s) - 1
      PROVE  \E j \in 1 .. Len(s) : j # k /\ t[i] = s[j] /\ j = IF i < k THEN i ELSE i + 1
  <2>1. CASE i < k
    BY <1>1, <1>3, <2>1
  <2>2. CASE i >= k
    <3>1. i + 1 \in 1 .. Len(s) /\ i + 1 # k /\ t[i] = s[i + 1]
      BY <1>1, <1>3, <2>2
    <3> QED
      BY <2>2, <3>1
  <2> QED
    BY <2>1, <2>2
<1>6. Apart(t)
  <2>1. SUFFICES ASSUME NEW i \in 1 .. Len(s) - 1, NEW j \in 1 .. Len(s) - 1, i < j
                 PROVE  LastAddr(t[i]) < t[j].start
    BY <1>4, Zenon DEF Apart
  <2>2. PICK l \in 1 .. Len(s) : t[i] = s[l] /\ l = IF i < k THEN i ELSE i + 1
    BY <1>5, Zenon
  <2>3. PICK m \in 1 .. Len(s) : t[j] = s[m] /\ m = IF j < k THEN j ELSE j + 1
    BY <1>5, Zenon
  <2>4. l < m
    BY <1>1, <2>1, <2>2, <2>3
  <2> QED
    BY <1>1, <2>2, <2>3, <2>4, Zenon DEF Apart
<1>7. ASSUME NEW x \in Range(t)
      PROVE  x \in Range(s) \ {s[k]}
  <2>1. PICK i \in 1 .. Len(s) - 1 : x = t[i]
    BY <1>4, Zenon DEF Range
  <2>2. PICK j \in 1 .. Len(s) : j # k /\ x = s[j]
    BY <1>5, <2>1, Zenon
  <2>3. s[j] # s[k]
    <3>1. CASE j < k
      BY <1>1, <3>1, StartsGrow, Zenon
    <3>2. CASE k < j
      BY <1>1, <3>2, StartsGrow, Zenon
    <3> QED
      BY <2>2, <3>1, <3>2
  <2> QED
    BY <1>1, <2>2, <2>3, Zenon DEF Range
<1>8. ASSUME NEW x \in Range(s), x # s[k]
      PROVE  x \in Range(t)
  <2>1. PICK j \in 1 .. Len(s) : x = s[j]
    BY <1>1, Zenon DEF Range
  <2>2. CASE j < k
    <3>1. x = t[j] /\ j \in DOMAIN t
      BY <1>1, <1>3, <1>4, <2>1, <2>2
    <3> QED
      BY <3>1, Zenon DEF Range
  <2>3. CASE k < j
    <3>1. j - 1 \in k .. Len(s) - 1 /\ (j - 1) + 1 = j
      BY <1>1, <2>3
    <3>2. x = t[j - 1] /\ j - 1 \in DOMAIN t
      BY <1>1, <1>3, <1>4, <2>1, <3>1
    <3> QED
      BY <3>2, Zenon DEF Range
  <2> QED
    BY <1>8, <2>1, <2>2, <2>3
<1> QED
  BY <1>3, <1>6, <1>7, <1>8, Zenon

-----------------------------------------------------------------------------
(***************************************************************************)
(* The memory map.                                                         *)
(***************************************************************************)
\* What the holder of the lock is building: what its edits make of the map.
Drafted(d, e, l) == Apart(d) /\ Range(d) = (l \ e.del) \cup e.add

Edits == [add : SUBSET Regions, del : SUBSET Regions]

\* The inductive invariant: the map is what the updates left, and the only
\* draft there is, that of the holder of the lock, is based on it.
MapInv ==
    /\ map \in Seq(Regions) /\ Apart(map) /\ Range(map) = live
    /\ draft \in [Updaters -> Seq(Regions)]
    /\ edits \in [Updaters -> Edits]
    /\ \A u \in Updaters : lock = u => Drafted(draft[u], edits[u], live)
    /\ \A u \in Updaters : lock # u => edits[u] = NoEdits

\* An accepted collection is apart: by induction, for the first region that
\* would not lie after all of those before it.
LEMMA AcceptedIsApart ==
    ASSUME NEW s \in Seq(Regions), FromArcRegions(s)
    PROVE  Apart(s)
<1>1. DOMAIN s = 1 .. Len(s) /\ Len(s) \in Nat
  OBVIOUS
<1>2. SUFFICES ASSUME NEW i \in 1 .. Len(s), NEW j0 \in 1 .. Len(s), i < j0,
                      ~(LastAddr(s[i]) < s[j0].start)
               PROVE  FALSE
  BY <1>1, Zenon DEF Apart
<1> DEFINE T == {j \in 1 .. Len(s) : i < j /\ ~(LastAddr(s[i]) < s[j].start)}
<1>3. j0 \in T /\ T \in SUBSET Nat
  BY <1>2
<1>4. PICK j \in T : \A n \in T : j <= n
  BY <1>3, LeastOf, Zenon
<1>5. PICK p \in 1 .. Len(s) - 1 : j = p + 1 /\ i <= p
  BY <1>1, <1>4, j - 1 \in 1 .. Len(s) - 1
<1>6. p \in 1 .. Len(s) /\ p \notin T
  BY <1>1, <1>4, <1>5
<1>7. LastAddr(s[p]) < s[j].start
  BY <1>5, Zenon DEF FromArcRegions
<1>8. CASE i = p
  BY <1>4, <1>7, <1>8, Zenon
<1>9. CASE i < p
  <2>1. LastAddr(s[i]) < s[p].start
    BY <1>6, <1>9, Zenon
  <2>2. /\ s[p].start \in Nat /\ LastAddr(s[p]) \in Nat /\ s[p].start <= LastAddr(s[p])
        /\ LastAddr(s[i]) \in Nat /\ s[j].start \in Nat
    <3>1. s[p] \in Regions /\ s[i] \in Regions /\ s[j] \in Regions
      BY <1>1, <1>4, <1>6
    <3> QED
      BY <3>1, RegionIs, Zenon
  <2>3. LastAddr(s[i]) < s[j].start
    BY <1>7, <2>1, <2>2, SMTT(30)
  <2> QED
    BY <1>4, <2>3, Zenon
<1> QED
  BY <1>5, <1>8, <1>9

\* The map starts with regions that are apart.
LEMMA MapInitOK ==
    ASSUME MapInit
    PROVE  MapInv
<1>1. map \in Seq(Regions) /\ Apart(map) /\ Range(map) = live
  BY MapAssumption, AcceptedIsApart, Zenon DEF MapInit
<1>2. <<>> \in Seq(Regions) /\ NoEdits \in Edits
  BY DEF NoEdits, Edits
<1>3. draft \in [Updaters -> Seq(Regions)] /\ edits \in [Updaters -> Edits]
  BY <1>2, Zenon DEF MapInit
<1>4. \A u \in Updaters : lock # u /\ edits[u] = NoEdits
  BY MapAssumption, Zenon DEF MapInit
<1> QED
  BY <1>1, <1>3, <1>4, Zenon DEF MapInv

\* One step of an updater.
LEMMA MapStep ==
    ASSUME MapInv, MapNext
    PROVE  MapInv'
<1>1. PICK u \in Updaters :
        \/ Lock(u)
        \/ Drop(u)
        \/ \E r \in Hotplug : Plug(u, r)
        \/ \E i \in DOMAIN draft[u] : draft[u][i] \in Hotplug /\ Unplug(u, i)
        \/ Replace(u)
  BY Zenon DEF MapNext
<1>2. /\ u # "nobody" /\ draft[u] \in Seq(Regions) /\ edits[u] \in Edits
      /\ <<>> \in Seq(Regions) /\ NoEdits \in Edits
  BY MapAssumption DEF MapInv, NoEdits, Edits
<1>3. CASE Lock(u)
  <2>1. Drafted(map, NoEdits, live)
    BY Zenon DEF MapInv, Drafted, NoEdits
  <2>2. draft' \in [Updaters -> Seq(Regions)] /\ draft'[u] = map /\ edits'[u] = NoEdits
    BY <1>2, <1>3, Zenon DEF Lock, MapInv
  <2>3. ASSUME NEW v \in Updaters, lock' = v
        PROVE  Drafted(draft'[v], edits'[v], live')
    BY <1>3, <2>1, <2>2, <2>3, Zenon DEF Lock
  <2>4. ASSUME NEW v \in Updaters, lock' # v
        PROVE  edits'[v] = NoEdits
    BY <1>2, <1>3, MapAssumption, Zenon DEF Lock, MapInv
  <2> QED
    BY <1>3, <2>2, <2>3, <2>4, Zenon DEF Lock, MapInv
<1>4. CASE Drop(u)
  <2>1. draft' \in [Updaters -> Seq(Regions)] /\ edits' \in [Updaters -> Edits]
    BY <1>2, <1>4, Zenon DEF Drop, MapInv
  <2>2. ASSUME NEW v \in Updaters
        PROVE  lock' # v /\ edits'[v] = NoEdits
    BY <1>2, <1>4, MapAssumption, Zenon DEF Drop, MapInv
  <2> QED
    BY <1>4, <2>1, <2>2, Zenon DEF Drop, MapInv
<1>5. ASSUME NEW r \in Hotplug, Plug(u, r)
      PROVE  MapInv'
  <2>1. PICK t : t = InsertRegion(draft[u], r)
    BY Zenon
  <2>2. r \in Regions /\ lock = u /\ FromArcRegions(t) /\ Drafted(draft[u], edits[u], live)
    BY <1>5, <2>1, MapAssumption, Zenon DEF Plug, MapInv
  <2>3. t \in Seq(Regions) /\ Apart(t) /\ Range(t) = Range(draft[u]) \cup {r}
    BY <1>2, <2>1, <2>2, InsertedIs, Zenon DEF Drafted
  <2>4. PICK e \in Edits : e.add = edits[u].add \cup {r} /\ e.del = edits[u].del \ {r}
                            /\ e = [add |-> edits[u].add \cup {r}, del |-> edits[u].del \ {r}]
    BY <1>2, <2>2, Zenon DEF Edits
  <2>5. Drafted(t, e, live)
    BY <2>2, <2>3, <2>4, Zenon DEF Drafted
  <2>6. draft' = [draft EXCEPT ![u] = t] /\ edits' = [edits EXCEPT ![u] = e]
    BY <1>5, <2>1, <2>4, Zenon DEF Plug
  <2>7. draft' \in [Updaters -> Seq(Regions)] /\ edits' \in [Updaters -> Edits]
    BY <2>3, <2>6, Zenon DEF MapInv
  <2>8. draft'[u] = t /\ edits'[u] = e /\ \A v \in Updaters : v # u => edits'[v] = edits[v]
    BY <2>6, Zenon DEF MapInv
  <2>9. map' = map /\ lock' = u /\ live' = live
    BY <1>5, <2>2, Zenon DEF Plug
  <2> QED
    BY <2>2, <2>5, <2>7, <2>8, <2>9, Zenon DEF MapInv
<1>6. ASSUME NEW i \in DOMAIN draft[u], Unplug(u, i)
      PROVE  MapInv'
  <2>1. PICK t : t = RemoveRegion(draft[u], i)
    BY Zenon
  <2>2. PICK x \in Regions : x = draft[u][i]
    BY <1>2
  <2>3. i \in 1 .. Len(draft[u]) /\ lock = u /\ Drafted(draft[u], edits[u], live)
    BY <1>2, <1>6 DEF Unplug, MapInv
  <2>4. t \in Seq(Regions) /\ Apart(t) /\ Range(t) = Range(draft[u]) \ {x}
    BY <1>2, <2>1, <2>2, <2>3, RemovedIs, Zenon DEF Drafted
  <2>5. PICK e \in Edits : e.add = edits[u].add \ {x} /\ e.del = edits[u].del \cup {x}
                            /\ e = [add |-> edits[u].add \ {x}, del |-> edits[u].del \cup {x}]
    BY <1>2, Zenon DEF Edits
  <2>6. Drafted(t, e, live)
    BY <2>3, <2>4, <2>5, Zenon DEF Drafted
  <2>7. draft' = [draft EXCEPT ![u] = t] /\ edits' = [edits EXCEPT ![u] = e]
    BY <1>6, <2>1, <2>2, <2>5, Zenon DEF Unplug
  <2>8. draft' \in [Updaters -> Seq(Regions)] /\ edits' \in [Updaters -> Edits]
    BY <2>4, <2>7, Zenon DEF MapInv
  <2>9. draft'[u] = t /\ edits'[u] = e /\ \A v \in Updaters : v # u => edits'[v] = edits[v]
    BY <2>7, Zenon DEF MapInv
  <2>10. map' = map /\ lock' = u /\ live' = live
    BY <1>6, <2>3, Zenon DEF Unplug
  <2> QED
    BY <2>3, <2>6, <2>8, <2>9, <2>10, Zenon DEF MapInv
<1>7. CASE Replace(u)
  <2>1. Drafted(draft[u], edits[u], live)
    BY <1>7, Zenon DEF Replace, MapInv
  <2>2. map' \in Seq(Regions) /\ Apart(map') /\ Range(map') = live'
    BY <1>2, <1>7, <2>1, Zenon DEF Replace, Drafted
  <2>3. draft' \in [Updaters -> Seq(Regions)] /\ edits' \in [Updaters -> Edits]
    BY <1>2, <1>7, Zenon DEF Replace, MapInv
  <2>4. ASSUME NEW v \in Updaters
        PROVE  lock' # v /\ edits'[v] = NoEdits
    BY <1>2, <1>7, MapAssumption, Zenon DEF Replace, MapInv
  <2> QED
    BY <2>2, <2>3, <2>4, Zenon DEF MapInv
<1> QED
  BY <1>1, <1>3, <1>4, <1>5, <1>6, <1>7, Zenon

\* A step of anybody else leaves the map and the updaters alone.
LEMMA MapSame ==
    ASSUME MapInv, UNCHANGED mapVars
    PROVE  MapInv'
  BY Zenon DEF MapInv, mapVars

-----------------------------------------------------------------------------
(***************************************************************************)
(* Slices of the map.                                                      *)
(***************************************************************************)
\* Some region holds the address.
Holds(s, a) == \E i \in DOMAIN s : s[i].start <= a /\ a <= LastAddr(s[i])

\* The smaller of two numbers.
LEMMA MinOfTwo ==
    ASSUME NEW a \in Nat, NEW b \in Nat
    PROVE  /\ Min({a, b}) \in Nat /\ Min({a, b}) <= a /\ Min({a, b}) <= b
           /\ Min({a, b}) = a \/ Min({a, b}) = b
<1>1. {a, b} \in SUBSET Nat /\ {a, b} # {}
  BY Zenon
<1>2. Min({a, b}) \in {a, b} /\ \A n \in {a, b} : Min({a, b}) <= n
  BY <1>1, MinIs, Zenon
<1> QED
  BY <1>2, Zenon

\* find_region finds the region that holds the address, if there is one.
LEMMA FindIs ==
    ASSUME NEW s \in Seq(Regions), Apart(s), NEW a \in Nat, NEW f, f = FindRegion(s, a)
    PROVE  /\ f \in 0 .. Len(s)
           /\ f = 0 => ~Holds(s, a)
           /\ f # 0 => s[f].start <= a /\ a <= LastAddr(s[f])
<1>1. DOMAIN s = 1 .. Len(s) /\ Len(s) \in Nat
  OBVIOUS
<1>2. ASSUME NEW i \in 1 .. Len(s)
      PROVE  s[i].start \in Nat /\ LastAddr(s[i]) \in Nat /\ s[i].start <= LastAddr(s[i])
  BY <1>1, RegionIs
<1>3. PICK b \in 0 .. Len(s) : /\ b = Max({0} \cup {i \in DOMAIN s : s[i].start < a})
                               /\ \A i \in 1 .. Len(s) : s[i].start < a <=> i <= b
  <2> DEFINE S == {i \in DOMAIN s : s[i].start < a}
  <2>1. ASSUME NEW i \in S, NEW j \in 1 .. Len(s), j < i
        PROVE  j \in S
    <3>1. s[j].start < s[i].start /\ s[i].start < a
      BY <1>1, <2>1, StartsGrow, Zenon
    <3> QED
      BY <1>1, <1>2, <3>1
  <2>2. S \in SUBSET (1 .. Len(s))
    BY <1>1, Zenon
  <2> HIDE DEF S
  <2>3. PICK b \in 0 .. Len(s) : S = 1 .. b /\ Max({0} \cup S) = b
    BY <1>1, <2>1, <2>2, PrefixIs, Zenon
  <2>4. \A i \in 1 .. Len(s) : i \in S <=> i <= b
    BY <1>1, <2>3
  <2> QED
    BY <1>1, <2>3, <2>4, Zenon DEF S
<1>4. f = IF \E i \in DOMAIN s : s[i].start = a THEN b + 1
          ELSE IF b > 0 /\ a <= LastAddr(s[b]) THEN b ELSE 0
  BY <1>3, Zenon DEF FindRegion
<1>5. CASE \E i \in DOMAIN s : s[i].start = a
  <2>1. PICK i \in 1 .. Len(s) : s[i].start = a
    BY <1>1, <1>5, Zenon
  <2>2. b + 1 <= i /\ b + 1 \in 1 .. Len(s)
    BY <1>1, <1>2, <1>3, <2>1
  <2>3. ~(b + 1 < i)
    <3>1. SUFFICES ASSUME b + 1 < i PROVE FALSE
      BY Zenon
    <3>2. s[b + 1].start < a
      BY <1>1, <2>1, <2>2, <3>1, StartsGrow, Zenon
    <3> QED
      BY <1>3, <2>2, <3>2
  <2>4. f = i
    BY <1>4, <1>5, <2>2, <2>3
  <2> QED
    BY <1>2, <2>1, <2>4
<1>6. CASE ~(\E i \in DOMAIN s : s[i].start = a)
  <2>1. CASE b > 0 /\ a <= LastAddr(s[b])
    <3>1. f = b /\ b \in 1 .. Len(s)
      BY <1>4, <1>6, <2>1
    <3>2. s[b].start < a
      BY <1>1, <1>3, <3>1, b <= b, Zenon
    <3> QED
      BY <1>2, <2>1, <3>1, <3>2
  <2>2. CASE ~(b > 0 /\ a <= LastAddr(s[b]))
    <3>1. f = 0
      BY <1>4, <1>6, <2>2, Zenon
    <3>2. ASSUME NEW i \in 1 .. Len(s), s[i].start <= a, a <= LastAddr(s[i])
          PROVE  FALSE
      <4>1. s[i].start < a
        BY <1>1, <1>2, <1>6, <3>2, SMTT(30)
      <4>2. i <= b /\ b \in 1 .. Len(s)
        BY <1>3, <4>1
      <4>3. i < b
        BY <1>2, <2>2, <3>2, <4>2
      <4>4. LastAddr(s[i]) < s[b].start /\ s[b].start < a
        BY <1>1, <1>3, <4>2, <4>3 DEF Apart
      <4> QED
        BY <1>2, <3>2, <4>2, <4>4
    <3> QED
      BY <1>1, <3>1, <3>2 DEF Holds
  <2> QED
    BY <2>1, <2>2, Zenon
<1> QED
  BY <1>5, <1>6, Zenon

\* A slice of n bytes at addr, and the iterator after it.
SliceOf(step, addr, count, n) ==
    /\ step.item.kind = "slice" /\ step.item.addr = addr /\ step.item.len = n
    /\ step.it = [addr |-> addr + n, count |-> count - n]

\* What one call of next() gives: a slice that lies in a region, or the news that
\* no region holds the address.
Sliced(s, addr, count, step) ==
    /\ count = 0 => step.item.kind = "end"
    /\ count # 0 =>
          \/ step.item.kind = "error" /\ ~Holds(s, addr)
          \/ \E m \in 1 .. count : /\ SliceOf(step, addr, count, m) /\ addr + m < Top
                                     /\ \A j \in 0 .. m - 1 : Holds(s, addr + j)

\* One call of next() of GuestMemorySliceIterator.
LEMMA NextSliceIs ==
    ASSUME NEW s \in Seq(Regions), Apart(s), NEW addr \in 0 .. Top - 1, NEW count \in Nat,
           NEW it, it.addr = addr, it.count = count,
           NEW step, step = NextSlice(s, it)
    PROVE  Sliced(s, addr, count, step)
<1>1. Top \in Nat \ {0} /\ addr \in Nat /\ addr < Top
  BY MapAssumption
<1>2. PICK f : f = FindRegion(s, addr)
  BY Zenon
<1>3. PICK len : len = Min({LastAddr(s[f]) + 1 - addr, count})
  BY Zenon
<1>4. step = IF count = 0 THEN [item |-> NoItem("end"), it |-> Stopped]
             ELSE IF f = 0 \/ addr + len > Top THEN [item |-> NoItem("error"), it |-> Stopped]
             ELSE [item |-> [kind |-> "slice", addr |-> addr, len |-> len],
                   it |-> [addr |-> (addr + len) % Top, count |-> count - len]]
  BY <1>2, <1>3, Zenon DEF NextSlice
<1>5. CASE count = 0
  BY <1>4, <1>5 DEF NoItem, Sliced
<1>6. CASE count > 0 /\ f = 0
  <2>1. ~Holds(s, addr)
    BY <1>1, <1>2, <1>6, FindIs, Zenon
  <2> QED
    BY <1>4, <1>6, <2>1 DEF NoItem, Sliced
<1>7. CASE count > 0 /\ f # 0
  <2>1. f \in 1 .. Len(s) /\ s[f].start <= addr /\ addr <= LastAddr(s[f])
    <3>1. f \in 0 .. Len(s) /\ (f # 0 => s[f].start <= addr /\ addr <= LastAddr(s[f]))
      BY <1>1, <1>2, FindIs, Zenon
    <3> QED
      BY <1>7, <3>1
  <2>2. f \in DOMAIN s /\ s[f] \in Regions
    BY <2>1
  <2>3. s[f].start \in Nat /\ LastAddr(s[f]) \in Nat /\ LastAddr(s[f]) + 1 < Top
    BY <2>2, RegionIs, Zenon
  <2>4. PICK room \in Nat : room = LastAddr(s[f]) + 1 - addr /\ room > 0
    BY <1>1, <2>1, <2>3, SMTT(30)
  <2>5. len \in 1 .. count /\ len <= room
    BY <1>3, <1>7, <2>4, MinOfTwo
  <2>6. addr + len < Top /\ addr + len \in Nat /\ (addr + len) % Top = addr + len
    <3>1. addr + len < Top /\ addr + len \in Nat
      BY <1>1, <2>3, <2>4, <2>5, SMTT(30)
    <3> QED
      BY <1>1, <3>1, RemainderSmall, Zenon
  <2>7. step = [item |-> [kind |-> "slice", addr |-> addr, len |-> len],
                it |-> [addr |-> addr + len, count |-> count - len]]
    <3>1. count # 0 /\ ~(f = 0 \/ addr + len > Top)
      <4>1. ~(addr + len > Top)
        BY ONLY <1>1, <2>6
      <4>2. count # 0
        BY ONLY <1>7
      <4> QED
        BY <1>7, <4>1, <4>2, Zenon
    <3> QED
      BY <1>4, <2>6, <3>1, Zenon
  <2>8. SliceOf(step, addr, count, len)
    BY <2>7 DEF SliceOf
  <2>9. ASSUME NEW j \in 0 .. len - 1
        PROVE  Holds(s, addr + j)
    <3>1. s[f].start <= addr + j /\ addr + j <= LastAddr(s[f])
      BY <1>1, <2>1, <2>3, <2>4, <2>5, SMTT(30)
    <3> QED
      BY <2>2, <3>1, Zenon DEF Holds
  <2> QED
    <3>1. len \in 1 .. count
      BY <2>5, Zenon
    <3>2. count # 0
      BY <3>1
    <3> QED
      BY <2>6, <2>8, <2>9, <3>1, <3>2, Zenon DEF Sliced
<1> QED
  BY <1>5, <1>6, <1>7

-----------------------------------------------------------------------------
(***************************************************************************)
(* The IOTLB.                                                              *)
(***************************************************************************)
Targeted == [to : 0 .. Top - 1, perm : Perms]
Mappings == [diff : 0 .. Top - 1, perm : Perms]

\* What the IOTLB says of an IOVA is what the IOMMU's table says, unless the
\* invalidation of the IOVA is still to come.
Agrees(t, m, a) == m.to = MapTo(t, a) /\ m.perm = t.perm

TlbInv ==
    /\ DOMAIN table \subseteq 0 .. Iovas - 1
    /\ \A a \in DOMAIN table : table[a] \in Targeted
    /\ DOMAIN tlb \subseteq 0 .. Iovas - 1
    /\ \A a \in DOMAIN tlb : tlb[a] \in Mappings
    /\ \A a \in DOMAIN tlb : a \in pending \/ (a \in DOMAIN table /\ Agrees(tlb[a], table[a], a))

\* An entry of the IOTLB maps its IOVA to the target it was made for.
LEMMA MappingIs ==
    ASSUME NEW a \in 0 .. Top - 1, NEW m \in Targeted
    PROVE  /\ Mapping(a, m.to, m.perm) \in Mappings
           /\ Agrees(Mapping(a, m.to, m.perm), m, a)
<1>1. Top \in Nat \ {0} /\ a \in Int /\ m.to \in Nat /\ m.to < Top /\ m.perm \in Perms
  BY MapAssumption DEF Targeted
<1>2. PICK d \in Int : d = m.to - a
  BY <1>1
<1>3. d % Top \in 0 .. Top - 1
  BY <1>1
<1>4. Mapping(a, m.to, m.perm) = [diff |-> d % Top, perm |-> m.perm]
  BY <1>2, Zenon DEF Mapping
<1>5. Mapping(a, m.to, m.perm) \in Mappings
  BY <1>1, <1>3, <1>4 DEF Mappings
<1>6. ((d % Top) + a) % Top = (d + a) % Top
  BY <1>1, RemainderOfSum, Zenon
<1>7. d + a = m.to /\ m.to % Top = m.to
  BY <1>1, <1>2, RemainderSmall
<1>8. a + (d % Top) = (d % Top) + a
  BY <1>1, <1>3
<1>9. MapTo(Mapping(a, m.to, m.perm), a) = m.to
  BY <1>4, <1>6, <1>7, <1>8 DEF MapTo
<1> QED
  BY <1>4, <1>5, <1>9 DEF Agrees

\* A step that leaves table and IOTLB alone.
LEMMA TlbSame ==
    ASSUME TlbInv, UNCHANGED <<table, tlb, pending>>
    PROVE  TlbInv'
  BY Zenon DEF TlbInv

\* The IOTLB starts empty.
LEMMA TlbInitOK ==
    ASSUME Init
    PROVE  TlbInv
<1>1. table = InitTable /\ DOMAIN tlb = {}
  BY DEF Init
<1> QED
  BY <1>1, IommuAssumption, Zenon DEF TlbInv, Targeted

\* The answers that Fill adds come from the table.
LEMMA TlbFilled ==
    ASSUME TlbInv, UNCHANGED <<table, pending>>, NEW F \in SUBSET DOMAIN table,
           tlb' = [a \in DOMAIN tlb \cup F |->
                      IF a \in F THEN Mapping(a, table[a].to, table[a].perm) ELSE tlb[a]]
    PROVE  TlbInv'
<1>1. DOMAIN tlb' = DOMAIN tlb \cup F
  BY Zenon
<1>2. ASSUME NEW a \in F
      PROVE  tlb'[a] \in Mappings /\ a \in DOMAIN table /\ Agrees(tlb'[a], table[a], a)
  <2>1. a \in 0 .. Top - 1 /\ table[a] \in Targeted
    BY IommuAssumption, MapAssumption DEF TlbInv
  <2>2. tlb'[a] = Mapping(a, table[a].to, table[a].perm)
    BY Zenon
  <2> QED
    BY <2>1, <2>2, MappingIs, Zenon
<1>3. ASSUME NEW a \in DOMAIN tlb, a \notin F
      PROVE  tlb'[a] = tlb[a]
  BY <1>3, Zenon
<1>4. \A a \in DOMAIN tlb' : tlb'[a] \in Mappings
  BY <1>1, <1>2, <1>3, Zenon DEF TlbInv
<1>5. \A a \in DOMAIN tlb' : a \in pending \/ (a \in DOMAIN table /\ Agrees(tlb'[a], table[a], a))
  BY <1>1, <1>2, <1>3, Zenon DEF TlbInv
<1>6. DOMAIN tlb' \subseteq 0 .. Iovas - 1
  BY <1>1, Zenon DEF TlbInv
<1> QED
  BY <1>4, <1>5, <1>6, Zenon DEF TlbInv

\* A new mapping is for an IOVA the IOTLB does not have.
LEMMA TlbMapped ==
    ASSUME TlbInv, NEW a \in 0 .. Iovas - 1, NEW to \in Targets, NEW perm \in Perms, GuestMap(a, to, perm)
    PROVE  TlbInv'
<1>1. a \notin DOMAIN tlb
  BY Zenon DEF GuestMap, TlbInv
<1>2. PICK m \in Targeted : m = [to |-> to, perm |-> perm]
  BY IommuAssumption, Zenon DEF Targeted
<1>3. /\ DOMAIN table' = DOMAIN table \cup {a} /\ UNCHANGED <<tlb, pending>>
      /\ table'[a] = m
      /\ \A b \in DOMAIN table : b # a => table'[b] = table[b]
  BY <1>2, Zenon DEF GuestMap
<1>4. \A b \in DOMAIN table' : table'[b] \in Targeted
  BY <1>3, Zenon DEF TlbInv
<1>5. DOMAIN table' \subseteq 0 .. Iovas - 1
  BY <1>3, Zenon DEF TlbInv
<1>6. \A b \in DOMAIN tlb : b \in pending \/ (b \in DOMAIN table' /\ Agrees(tlb[b], table'[b], b))
  BY <1>1, <1>3, Zenon DEF TlbInv
<1> QED
  BY <1>3, <1>4, <1>5, <1>6, Zenon DEF TlbInv

\* The guest takes a page away: its entry becomes one to be invalidated.
LEMMA TlbUnmapped ==
    ASSUME TlbInv, NEW a \in DOMAIN table, GuestUnmap(a)
    PROVE  TlbInv'
<1>1. /\ DOMAIN table' = DOMAIN table \ {a} /\ UNCHANGED tlb /\ pending' = pending \cup {a}
      /\ \A b \in DOMAIN table : b # a => table'[b] = table[b]
  BY Zenon DEF GuestUnmap
<1>2. \A b \in DOMAIN table' : table'[b] \in Targeted
  BY <1>1, Zenon DEF TlbInv
<1>3. DOMAIN table' \subseteq 0 .. Iovas - 1
  BY <1>1, Zenon DEF TlbInv
<1>4. \A b \in DOMAIN tlb : b \in pending' \/ (b \in DOMAIN table' /\ Agrees(tlb[b], table'[b], b))
  BY <1>1, Zenon DEF TlbInv
<1> QED
  BY <1>1, <1>2, <1>3, <1>4, Zenon DEF TlbInv

\* An invalidation takes entries out of the IOTLB and ends the wait for them.
LEMMA TlbInvalidated ==
    ASSUME TlbInv, UNCHANGED table, NEW G, tlb' = [b \in DOMAIN tlb \ G |-> tlb[b]], pending' = pending \ G
    PROVE  TlbInv'
<1>1. DOMAIN tlb' = DOMAIN tlb \ G /\ \A b \in DOMAIN tlb \ G : tlb'[b] = tlb[b]
  BY Zenon
<1>2. \A b \in DOMAIN tlb' : tlb'[b] \in Mappings
  BY <1>1, Zenon DEF TlbInv
<1>3. DOMAIN tlb' \subseteq 0 .. Iovas - 1
  BY <1>1, Zenon DEF TlbInv
<1>4. \A b \in DOMAIN tlb' : b \in pending' \/ (b \in DOMAIN table /\ Agrees(tlb'[b], table[b], b))
  BY <1>1, Zenon DEF TlbInv
<1> QED
  BY <1>2, <1>3, <1>4, Zenon DEF TlbInv

\* invalidate_all leaves no entry.
LEMMA TlbCleared ==
    ASSUME TlbInv, InvalidateAll
    PROVE  TlbInv'
<1>1. DOMAIN tlb' = {} /\ UNCHANGED table
  BY DEF InvalidateAll
<1> QED
  BY <1>1, Zenon DEF TlbInv

-----------------------------------------------------------------------------
(***************************************************************************)
(* The access.                                                             *)
(***************************************************************************)
Access(n) ==
    [pc : {"lookup", "fill", "walk", "done"}, virt : BOOLEAN, op : Ops, mem : Seq(Regions),
     from : 0 .. Top - 1, len : {n}, access : SUBSET {"r", "w"}, left : SUBSET Nat,
     phys : [0 .. n - 1 -> 0 .. Top - 1], cur : [addr : 0 .. Top - 1, count : Nat], iova : 0 .. Top - 1,
     out : Seq(Nat \X Nat), got : Nat, filled : SUBSET Nat, dry : BOOLEAN, fails : SUBSET Nat]

\* Before the translation.
Waiting(a) ==
    /\ a.virt
    /\ a.out = <<>> /\ a.cur = Stopped /\ a.iova = a.from
    /\ a.left = a.from .. a.from + a.len - 1
    /\ a.fails \subseteq a.left

\* Once the IOTLB t has translated the range.
Translated(from, len, access, phys, t) ==
    \A i \in 0 .. len - 1 :
        /\ from + i \in DOMAIN t
        /\ Allows(t[from + i], access)
        /\ phys[i] = MapTo(t[from + i], from + i)

\* The bytes given so far.
Byte(from, mem, phys, i, x) == x = <<from + i - 1, phys[i - 1]>> /\ Holds(mem, phys[i - 1])
Given(from, len, mem, phys, out) ==
    Len(out) <= len /\ \A i \in 1 .. Len(out) : Byte(from, mem, phys, i, out[i])

\* The bytes to come after the first n: first those of the range being walked.
Ahead(from, len, phys, n, iova, addr, count) ==
    /\ n + count <= len
    /\ iova = (from + n) % Top
    /\ \A j \in 0 .. count - 1 : phys[n + j] = (addr + j) % Top

\* Then those of the IOVAs left.
Rest(virt, from, len, n, addr, count, left) ==
    IF virt THEN left = from + n + count .. from + len - 1
    ELSE left = {} /\ n + count = len /\ addr = from + n

Walking(a) ==
    /\ Given(a.from, a.len, a.mem, a.phys, a.out)
    /\ Ahead(a.from, a.len, a.phys, Len(a.out), a.iova, a.cur.addr, a.cur.count)
    /\ Rest(a.virt, a.from, a.len, Len(a.out), a.cur.addr, a.cur.count, a.left)

Walked(a) ==
    /\ Given(a.from, a.len, a.mem, a.phys, a.out)
    /\ Len(a.out) < a.len => ~Holds(a.mem, a.phys[Len(a.out)])

Begun(a) ==
    /\ a.len \in Nat \ {0} /\ a \in Access(a.len)
    /\ Apart(a.mem)
    /\ a.virt => a.from + a.len <= Iovas

AccInv(a, t) ==
    \/ a = Idle
    \/ /\ Begun(a)
       /\ \/ a.pc \in {"lookup", "fill"} /\ Waiting(a)
          \/ a.pc = "walk" /\ Walking(a) /\ (a.virt => Translated(a.from, a.len, a.access, a.phys, t))
          \/ a.pc = "done" /\ Walked(a)

\* What an access that has begun holds.
LEMMA BegunIs ==
    ASSUME NEW a, Begun(a)
    PROVE  /\ Top \in Nat \ {0} /\ Iovas \in Nat /\ Iovas <= Top
           /\ a.from \in Nat /\ a.from < Top /\ a.len \in Nat \ {0}
           /\ a.virt \in BOOLEAN /\ a.mem \in Seq(Regions) /\ Apart(a.mem)
           /\ a.left \in SUBSET Nat /\ a.phys \in [0 .. a.len - 1 -> 0 .. Top - 1]
           /\ a.cur.addr \in 0 .. Top - 1 /\ a.cur.count \in Nat
           /\ a.out \in Seq(Nat \X Nat)
           /\ a.virt => a.from + a.len <= Iovas
<1>1. Top \in Nat \ {0} /\ Iovas \in Nat /\ Iovas <= Top
  BY MapAssumption, IommuAssumption, Zenon
<1>2. PICK n \in Nat \ {0} : n = a.len /\ a \in Access(n) /\ Apart(a.mem) /\ (a.virt => a.from + n <= Iovas)
  BY Zenon DEF Begun
<1>3. /\ a.from \in 0 .. Top - 1 /\ a.virt \in BOOLEAN /\ a.mem \in Seq(Regions) /\ a.left \in SUBSET Nat
      /\ a.phys \in [0 .. n - 1 -> 0 .. Top - 1] /\ a.cur \in [addr : 0 .. Top - 1, count : Nat]
      /\ a.out \in Seq(Nat \X Nat)
  BY <1>2, Zenon DEF Access
<1> QED
  BY <1>1, <1>2, <1>3, SMTT(30)

\* A new access: what virt() leaves to be translated, and where phys() starts.
LEMMA BeginOK ==
    ASSUME MapInv, useIommu \in BOOLEAN,
           NEW from \in 0 .. Top - 1, NEW len \in Nat \ {0}, NEW access \in SUBSET {"r", "w"}, NEW op \in Ops,
           useIommu => from + len <= Iovas,
           Begin(from, len, access, op), NEW t
    PROVE  AccInv(acc', t)
<1>1. PICK phys : phys = [i \in 0 .. len - 1 |-> (from + i) % Top]
  BY Zenon
<1>2. phys \in [0 .. len - 1 -> 0 .. Top - 1] /\ \A i \in 0 .. len - 1 : phys[i] = (from + i) % Top
  <2>1. ASSUME NEW i \in 0 .. len - 1
        PROVE  (from + i) % Top \in 0 .. Top - 1
    BY MapAssumption
  <2> QED
    BY <1>1, <2>1, Zenon
<1>3. map \in Seq(Regions) /\ Apart(map) /\ Top \in Nat \ {0}
  BY MapAssumption, Zenon DEF MapInv
<1>4. CASE useIommu
  <2>1. PICK left \in SUBSET Nat : left = from .. from + len - 1
    BY <1>3, SMTT(30)
  <2>2. acc' = [pc |-> "lookup", virt |-> TRUE, op |-> op, mem |-> map, from |-> from, len |-> len,
                access |-> access, left |-> left, phys |-> phys, cur |-> Stopped, iova |-> from,
                out |-> <<>>, got |-> 0, filled |-> {}, dry |-> FALSE, fails |-> {}]
    BY <1>1, <1>4, <2>1, Zenon DEF Begin
  <2>3. acc' \in Access(len)
    <3>1. PICK cur \in [addr : 0 .. Top - 1, count : Nat] : cur = Stopped
      <4>1. 0 \in 0 .. Top - 1 /\ 0 \in Nat
        BY <1>3
      <4>2. Stopped \in [addr : 0 .. Top - 1, count : Nat]
        BY ONLY <4>1, Zenon DEF Stopped
      <4> QED
        BY <4>2, Zenon
    <3>2. /\ from \in 0 .. Top - 1 /\ len \in Nat /\ access \in SUBSET {"r", "w"} /\ op \in Ops
          /\ left \in SUBSET Nat /\ phys \in [0 .. len - 1 -> 0 .. Top - 1] /\ map \in Seq(Regions)
          /\ cur \in [addr : 0 .. Top - 1, count : Nat]
      BY <1>2, <1>3, <3>1, Zenon
    <3>3. <<>> \in Seq(Nat \X Nat) /\ 0 \in Nat /\ {} \in SUBSET Nat /\ len \in {len}
      OBVIOUS
    <3> QED
      BY <2>2, <3>1, <3>2, <3>3, Zenon DEF Access
  <2>4. /\ acc'.pc = "lookup" /\ acc'.virt /\ acc'.from = from /\ acc'.len = len /\ acc'.mem = map
        /\ acc'.left = left /\ acc'.out = <<>> /\ acc'.cur = Stopped /\ acc'.iova = from /\ acc'.fails = {}
    BY <2>2, Zenon
  <2>5. Begun(acc')
    BY <1>3, <1>4, <2>3, <2>4, Zenon DEF Begun
  <2>6. Waiting(acc')
    BY <2>1, <2>4, Zenon DEF Waiting
  <2> QED
    BY <2>4, <2>5, <2>6, Zenon DEF AccInv
<1>5. CASE ~useIommu
  <2>1. PICK cur \in [addr : 0 .. Top - 1, count : Nat] : cur = [addr |-> from, count |-> len]
    BY Zenon
  <2>2. acc' = [pc |-> "walk", virt |-> FALSE, op |-> op, mem |-> map, from |-> from, len |-> len,
                access |-> access, left |-> {}, phys |-> phys, cur |-> cur, iova |-> from,
                out |-> <<>>, got |-> 0, filled |-> {}, dry |-> FALSE, fails |-> {}]
    BY <1>1, <1>5, <2>1, Zenon DEF Begin
  <2>3. acc' \in Access(len)
    BY <1>2, <1>3, <2>1, <2>2 DEF Access
  <2>4. /\ acc'.pc = "walk" /\ acc'.virt = FALSE /\ acc'.from = from /\ acc'.len = len /\ acc'.mem = map
        /\ acc'.left = {} /\ acc'.out = <<>> /\ acc'.cur = cur /\ acc'.iova = from /\ acc'.phys = phys
    BY <2>2, Zenon
  <2>5. Begun(acc')
    BY <1>3, <2>3, <2>4, Zenon DEF Begun
  <2>6. Given(from, len, map, phys, <<>>)
    BY DEF Given
  <2>7. from % Top = from /\ from + 0 = from
    <3>1. from \in Nat /\ from < Top
      BY <1>3
    <3>2. from % Top = from
      BY <1>3, <3>1, RemainderSmall, Zenon
    <3> QED
      BY <3>1, <3>2
  <2>8. cur.addr = from /\ cur.count = len
    BY <2>1, Zenon
  <2>9. \A j \in 0 .. len - 1 : phys[0 + j] = (from + j) % Top
    BY <1>2
  <2>10. Ahead(from, len, phys, 0, from, from, len)
    BY <1>3, <2>7, <2>9 DEF Ahead
  <2>11. Rest(FALSE, from, len, 0, from, len, {})
    BY <2>7 DEF Rest
  <2>12. Len(<<>>) = 0
    BY Zenon
  <2>13. Walking(acc')
    BY <2>4, <2>6, <2>8, <2>10, <2>11, <2>12, Zenon DEF Walking
  <2> QED
    BY <2>4, <2>5, <2>13, Zenon DEF AccInv
<1> QED
  BY <1>4, <1>5, Zenon

\* The guard of the IOTLB is taken and its answers are fixed.
LEMMA LookedOK ==
    ASSUME NEW a, NEW t, Begun(a), Waiting(a),
           NEW phys, phys = [i \in DOMAIN a.phys |-> MapTo(t[a.from + i], a.from + i)],
           \A x \in a.left : x \in DOMAIN t /\ Allows(t[x], a.access) /\ t[x] \in Mappings,
           NEW b, b = [a EXCEPT !.pc = "walk", !.phys = phys]
    PROVE  AccInv(b, t)
<1>1. /\ Top \in Nat \ {0} /\ a.from \in Nat /\ a.from < Top /\ a.len \in Nat \ {0}
      /\ a.phys \in [0 .. a.len - 1 -> 0 .. Top - 1] /\ a.virt /\ a.from + a.len <= Top
  BY BegunIs, SMTT(30) DEF Waiting
<1>2. ASSUME NEW i \in 0 .. a.len - 1
      PROVE  /\ a.from + i \in DOMAIN t /\ Allows(t[a.from + i], a.access)
             /\ phys[i] = MapTo(t[a.from + i], a.from + i)
             /\ phys[i] \in 0 .. Top - 1
  <2>1. a.from + i \in a.left
    BY <1>1, SMTT(30) DEF Waiting
  <2>2. PICK m \in Mappings : m = t[a.from + i]
    BY <2>1, Zenon
  <2>3. MapTo(m, a.from + i) \in 0 .. Top - 1
    <3>1. PICK d \in Nat : d = m.diff
      BY <1>1 DEF Mappings
    <3>2. PICK x \in Nat : x = a.from + i + d
      BY <1>1, SMTT(30)
    <3>3. x % Top \in 0 .. Top - 1
      BY <1>1, SMTT(30)
    <3> QED
      BY <3>1, <3>2, <3>3, Zenon DEF MapTo
  <2>4. phys[i] = MapTo(t[a.from + i], a.from + i)
    BY <1>1, Zenon
  <2> QED
    BY <2>1, <2>2, <2>3, <2>4, Zenon
<1>3. phys \in [0 .. a.len - 1 -> 0 .. Top - 1]
  <2>1. DOMAIN phys = 0 .. a.len - 1 /\ phys = [i \in DOMAIN phys |-> phys[i]]
    BY <1>1, Zenon
  <2> QED
    BY <1>2, <2>1, Zenon
<1>4. PICK n \in Nat \ {0} : n = a.len /\ a \in Access(n)
  BY Zenon DEF Begun
<1>5. b \in Access(n)
  BY <1>3, <1>4, ZenonT(30) DEF Access
<1>6. /\ b.pc = "walk" /\ b.virt = a.virt /\ b.from = a.from /\ b.len = a.len /\ b.mem = a.mem
      /\ b.access = a.access /\ b.left = a.left /\ b.out = a.out /\ b.cur = a.cur /\ b.iova = a.iova
      /\ b.phys = phys
  BY <1>4, Zenon DEF Access
<1>7. Begun(b)
  BY <1>4, <1>5, <1>6, Zenon DEF Begun
<1>8. Translated(b.from, b.len, b.access, b.phys, t)
  BY <1>2, <1>6, Zenon DEF Translated
<1>9. b.out = <<>> /\ Len(b.out) = 0 /\ b.cur = Stopped /\ b.iova = a.from /\ b.left = a.from .. a.from + a.len - 1
  BY <1>6 DEF Waiting
<1>10. Given(b.from, b.len, b.mem, b.phys, b.out)
  BY <1>1, <1>6, <1>9 DEF Given
<1>11. a.from % Top = a.from /\ a.from + 0 = a.from
  BY <1>1, RemainderSmall
<1>12. b.cur.count = 0
  BY <1>9 DEF Stopped
<1>13. 0 + 0 <= a.len /\ 0 .. 0 - 1 = {} /\ a.from + 0 + 0 = a.from
  BY <1>1
<1>14. Ahead(b.from, b.len, b.phys, 0, b.iova, b.cur.addr, 0)
  BY <1>6, <1>9, <1>11, <1>13, Zenon DEF Ahead
<1>15. Rest(b.virt, b.from, b.len, 0, b.cur.addr, 0, b.left)
  BY <1>1, <1>6, <1>9, <1>13, Zenon DEF Rest
<1> QED
  BY <1>6, <1>7, <1>8, <1>9, <1>10, <1>12, <1>14, <1>15, Zenon DEF AccInv, Walking

\* The misses are handed to the IOMMU, or its answers are looked up.
LEMMA WaitsOn ==
    ASSUME NEW a, NEW t, Begun(a), Waiting(a), NEW F \in SUBSET a.left, NEW pc \in {"lookup", "fill"},
           NEW b, b = [a EXCEPT !.pc = pc, !.fails = F]
    PROVE  AccInv(b, t)
<1>1. PICK n \in Nat \ {0} : n = a.len /\ a \in Access(n)
  BY Zenon DEF Begun
<1>2. F \in SUBSET Nat
  BY BegunIs, Zenon
<1>3. b \in Access(n)
  BY <1>1, <1>2, ZenonT(30) DEF Access
<1>4. /\ b.pc = pc /\ b.virt = a.virt /\ b.from = a.from /\ b.len = a.len /\ b.mem = a.mem
      /\ b.left = a.left /\ b.out = a.out /\ b.cur = a.cur /\ b.iova = a.iova /\ b.fails = F
  BY <1>1, Zenon DEF Access
<1>5. Begun(b)
  BY <1>1, <1>3, <1>4, Zenon DEF Begun
<1>6. Waiting(b)
  BY <1>4, Zenon DEF Waiting
<1> QED
  BY <1>4, <1>5, <1>6, Zenon DEF AccInv

\* The end of an entry is the first address it does not translate.
LEMMA EntryEndMin ==
    ASSUME NEW x, NEW S,
           S = {y \in x + 1 .. Iovas : y \notin DOMAIN tlb \/ (y \in DOMAIN tlb /\ tlb[y] # tlb[x])} \cup {Iovas}
    PROVE  EntryEnd(x) = Min(S)
  BY Zenon DEF EntryEnd

\* The entry of the RangeMap that holds an IOVA maps all of its IOVAs alike.
LEMMA EntryEndIs ==
    ASSUME TlbInv, NEW x \in DOMAIN tlb, NEW e, e = EntryEnd(x)
    PROVE  /\ e \in Nat /\ x < e
           /\ \A y \in Nat : x <= y /\ y < e => y \in DOMAIN tlb /\ tlb[y] = tlb[x]
<1>1. Iovas \in Nat /\ x \in Nat /\ x < Iovas
  BY IommuAssumption DEF TlbInv
<1>2. PICK S : S = {y \in x + 1 .. Iovas : y \notin DOMAIN tlb \/ (y \in DOMAIN tlb /\ tlb[y] # tlb[x])} \cup {Iovas}
  BY Zenon
<1>3. S \in SUBSET Nat /\ S # {} /\ \A y \in S : x < y
  BY <1>1, <1>2
<1>4. e \in S /\ \A y \in S : e <= y
  <2>1. EntryEnd(x) = Min(S)
    BY <1>2, EntryEndMin, Zenon
  <2>2. Min(S) \in S /\ \A y \in S : Min(S) <= y
    BY <1>3, MinIs, Zenon
  <2> QED
    BY <2>1, <2>2, Zenon
<1>5. e <= Iovas
  BY <1>2, <1>4, Zenon
<1>6. ASSUME NEW y \in Nat, x <= y, y < e
      PROVE  y \in DOMAIN tlb /\ tlb[y] = tlb[x]
  <2>1. CASE y = x
    BY <2>1, Zenon
  <2>2. CASE y # x
    <3>1. y \in x + 1 .. Iovas
      BY <1>1, <1>3, <1>4, <1>5, <1>6, <2>2
    <3>2. y \notin S
      BY <1>3, <1>4, <1>6
    <3> QED
      BY <1>2, <3>1, <3>2, Zenon
  <2> QED
    BY <2>1, <2>2, Zenon
<1> QED
  BY <1>3, <1>4, <1>6, Zenon

\* The next mapped range: the part of the RangeMap's entry that the access covers.
Enters(from, len, n, left, first, end, addr, count) ==
    /\ n < len /\ left = from + n .. from + len - 1
    /\ first = Min(left)
    /\ end = Min({EntryEnd(first), from + len})
    /\ addr = MapTo(tlb[first], first) /\ count = end - first

Entered(from, len, access, phys, n, left, first, end, addr, count) ==
    /\ first \in DOMAIN tlb /\ Allows(tlb[first], access)
    /\ addr \in 0 .. Top - 1 /\ count \in Nat \ {0}
    /\ Ahead(from, len, phys, n, (from + n) % Top, addr, count)
    /\ left \ (first .. end - 1) = from + n + count .. from + len - 1

\* The walk enters the next entry of the IOTLB.
LEMMA EnteredOK ==
    ASSUME TlbInv, NEW from \in Nat, NEW len \in Nat, NEW access, NEW phys, Translated(from, len, access, phys, tlb),
           NEW n \in Nat, NEW left, NEW first, NEW end, NEW addr, NEW count,
           Enters(from, len, n, left, first, end, addr, count)
    PROVE  Entered(from, len, access, phys, n, left, first, end, addr, count)
<1>1. Top \in Nat \ {0}
  BY MapAssumption, Zenon
<1>2. PICK f \in Nat : f = from + n
  OBVIOUS
<1>3. PICK z \in Nat : z = from + len /\ f < z
  BY <1>2 DEF Enters
<1>4. first = f
  <2>1. left = f .. z - 1
    <3>1. left = from + n .. from + len - 1
      BY Zenon DEF Enters
    <3> QED
      BY ONLY <1>2, <1>3, <3>1
  <2>2. left \in SUBSET Nat /\ f \in left
    BY <1>3, <2>1
  <2>3. first \in left /\ first <= f
    BY <2>2, MinIs, Zenon DEF Enters
  <2> QED
    BY <2>1, <2>3
<1>5. f \in DOMAIN tlb /\ Allows(tlb[f], access)
  <2>1. n \in 0 .. len - 1
    BY DEF Enters
  <2> QED
    BY <1>2, <2>1, Zenon DEF Translated
<1>6. PICK m \in Mappings : m = tlb[f]
  BY <1>5, Zenon DEF TlbInv
<1>7. PICK d \in Nat : d = m.diff
  BY <1>1 DEF Mappings
<1>8. PICK e \in Nat : /\ e = EntryEnd(f) /\ f < e
                       /\ \A y \in Nat : f <= y /\ y < e => y \in DOMAIN tlb /\ tlb[y] = m
  BY <1>5, <1>6, EntryEndIs, ZenonT(30)
<1>9. end \in Nat /\ end <= e /\ end <= z /\ (end = e \/ end = z)
  <2>1. end = Min({e, z})
    BY <1>3, <1>4, <1>8, Zenon DEF Enters
  <2> QED
    BY <2>1, MinOfTwo, Zenon
<1>10. f < end
  BY <1>3, <1>8, <1>9, Zenon
<1>11. PICK c \in Nat \ {0} : c = count /\ f + c = end
  <2>1. count = end - f
    BY <1>4, Zenon DEF Enters
  <2> QED
    BY <1>9, <1>10, <2>1
<1>12. PICK x \in Nat : x = f + d
  OBVIOUS
<1>13. addr = x % Top
  BY <1>4, <1>6, <1>7, <1>12, Zenon DEF MapTo, Enters
<1>14. addr \in 0 .. Top - 1
  BY <1>1, <1>13
<1>15. ASSUME NEW j \in 0 .. c - 1
       PROVE  phys[n + j] = (addr + j) % Top
  <2>1. PICK y \in Nat : y = f + j /\ f <= y /\ y < e
    <3>1. f + j \in Nat /\ f <= f + j /\ f + j < e
      BY <1>9, <1>11
    <3> QED
      BY <3>1, Zenon
  <2>2. PICK i \in 0 .. len - 1 : i = n + j
    <3>1. n + j \in 0 .. len - 1
      BY <1>2, <1>3, <1>9, <1>11
    <3> QED
      BY <3>1, Zenon
  <2>3. from + i = y
    BY <1>2, <2>1, <2>2
  <2>4. phys[i] = MapTo(tlb[y], y) /\ tlb[y] = m
    BY <1>8, <2>1, <2>3, Zenon DEF Translated
  <2>5. phys[i] = (y + d) % Top
    BY <1>7, <2>4, Zenon DEF MapTo
  <2>6. y + d = x + j /\ j \in Int /\ x \in Int
    BY <1>12, <2>1
  <2>7. ((x % Top) + j) % Top = (x + j) % Top
    BY <1>1, <2>6, RemainderOfSum, Zenon
  <2> QED
    BY <1>13, <2>2, <2>5, <2>6, <2>7, Zenon
<1>16. n + count <= len
  BY <1>2, <1>3, <1>9, <1>11
<1>17. left \ (first .. end - 1) = from + n + count .. from + len - 1
  <2>1. from + n + count = end
    BY <1>2, <1>9, <1>11, Zenon
  <2>2. left = f .. z - 1
    <3>1. left = from + n .. from + len - 1
      BY Zenon DEF Enters
    <3> QED
      BY ONLY <1>2, <1>3, <3>1
  <2>3. (f .. z - 1) \ (f .. end - 1) = end .. z - 1
    BY <1>9, <1>10
  <2> QED
    BY ONLY <1>3, <1>4, <2>1, <2>2, <2>3
<1>18. Ahead(from, len, phys, n, (from + n) % Top, addr, count)
  BY <1>11, <1>15, <1>16, Zenon DEF Ahead
<1> QED
  BY <1>4, <1>5, <1>11, <1>14, <1>17, <1>18, Zenon DEF Entered

\* The m bytes at addr lie in mem.
Held(mem, addr, m) == \A j \in 0 .. m - 1 : Holds(mem, addr + j)

\* The elements of two lists put together.
LEMMA ConcatIs ==
    ASSUME NEW s \in Seq(Nat \X Nat), NEW t \in Seq(Nat \X Nat)
    PROVE  /\ s \o t \in Seq(Nat \X Nat) /\ Len(s \o t) = Len(s) + Len(t)
           /\ \A i \in 1 .. Len(s) : (s \o t)[i] = s[i]
           /\ \A k \in 1 .. Len(t) : (s \o t)[Len(s) + k] = t[k]
  OBVIOUS

\* The m bytes of a slice at addr, and their places in the bitmap, after those given before.
Appended(out, iova, addr, m, more) ==
    more = out \o [i \in 1 .. m |-> <<iova + i - 1, addr + i - 1>>]

\* One more slice.
Grown(from, len, mem, phys, n, m, iova, addr, count, more) ==
    /\ more \in Seq(Nat \X Nat) /\ Len(more) = n + m
    /\ Given(from, len, mem, phys, more)
    /\ Ahead(from, len, phys, n + m, (iova + m) % Top, addr + m, count - m)

\* One slice more keeps the slices those of the access.
LEMMA SlicedOK ==
    ASSUME NEW from \in Nat, NEW len \in Nat, NEW mem, NEW phys,
           NEW out \in Seq(Nat \X Nat), Given(from, len, mem, phys, out),
           NEW n \in Nat, n = Len(out), from + n < Top,
           NEW addr \in 0 .. Top - 1, NEW count \in Nat, NEW iova, Ahead(from, len, phys, n, iova, addr, count),
           NEW m \in 1 .. count, addr + m < Top, Held(mem, addr, m),
           NEW more, Appended(out, iova, addr, m, more)
    PROVE  Grown(from, len, mem, phys, n, m, iova, addr, count, more)
<1>1. Top \in Nat \ {0} /\ m \in Nat /\ m > 0 /\ m <= count /\ addr \in Nat
  BY MapAssumption
<1>2. n + count <= len
  BY Zenon DEF Ahead
<1>3. iova = from + n
  <2>1. PICK x \in Nat : x = from + n
    OBVIOUS
  <2>2. x % Top = x
    BY <1>1, <2>1, RemainderSmall, Zenon
  <2> QED
    BY <2>1, <2>2, Zenon DEF Ahead
<1>4. ASSUME NEW j \in 0 .. count - 1
      PROVE  phys[n + j] = (addr + j) % Top
  BY Zenon DEF Ahead
<1>5. ASSUME NEW j \in 0 .. m - 1
      PROVE  phys[n + j] = addr + j
  <2>1. PICK x \in Nat : x = addr + j /\ x < Top
    BY <1>1
  <2>2. x % Top = x
    BY <1>1, <2>1, RemainderSmall, Zenon
  <2>3. j \in 0 .. count - 1
    BY <1>1
  <2> QED
    BY <1>4, <2>1, <2>2, <2>3, Zenon
<1>6. ASSUME NEW i \in 1 .. m
      PROVE  <<iova + i - 1, addr + i - 1>> \in Nat \X Nat
  BY <1>1, <1>3
<1>7. PICK new \in Seq(Nat \X Nat) : new = [i \in 1 .. m |-> <<iova + i - 1, addr + i - 1>>]
  <2>1. [i \in 1 .. m |-> <<iova + i - 1, addr + i - 1>>] \in Seq(Nat \X Nat)
    BY <1>1, <1>6
  <2> QED
    BY <2>1, Zenon
<1>8. Len(new) = m /\ \A i \in 1 .. m : new[i] = <<iova + i - 1, addr + i - 1>>
  BY <1>1, <1>7
<1>9. more = out \o new
  BY <1>7, Zenon DEF Appended
<1>10. /\ more \in Seq(Nat \X Nat) /\ Len(more) = n + m
       /\ \A i \in 1 .. n : more[i] = out[i]
       /\ \A k \in 1 .. m : more[n + k] = new[k]
  BY <1>8, <1>9, ConcatIs, ZenonT(30)
<1>13. ASSUME NEW k \in 1 .. m
       PROVE  Byte(from, mem, phys, n + k, more[n + k])
  <2>1. PICK j \in 0 .. m - 1 : j = k - 1 /\ n + j = n + k - 1 /\ addr + j = addr + k - 1
    <3>1. k - 1 \in 0 .. m - 1 /\ n + (k - 1) = n + k - 1 /\ addr + (k - 1) = addr + k - 1
      BY <1>1
    <3> QED
      BY <3>1, Zenon
  <2>2. phys[n + k - 1] = addr + k - 1 /\ Holds(mem, phys[n + k - 1])
    BY <1>5, <2>1, Zenon DEF Held
  <2>3. iova + k - 1 = from + (n + k) - 1
    BY <1>3
  <2>4. more[n + k] = <<iova + k - 1, addr + k - 1>>
    BY <1>8, <1>10, Zenon
  <2> QED
    BY ONLY <2>2, <2>3, <2>4 DEF Byte
<1>14. Given(from, len, mem, phys, more)
  <2>1. ASSUME NEW i \in 1 .. Len(more)
        PROVE  Byte(from, mem, phys, i, more[i])
    <3>1. CASE i > n
      <4>1. PICK k \in 1 .. m : i = n + k
        <5>1. i \in 1 .. n + m
          BY <1>10, Zenon
        <5>2. i - n \in 1 .. m /\ i = n + (i - n)
          BY <1>1, <3>1, <5>1
        <5> QED
          BY <5>2, Zenon
      <4> QED
        BY <1>13, <4>1, Zenon
    <3>2. CASE ~(i > n)
      <4>1. i \in 1 .. n
        BY <1>1, <1>10, <3>2, SMTT(30)
      <4> QED
        BY <1>10, <4>1, Zenon DEF Given
    <3> QED
      BY <3>1, <3>2, Zenon
  <2>2. Len(more) <= len
    BY <1>1, <1>2, <1>10
  <2> QED
    BY <2>1, <2>2, Zenon DEF Given
<1>15. Ahead(from, len, phys, n + m, (iova + m) % Top, addr + m, count - m)
  <2>1. iova + m = from + (n + m) /\ n + m + (count - m) = n + count
    BY <1>1, <1>3
  <2>2. ASSUME NEW j \in 0 .. (count - m) - 1
        PROVE  phys[(n + m) + j] = ((addr + m) + j) % Top
    <3>1. PICK i \in 0 .. count - 1 : i = m + j /\ n + i = (n + m) + j /\ addr + i = (addr + m) + j
      BY <1>1
    <3> QED
      BY <1>4, <3>1, Zenon
  <2> QED
    BY <1>2, <2>1, <2>2, Zenon DEF Ahead
<1> QED
  BY <1>10, <1>14, <1>15, Zenon DEF Grown

\* The access after a slice.
Moved(a, b, cur, left, out, iova, k, F) ==
    b = [a EXCEPT !.cur = cur, !.left = left, !.out = out, !.iova = iova,
                  !.got = @ + k, !.dry = (k = 0), !.filled = @ \cup F]

\* What the iterator makes of the access when the range at addr, of count
\* bytes, is the one being walked and left is what it leaves of the IOVAs.
Steps(a, b, addr, count, left, step, k, F) ==
    /\ step = NextSlice(a.mem, [addr |-> addr, count |-> count])
    /\ IF step.item.kind # "slice" THEN b = [a EXCEPT !.pc = "done"]
       ELSE \E more : /\ Appended(a.out, a.iova, step.item.addr, step.item.len, more)
                      /\ Moved(a, b, step.it, left, more, (a.iova + step.item.len) % Top, k, F)

\* No place is beyond the addresses while bytes are to come.
LEMMA PlaceIs ==
    ASSUME NEW a, Begun(a), NEW n \in Nat, NEW addr \in 0 .. Top - 1, NEW count \in Nat \ {0}, NEW left,
           n + count <= a.len, Rest(a.virt, a.from, a.len, n, addr, count, left)
    PROVE  a.from + n < Top
<1>1. PICK from \in Nat, len \in Nat : from = a.from /\ len = a.len
  BY BegunIs, Zenon
<1>2. Top \in Nat /\ Iovas \in Nat /\ Iovas <= Top /\ (a.virt => from + len <= Iovas) /\ a.virt \in BOOLEAN
  BY <1>1, BegunIs, Zenon
<1>3. CASE a.virt
  <2>1. from + len <= Iovas /\ n + count <= len
    BY <1>1, <1>2, <1>3, Zenon
  <2>2. from + n < Top
    BY <1>2, <2>1
  <2> QED
    BY <1>1, <2>2, Zenon
<1>4. CASE ~a.virt
  <2>1. addr = from + n
    BY <1>1, <1>4, Zenon DEF Rest
  <2>2. from + n < Top
    BY <1>2, <2>1
  <2> QED
    BY <1>1, <2>2, Zenon
<1> QED
  BY <1>3, <1>4, Zenon

\* What is left of an entry after a slice of it.
LEMMA RestAfter ==
    ASSUME NEW virt \in BOOLEAN, NEW from \in Nat, NEW len \in Nat, NEW n \in Nat, NEW addr \in Nat, NEW count \in Nat,
           NEW left, Rest(virt, from, len, n, addr, count, left), NEW m \in 1 .. count
    PROVE  Rest(virt, from, len, n + m, addr + m, count - m, left)
<1>1. from + (n + m) + (count - m) = from + n + count /\ (n + m) + (count - m) = n + count
  OBVIOUS
<1>2. addr = from + n => addr + m = from + (n + m)
  OBVIOUS
<1> QED
  BY <1>1, <1>2, Zenon DEF Rest

\* The access ends where it has no byte left or the map has no region.
LEMMA DoneOK ==
    ASSUME NEW a, NEW t, Begun(a), Given(a.from, a.len, a.mem, a.phys, a.out),
           Len(a.out) < a.len => ~Holds(a.mem, a.phys[Len(a.out)]),
           NEW b, b = [a EXCEPT !.pc = "done"]
    PROVE  AccInv(b, t)
<1>1. PICK n \in Nat \ {0} : n = a.len /\ a \in Access(n)
  BY Zenon DEF Begun
<1>2. b \in Access(n)
  BY <1>1, ZenonT(30) DEF Access
<1>3. /\ b.pc = "done" /\ b.virt = a.virt /\ b.from = a.from /\ b.len = a.len /\ b.mem = a.mem
      /\ b.out = a.out /\ b.phys = a.phys
  BY <1>1, Zenon DEF Access
<1>4. Begun(b)
  BY <1>1, <1>2, <1>3, Zenon DEF Begun
<1>5. Walked(b)
  BY <1>3, Zenon DEF Walked
<1> QED
  BY <1>3, <1>4, <1>5, Zenon DEF AccInv

\* The access goes on with one more slice.
LEMMA MoreOK ==
    ASSUME NEW a, NEW t, Begun(a), a.pc = "walk",
           a.virt => Translated(a.from, a.len, a.access, a.phys, t),
           NEW more \in Seq(Nat \X Nat), Given(a.from, a.len, a.mem, a.phys, more),
           NEW addr \in 0 .. Top - 1, NEW count \in Nat, NEW cur, cur = [addr |-> addr, count |-> count],
           NEW iova \in 0 .. Top - 1, Ahead(a.from, a.len, a.phys, Len(more), iova, addr, count),
           NEW left \in SUBSET Nat, Rest(a.virt, a.from, a.len, Len(more), addr, count, left),
           NEW k \in Nat, NEW F \in SUBSET Nat,
           NEW b, Moved(a, b, cur, left, more, iova, k, F)
    PROVE  AccInv(b, t)
<1>1. PICK n \in Nat \ {0} : n = a.len /\ a \in Access(n)
  BY Zenon DEF Begun
<1>2. PICK range \in [addr : 0 .. Top - 1, count : Nat] : range = cur /\ range.addr = addr /\ range.count = count
  OBVIOUS
<1>3. PICK got \in Nat : got = a.got + k
  BY <1>1, SMTT(30) DEF Access
<1>4. PICK filled \in SUBSET Nat : filled = a.filled \cup F
  BY <1>1, Zenon DEF Access
<1>5. PICK dry \in BOOLEAN : dry = (k = 0)
  BY Zenon
<1>6. b = [a EXCEPT !.cur = range, !.left = left, !.out = more, !.iova = iova,
                    !.got = got, !.dry = dry, !.filled = filled]
  <2>1. b = [a EXCEPT !.cur = range, !.left = left, !.out = more, !.iova = iova,
                      !.got = got, !.dry = (k = 0), !.filled = @ \cup F]
    BY <1>2, <1>3, Zenon DEF Moved
  <2>2. b = [a EXCEPT !.cur = range, !.left = left, !.out = more, !.iova = iova,
                      !.got = got, !.dry = dry, !.filled = @ \cup F]
    BY ONLY <1>5, <2>1, Zenon
  <2> QED
    BY ONLY <1>4, <2>2, Zenon
<1>7. b \in Access(n)
  <2>1. /\ n \in Nat /\ a \in Access(n) /\ range \in [addr : 0 .. Top - 1, count : Nat]
        /\ left \in SUBSET Nat /\ more \in Seq(Nat \X Nat) /\ iova \in 0 .. Top - 1
        /\ got \in Nat /\ dry \in BOOLEAN /\ filled \in SUBSET Nat
    BY <1>1, Zenon
  <2> QED
    BY ONLY <1>6, <2>1, ZenonT(30) DEF Access
<1>8. /\ b.pc = "walk" /\ b.virt = a.virt /\ b.from = a.from /\ b.len = a.len /\ b.mem = a.mem
      /\ b.access = a.access /\ b.phys = a.phys
  BY <1>1, <1>6, Zenon DEF Access
<1>9. b.out = more /\ b.cur = range /\ b.iova = iova /\ b.left = left
  BY <1>1, <1>6, Zenon DEF Access
<1>10. Begun(b)
  BY <1>1, <1>7, <1>8, Zenon DEF Begun
<1>11. Walking(b)
  BY <1>2, <1>8, <1>9, Zenon DEF Walking
<1>12. b.virt => Translated(b.from, b.len, b.access, b.phys, t)
  BY <1>8, Zenon
<1> QED
  BY <1>8, <1>10, <1>11, <1>12, Zenon DEF AccInv

\* One call of next() on the range at hand.
LEMMA StepsOK ==
    ASSUME NEW a, NEW t, Begun(a), a.pc = "walk", a.iova \in 0 .. Top - 1,
           a.virt => Translated(a.from, a.len, a.access, a.phys, t),
           Given(a.from, a.len, a.mem, a.phys, a.out),
           NEW addr \in 0 .. Top - 1, NEW count \in Nat,
           Ahead(a.from, a.len, a.phys, Len(a.out), a.iova, addr, count),
           NEW left \in SUBSET Nat, Rest(a.virt, a.from, a.len, Len(a.out), addr, count, left),
           count = 0 => left = {},
           NEW k \in Nat, NEW F \in SUBSET Nat, NEW step, NEW b, Steps(a, b, addr, count, left, step, k, F)
    PROVE  AccInv(b, t)
<1>1. PICK from \in Nat, len \in Nat, out \in Seq(Nat \X Nat), mem \in Seq(Regions), virt \in BOOLEAN :
        from = a.from /\ len = a.len /\ out = a.out /\ mem = a.mem /\ virt = a.virt
  BY BegunIs, Zenon
<1>2. Apart(mem) /\ Top \in Nat \ {0}
  BY <1>1, BegunIs, Zenon
<1>3. PICK n \in Nat : n = Len(out)
  OBVIOUS
<1>4. PICK it : it = [addr |-> addr, count |-> count]
  BY Zenon
<1>5. it.addr = addr /\ it.count = count
  BY <1>4, Zenon
<1>6. step = NextSlice(mem, it)
  BY <1>1, <1>4, Zenon DEF Steps
<1>7. Sliced(mem, addr, count, step)
  BY <1>2, <1>5, <1>6, NextSliceIs, Zenon
<1>8. n + count <= len /\ \A j \in 0 .. count - 1 : a.phys[n + j] = (addr + j) % Top
  BY <1>1, <1>3, Zenon DEF Ahead
<1>9. CASE count = 0
  <2>1. b = [a EXCEPT !.pc = "done"]
    BY <1>7, <1>9, Zenon DEF Steps, Sliced
  <2>2. ~(n < len)
    <3>1. CASE virt
      <4>1. from + n + 0 .. from + len - 1 = {}
        BY <1>1, <1>3, <1>9, <3>1, Zenon DEF Rest
      <4>2. n < len => from + n \in from + n + 0 .. from + len - 1
        OBVIOUS
      <4> QED
        BY <4>1, <4>2, Zenon
    <3>2. CASE ~virt
      <4>1. n + 0 = len
        BY <1>1, <1>3, <1>9, <3>2, Zenon DEF Rest
      <4> QED
        BY <4>1
    <3> QED
      BY <3>1, <3>2, Zenon
  <2> QED
    BY <1>1, <1>3, <2>1, <2>2, DoneOK, Zenon
<1>10. CASE count # 0 /\ step.item.kind = "error"
  <2>1. b = [a EXCEPT !.pc = "done"]
    BY <1>10, Zenon DEF Steps
  <2>2. ~Holds(mem, addr)
    BY <1>7, <1>10, Zenon DEF SliceOf, Sliced
  <2>3. a.phys[n] = addr
    <3>1. addr \in Nat /\ addr < Top
      BY <1>2
    <3>2. addr % Top = addr
      BY <1>2, <3>1, RemainderSmall, Zenon
    <3>3. 0 \in 0 .. count - 1
      BY ONLY <1>10, count \in Nat
    <3>4. n + 0 = n /\ addr + 0 = addr
      BY <3>1
    <3> QED
      BY <1>8, <3>2, <3>3, <3>4, Zenon
  <2> QED
    BY <1>1, <1>3, <2>1, <2>2, <2>3, DoneOK, Zenon
<1>11. CASE count # 0 /\ step.item.kind # "error"
  <2>1. PICK m \in 1 .. count : SliceOf(step, addr, count, m) /\ addr + m < Top /\ Held(mem, addr, m)
    BY <1>7, <1>11, Zenon DEF Sliced, Held
  <2>2. /\ step.item.kind = "slice" /\ step.item.addr = addr /\ step.item.len = m
        /\ step.it = [addr |-> addr + m, count |-> count - m]
    BY <2>1, Zenon DEF SliceOf
  <2>3. PICK more : /\ Appended(out, a.iova, addr, m, more)
                    /\ Moved(a, b, step.it, left, more, (a.iova + m) % Top, k, F)
    BY <1>1, <2>2, Zenon DEF Steps
  <2>4. from + n < Top
    BY <1>1, <1>3, <1>8, <1>11, PlaceIs, Zenon
  <2>5. /\ more \in Seq(Nat \X Nat) /\ Len(more) = n + m
        /\ Given(from, len, mem, a.phys, more)
        /\ Ahead(from, len, a.phys, n + m, (a.iova + m) % Top, addr + m, count - m)
    <3>1. Given(from, len, mem, a.phys, out) /\ Ahead(from, len, a.phys, n, a.iova, addr, count)
      BY <1>1, <1>3, Zenon
    <3>2. Grown(from, len, mem, a.phys, n, m, a.iova, addr, count, more)
      BY <1>3, <2>1, <2>3, <2>4, <3>1, SlicedOK, Zenon
    <3> QED
      BY <3>2, Zenon DEF Grown
  <2>6. Rest(virt, from, len, n + m, addr + m, count - m, left)
    <3>1. addr \in Nat
      BY <1>2
    <3> QED
      BY <1>1, <1>3, <3>1, RestAfter, Zenon
  <2>7. addr + m \in 0 .. Top - 1 /\ count - m \in Nat
    BY <1>2, <2>1
  <2>8. PICK iova \in 0 .. Top - 1 : iova = (a.iova + m) % Top
    <3>1. (a.iova + m) % Top \in 0 .. Top - 1
      BY <1>2, SMTT(30)
    <3> QED
      BY <3>1, Zenon
  <2>9. Moved(a, b, step.it, left, more, iova, k, F)
    BY <2>3, <2>8, Zenon
  <2>10. Ahead(a.from, a.len, a.phys, Len(more), iova, addr + m, count - m)
    BY <1>1, <2>5, <2>8, Zenon
  <2>11. Rest(a.virt, a.from, a.len, Len(more), addr + m, count - m, left)
    BY <1>1, <2>5, <2>6, Zenon
  <2>12. Given(a.from, a.len, a.mem, a.phys, more) /\ more \in Seq(Nat \X Nat)
    BY <1>1, <2>5, Zenon
  <2> QED
    BY <2>2, <2>7, <2>9, <2>10, <2>11, <2>12, MoreOK, Zenon
<1> QED
  BY <1>9, <1>10, <1>11, Zenon

\* IommuMemorySliceIterator::next, on the range at hand or on the next one.
Places(k) == {((acc.iova - acc.from) % Top) + i : i \in 0 .. k - 1}

\* A step of the walk, in the terms of the invariant.
LEMMA WalkIs ==
    ASSUME NEW k, Walk(k), ~Broken, NEW addr, NEW count, Current = [addr |-> addr, count |-> count]
    PROVE  \E step : Steps(acc, acc', addr, count, Remaining, step, k, Places(k))
<1>1. PICK step : step = NextSlice(acc.mem, [addr |-> addr, count |-> count])
  BY Zenon
<1>2. step = NextSlice(WalkedMap, Current)
  BY <1>1, Zenon DEF WalkedMap
<1>3. CASE step.item.kind # "slice"
  <2>1. acc' = [acc EXCEPT !.pc = "done"]
    BY <1>2, <1>3, Zenon DEF Walk
  <2> QED
    BY <1>1, <1>3, <2>1, Zenon DEF Steps
<1>4. CASE step.item.kind = "slice"
  <2>1. acc' = UseSlice(step.item, step.it, k)
    BY <1>2, <1>4, Zenon DEF Walk
  <2>2. PICK more : Appended(acc.out, acc.iova, step.item.addr, step.item.len, more)
    BY Zenon DEF Appended
  <2>3. Moved(acc, acc', step.it, Remaining, more, (acc.iova + step.item.len) % Top, k, Places(k))
    BY <2>1, <2>2, Zenon DEF Moved, Appended, UseSlice, Places
  <2> QED
    BY <1>1, <1>4, <2>2, <2>3, Zenon DEF Steps
<1> QED
  BY <1>3, <1>4, Zenon

\* A step of the walk keeps the slices those of the access.
LEMMA WalkOK ==
    ASSUME TlbInv, AccInv(acc, tlb), NEW k \in 0 .. Iovas, Walk(k)
    PROVE  AccInv(acc', tlb)
<1>1. acc.pc = "walk"
  BY Zenon DEF Walk
<1>2. /\ Begun(acc) /\ Walking(acc)
      /\ acc.virt => Translated(acc.from, acc.len, acc.access, acc.phys, tlb)
  BY <1>1 DEF AccInv, Idle
<1>3. PICK from \in Nat, len \in Nat, n \in Nat, virt \in BOOLEAN :
        from = acc.from /\ len = acc.len /\ n = Len(acc.out) /\ virt = acc.virt
  <2>1. Len(acc.out) \in Nat
    <3>1. acc.out \in Seq(Nat \X Nat)
      BY <1>2, BegunIs, Zenon
    <3> QED
      BY <3>1
  <2> QED
    BY <1>2, <2>1, BegunIs, Zenon
<1>4. /\ acc.iova \in 0 .. Top - 1 /\ acc.cur \in [addr : 0 .. Top - 1, count : Nat] /\ acc.left \in SUBSET Nat
  <2>1. PICK c \in Nat \ {0} : acc \in Access(c)
    BY <1>2, Zenon DEF Begun
  <2> QED
    BY <2>1, Zenon DEF Access
<1>5. Top \in Nat \ {0} /\ k \in Nat
  BY MapAssumption, IommuAssumption
<1>6. Places(k) \in SUBSET Nat
  <2>1. PICK o \in Nat : o = (acc.iova - acc.from) % Top
    <3>1. PICK d \in Int : d = acc.iova - acc.from
      BY <1>3, <1>4, <1>5, SMTT(30)
    <3>2. d % Top \in Nat
      BY <1>5
    <3> QED
      BY <3>1, <3>2, Zenon
  <2>2. Places(k) = {o + i : i \in 0 .. k - 1}
    BY <2>1, Zenon DEF Places
  <2>3. {o + i : i \in 0 .. k - 1} \in SUBSET Nat
    BY <1>5
  <2> QED
    BY <2>2, <2>3, Zenon
<1>7. /\ Given(acc.from, acc.len, acc.mem, acc.phys, acc.out)
      /\ Ahead(acc.from, acc.len, acc.phys, Len(acc.out), acc.iova, acc.cur.addr, acc.cur.count)
      /\ Rest(acc.virt, acc.from, acc.len, Len(acc.out), acc.cur.addr, acc.cur.count, acc.left)
  BY <1>2, Zenon DEF Walking
<1>8. CASE Entering
  <2>1. virt = TRUE /\ acc.cur.count = 0 /\ acc.left # {}
    BY <1>3, <1>7, <1>8, Zenon DEF Rest, Entering
  <2>2. acc.left = from + n .. from + len - 1 /\ n < len
    <3>1. acc.left = from + n + 0 .. from + len - 1
      BY <1>3, <1>7, <2>1, Zenon DEF Rest
    <3> QED
      BY ONLY <1>3, <2>1, <3>1, SMTT(30)
  <2>3. PICK addr, count : addr = MapTo(tlb[First], First) /\ count = End - First
    BY Zenon
  <2>4. Enters(from, len, n, acc.left, First, End, addr, count)
    BY <1>3, <2>2, <2>3, Zenon DEF Enters, First, End
  <2>5. Translated(from, len, acc.access, acc.phys, tlb)
    BY <1>2, <1>3, <2>1, Zenon
  <2>6. Entered(from, len, acc.access, acc.phys, n, acc.left, First, End, addr, count)
    BY <2>4, <2>5, EnteredOK, Zenon
  <2>7. /\ ~Broken /\ Current = [addr |-> addr, count |-> count]
        /\ Remaining = from + n + count .. from + len - 1
    BY <1>8, <2>3, <2>6, Zenon DEF Entered, Broken, Current, Remaining
  <2>8. acc.iova = (from + n) % Top
    BY <1>3, <1>7, Zenon DEF Ahead
  <2>9. addr \in 0 .. Top - 1 /\ count \in Nat /\ count # 0
    BY <2>6, Zenon DEF Entered
  <2>10. Ahead(acc.from, acc.len, acc.phys, Len(acc.out), acc.iova, addr, count)
    BY <1>3, <2>6, <2>8, Zenon DEF Entered
  <2>11. Rest(acc.virt, acc.from, acc.len, Len(acc.out), addr, count, Remaining)
    BY <1>3, <2>1, <2>7, Zenon DEF Rest
  <2>12. Remaining \in SUBSET Nat
    BY <1>4, <1>8, Zenon DEF Remaining
  <2>13. PICK step : Steps(acc, acc', addr, count, Remaining, step, k, Places(k))
    BY <2>7, WalkIs, Zenon
  <2> QED
    BY <1>1, <1>2, <1>4, <1>5, <1>6, <1>7, <2>9, <2>10, <2>11, <2>12, <2>13, StepsOK, ZenonT(30)
<1>9. CASE ~Entering
  <2>1. PICK a \in 0 .. Top - 1, c \in Nat : acc.cur = [addr |-> a, count |-> c]
    BY <1>4, Zenon
  <2>2. ~Broken /\ Current = [addr |-> a, count |-> c] /\ Remaining = acc.left
    BY <1>9, <2>1, Zenon DEF Broken, Current, Remaining
  <2>3. acc.cur.addr = a /\ acc.cur.count = c
    BY <2>1
  <2>4. c = 0 => acc.left = {}
    BY <1>9, <2>3, Zenon DEF Entering
  <2>5. PICK step : Steps(acc, acc', a, c, acc.left, step, k, Places(k))
    BY <2>2, WalkIs, Zenon
  <2>6. /\ Ahead(acc.from, acc.len, acc.phys, Len(acc.out), acc.iova, a, c)
        /\ Rest(acc.virt, acc.from, acc.len, Len(acc.out), a, c, acc.left)
    BY <1>7, <2>3, Zenon
  <2> QED
    BY <1>1, <1>2, <1>4, <1>5, <1>6, <1>7, <2>4, <2>5, <2>6, StepsOK, Zenon
<1> QED
  BY <1>8, <1>9, Zenon

\* The inductive invariant.
MemInv == MapInv /\ useIommu \in BOOLEAN /\ TlbInv /\ AccInv(acc, tlb)

\* Only a walk under translation depends on the IOTLB.
LEMMA AccOther ==
    ASSUME NEW a, NEW t, NEW u, AccInv(a, t), ~(a.pc = "walk" /\ a.virt)
    PROVE  AccInv(a, u)
  BY Zenon DEF AccInv

\* An access that waits for the IOTLB has given no slice.
LEMMA AccWaiting ==
    ASSUME AccInv(acc, tlb), acc.pc \in {"lookup", "fill"}
    PROVE  Begun(acc) /\ Waiting(acc)
  BY DEF AccInv, Idle

\* Iommu::translate finds the entries of an access, or misses some.
LEMMA LookupOK ==
    ASSUME TlbInv, AccInv(acc, tlb), Lookup
    PROVE  AccInv(acc', tlb)
<1>1. Begun(acc) /\ Waiting(acc)
  BY AccWaiting, Zenon DEF Lookup
<1>2. CASE LookupFails = {}
  <2>1. PICK phys : phys = [i \in DOMAIN acc.phys |-> MapTo(tlb[acc.from + i], acc.from + i)]
    BY Zenon
  <2>2. acc' = [acc EXCEPT !.pc = "walk", !.phys = phys]
    BY <1>2, <2>1, Zenon DEF Lookup
  <2>3. \A x \in acc.left : x \in DOMAIN tlb /\ Allows(tlb[x], acc.access)
    BY <1>2, Zenon DEF LookupFails
  <2>4. \A x \in acc.left : x \in DOMAIN tlb /\ Allows(tlb[x], acc.access) /\ tlb[x] \in Mappings
    BY <2>3, Zenon DEF TlbInv
  <2> QED
    BY <1>1, <2>1, <2>2, <2>4, LookedOK, Zenon
<1>3. CASE LookupFails # {}
  <2>1. acc' = [acc EXCEPT !.pc = "fill", !.fails = LookupFails]
    BY <1>3, Zenon DEF Lookup
  <2>2. LookupFails \in SUBSET acc.left
    BY Zenon DEF LookupFails
  <2> QED
    BY <1>1, <2>1, <2>2, WaitsOn, Zenon
<1> QED
  BY <1>2, <1>3, Zenon

\* A miss is filled from the table of the IOMMU.
LEMMA FillOK ==
    ASSUME TlbInv, AccInv(acc, tlb), Fill
    PROVE  TlbInv' /\ AccInv(acc', tlb')
<1>1. Begun(acc) /\ Waiting(acc)
  BY AccWaiting, Zenon DEF Fill
<1>2. CASE \A a \in acc.fails : a \in DOMAIN table /\ Allows(table[a], acc.access)
  <2>1. /\ tlb' = [a \in DOMAIN tlb \cup acc.fails |->
                      IF a \in acc.fails THEN Mapping(a, table[a].to, table[a].perm) ELSE tlb[a]]
        /\ acc' = [acc EXCEPT !.pc = "lookup", !.fails = {}]
        /\ UNCHANGED <<table, pending>>
    BY <1>2, Zenon DEF Fill
  <2>2. acc.fails \in SUBSET DOMAIN table
    BY <1>2, Zenon
  <2>3. TlbInv'
    BY <2>1, <2>2, TlbFilled, Zenon
  <2>4. AccInv(acc', tlb')
    BY <1>1, <2>1, WaitsOn, Zenon
  <2> QED
    BY <2>3, <2>4, Zenon
<1>3. CASE ~(\A a \in acc.fails : a \in DOMAIN table /\ Allows(table[a], acc.access))
  <2>1. acc' = Idle /\ UNCHANGED <<table, tlb, pending>>
    BY <1>3, Zenon DEF Fill
  <2> QED
    BY <2>1, TlbSame, Zenon DEF AccInv
<1> QED
  BY <1>2, <1>3, Zenon

\* Every step of a device access keeps the invariant.
LEMMA DeviceOK ==
    ASSUME MemInv, Device
    PROVE  MemInv'
<1>1. MapInv /\ useIommu \in BOOLEAN /\ TlbInv /\ AccInv(acc, tlb) /\ Top \in Nat /\ Iovas \in Nat /\ Iovas <= Top
  BY MapAssumption, IommuAssumption, Zenon DEF MemInv
<1>2. ASSUME NEW from \in 0 .. Iovas - 1, NEW len \in 1 .. Iovas, NEW access \in {{"r"}, {"w"}}, NEW op \in Ops,
             useIommu, from + len <= Iovas, Begin(from, len, access, op)
      PROVE  MemInv'
  <2>1. from \in 0 .. Top - 1 /\ len \in Nat \ {0} /\ access \in SUBSET {"r", "w"}
    BY <1>1, SMTT(30)
  <2>2. AccInv(acc', tlb)
    BY <1>1, <1>2, <2>1, BeginOK, SMTT(30)
  <2>3. UNCHANGED mapVars /\ UNCHANGED <<useIommu, table, tlb, pending>>
    BY <1>2, Zenon DEF Begin, iommuVars
  <2> QED
    BY <1>1, <2>2, <2>3, MapSame, TlbSame, ZenonT(30) DEF MemInv
<1>3. ASSUME NEW from \in PhysStarts, NEW len \in 1 .. Iovas, NEW op \in Ops, ~useIommu, Begin(from, len, {"w"}, op)
      PROVE  MemInv'
  <2>1. from \in 0 .. Top - 1 /\ len \in Nat \ {0} /\ {"w"} \in SUBSET {"r", "w"}
    BY <1>1, IommuAssumption, SMTT(30)
  <2>2. AccInv(acc', tlb)
    BY <1>1, <1>3, <2>1, BeginOK, SMTT(30)
  <2>3. UNCHANGED mapVars /\ UNCHANGED <<useIommu, table, tlb, pending>>
    BY <1>3, Zenon DEF Begin, iommuVars
  <2> QED
    BY <1>1, <2>2, <2>3, MapSame, TlbSame, Zenon DEF MemInv
<1>4. CASE Lookup
  <2>1. UNCHANGED mapVars /\ UNCHANGED <<useIommu, table, tlb, pending>>
    BY <1>4, Zenon DEF Lookup, iommuVars
  <2> QED
    BY <1>1, <1>4, <2>1, LookupOK, MapSame, TlbSame, Zenon DEF MemInv
<1>5. CASE Fill
  <2>1. UNCHANGED mapVars /\ UNCHANGED useIommu
    BY <1>5, Zenon DEF Fill
  <2> QED
    BY <1>1, <1>5, <2>1, FillOK, MapSame, Zenon DEF MemInv
<1>6. ASSUME NEW k \in 0 .. Iovas, Walk(k)
      PROVE  MemInv'
  <2>1. UNCHANGED mapVars /\ UNCHANGED <<useIommu, table, tlb, pending>>
    BY <1>6, Zenon DEF Walk, iommuVars
  <2> QED
    BY <1>1, <1>6, <2>1, WalkOK, MapSame, TlbSame, Zenon DEF MemInv
<1>7. CASE Finish
  <2>1. UNCHANGED mapVars /\ UNCHANGED <<useIommu, table, tlb, pending>> /\ acc' = Idle
    BY <1>7, Zenon DEF Finish, iommuVars
  <2> QED
    BY <1>1, <2>1, MapSame, TlbSame, Zenon DEF MemInv, AccInv
<1> QED
  BY <1>2, <1>3, <1>4, <1>5, <1>6, <1>7, Zenon DEF Device

\* Every update of the map by the VMM keeps the invariant.
LEMMA VmmOK ==
    ASSUME MemInv, Vmm
    PROVE  MemInv'
<1>1. MapInv /\ useIommu \in BOOLEAN /\ TlbInv /\ AccInv(acc, tlb)
  BY Zenon DEF MemInv
<1>2. ASSUME NEW a \in 0 .. Iovas - 1, NEW len \in 1 .. Iovas, InvalidateMapping(a, len)
      PROVE  MemInv'
  <2>1. /\ ~(acc.pc = "walk" /\ acc.virt) /\ UNCHANGED mapVars /\ UNCHANGED <<useIommu, table, acc>>
        /\ tlb' = [b \in DOMAIN tlb \ (a .. a + len - 1) |-> tlb[b]]
        /\ pending' = pending \ (a .. a + len - 1)
    BY <1>2, Zenon DEF InvalidateMapping, WriteLockFree
  <2>2. AccInv(acc, tlb')
    BY <1>1, <2>1, AccOther, Zenon
  <2>3. TlbInv'
    BY <1>1, <2>1, TlbInvalidated, Zenon
  <2> QED
    BY <1>1, <2>1, <2>2, <2>3, MapSame, Zenon DEF MemInv
<1>3. CASE InvalidateAll
  <2>1. ~(acc.pc = "walk" /\ acc.virt) /\ UNCHANGED mapVars /\ UNCHANGED <<useIommu, acc>>
    BY <1>3, Zenon DEF InvalidateAll, WriteLockFree
  <2>2. AccInv(acc, tlb')
    BY <1>1, <2>1, AccOther, Zenon
  <2> QED
    BY <1>1, <1>3, <2>1, <2>2, TlbCleared, MapSame, Zenon DEF MemInv
<1>4. ASSUME NEW enabled \in BOOLEAN, SetIommuEnabled(enabled)
      PROVE  MemInv'
  <2>1. useIommu' \in BOOLEAN /\ UNCHANGED mapVars /\ UNCHANGED <<table, tlb, pending, acc>>
    BY <1>4, Zenon DEF SetIommuEnabled
  <2> QED
    BY <1>1, <2>1, MapSame, TlbSame, Zenon DEF MemInv
<1> QED
  BY <1>2, <1>3, <1>4, Zenon DEF Vmm

\* Every change of the page table by the guest keeps the invariant.
LEMMA GuestOK ==
    ASSUME MemInv, Guest
    PROVE  MemInv'
<1>1. MapInv /\ useIommu \in BOOLEAN /\ TlbInv /\ AccInv(acc, tlb)
  BY Zenon DEF MemInv
<1>2. ASSUME NEW a \in 0 .. Iovas - 1, NEW to \in Targets, NEW perm \in Perms, GuestMap(a, to, perm)
      PROVE  MemInv'
  <2>1. UNCHANGED mapVars /\ UNCHANGED <<useIommu, tlb, acc>>
    BY <1>2, Zenon DEF GuestMap
  <2> QED
    BY <1>1, <1>2, <2>1, TlbMapped, MapSame, Zenon DEF MemInv
<1>3. ASSUME NEW a \in DOMAIN table, GuestUnmap(a)
      PROVE  MemInv'
  <2>1. UNCHANGED mapVars /\ UNCHANGED <<useIommu, tlb, acc>>
    BY <1>3, Zenon DEF GuestUnmap
  <2> QED
    BY <1>1, <1>3, <2>1, TlbUnmapped, MapSame, Zenon DEF MemInv
<1> QED
  BY <1>2, <1>3, Zenon DEF Guest

\* The invariant holds in every state.
LEMMA MemInvHolds == Spec => []MemInv
<1>1. Init => MemInv
  <2> SUFFICES ASSUME Init PROVE MemInv
    BY Zenon
  <2>1. MapInv
    BY MapInitOK, Zenon DEF Init
  <2>2. useIommu \in BOOLEAN /\ acc = Idle
    BY Zenon DEF Init
  <2> QED
    BY <2>1, <2>2, TlbInitOK, Zenon DEF MemInv, AccInv
<1>2. MemInv /\ [Next]_vars => MemInv'
  <2> SUFFICES ASSUME MemInv, [Next]_vars PROVE MemInv'
    BY Zenon
  <2>1. CASE Device
    BY <2>1, DeviceOK, Zenon
  <2>2. CASE Vmm
    BY <2>2, VmmOK, Zenon
  <2>3. CASE Guest
    BY <2>3, GuestOK, Zenon
  <2>4. CASE MapNext /\ UNCHANGED <<iommuVars, acc>>
    BY <2>4, MapStep, TlbSame, Zenon DEF MemInv, iommuVars
  <2>5. CASE UNCHANGED vars
    BY <2>5, MapSame, TlbSame, Zenon DEF MemInv, vars, iommuVars
  <2> QED
    BY <2>1, <2>2, <2>3, <2>4, <2>5, Zenon DEF Next
<1> QED
  BY <1>1, <1>2, PTL DEF Spec

\* At every moment the memory map holds exactly the regions that the completed
\* updates left, in order and apart, whatever other updaters drafted
\* meanwhile (GuestMemoryAtomic's lock and replace, insert_region,
\* remove_region).
THEOREM NoUpdateLostHolds == Spec => []NoUpdateLost
<1>1. MemInv => NoUpdateLost
  BY Zenon DEF MemInv, MapInv, Apart, NoUpdateLost
<1> QED
  BY <1>1, MemInvHolds, PTL

\* The slices of an access follow its range byte by byte, each at the address
\* the IOTLB gave, inside the snapshot of the map the access took, and stop only
\* at the end of the range or at the first byte the snapshot does not hold
\* (IommuMemorySliceIterator over GuestMemoryBackendSliceIterator).
THEOREM SlicesExactHolds == Spec => []SlicesExact
<1>1. MemInv => SlicesExact
  <2> SUFFICES ASSUME MemInv, acc.pc \in {"walk", "done"}
               PROVE  LET n == Len(acc.out)
                      IN  /\ n <= acc.len
                          /\ \A i \in 1 .. n : acc.out[i] = <<acc.from + i - 1, acc.phys[i - 1]>> /\ Present(acc.phys[i - 1])
                          /\ acc.pc = "done" /\ n < acc.len => ~Present(acc.phys[n])
    BY Zenon DEF SlicesExact
  <2>1. acc # Idle /\ AccInv(acc, tlb)
    BY DEF MemInv, Idle
  <2>2. /\ Given(acc.from, acc.len, acc.mem, acc.phys, acc.out)
        /\ acc.pc = "done" /\ Len(acc.out) < acc.len => ~Holds(acc.mem, acc.phys[Len(acc.out)])
    BY <2>1, Zenon DEF AccInv, Walking, Walked
  <2>3. \A x : Holds(acc.mem, x) <=> Present(x)
    BY Zenon DEF Holds, Present
  <2> QED
    BY <2>2, <2>3, Zenon DEF Given, Byte
<1> QED
  BY <1>1, MemInvHolds, PTL

\* The iterator never finds the entry of its next IOVA gone, and while an
\* access walks, what it was given agrees with the IOMMU's table wherever no
\* invalidation is still to come (invalidate_mapping and invalidate_all against
\* the read guard in IotlbIterator).
THEOREM NoUseAfterInvalidationHolds == Spec => []NoUseAfterInvalidation
<1>1. MemInv => NoUseAfterInvalidation
  <2> SUFFICES ASSUME MemInv PROVE NoUseAfterInvalidation
    BY Zenon
  <2>1. TlbInv /\ AccInv(acc, tlb)
    BY Zenon DEF MemInv
  <2>2. acc.pc # "panic"
    BY <2>1 DEF AccInv, Idle
  <2>3. ASSUME acc.pc = "walk", acc.virt, NEW i \in 0 .. acc.len - 1
        PROVE  \/ acc.from + i \in pending
               \/ /\ acc.from + i \in DOMAIN table
                  /\ table[acc.from + i].to = acc.phys[i]
                  /\ Allows(table[acc.from + i], acc.access)
    <3>1. acc # Idle
      BY <2>3 DEF Idle
    <3>2. Translated(acc.from, acc.len, acc.access, acc.phys, tlb)
      BY <2>1, <2>3, <3>1, Zenon DEF AccInv
    <3>3. PICK x : x = acc.from + i
      BY Zenon
    <3>4. x \in DOMAIN tlb /\ Allows(tlb[x], acc.access) /\ acc.phys[i] = MapTo(tlb[x], x)
      BY <3>2, <3>3, Zenon DEF Translated
    <3>5. x \in pending \/ (x \in DOMAIN table /\ Agrees(tlb[x], table[x], x))
      BY <2>1, <3>4, Zenon DEF TlbInv
    <3> QED
      BY <3>3, <3>4, <3>5, Zenon DEF Agrees, Allows
  <2> QED
    BY <2>2, <2>3, Zenon DEF NoUseAfterInvalidation
<1> QED
  BY <1>1, MemInvHolds, PTL
================================================================================
