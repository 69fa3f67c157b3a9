---- MODULE ChainDataProofs ----
(***************************************************************************)
(* The bytes of a descriptor chain, whatever the guest puts in memory: the *)
(* block device, for every disk, sector size and set of features, moves    *)
(* the bytes of a request and touches no others; a Reader or Writer hands  *)
(* out each byte once and in order.                                        *)
(***************************************************************************)
EXTENDS BlkDevice, ChainBuffers, WellFoundedInduction, TLAPS

\* The elements of two lists put together.
LEMMA CatElements ==
    ASSUME NEW s \in Seq(Nat), NEW t \in Seq(Nat)
    PROVE  /\ s \o t \in Seq(Nat) /\ Len(s \o t) = Len(s) + Len(t)
           /\ Len(s) \in Nat /\ Len(t) \in Nat
           /\ \A i \in 1 .. Len(s) : (s \o t)[i] = s[i]
           /\ \A i \in 1 .. Len(t) : (s \o t)[Len(s) + i] = t[i]
           /\ \A i \in 1 .. Len(s) + Len(t) : i \in 1 .. Len(s) \/ \E j \in 1 .. Len(t) : i = Len(s) + j
<1>1. s \o t \in Seq(Nat) /\ Len(s \o t) = Len(s) + Len(t) /\ Len(s) \in Nat /\ Len(t) \in Nat
  OBVIOUS
<1>2. \A i \in 1 .. Len(s) : (s \o t)[i] = s[i]
  OBVIOUS
<1>3. \A i \in 1 .. Len(t) : (s \o t)[Len(s) + i] = t[i]
  OBVIOUS
<1>4. ASSUME NEW i \in 1 .. Len(s) + Len(t), i \notin 1 .. Len(s)
      PROVE  \E j \in 1 .. Len(t) : i = Len(s) + j
  <2>1. i - Len(s) \in 1 .. Len(t) /\ i = Len(s) + (i - Len(s))
    BY <1>1, <1>4
  <2>2. QED
    BY <2>1, Zenon
<1>5. QED
  BY <1>1, <1>2, <1>3, <1>4, Zenon

-----------------------------------------------------------------------------
(* The block device.  How many bytes the first i descriptors hold is found *)
(* by induction, which here starts from a least counterexample.            *)

\* A set with 0, and with n + 1 when with n, has every number.
LEMMA Induction ==
    ASSUME NEW T, 0 \in T, \A n \in Nat : n \in T => n + 1 \in T
    PROVE  Nat \subseteq T
<1> DEFINE R == {ss \in Nat \X Nat : ss[1] < ss[2]}
<1> SUFFICES ASSUME Nat \ T # {} PROVE FALSE
  BY Zenon
<1>1. OpToRel(<, Nat) = R
  BY Zenon DEF OpToRel
<1>2. IsWellFoundedOn(R, Nat)
  BY <1>1, NatLessThanWellFounded, Zenon
<1>3. \A x, y \in Nat : x < y => <<x, y>> \in R
  BY Zenon
<1> HIDE DEF R
<1>4. PICK x \in Nat \ T : \A y \in Nat \ T : ~(<<y, x>> \in R)
  BY <1>2, WFMin, Zenon
<1>5. x # 0 /\ x - 1 \in Nat /\ x - 1 < x
  BY <1>4
<1>6. x - 1 \notin T
  BY <1>4, <1>5
<1>7. QED
  BY <1>3, <1>4, <1>5, <1>6, Zenon

\* g adds up the first descriptors, up to n of them.
Sums(data, n, g) ==
    /\ g \in [0 .. n -> Nat]
    /\ g[0] = 0
    /\ \A i \in 1 .. n : g[i] = g[i - 1] + data[i]

\* The lengths of the first buffers of a request can be added up.
LEMMA SumsExist ==
    ASSUME NEW data \in Seq(Nat), NEW n \in 0 .. Len(data)
    PROVE  \E g : Sums(data, n, g)
<1> DEFINE T == {k \in Nat : k <= Len(data) => \E g : Sums(data, k, g)}
<1>1. 0 \in T
  <2>1. Sums(data, 0, [i \in 0 .. 0 |-> 0])
    BY DEF Sums
  <2>2. QED
    BY <2>1, Zenon
<1>2. ASSUME NEW k \in Nat, k \in T, k + 1 <= Len(data)
      PROVE  \E g : Sums(data, k + 1, g)
  <2>1. PICK g : Sums(data, k, g)
    BY <1>2
  <2>2. PICK h : h = [i \in 0 .. k + 1 |-> IF i = k + 1 THEN g[k] + data[k + 1] ELSE g[i]]
    BY Zenon
  <2>3. data[k + 1] \in Nat /\ g[k] \in Nat
    BY <1>2, <2>1, SMTT(30) DEF Sums
  <2>4. h \in [0 .. k + 1 -> Nat] /\ h[0] = 0
    BY <2>1, <2>2, <2>3, SMTT(30) DEF Sums
  <2>5. ASSUME NEW i \in 1 .. k + 1
        PROVE  h[i] = h[i - 1] + data[i]
    <3>1. CASE i = k + 1
      BY <2>2, <3>1
    <3>2. CASE i # k + 1
      BY <2>1, <2>2, <3>2 DEF Sums
    <3>3. QED
      BY <3>1, <3>2, Zenon
  <2>6. QED
    BY <2>4, <2>5, Zenon DEF Sums
<1>3. \A k \in Nat : k \in T => k + 1 \in T
  BY <1>2
<1>4. Nat \subseteq T
  <2> HIDE DEF T
  <2>1. QED
    BY <1>1, <1>3, Induction, Zenon
<1>5. n \in T /\ n <= Len(data)
  BY <1>4
<1>6. QED
  BY <1>5, Zenon

\* What the recursion of PartSums computes.
LEMMA PartSumsAre ==
    ASSUME NEW data \in Seq(Nat)
    PROVE  Sums(data, Len(data), PartSums(data))
<1>1. PICK g : Sums(data, Len(data), g)
  BY SumsExist
<1>2. g = [i \in 0 .. Len(data) |-> IF i = 0 THEN 0 ELSE g[i - 1] + data[i]]
  BY <1>1 DEF Sums
<1>3. PartSums(data) = [i \in 0 .. Len(data) |-> IF i = 0 THEN 0 ELSE PartSums(data)[i - 1] + data[i]]
  BY <1>2, Zenon DEF PartSums
<1>4. PICK f : f = PartSums(data)
  BY Zenon
<1>5. f = [i \in 0 .. Len(data) |-> IF i = 0 THEN 0 ELSE f[i - 1] + data[i]]
  BY <1>3, <1>4, Zenon
<1>6. f[0] = 0 /\ \A i \in 1 .. Len(data) : f[i] = f[i - 1] + data[i]
  BY <1>5, SMTT(30)
<1> DEFINE T == {k \in Nat : k <= Len(data) => f[k] \in Nat}
<1>7. 0 \in T
  BY <1>6
<1>8. ASSUME NEW k \in Nat, k \in T
      PROVE  k + 1 \in T
  <2>1. CASE k + 1 <= Len(data)
    <3>1. data[k + 1] \in Nat /\ f[k] \in Nat /\ f[k + 1] = f[k] + data[k + 1]
      BY <1>6, <1>8, <2>1
    <3>2. QED
      BY <3>1
  <2>2. CASE ~(k + 1 <= Len(data))
    BY <2>2
  <2>3. QED
    BY <2>1, <2>2, Zenon
<1>9. Nat \subseteq T
  <2> HIDE DEF T
  <2>1. QED
    BY <1>7, <1>8, Induction, Zenon
<1>10. f \in [0 .. Len(data) -> Nat]
  <2>1. \A k \in 0 .. Len(data) : f[k] \in Nat
    BY <1>9
  <2>2. f = [k \in 0 .. Len(data) |-> f[k]]
    BY <1>5, Zenon
  <2>3. QED
    BY <2>1, <2>2, Zenon
<1>11. QED
  BY <1>4, <1>6, <1>10, Zenon DEF Sums

\* The first descriptors hold no more than all of them.
LEMMA PartSumsBounded ==
    ASSUME NEW data \in Seq(Nat), NEW i \in 0 .. Len(data)
    PROVE  PartSums(data)[i] <= PartSums(data)[Len(data)]
<1>1. PICK f : f = PartSums(data) /\ Sums(data, Len(data), f)
  BY PartSumsAre, Zenon
<1>2. PICK n \in Nat : n = Len(data)
  OBVIOUS
<1> DEFINE T == {k \in Nat : k <= n => f[n - k] <= f[n]}
<1>3. 0 \in T
  <2>1. n - 0 = n /\ f[n] \in Nat
    BY <1>1, <1>2 DEF Sums
  <2>2. QED
    BY <2>1
<1>4. ASSUME NEW k \in Nat, k \in T
      PROVE  k + 1 \in T
  <2>1. CASE k + 1 <= n
    <3>1. PICK j : j = n - k
      BY Zenon
    <3>2. j \in 1 .. n /\ n - (k + 1) = j - 1
      BY <2>1, <3>1
    <3>3. f[j] <= f[n]
      BY <1>4, <2>1, <3>1
    <3>4. f[j] = f[j - 1] + data[j] /\ f[j - 1] \in Nat /\ f[n] \in Nat
      <4>1. f \in [0 .. n -> Nat] /\ \A m \in 1 .. n : f[m] = f[m - 1] + data[m]
        BY <1>1, <1>2, Zenon DEF Sums
      <4>2. j - 1 \in 0 .. n
        BY <3>2
      <4>3. QED
        BY <3>2, <4>1, <4>2
    <3>5. data[j] \in Nat
      BY <1>2, <3>2
    <3>6. f[j - 1] <= f[n]
      BY <3>3, <3>4, <3>5, SMTT(30)
    <3>7. QED
      BY <3>2, <3>6
  <2>2. CASE ~(k + 1 <= n)
    BY <2>2
  <2>3. QED
    BY <2>1, <2>2, Zenon
<1>5. Nat \subseteq T
  <2> HIDE DEF T
  <2>1. QED
    BY <1>3, <1>4, Induction, Zenon
<1>6. n - i \in T /\ n - i <= n /\ n - (n - i) = i
  BY <1>2, <1>5
<1>7. QED
  BY <1>1, <1>2, <1>6, Zenon
\* The sectors are on the disk.
LEMMA SectorsOnDisk ==
    /\ NumSectors \in Nat /\ NumSectors * SectorSize \in Nat
    /\ NumSectors * SectorSize <= DiskBytes
<1>1. PICK s \in Nat \ {0}, b \in Nat : s = SectorSize /\ b = DiskBytes
  BY BlkAssumption, Zenon
<1>2. b = s * (b \div s) + (b % s) /\ b \div s \in Nat /\ b % s \in Nat
  OBVIOUS
<1>3. PICK q \in Nat : q = b \div s
  BY <1>2, Zenon
<1>4. s * q <= b /\ q * s = s * q /\ q * s \in Nat
  BY <1>2, <1>3
<1>5. QED
  BY <1>1, <1>3, <1>4, Zenon DEF NumSectors

\* check_access keeps a request inside the sectors of the disk, where no
\* offset wraps.
LEMMA AccessChecked ==
    ASSUME NEW n \in Nat, NEW sector \in Nat, CheckAccess(n, sector)
    PROVE  /\ ByteOffset(sector) = Place(sector) /\ Place(sector) \in Nat
           /\ Place(sector) + n * SectorSize <= NumSectors * SectorSize
           /\ NumSectors * SectorSize \in Nat
           /\ NumSectors * SectorSize <= DiskBytes
<1>1. /\ SectorSize \in Nat \ {0} /\ DiskBytes \in Nat /\ Wide \in Nat /\ DiskBytes < Wide
  BY BlkAssumption, Zenon
<1>2. PICK s \in Nat \ {0} : s = SectorSize
  BY <1>1, Zenon
<1>3. NumSectors \in Nat /\ NumSectors * s <= DiskBytes
  BY <1>2, SectorsOnDisk, Zenon
<1>4. PICK m \in Nat : m = NumSectors
  BY <1>3, Zenon
<1>5. n + sector <= m
  BY <1>4, Zenon DEF CheckAccess
<1>6. PICK k \in Nat : m = n + sector + k
  BY <1>5
<1>7. m * s = n * s + sector * s + k * s /\ n * s \in Nat /\ sector * s \in Nat /\ k * s \in Nat /\ m * s \in Nat
  BY <1>6
<1>8. PICK a \in Nat, b \in Nat, c \in Nat, t \in Nat :
        a = n * s /\ b = sector * s /\ c = k * s /\ t = m * s /\ t = a + b + c /\ t <= DiskBytes
  BY <1>3, <1>4, <1>7, Zenon
<1>9. ByteOffset(sector) = b % Wide /\ b % Wide = b /\ Place(sector) = b
  BY <1>1, <1>2, <1>8 DEF ByteOffset, Place
<1>10. QED
  BY <1>2, <1>4, <1>8, <1>9

\* A sector starts at a byte of the disk.
LEMMA OffsetIsNat ==
    ASSUME NEW sector \in Nat
    PROVE  ByteOffset(sector) \in Nat /\ Place(sector) \in Nat
<1>1. SectorSize \in Nat /\ Wide \in Nat \ {0}
  BY BlkAssumption
<1>2. sector * SectorSize \in Nat
  BY <1>1
<1>3. QED
  BY <1>1, <1>2 DEF ByteOffset, Place

\* Whole sectors.
LEMMA WholeSectors ==
    ASSUME NEW n \in Nat, n % SectorSize = 0
    PROVE  n \div SectorSize \in Nat /\ (n \div SectorSize) * SectorSize = n
<1>1. PICK s \in Nat \ {0} : s = SectorSize
  BY BlkAssumption, Zenon
<1>2. n = s * (n \div s) + (n % s) /\ n \div s \in Nat
  OBVIOUS
<1>3. n % s = 0
  BY <1>1, Zenon
<1>4. PICK q \in Nat : q = n \div s
  BY <1>2, Zenon
<1>5. n = s * q /\ s * q = q * s
  BY <1>2, <1>3, <1>4
<1>6. QED
  BY <1>1, <1>4, <1>5, Zenon

BlkPcs == {"head", "data", "execute", "move", "status", "done", "refused"}

Requests ==
    [pc : BlkPcs, features : FeatureSets, hasId : BOOLEAN, type : RequestTypes \cup {"none"},
     sector : Nat, data : Seq(Nat), at : Nat \ {0}, left : Int, pos : Nat, count : Nat, toMem : Nat,
     read : Seq(Nat), target : SUBSET Nat, status : {"none", "ok", "ioerr", "unsupp"}, used : Int]

Disks == [0 .. DiskBytes - 1 -> Int]

Start(b) == Place(b.sector)

\* Only bytes the request is about have changed, all of them in sectors the
\* guest knows of.
Confined(b, d) ==
    /\ \A i \in 0 .. DiskBytes - 1 : d[i] # Old => i \in b.target /\ "ro" \notin b.features
    /\ \A i \in b.target : i < NumSectors * SectorSize
    /\ b.type = "Out" => \A i \in b.target : Start(b) <= i /\ i < Start(b) + TotalLen(b)

\* The bytes of the file from a on, n of them, as ReadPart records them.
Upto(a, n) == [i \in 1 .. n |-> a + i - 1]

\* What the request has moved, up to the byte `to` of the file.
Content(b, d, to) ==
    /\ b.type = "Out" => \A i \in Start(b) .. to - 1 : d[i] = i - Start(b)
    /\ b.type = "WriteZeroes" => \A i \in b.target : d[i] = Zero
    /\ b.type = "In" => b.read = Upto(Start(b), to - Start(b))

\* The file is at the start of the data descriptor `at`.
Placed(b) ==
    /\ b.at \in 1 .. Len(b.data) + 1
    /\ b.pos = Start(b) + PartSums(b.data)[b.at - 1]
    /\ Start(b) + TotalLen(b) <= NumSectors * SectorSize

\* While the chain is parsed nothing is moved.
Unstarted(b) == b.target = {} /\ b.read = <<>> /\ b.count = 0 /\ b.toMem = 0 /\ b.at = 1

BlkTypeOK == blk \in Requests /\ disk \in Disks

Progress(b, d) ==
    /\ b.pc \in {"head", "data", "execute"} => Unstarted(b)
    /\ b.pc = "move" =>
         /\ "ro" \in b.features => b.type = "In"
         /\ b.type \in {"In", "Out"} => Placed(b)
         /\ Content(b, d, b.pos)
         /\ b.count = b.toMem
    /\ b.pc \in {"status", "done"} /\ b.status = "ok" => Content(b, d, Start(b) + TotalLen(b))
    /\ b.pc = "status" /\ b.status = "ok" => b.count = b.toMem
    /\ b.pc = "done" /\ b.status = "ok" => b.used = b.toMem

BlkInv == BlkTypeOK /\ Confined(blk, disk) /\ Progress(blk, disk)

\* The invariant says what is on the disk and in memory.
LEMMA BlkInvImplies == BlkInv => DiskExact
<1> SUFFICES ASSUME BlkInv PROVE DiskExact
  BY Zenon
<1>1. DOMAIN disk = 0 .. DiskBytes - 1 /\ blk.target \subseteq Nat
  BY Zenon DEF BlkInv, BlkTypeOK, Disks, Requests
<1>2. Confined(blk, disk) /\ Progress(blk, disk)
  BY Zenon DEF BlkInv
<1>3. PICK t \in Int : t = TotalLen(blk)
  <2>1. blk.data \in Seq(Nat) /\ Len(blk.data) \in 0 .. Len(blk.data)
    BY DEF BlkInv, BlkTypeOK, Requests
  <2>2. Sums(blk.data, Len(blk.data), PartSums(blk.data))
    BY <2>1, PartSumsAre, Zenon
  <2>3. TotalLen(blk) \in Nat
    BY <2>1, <2>2, Zenon DEF TotalLen, Sums
  <2>4. QED
    BY <2>3
<1>4. PICK a \in Nat : a = Place(blk.sector)
  BY OffsetIsNat, Zenon DEF BlkInv, BlkTypeOK, Requests
<1>5. PICK m \in Int : m = NumSectors * SectorSize
  BY SectorsOnDisk
<1>6. \A i \in DOMAIN disk : disk[i] # Old =>
             /\ i \in blk.target /\ i < m
             /\ "ro" \notin blk.features
  BY <1>1, <1>2, <1>5, Zenon DEF Confined
<1>7. blk.target \subseteq 0 .. m - 1
  BY <1>1, <1>2, <1>5 DEF Confined
<1>8. blk.type = "Out" => blk.target \subseteq a .. a + t - 1
  BY <1>1, <1>2, <1>3, <1>4 DEF Confined, Start
<1>9. ASSUME blk.pc = "done", blk.status = "ok"
      PROVE  Content(blk, disk, a + t) /\ blk.used = blk.toMem
  BY <1>2, <1>3, <1>4, <1>9, Zenon DEF Progress, Start
<1>10. ASSUME blk.pc = "done", blk.status = "ok", blk.type = "In"
       PROVE  blk.read = Upto(a, t)
  <2>1. blk.read = Upto(a, a + t - a)
    BY <1>4, <1>9, <1>10 DEF Content, Start
  <2>2. a + t - a = t
    OBVIOUS
  <2>3. QED
    BY <2>1, <2>2, Zenon
<1>11. ASSUME blk.pc = "done", blk.status = "ok"
       PROVE  /\ blk.type = "Out" => \A i \in a .. a + t - 1 : disk[i] = i - a
              /\ blk.type = "WriteZeroes" => \A i \in blk.target : disk[i] = Zero
  BY <1>4, <1>9, <1>11 DEF Content, Start
<1>12. QED
  BY <1>3, <1>4, <1>5, <1>6, <1>7, <1>8, <1>9, <1>10, <1>11, Zenon DEF DiskExact, Upto
\* The parts of a request that stay as parsed while it is executed.
SameRequest(b, c) ==
    /\ c.features = b.features /\ c.type = b.type
    /\ c.sector = b.sector /\ c.data = b.data

\* The bytes a request is for are given by its head and its buffers.
LEMMA SameStart ==
    ASSUME NEW b, NEW c, SameRequest(b, c)
    PROVE  Start(c) = Start(b) /\ TotalLen(c) = TotalLen(b)
  BY Zenon DEF SameRequest, Start, TotalLen

\* The end of execute changes only the outcome.
LEMMA EndedIs ==
    ASSUME NEW b \in Requests, NEW status \in {"ok", "ioerr", "unsupp"}, NEW count \in Nat,
           NEW c, c = Ended(b, status, count)
    PROVE  /\ c \in Requests /\ SameRequest(b, c)
           /\ c.target = b.target /\ c.read = b.read /\ c.toMem = b.toMem /\ c.pos = b.pos
           /\ c.pc = "status" /\ c.status = status /\ c.count = count
<1>1. c = [b EXCEPT !.pc = "status", !.status = status, !.count = count]
  BY Zenon DEF Ended
<1>2. c \in Requests
  BY <1>1, ZenonT(30) DEF Requests, BlkPcs
<1>3. QED
  BY <1>1, <1>2, ZenonT(30) DEF Requests, SameRequest

\* A request that fails, or whose chain is refused, promises nothing more.
LEMMA FailedOK ==
    ASSUME NEW b, NEW c, NEW d, Confined(b, d), SameRequest(b, c), c.target = b.target,
           c.pc = "refused" \/ (c.pc = "status" /\ c.status # "ok")
    PROVE  Confined(c, d) /\ Progress(c, d)
<1>1. Start(c) = Start(b) /\ TotalLen(c) = TotalLen(b)
  BY SameStart, Zenon
<1>2. Confined(c, d)
  BY <1>1, Zenon DEF Confined, SameRequest
<1>3. Progress(c, d)
  BY Zenon DEF Progress
<1>4. QED
  BY <1>2, <1>3, Zenon

\* A request that ends early with an error.
LEMMA EndedOK ==
    ASSUME NEW b \in Requests, NEW d \in Disks, Confined(b, d),
           NEW status \in {"ioerr", "unsupp"}, NEW count \in Nat,
           NEW c, c = Ended(b, status, count)
    PROVE  c \in Requests /\ Confined(c, d) /\ Progress(c, d)
<1>1. status \in {"ok", "ioerr", "unsupp"} /\ status # "ok"
  OBVIOUS
<1>2. /\ c \in Requests /\ SameRequest(b, c) /\ c.target = b.target
      /\ c.pc = "status" /\ c.status = status
  <2>1. /\ c \in Requests /\ SameRequest(b, c)
        /\ c.target = b.target /\ c.read = b.read /\ c.toMem = b.toMem /\ c.pos = b.pos
        /\ c.pc = "status" /\ c.status = status /\ c.count = count
    BY <1>1, EndedIs
  <2>2. QED
    BY <2>1, Zenon
<1>3. QED
  BY <1>1, <1>2, FailedOK, Zenon

\* A chain that is no request.
LEMMA RefusedOK ==
    ASSUME NEW b \in Requests, NEW d, Confined(b, d), NEW c, c = [b EXCEPT !.pc = "refused"]
    PROVE  c \in Requests /\ Confined(c, d) /\ Progress(c, d)
<1>1. c \in Requests
  BY Zenon DEF Requests, BlkPcs
<1>2. SameRequest(b, c) /\ c.target = b.target /\ c.pc = "refused"
  BY Zenon DEF Requests, SameRequest
<1>3. QED
  BY <1>1, <1>2, FailedOK, Zenon

\* A request that has not touched the disk.
LEMMA UnstartedOK ==
    ASSUME NEW b, NEW c, NEW d, Confined(b, d), b.target = {}, Unstarted(c),
           c.features = b.features, c.pc \in {"head", "data", "execute"}
    PROVE  Confined(c, d) /\ Progress(c, d)
<1>1. Confined(c, d)
  BY Zenon DEF Confined, Unstarted
<1>2. Progress(c, d)
  BY Zenon DEF Progress, Unstarted
<1>3. QED
  BY <1>1, <1>2, Zenon

\* A request before its chain is read.
LEMMA RequestIs ==
    ASSUME NEW features \in FeatureSets, NEW hasId \in BOOLEAN, NEW c, c = Request(features, hasId)
    PROVE  c \in Requests /\ Unstarted(c) /\ c.pc = "head" /\ c.features = features
<1>1. <<>> \in Seq(Nat)
  OBVIOUS
<1>2. c \in Requests
  BY <1>1 DEF Requests, Request, BlkPcs
<1>3. QED
  BY <1>2, Zenon DEF Request, Unstarted

\* The next request, on the disk as it is.
LEMMA NewRequestOK ==
    ASSUME NEW features \in FeatureSets, NEW hasId \in BOOLEAN, NEW c, c = Request(features, hasId),
           NEW d, d = Untouched
    PROVE  c \in Requests /\ d \in Disks /\ Confined(c, d) /\ Progress(c, d)
<1>1. c \in Requests /\ Unstarted(c) /\ c.pc = "head"
  BY RequestIs, Zenon
<1>2. d \in Disks /\ \A i \in 0 .. DiskBytes - 1 : d[i] = Old
  BY DEF Untouched, Disks, Old
<1>3. Confined(c, d)
  BY <1>1, <1>2, Zenon DEF Confined, Unstarted
<1>4. QED
  BY <1>1, <1>2, <1>3, UnstartedOK, Zenon DEF Unstarted

\* Request::parse, one descriptor at a time, touches no disk.
LEMMA ParseOK ==
    ASSUME BlkInv, NEW d \in Descriptor,
           \/ \E type \in RequestTypes, sector \in Sectors : ParseHead(d, type, sector)
           \/ ParseNext(d)
    PROVE  BlkInv'
<1>1. /\ blk \in Requests /\ disk \in Disks /\ Confined(blk, disk) /\ Progress(blk, disk)
      /\ blk.pc \in {"head", "data"} /\ disk' = disk
  BY Zenon DEF BlkInv, BlkTypeOK, ParseHead, ParseNext
<1>2. Unstarted(blk)
  BY <1>1, Zenon DEF Progress, Unstarted
<1>3. CASE blk' = Refused
  <2>1. blk' \in Requests /\ Confined(blk', disk) /\ Progress(blk', disk)
    BY <1>1, <1>3, RefusedOK, Zenon DEF Refused
  <2>2. QED
    BY <1>1, <2>1, Zenon DEF BlkInv, BlkTypeOK
<1>4. CASE blk' # Refused
  <2>1. \/ \E type \in RequestTypes, sector \in Sectors :
              blk' = [blk EXCEPT !.pc = "data", !.type = type, !.sector = sector]
        \/ blk' = [blk EXCEPT !.data = Append(@, d.len)]
        \/ blk' = [blk EXCEPT !.pc = "execute"]
    BY <1>4, Zenon DEF ParseHead, ParseNext
  <2>2. Append(blk.data, d.len) \in Seq(Nat)
    <3>1. blk.data \in Seq(Nat) /\ d.len \in Nat
      BY <1>1, ChainAssumption, Zenon DEF Requests, Descriptor
    <3>2. QED
      BY <3>1
  <2>3. blk' \in Requests
    <3>1. CASE \E type \in RequestTypes, sector \in Sectors :
                 blk' = [blk EXCEPT !.pc = "data", !.type = type, !.sector = sector]
      <4>1. PICK type \in RequestTypes, sector \in Nat :
              blk' = [blk EXCEPT !.pc = "data", !.type = type, !.sector = sector]
        BY <3>1, BlkAssumption, Zenon
      <4>2. QED
        BY <1>1, <4>1, Zenon DEF Requests, BlkPcs
    <3>2. CASE blk' = [blk EXCEPT !.data = Append(@, d.len)]
      BY <1>1, <2>2, <3>2, Zenon DEF Requests
    <3>3. CASE blk' = [blk EXCEPT !.pc = "execute"]
      BY <1>1, <3>3, Zenon DEF Requests, BlkPcs
    <3>4. QED
      BY <2>1, <3>1, <3>2, <3>3, Zenon
  <2>4. Unstarted(blk') /\ blk'.features = blk.features /\ blk'.pc \in {"head", "data", "execute"}
    BY <1>1, <1>2, <2>1, ZenonT(30) DEF Requests, Unstarted
  <2>5. Confined(blk', disk) /\ Progress(blk', disk)
    BY <1>1, <1>2, <2>4, UnstartedOK, Zenon DEF Unstarted
  <2>6. QED
    BY <1>1, <2>3, <2>5, Zenon DEF BlkInv, BlkTypeOK
<1>5. QED
  BY <1>3, <1>4, Zenon

\* Request::parse with an error touches no disk.
LEMMA ParseFailsOK ==
    ASSUME BlkInv, ParseFails
    PROVE  BlkInv'
<1>1. blk \in Requests /\ Confined(blk, disk) /\ disk \in Disks /\ disk' = disk /\ blk' = Refused
  BY Zenon DEF BlkInv, BlkTypeOK, ParseFails
<1>2. blk' \in Requests /\ Confined(blk', disk) /\ Progress(blk', disk)
  BY <1>1, RefusedOK, Zenon DEF Refused
<1>3. QED
  BY <1>1, <1>2, Zenon DEF BlkInv, BlkTypeOK

\* The bytes of the data descriptors, up to each and in all.
LEMMA TotalLenIs ==
    ASSUME NEW b \in Requests
    PROVE  /\ TotalLen(b) \in Nat
           /\ \A i \in 0 .. Len(b.data) :
                PartSums(b.data)[i] \in Nat /\ PartSums(b.data)[i] <= TotalLen(b)
           /\ PartSums(b.data)[0] = 0
           /\ \A i \in 1 .. Len(b.data) :
                /\ b.data[i] \in Nat
                /\ PartSums(b.data)[i] = PartSums(b.data)[i - 1] + b.data[i]
           /\ Len(b.data) \in Nat
           /\ PartSums(b.data)[Len(b.data)] = TotalLen(b)
<1>1. b.data \in Seq(Nat) /\ Len(b.data) \in Nat
  BY DEF Requests
<1>2. PICK f : f = PartSums(b.data) /\ Sums(b.data, Len(b.data), f)
  BY <1>1, PartSumsAre, Zenon
<1>3. f[Len(b.data)] = TotalLen(b)
  BY <1>2, Zenon DEF TotalLen
<1>4. \A i \in 0 .. Len(b.data) : f[i] \in Nat
  BY <1>2, Zenon DEF Sums
<1>5. f[0] = 0 /\ \A i \in 1 .. Len(b.data) : f[i] = f[i - 1] + b.data[i]
  BY <1>2, Zenon DEF Sums
<1>6. \A i \in 0 .. Len(b.data) : f[i] <= f[Len(b.data)]
  BY <1>1, <1>2, PartSumsBounded, Zenon
<1>7. \A i \in 1 .. Len(b.data) : b.data[i] \in Nat
  BY <1>1
<1>8. TotalLen(b) \in Nat
  BY <1>1, <1>3, <1>4
<1>9. QED
  BY <1>1, <1>2, <1>3, <1>4, <1>5, <1>6, <1>7, <1>8, Zenon

\* The checks before any byte is moved put the whole request on the disk.
LEMMA ExecuteOK ==
    ASSUME BlkInv, Execute
    PROVE  BlkInv'
<1>1. /\ blk \in Requests /\ disk \in Disks /\ Confined(blk, disk) /\ Progress(blk, disk)
      /\ blk.pc = "execute" /\ disk' = disk
  BY Zenon DEF BlkInv, BlkTypeOK, Execute
<1>2. Unstarted(blk)
  BY <1>1, Zenon DEF Progress
<1> DEFINE asked == TotalLen(blk)
           first == IF blk.data = <<>> THEN 0 ELSE Head(blk.data)
           started == [blk EXCEPT !.pc = "move", !.pos = ByteOffset(blk.sector), !.left = first]
<1>3. \/ \E status \in {"ioerr", "unsupp"} : blk' = Ended(blk, status, 0)
      \/ blk.type = "Flush" /\ blk' = Ended(blk, "ok", 0)
      \/ /\ CheckRequest(blk.type, blk.features)
         /\ blk.type \in {"In", "Out"} => asked % SectorSize = 0 /\ CheckAccess(asked \div SectorSize, blk.sector)
         /\ blk' = started
  BY DEF Execute
<1>4. CASE \E status \in {"ioerr", "unsupp"} : blk' = Ended(blk, status, 0)
  <2>1. blk' \in Requests /\ Confined(blk', disk) /\ Progress(blk', disk)
    BY <1>1, <1>4, EndedOK, Zenon
  <2>2. QED
    BY <1>1, <2>1, Zenon DEF BlkInv, BlkTypeOK
<1>5. CASE blk.type = "Flush" /\ blk' = Ended(blk, "ok", 0)
  <2>1. /\ blk' \in Requests /\ SameRequest(blk, blk')
        /\ blk'.target = blk.target /\ blk'.toMem = blk.toMem
        /\ blk'.pc = "status" /\ blk'.count = 0
    BY <1>1, <1>5, EndedIs, SMTT(30)
  <2>2. Confined(blk', disk)
    BY <1>1, <1>5, <2>1, Zenon DEF Confined, SameRequest
  <2>3. Progress(blk', disk)
    BY <1>2, <1>5, <2>1, Zenon DEF Progress, Content, SameRequest, Unstarted
  <2>4. QED
    BY <1>1, <2>1, <2>2, <2>3, Zenon DEF BlkInv, BlkTypeOK
<1>6. CASE /\ CheckRequest(blk.type, blk.features)
           /\ blk.type \in {"In", "Out"} => asked % SectorSize = 0 /\ CheckAccess(asked \div SectorSize, blk.sector)
           /\ blk' = started
  <2>1. first \in Int
    <3>1. blk.data \in Seq(Nat)
      BY <1>1, Zenon DEF Requests
    <3>2. QED
      BY <3>1
  <2>2. ByteOffset(blk.sector) \in Nat
    BY <1>1, OffsetIsNat, Zenon DEF Requests
  <2> HIDE DEF asked, first
  <2>3. blk' \in Requests
    BY <1>1, <1>6, <2>1, <2>2, Zenon DEF Requests, BlkPcs
  <2>4. /\ SameRequest(blk, blk') /\ blk'.target = blk.target /\ blk'.toMem = blk.toMem
        /\ blk'.count = blk.count /\ blk'.at = blk.at /\ blk'.read = blk.read
        /\ blk'.pc = "move" /\ blk'.pos = ByteOffset(blk.sector)
    BY <1>1, <1>6, Zenon DEF Requests, SameRequest
  <2>5. Start(blk') = Start(blk) /\ TotalLen(blk') = TotalLen(blk)
    BY <2>4, SameStart, Zenon
  <2>6. Confined(blk', disk)
    BY <1>1, <2>4, <2>5, Zenon DEF Confined, SameRequest
  <2>7. "ro" \in blk'.features => blk'.type = "In"
    BY <1>6, <2>4, Zenon DEF CheckRequest, SameRequest
  <2>8. ASSUME blk.type \in {"In", "Out"}
        PROVE  Placed(blk') /\ blk'.pos = Start(blk')
    <3>1. asked \in Nat /\ PartSums(blk.data)[0] = 0 /\ Len(blk.data) \in Nat
      BY <1>1, TotalLenIs, Zenon DEF asked
    <3>2. PICK n \in Nat : n = asked \div SectorSize /\ n * SectorSize = asked
      BY <1>6, <2>8, <3>1, WholeSectors, Zenon
    <3>3. /\ Start(blk) + asked <= NumSectors * SectorSize
          /\ ByteOffset(blk.sector) = Start(blk) /\ Start(blk) \in Nat
      BY <1>1, <1>6, <2>8, <3>2, AccessChecked, Zenon DEF Requests, Start
    <3>4. blk'.at = 1 /\ blk'.data = blk.data
      BY <1>2, <2>4, Zenon DEF Unstarted, SameRequest
    <3>5. blk'.pos = Start(blk') + PartSums(blk'.data)[blk'.at - 1]
      BY <2>4, <2>5, <3>1, <3>3, <3>4
    <3>6. QED
      BY <2>4, <2>5, <3>1, <3>3, <3>4, <3>5 DEF Placed, asked
  <2>9. Content(blk', disk, blk'.pos)
    <3>1. PICK a \in Nat : a = Start(blk)
      BY <1>1, OffsetIsNat, Zenon DEF Start, Requests
    <3>2. Upto(a, 0) = <<>> /\ a - a = 0
      BY <3>1 DEF Upto
    <3>3. blk'.read = <<>> /\ blk'.target = {}
      BY <1>2, <2>4, Zenon DEF Unstarted
    <3>4. QED
      BY <2>4, <2>5, <2>8, <3>1, <3>2, <3>3 DEF Content, SameRequest
  <2>10. Progress(blk', disk)
    BY <1>2, <2>4, <2>7, <2>8, <2>9, Zenon DEF Progress, SameRequest, Unstarted
  <2>11. QED
    BY <1>1, <2>3, <2>6, <2>10, Zenon DEF BlkInv, BlkTypeOK
<1>7. QED
  BY <1>3, <1>4, <1>5, <1>6, Zenon

\* The numbers that follow a.
LEMMA UptoIs ==
    ASSUME NEW a \in Nat, NEW n \in Nat
    PROVE  /\ Upto(a, n) \in Seq(Nat) /\ Upto(a, n) \in [1 .. n -> Nat] /\ Len(Upto(a, n)) = n
           /\ \A i \in 1 .. n : Upto(a, n)[i] = a + i - 1
<1>1. \A i \in 1 .. n : a + i - 1 \in Nat
  OBVIOUS
<1>2. Upto(a, n) \in [1 .. n -> Nat]
  BY <1>1, Zenon DEF Upto
<1>3. Upto(a, n) \in Seq(Nat) /\ Len(Upto(a, n)) = n
  BY <1>1 DEF Upto
<1>4. QED
  BY <1>2, <1>3, Zenon DEF Upto

\* Reads that follow each other read on.
ReadsOn(a, n, p, k, m) ==
    /\ a \in Nat /\ n \in Nat /\ p \in Nat /\ k \in Nat /\ m \in Nat
    /\ p = a + n /\ m = n + k

\* The numbers that follow a, in two parts.
LEMMA UptoCat ==
    ASSUME NEW a, NEW n, NEW p, NEW k, NEW m, ReadsOn(a, n, p, k, m)
    PROVE  Upto(a, n) \o Upto(p, k) = Upto(a, m)
<1>1. a \in Nat /\ n \in Nat /\ p \in Nat /\ k \in Nat /\ m \in Nat /\ p = a + n /\ m = n + k
  BY Zenon DEF ReadsOn
<1>2. PICK s \in Seq(Nat) : s = Upto(a, n) /\ Len(s) = n /\ \A i \in 1 .. n : s[i] = a + i - 1
  BY <1>1, UptoIs, Zenon
<1>3. PICK t \in Seq(Nat) : t = Upto(p, k) /\ Len(t) = k /\ \A i \in 1 .. k : t[i] = a + n + i - 1
  BY <1>1, UptoIs
<1>4. PICK u \in Seq(Nat) : u = Upto(a, m) /\ Len(u) = n + k /\ \A i \in 1 .. n + k : u[i] = a + i - 1
  BY <1>1, UptoIs
<1>5. PICK v \in Seq(Nat) : v = s \o t /\ Len(v) = Len(s) + Len(t)
        /\ (\A i \in 1 .. Len(s) : v[i] = s[i])
        /\ (\A i \in 1 .. Len(t) : v[Len(s) + i] = t[i])
        /\ (\A i \in 1 .. Len(s) + Len(t) : i \in 1 .. Len(s) \/ \E j \in 1 .. Len(t) : i = Len(s) + j)
  BY CatElements, Zenon
<1>6. ASSUME NEW i \in 1 .. n + k
      PROVE  v[i] = u[i]
  <2>1. CASE i \in 1 .. n
    BY <1>1, <1>2, <1>4, <1>5, <2>1, Zenon
  <2>2. CASE \E j \in 1 .. k : i = n + j
    <3>1. PICK j \in 1 .. k : i = n + j
      BY <2>2, Zenon
    <3>2. v[i] = t[j] /\ t[j] = a + n + j - 1 /\ u[i] = a + i - 1
      BY <1>1, <1>2, <1>3, <1>4, <1>5, <3>1, Zenon
    <3>3. QED
      BY <1>1, <3>1, <3>2
  <2>3. QED
    BY <1>1, <1>2, <1>3, <1>5, <2>1, <2>2
<1>7. v = u
  <2>1. Len(v) = n + k /\ Len(u) = n + k
    BY <1>1, <1>2, <1>3, <1>4, <1>5, Zenon
  <2>2. v = [i \in 1 .. n + k |-> v[i]] /\ u = [i \in 1 .. n + k |-> u[i]]
    BY <1>1, <2>1
  <2>3. QED
    BY <1>6, <2>2, Zenon
<1>8. QED
  BY <1>2, <1>3, <1>4, <1>5, <1>7, Zenon

\* A data descriptor is filled from the file or the id.
LEMMA ReadPartOK ==
    ASSUME BlkInv, ReadPart
    PROVE  BlkInv'
<1>1. /\ blk \in Requests /\ disk \in Disks /\ Confined(blk, disk) /\ Progress(blk, disk)
      /\ blk.pc = "move" /\ disk' = disk /\ blk.type \in {"In", "GetDeviceID"}
      /\ blk.at <= Len(blk.data)
  BY Zenon DEF BlkInv, BlkTypeOK, ReadPart
<1>2. /\ "ro" \in blk.features => blk.type = "In"
      /\ blk.type = "In" => Placed(blk)
      /\ Content(blk, disk, blk.pos) /\ blk.count = blk.toMem
  BY <1>1, Zenon DEF Progress
<1>3. PICK len, from, read :
        /\ len = blk.data[blk.at]
        /\ from = IF blk.type = "In" THEN blk.pos ELSE blk.count
        /\ read = blk.read \o Upto(from, len)
  BY Zenon
<1>4. PICK m : m = Moved(blk, len)
  BY Zenon
<1>5. blk' = [m EXCEPT !.read = m.read \o Upto(from, len)]
  BY <1>3, <1>4, Zenon DEF ReadPart, Upto
<1>6. /\ len \in Nat /\ from \in Nat /\ blk.at \in 1 .. Len(blk.data) /\ Len(blk.data) \in Nat
      /\ blk.pos \in Nat /\ blk.count \in Nat /\ blk.toMem \in Nat
  <2>1. /\ blk.at \in Nat \ {0} /\ blk.data \in Seq(Nat)
        /\ blk.pos \in Nat /\ blk.count \in Nat /\ blk.toMem \in Nat
    BY <1>1, Zenon DEF Requests
  <2>2. Len(blk.data) \in Nat /\ blk.at \in 1 .. Len(blk.data)
    BY <1>1, <2>1
  <2>3. len \in Nat
    BY <1>3, <2>1, <2>2, SMTT(30)
  <2>4. QED
    BY <1>3, <2>1, <2>2, <2>3, Zenon
<1>7. /\ m \in Requests /\ SameRequest(blk, m) /\ m.pc = blk.pc /\ m.target = blk.target /\ m.read = blk.read
      /\ m.at = blk.at + 1 /\ m.pos = blk.pos + len /\ m.count = blk.count + len /\ m.toMem = blk.toMem + len
  <2>1. m = [blk EXCEPT !.at = blk.at + 1, !.pos = blk.pos + len, !.count = blk.count + len, !.toMem = blk.toMem + len]
    BY <1>4, Zenon DEF Moved
  <2>2. /\ blk.at + 1 \in Nat \ {0} /\ blk.pos + len \in Nat
        /\ blk.count + len \in Nat /\ blk.toMem + len \in Nat
    BY <1>6, SMTT(30)
  <2>3. m \in Requests
    BY <1>1, <2>1, <2>2, Zenon DEF Requests
  <2>4. QED
    BY <1>1, <2>1, <2>3 DEF Requests, SameRequest
<1>8. read \in Seq(Nat)
  <2>1. blk.read \in Seq(Nat) /\ Upto(from, len) \in Seq(Nat)
    BY <1>1, <1>6 DEF Requests, Upto
  <2>2. QED
    BY <1>3, <2>1, CatElements, Zenon
<1>9. /\ blk' \in Requests /\ SameRequest(blk, blk') /\ blk'.pc = "move" /\ blk'.target = blk.target
      /\ blk'.read = read /\ blk'.at = blk.at + 1 /\ blk'.pos = blk.pos + len /\ blk'.count = blk'.toMem
  <2>1. blk' = [m EXCEPT !.read = read]
    BY <1>3, <1>5, <1>7, Zenon
  <2>2. blk' \in Requests
    BY <1>7, <1>8, <2>1, Zenon DEF Requests
  <2>3. QED
    BY <1>1, <1>2, <1>7, <2>1, <2>2, ZenonT(30) DEF Requests, SameRequest
<1>10. Start(blk') = Start(blk) /\ TotalLen(blk') = TotalLen(blk)
  BY <1>9, SameStart, Zenon
<1>11. Confined(blk', disk)
  BY <1>1, <1>9, <1>10, Zenon DEF Confined, SameRequest
<1>12. ASSUME blk.type = "In"
       PROVE  Placed(blk') /\ read = Upto(Start(blk), blk.pos + len - Start(blk))
  <2>1. PICK a \in Nat, n \in Nat, k \in Nat :
          /\ a = Start(blk) /\ n = PartSums(blk.data)[blk.at - 1]
          /\ k = PartSums(blk.data)[blk.at] /\ k = n + len
          /\ blk.pos = a + n /\ a + TotalLen(blk) <= NumSectors * SectorSize
    <3>1. Start(blk) \in Nat
      BY <1>1, OffsetIsNat, Zenon DEF Start, Requests
    <3>2. blk.at - 1 \in 0 .. Len(blk.data) /\ blk.at \in 0 .. Len(blk.data)
      BY <1>6
    <3>3. /\ PartSums(blk.data)[blk.at - 1] \in Nat
          /\ PartSums(blk.data)[blk.at] \in Nat
          /\ PartSums(blk.data)[blk.at] = PartSums(blk.data)[blk.at - 1] + len
      BY <1>1, <1>3, <1>6, <3>2, TotalLenIs, Zenon
    <3>4. Placed(blk)
      BY <1>2, <1>12, Zenon
    <3>5. QED
      BY <3>1, <3>3, <3>4, Zenon DEF Placed
  <2>2. blk'.at - 1 = blk.at /\ blk'.at \in 1 .. Len(blk.data) + 1
    BY <1>6, <1>9, SMTT(30)
  <2>3. blk'.pos = a + k
    BY <1>6, <1>9, <2>1
  <2>4. blk'.data = blk.data
    BY <1>9, Zenon DEF SameRequest
  <2>5. Placed(blk')
    BY <1>10, <2>1, <2>2, <2>3, <2>4, Zenon DEF Placed
  <2>6. blk.read = Upto(a, n)
    <3>1. a + n - a = n
      OBVIOUS
    <3>2. QED
      BY <1>2, <1>12, <2>1, <3>1 DEF Content
  <2>7. read = Upto(a, k)
    <3>1. PICK p \in Nat : p = blk.pos
      BY <1>6, Zenon
    <3>2. read = Upto(a, n) \o Upto(p, len)
      BY <1>3, <1>12, <2>6, <3>1, Zenon
    <3>3. ReadsOn(a, n, p, len, k)
      BY <1>6, <2>1, <3>1, Zenon DEF ReadsOn
    <3>4. Upto(a, n) \o Upto(p, len) = Upto(a, k)
      BY <3>3, UptoCat, Zenon
    <3>5. QED
      BY <3>2, <3>4, Zenon
  <2>8. blk.pos + len - a = k
    BY <1>6, <2>1
  <2>9. QED
    BY <2>1, <2>5, <2>7, <2>8, Zenon
<1>13. Content(blk', disk, blk'.pos)
  <2>1. blk'.type = blk.type /\ blk.type # "Out" /\ blk.type # "WriteZeroes"
    BY <1>1, <1>9, Zenon DEF SameRequest
  <2>2. blk.type = "In" => blk'.read = Upto(Start(blk'), blk'.pos - Start(blk'))
    <3>1. SUFFICES ASSUME blk.type = "In"
                   PROVE  blk'.read = Upto(Start(blk'), blk'.pos - Start(blk'))
      BY Zenon
    <3>2. read = Upto(Start(blk), blk.pos + len - Start(blk))
      BY <1>12, <3>1, Zenon
    <3>3. blk'.pos - Start(blk') = blk.pos + len - Start(blk)
      <4>1. blk'.pos = blk.pos + len /\ Start(blk') = Start(blk)
        BY <1>9, <1>10, Zenon
      <4>2. Start(blk) \in Nat
        BY <1>1, OffsetIsNat, Zenon DEF Start, Requests
      <4>3. QED
        BY <1>6, <4>1, <4>2
    <3>4. QED
      BY <1>9, <1>10, <3>2, <3>3, Zenon
  <2>3. QED
    BY <2>1, <2>2, Zenon DEF Content
<1>14. Progress(blk', disk)
  BY <1>1, <1>2, <1>9, <1>12, <1>13, Zenon DEF Progress, SameRequest
<1>15. QED
  BY <1>1, <1>9, <1>11, <1>14, Zenon DEF BlkInv, BlkTypeOK
\* Where a descriptor of a write request lies on the disk.
LEMMA PlacedRange ==
    ASSUME NEW b \in Requests, Placed(b), b.at <= Len(b.data), NEW k \in Nat, k <= b.data[b.at]
    PROVE  /\ Start(b) \in Nat /\ TotalLen(b) \in Nat /\ NumSectors * SectorSize \in Nat
           /\ NumSectors * SectorSize <= DiskBytes
           /\ Start(b) <= b.pos /\ b.pos + k <= Start(b) + TotalLen(b)
           /\ Start(b) + TotalLen(b) <= NumSectors * SectorSize
           /\ k = b.data[b.at] => b.pos + k = Start(b) + PartSums(b.data)[b.at]
<1>1. Start(b) \in Nat
  BY OffsetIsNat, Zenon DEF Start, Requests
<1>2. TotalLen(b) \in Nat /\ Len(b.data) \in Nat
  BY TotalLenIs, Zenon
<1>3. /\ b.at \in 1 .. Len(b.data) /\ b.at \in 0 .. Len(b.data) /\ b.at - 1 \in 0 .. Len(b.data)
      /\ b.pos = Start(b) + PartSums(b.data)[b.at - 1]
      /\ Start(b) + TotalLen(b) <= NumSectors * SectorSize
  BY <1>2 DEF Placed
<1>4. PICK n \in Nat, m \in Nat, len \in Nat :
        /\ n = PartSums(b.data)[b.at - 1] /\ m = PartSums(b.data)[b.at]
        /\ len = b.data[b.at] /\ m = n + len /\ m <= TotalLen(b)
  BY <1>3, TotalLenIs, ZenonT(30)
<1>5. NumSectors * SectorSize \in Nat /\ NumSectors * SectorSize <= DiskBytes
  BY SectorsOnDisk, Zenon
<1>6. PICK a \in Nat, t \in Nat, z \in Nat : a = Start(b) /\ t = TotalLen(b) /\ z = NumSectors * SectorSize
  BY <1>1, <1>2, <1>5, Zenon
<1>7. b.pos = a + n /\ a + t <= z /\ z <= DiskBytes /\ k <= len /\ m <= t /\ m = n + len
  BY <1>3, <1>4, <1>5, <1>6, Zenon
<1>8. a <= b.pos /\ b.pos + k <= a + t /\ (k = len => b.pos + k = a + m)
  <2>1. PICK p \in Nat : p = b.pos
    BY <1>7
  <2>2. p = a + n /\ k <= len /\ n + len <= t
    BY <1>7, <2>1, Zenon
  <2>3. a <= p /\ p + k <= a + t /\ (k = len => p + k = a + m)
    BY <1>7, <2>2
  <2>4. QED
    BY <2>1, <2>3, Zenon
<1>9. QED
  BY <1>4, <1>6, <1>7, <1>8, Zenon

\* What ZeroAt leaves on the disk.
Zeroed(d, e, from, k) ==
    /\ e \in Disks
    /\ \A i \in 0 .. DiskBytes - 1 :
         /\ from <= i /\ i < from + k => e[i] = Zero
         /\ ~(from <= i /\ i < from + k) => e[i] = d[i]

\* Zeroing k bytes of the disk changes those and no others.
LEMMA ZeroAtIs ==
    ASSUME disk \in Disks, NEW from \in Nat, NEW k \in Nat
    PROVE  Zeroed(disk, ZeroAt(from, k), from, k)
<1>1. PICK e : e = ZeroAt(from, k)
  BY Zenon
<1>2. e = [i \in 0 .. DiskBytes - 1 |-> IF from <= i /\ i < from + k THEN Zero ELSE disk[i]]
  BY <1>1, Zenon DEF ZeroAt, Disks
<1>3. Zero \in Int
  BY DEF Zero
<1>4. e \in Disks
  BY <1>2, <1>3, Zenon DEF Disks
<1>5. QED
  BY <1>1, <1>2, <1>4, Zenon DEF Zeroed

\* What StoreAt leaves on the disk.
Stored(d, e, from, k, first) ==
    /\ e \in Disks
    /\ \A i \in 0 .. DiskBytes - 1 :
         /\ from <= i /\ i < from + k => e[i] = first + (i - from)
         /\ ~(from <= i /\ i < from + k) => e[i] = d[i]

\* Writing k bytes of the disk changes those and no others.
LEMMA StoreAtIs ==
    ASSUME disk \in Disks, NEW from \in Nat, NEW k \in Nat, NEW first \in Nat,
           NEW e, e = StoreAt(from, k, first)
    PROVE  Stored(disk, e, from, k, first)
<1>1. e = [i \in 0 .. DiskBytes - 1 |-> IF from <= i /\ i < from + k THEN first + (i - from) ELSE disk[i]]
  BY Zenon DEF StoreAt, Disks
<1>2. \A i \in 0 .. DiskBytes - 1 : first + (i - from) \in Int
  BY BlkAssumption
<1>3. e \in Disks
  BY <1>1, <1>2, Zenon DEF Disks
<1>4. QED
  BY <1>1, <1>3, Zenon DEF Stored

\* A write request writes a data descriptor, or a part of it and fails.
LEMMA WritePartOK ==
    ASSUME BlkInv, NEW k \in Nat, WritePart(k)
    PROVE  BlkInv'
<1>1. /\ blk \in Requests /\ disk \in Disks /\ Confined(blk, disk) /\ Progress(blk, disk)
      /\ blk.pc = "move" /\ blk.type = "Out" /\ blk.at <= Len(blk.data) /\ k <= blk.data[blk.at]
  BY Zenon DEF BlkInv, BlkTypeOK, WritePart
<1>2. /\ "ro" \notin blk.features /\ Placed(blk)
      /\ \A i \in Start(blk) .. blk.pos - 1 : disk[i] = i - Start(blk)
      /\ blk.count = blk.toMem
  BY <1>1, Zenon DEF Progress, Content
<1>3. PICK a \in Nat, t \in Nat, p \in Nat, m \in Nat, f \in Nat :
        /\ f = PartSums(blk.data)[blk.at - 1] /\ p = a + f
        /\ a = Start(blk) /\ t = TotalLen(blk) /\ p = blk.pos /\ m = NumSectors * SectorSize
        /\ m <= DiskBytes /\ a <= p /\ p + k <= a + t /\ a + t <= m
        /\ k = blk.data[blk.at] => p + k = a + PartSums(blk.data)[blk.at]
  <2>1. blk.pos \in Nat
    BY <1>1, Zenon DEF Requests
  <2>2. blk.at - 1 \in 0 .. Len(blk.data)
    BY <1>1, <1>2, SMTT(30) DEF Placed, Requests
  <2>3. PartSums(blk.data)[blk.at - 1] \in Nat
    BY <1>1, <2>2, TotalLenIs, Zenon
  <2>4. blk.pos = Start(blk) + PartSums(blk.data)[blk.at - 1]
    BY <1>2, Zenon DEF Placed
  <2>5. QED
    BY <1>1, <1>2, <2>1, <2>3, <2>4, PlacedRange, ZenonT(30)
<1>4. DiskBytes \in Nat
  BY BlkAssumption, Zenon
<1>5. /\ disk' \in Disks
      /\ \A i \in 0 .. DiskBytes - 1 :
           /\ p <= i /\ i < p + k => disk'[i] = f + (i - p)
           /\ ~(p <= i /\ i < p + k) => disk'[i] = disk[i]
  <2>1. disk' = StoreAt(p, k, f)
    BY <1>3, Zenon DEF WritePart
  <2>2. Stored(disk, disk', p, k, f)
    BY <1>1, <2>1, StoreAtIs, Zenon
  <2>3. QED
    BY <2>2, Zenon DEF Stored
<1>6. PICK c, full, part :
        /\ full = [blk EXCEPT !.at = blk.at + 1]
        /\ part = Ended(blk, "ioerr", 0)
        /\ c = IF k = blk.data[blk.at] THEN full ELSE part
        /\ blk' = [c EXCEPT !.pos = c.pos + k, !.target = c.target \cup (blk.pos .. blk.pos + k - 1)]
  BY Zenon DEF WritePart
<1>7. /\ c \in Requests /\ SameRequest(blk, c) /\ c.target = blk.target /\ c.pos = p
      /\ k = blk.data[blk.at] => c.at = blk.at + 1 /\ c.pc = "move" /\ c.count = c.toMem
      /\ k # blk.data[blk.at] => c.pc = "status" /\ c.status = "ioerr"
  <2>1. CASE k = blk.data[blk.at]
    <3>1. c = full /\ full = [blk EXCEPT !.at = blk.at + 1]
      BY <1>6, <2>1, Zenon
    <3>2. blk.at + 1 \in Nat \ {0}
      BY <1>1, SMTT(30) DEF Requests
    <3>3. full \in Requests
      BY <1>1, <3>1, <3>2, Zenon DEF Requests
    <3>4. QED
      BY <1>1, <1>2, <1>3, <2>1, <3>1, <3>3, Zenon DEF Requests, SameRequest
  <2>2. CASE k # blk.data[blk.at]
    <3>1. c = part /\ part = Ended(blk, "ioerr", 0)
      BY <1>6, <2>2, Zenon
    <3>2. part \in Requests /\ SameRequest(blk, part)
      BY <1>1, <3>1, EndedIs
    <3>3. part.target = blk.target /\ part.pos = blk.pos
      BY <1>1, <3>1, Zenon DEF Ended, Requests
    <3>4. part.pc = "status" /\ part.status = "ioerr"
      BY <1>1, <3>1, Zenon DEF Ended, Requests
    <3>5. QED
      BY <1>3, <2>2, <3>1, <3>2, <3>3, <3>4, Zenon
  <2>3. QED
    BY <2>1, <2>2, Zenon
<1>8. /\ blk' \in Requests /\ SameRequest(blk, blk') /\ blk'.target = blk.target \cup (p .. p + k - 1)
      /\ blk'.pos = p + k /\ blk'.pc = c.pc /\ blk'.status = c.status /\ blk'.at = c.at
      /\ blk'.count = c.count /\ blk'.toMem = c.toMem
  <2>1. PICK pos \in Nat, target \in SUBSET Nat :
          pos = p + k /\ target = blk.target \cup (p .. p + k - 1)
    <3>1. blk.target \cup (p .. p + k - 1) \in SUBSET Nat
      BY <1>1, SMTT(30) DEF Requests
    <3>2. p + k \in Nat
      OBVIOUS
    <3>3. QED
      BY <3>1, <3>2, Zenon
  <2>2. blk' = [c EXCEPT !.pos = pos, !.target = target]
    BY <1>3, <1>6, <1>7, <2>1, Zenon
  <2>3. blk' \in Requests
    <3>1. c \in Requests
      BY <1>7, Zenon
    <3>2. QED
      BY <2>2, <3>1, Zenon DEF Requests
  <2>4. QED
    BY <1>7, <2>1, <2>2, <2>3 DEF Requests, SameRequest
<1>9. Start(blk') = a /\ TotalLen(blk') = t
  BY <1>3, <1>8, SameStart, Zenon
<1>10. Confined(blk', disk')
  <2>1. ASSUME NEW i \in 0 .. DiskBytes - 1, disk'[i] # Old
        PROVE  i \in blk'.target /\ "ro" \notin blk'.features
    <3>1. "ro" \notin blk'.features
      BY <1>2, <1>8, Zenon DEF SameRequest
    <3>2. CASE p <= i /\ i < p + k
      BY <1>4, <1>8, <3>1, <3>2
    <3>3. CASE ~(p <= i /\ i < p + k)
      <4>1. disk[i] # Old
        BY <1>5, <2>1, <3>3, Zenon
      <4>2. i \in blk.target
        BY <1>1, <4>1, Zenon DEF Confined
      <4>3. QED
        BY <1>8, <3>1, <4>2, Zenon
    <3>4. QED
      BY <3>1, <3>2, <3>3, Zenon
  <2>2. ASSUME NEW i \in blk'.target
        PROVE  i < NumSectors * SectorSize /\ a <= i /\ i < a + t
    <3>1. i \in blk.target \/ i \in p .. p + k - 1
      BY <1>8, Zenon
    <3>2. CASE i \in blk.target
      BY <1>1, <1>3, <3>2, Zenon DEF Confined
    <3>3. CASE i \in p .. p + k - 1
      <4>1. i < m /\ a <= i /\ i < a + t
        BY <1>3, <3>3
      <4>2. QED
        BY <1>3, <4>1, Zenon
    <3>4. QED
      BY <3>1, <3>2, <3>3, Zenon
  <2>3. QED
    BY <1>9, <2>1, <2>2, Zenon DEF Confined
<1>11. ASSUME NEW i \in a .. p + k - 1
       PROVE  disk'[i] = i - a
  <2>1. i \in 0 .. DiskBytes - 1
    BY <1>3, <1>4
  <2>2. CASE i < p
    <3>1. i \in a .. p - 1 /\ ~(p <= i /\ i < p + k)
      BY <2>1, <2>2
    <3>2. QED
      BY <1>2, <1>3, <1>5, <2>1, <3>1, Zenon
  <2>3. CASE ~(i < p)
    <3>1. p <= i /\ i < p + k /\ f + (i - p) = i - a
      BY <1>3, <2>1, <2>3
    <3>2. QED
      BY <1>5, <2>1, <3>1, Zenon
  <2>4. QED
    BY <2>2, <2>3, Zenon
<1>12. Progress(blk', disk')
  <2>1. CASE k = blk.data[blk.at]
    <3>1. Placed(blk')
      <4>1. blk'.at = blk.at + 1 /\ blk'.data = blk.data /\ blk.at \in Nat \ {0} /\ Len(blk.data) \in Nat
        BY <1>1, <1>7, <1>8, <2>1, TotalLenIs, ZenonT(30) DEF SameRequest, Requests
      <4>2. blk'.at - 1 = blk.at /\ blk'.at \in 1 .. Len(blk'.data) + 1
        <5>1. blk.at <= Len(blk.data)
          BY <1>1, Zenon
        <5>2. QED
          BY <4>1, <5>1
      <4>3. QED
        BY <1>3, <1>8, <1>9, <2>1, <4>1, <4>2, Zenon DEF Placed
    <3>2. blk'.type = "Out" /\ blk'.features = blk.features
      BY <1>1, <1>8, Zenon DEF SameRequest
    <3>3. Content(blk', disk', blk'.pos)
      BY <1>8, <1>9, <1>11, <3>2 DEF Content
    <3>4. QED
      BY <1>2, <1>7, <1>8, <2>1, <3>1, <3>2, <3>3, Zenon DEF Progress
  <2>2. CASE k # blk.data[blk.at]
    BY <1>7, <1>8, <2>2, Zenon DEF Progress
  <2>3. QED
    BY <2>1, <2>2, Zenon
<1>13. QED
  BY <1>5, <1>8, <1>10, <1>12, Zenon DEF BlkInv, BlkTypeOK

\* A discard or write-zeroes request zeroes k of the len bytes from `from` on,
\* all of them if it is to go on.
LEMMA ZeroedOK ==
    ASSUME NEW b \in Requests, NEW d \in Disks, Confined(b, d), Progress(b, d), b.pc = "move",
           b.type \in {"Discard", "WriteZeroes"},
           NEW from \in Nat, NEW k \in Nat, NEW len \in Nat, k <= len,
           from + len <= NumSectors * SectorSize,
           NEW e, Zeroed(d, e, from, k),
           NEW c, SameRequest(b, c), c.target = b.target \cup (from .. from + len - 1),
           \/ c.pc = "move" /\ c.count = c.toMem /\ k = len
           \/ c.pc = "status" /\ c.status = "ioerr"
    PROVE  Confined(c, e) /\ Progress(c, e)
<1>1. /\ "ro" \notin b.features
      /\ b.type = "WriteZeroes" => \A i \in b.target : d[i] = Zero
  BY Zenon DEF Progress, Content
<1>2. c.features = b.features /\ c.type = b.type
  BY Zenon DEF SameRequest
<1>3. PICK m \in Nat : m = NumSectors * SectorSize /\ m <= DiskBytes
  BY SectorsOnDisk, Zenon
<1>4. /\ DiskBytes \in Nat
      /\ \A i \in 0 .. DiskBytes - 1 :
           /\ from <= i /\ i < from + k => e[i] = Zero
           /\ ~(from <= i /\ i < from + k) => e[i] = d[i]
  BY BlkAssumption, Zenon DEF Zeroed
<1>5. b.target \subseteq Nat /\ \A i \in b.target : i < m
  BY <1>3, Zenon DEF Requests, Confined
<1>6. ASSUME NEW i \in 0 .. DiskBytes - 1, e[i] # Old
      PROVE  i \in c.target
  <2>1. CASE from <= i /\ i < from + k
    <3>1. i \in from .. from + len - 1
      BY <1>4, <2>1
    <3>2. QED
      BY <3>1, Zenon
  <2>2. CASE ~(from <= i /\ i < from + k)
    <3>1. d[i] # Old
      BY <1>4, <1>6, <2>2, Zenon
    <3>2. QED
      BY <3>1, Zenon DEF Confined
  <2>3. QED
    BY <2>1, <2>2, Zenon
<1>7. ASSUME NEW i \in c.target
      PROVE  i \in Nat /\ i < m
  <2>1. CASE i \in b.target
    BY <1>5, <2>1, Zenon
  <2>2. CASE i \in from .. from + len - 1
    BY <1>3, <2>2
  <2>3. QED
    BY <2>1, <2>2, Zenon
<1>8. Confined(c, e)
  BY <1>1, <1>2, <1>3, <1>6, <1>7, Zenon DEF Confined
<1>9. ASSUME k = len, b.type = "WriteZeroes", NEW i \in c.target
      PROVE  e[i] = Zero
  <2>1. i \in 0 .. DiskBytes - 1
    BY <1>3, <1>4, <1>7
  <2>2. CASE from <= i /\ i < from + k
    BY <1>4, <2>1, <2>2, Zenon
  <2>3. CASE ~(from <= i /\ i < from + k)
    <3>1. i \notin from .. from + len - 1
      BY <1>9, <2>3
    <3>2. i \in b.target
      BY <3>1, Zenon
    <3>3. QED
      BY <1>1, <1>4, <1>9, <2>1, <2>3, <3>2, Zenon
  <2>4. QED
    BY <2>2, <2>3, Zenon
<1>10. CASE c.pc = "move" /\ c.count = c.toMem /\ k = len
  <2>1. Content(c, e, c.pos)
    BY <1>2, <1>9, <1>10, Zenon DEF Content
  <2>2. QED
    BY <1>1, <1>2, <1>8, <1>10, <2>1, Zenon DEF Progress
<1>11. CASE c.pc = "status" /\ c.status = "ioerr"
  BY <1>8, <1>11, Zenon DEF Progress
<1>12. QED
  BY <1>10, <1>11, Zenon

\* It goes on without a change.
LEMMA GoesOn ==
    ASSUME NEW b \in Requests, NEW d, Confined(b, d), Progress(b, d), b.pc = "move",
           b.type \in {"Discard", "WriteZeroes"},
           NEW c, SameRequest(b, c), c.target = b.target, c.pc = "move", c.count = b.count, c.toMem = b.toMem
    PROVE  Confined(c, d) /\ Progress(c, d)
<1>1. c.features = b.features /\ c.type = b.type
  BY Zenon DEF SameRequest
<1>2. Confined(c, d)
  BY <1>1, Zenon DEF Confined
<1>3. Content(c, d, c.pos)
  BY <1>1, Zenon DEF Progress, Content
<1>4. QED
  BY <1>1, <1>2, <1>3, Zenon DEF Progress

\* One segment of a discard or a write-zeroes request.
LEMMA SegmentOK ==
    ASSUME BlkInv, NEW sector \in Nat, NEW n \in Nat, NEW flag, NEW hole, NEW zeroed \in Nat,
           Segment(sector, n, flag, hole, zeroed)
    PROVE  BlkInv'
<1>1. /\ blk \in Requests /\ disk \in Disks /\ Confined(blk, disk) /\ Progress(blk, disk)
      /\ blk.pc = "move" /\ blk.type \in {"Discard", "WriteZeroes"}
  BY Zenon DEF BlkInv, BlkTypeOK, Segment
<1>2. /\ "ro" \notin blk.features /\ blk.count = blk.toMem
      /\ blk.type = "WriteZeroes" => \A i \in blk.target : disk[i] = Zero
  BY <1>1, Zenon DEF Progress, Content
<1> DEFINE len == n * SectorSize
           at == Place(sector)
           next == [blk EXCEPT !.left = @ - SegmentLen]
           range == at .. at + len - 1
           last == IF zeroed = len THEN next ELSE Ended(blk, "ioerr", 0)
<1>3. \/ disk' = disk /\ blk' = Ended(blk, "unsupp", 0)
      \/ disk' = disk /\ blk' = Ended(blk, "ioerr", 0)
      \/ disk' = disk /\ blk' = next
      \/ /\ CheckAccess(n, sector)
         /\ disk' = ZeroAt(at, len) /\ blk' = [next EXCEPT !.target = @ \cup range]
      \/ /\ CheckAccess(n, sector) /\ zeroed <= len
         /\ disk' = ZeroAt(at, zeroed) /\ blk' = [last EXCEPT !.target = @ \cup range]
  <2>1. CheckAccess(n, sector) => ByteOffset(sector) = Place(sector)
    BY AccessChecked, Zenon
  <2>2. QED
    BY <2>1, Zenon DEF Segment
<1>4. /\ next \in Requests /\ SameRequest(blk, next) /\ next.target = blk.target /\ next.pc = "move"
      /\ next.count = blk.count /\ next.toMem = blk.toMem
  <2>1. PICK left \in Int : left = blk.left - SegmentLen
    BY <1>1, BlkAssumption, SMTT(30) DEF Requests
  <2>2. next = [blk EXCEPT !.left = left]
    BY <2>1, Zenon
  <2> HIDE DEF next
  <2>3. next \in Requests
    BY <1>1, <2>2, Zenon DEF Requests
  <2>4. QED
    BY <1>1, <2>2, <2>3, Zenon DEF Requests, SameRequest
<1>5. PICK failed : /\ failed = Ended(blk, "ioerr", 0)
                    /\ failed \in Requests /\ SameRequest(blk, failed)
                    /\ failed.target = blk.target /\ failed.pc = "status" /\ failed.status = "ioerr"
  <2>1. PICK failed : failed = Ended(blk, "ioerr", 0)
    BY Zenon
  <2>2. failed \in Requests /\ SameRequest(blk, failed)
    BY <1>1, <2>1, EndedIs
  <2>3. failed.target = blk.target /\ failed.pc = "status" /\ failed.status = "ioerr"
    BY <1>1, <2>1, Zenon DEF Ended, Requests
  <2>4. QED
    BY <2>1, <2>2, <2>3, Zenon
<1>6. CASE disk' = disk /\ \E status \in {"ioerr", "unsupp"} : blk' = Ended(blk, status, 0)
  <2>1. blk' \in Requests /\ Confined(blk', disk) /\ Progress(blk', disk)
    BY <1>1, <1>6, EndedOK, Zenon
  <2>2. QED
    BY <1>1, <1>6, <2>1, Zenon DEF BlkInv, BlkTypeOK
<1>7. CASE disk' = disk /\ blk' = next
  <2> HIDE DEF next
  <2>1. Confined(next, disk) /\ Progress(next, disk)
    BY <1>1, <1>4, GoesOn, Zenon
  <2>2. QED
    BY <1>1, <1>4, <1>7, <2>1, Zenon DEF BlkInv, BlkTypeOK
<1>8. ASSUME CheckAccess(n, sector), NEW k \in Nat, k <= len,
             disk' = ZeroAt(at, k),
             NEW c \in Requests, SameRequest(blk, c), c.target = blk.target,
             blk' = [c EXCEPT !.target = c.target \cup range],
             \/ c.pc = "move" /\ c.count = c.toMem /\ k = len
             \/ c.pc = "status" /\ c.status = "ioerr"
      PROVE  BlkInv'
  <2>1. at \in Nat /\ len \in Nat /\ at + len <= NumSectors * SectorSize
    <3>1. n * SectorSize \in Nat
      BY BlkAssumption
    <3>2. QED
      BY <1>8, <3>1, AccessChecked, Zenon
  <2> HIDE DEF at, len
  <2>2. Zeroed(disk, disk', at, k)
    BY <1>1, <1>8, <2>1, ZeroAtIs, Zenon
  <2>3. PICK target \in SUBSET Nat : target = blk.target \cup (at .. at + len - 1)
    <3>1. blk.target \subseteq Nat
      BY <1>1, Zenon DEF Requests
    <3>2. at .. at + len - 1 \subseteq Nat
      BY <2>1
    <3>3. QED
      BY <3>1, <3>2, Zenon
  <2>4. blk' = [c EXCEPT !.target = target]
    BY <1>8, <2>3, Zenon
  <2>5. blk' \in Requests
    BY <1>8, <2>4, ZenonT(30) DEF Requests
  <2>6. /\ SameRequest(blk, blk') /\ blk'.target = target
        /\ blk'.pc = c.pc /\ blk'.status = c.status /\ blk'.count = c.count /\ blk'.toMem = c.toMem
    BY <1>8, <2>4, <2>5, Zenon DEF Requests, SameRequest
  <2>7. Confined(blk', disk') /\ Progress(blk', disk')
    <3>1. /\ k <= len /\ blk'.target = blk.target \cup (at .. at + len - 1)
          /\ \/ blk'.pc = "move" /\ blk'.count = blk'.toMem /\ k = len
             \/ blk'.pc = "status" /\ blk'.status = "ioerr"
      BY <1>8, <2>3, <2>6, Zenon
    <3>2. SameRequest(blk, blk')
      BY <2>6, Zenon
    <3>3. QED
      BY <1>1, <2>1, <2>2, <3>1, <3>2, ZeroedOK, Zenon
  <2>8. QED
    BY <2>2, <2>5, <2>7, Zenon DEF BlkInv, BlkTypeOK, Zeroed
<1>9. len \in Nat
  BY BlkAssumption
<1>10. CASE /\ CheckAccess(n, sector)
            /\ disk' = ZeroAt(at, len) /\ blk' = [next EXCEPT !.target = @ \cup range]
  <2>1. len <= len /\ next.count = next.toMem
    BY <1>2, <1>4, <1>9
  <2> HIDE DEF len, at, next, range
  <2>2. QED
    BY <1>4, <1>8, <1>9, <1>10, <2>1, Zenon
<1>11. CASE /\ CheckAccess(n, sector) /\ zeroed <= len
            /\ disk' = ZeroAt(at, zeroed) /\ blk' = [last EXCEPT !.target = @ \cup range]
  <2>1. PICK c : c = last
    BY Zenon
  <2>2. blk' = [c EXCEPT !.target = c.target \cup range]
    BY <1>11, <2>1, Zenon
  <2>3. c = IF zeroed = len THEN next ELSE failed
    BY <1>5, <2>1, Zenon
  <2> HIDE DEF len, at, next, range, last
  <2>4. c \in Requests /\ SameRequest(blk, c) /\ c.target = blk.target
    BY <1>4, <1>5, <2>3, Zenon
  <2>5. \/ c.pc = "move" /\ c.count = c.toMem /\ zeroed = len
        \/ c.pc = "status" /\ c.status = "ioerr"
    BY <1>2, <1>4, <1>5, <2>3, Zenon
  <2>6. QED
    BY <1>8, <1>11, <2>2, <2>4, <2>5, Zenon
<1>12. QED
  BY <1>3, <1>6, <1>7, <1>10, <1>11, Zenon
\* The last byte moved is the last of the request.
LEMMA AllMovedOK ==
    ASSUME BlkInv, AllMoved
    PROVE  BlkInv'
<1>1. /\ blk \in Requests /\ disk \in Disks /\ Confined(blk, disk) /\ Progress(blk, disk)
      /\ blk.pc = "move" /\ blk.at > Len(blk.data)
      /\ disk' = disk /\ blk' = Ended(blk, "ok", blk.count)
  BY Zenon DEF BlkInv, BlkTypeOK, AllMoved
<1>2. /\ blk.type \in {"In", "Out"} => Placed(blk)
      /\ Content(blk, disk, blk.pos) /\ blk.count = blk.toMem
  BY <1>1, Zenon DEF Progress
<1>3. blk.count \in Nat
  BY <1>1, Zenon DEF Requests
<1>4. blk' \in Requests /\ SameRequest(blk, blk')
  BY <1>1, <1>3, EndedIs
<1>5. /\ blk'.target = blk.target /\ blk'.read = blk.read /\ blk'.toMem = blk.toMem
      /\ blk'.pc = "status" /\ blk'.count = blk.count
  BY <1>1, Zenon DEF Ended, Requests
<1>6. Start(blk') = Start(blk) /\ TotalLen(blk') = TotalLen(blk)
  BY <1>4, SameStart, Zenon
<1>7. Confined(blk', disk)
  BY <1>1, <1>4, <1>5, <1>6, Zenon DEF Confined, SameRequest
<1>8. ASSUME blk.type \in {"In", "Out"}
      PROVE  blk.pos = Start(blk) + TotalLen(blk)
  <2>1. Len(blk.data) \in Nat /\ PartSums(blk.data)[Len(blk.data)] = TotalLen(blk)
    BY <1>1, TotalLenIs, Zenon
  <2>2. Placed(blk)
    BY <1>2, <1>8, Zenon
  <2>3. blk.at - 1 = Len(blk.data)
    BY <1>1, <2>1, <2>2 DEF Placed
  <2>4. QED
    BY <2>1, <2>2, <2>3, Zenon DEF Placed
<1>9. Content(blk', disk, Start(blk') + TotalLen(blk'))
  <2>1. blk'.type = blk.type
    BY <1>4, Zenon DEF SameRequest
  <2>2. CASE blk.type \in {"In", "Out"}
    <3>1. blk.pos = Start(blk') + TotalLen(blk')
      BY <1>6, <1>8, <2>2, Zenon
    <3>2. QED
      BY <1>2, <1>5, <1>6, <2>1, <3>1, Zenon DEF Content
  <2>3. CASE blk.type \notin {"In", "Out"}
    BY <1>2, <1>5, <2>1, <2>3, Zenon DEF Content
  <2>4. QED
    BY <2>2, <2>3, Zenon
<1>10. Progress(blk', disk)
  BY <1>2, <1>5, <1>9, Zenon DEF Progress
<1>11. QED
  BY <1>1, <1>4, <1>7, <1>10, Zenon DEF BlkInv, BlkTypeOK

\* process_request reports what the request wrote to memory, and a byte.
LEMMA WriteStatusOK ==
    ASSUME BlkInv, NEW ok \in BOOLEAN, WriteStatus(ok)
    PROVE  BlkInv'
<1>1. /\ blk \in Requests /\ disk \in Disks /\ Confined(blk, disk) /\ Progress(blk, disk)
      /\ blk.pc = "status" /\ disk' = disk
  BY Zenon DEF BlkInv, BlkTypeOK, WriteStatus
<1>2. CASE blk' = Refused
  <2>1. blk' \in Requests /\ Confined(blk', disk) /\ Progress(blk', disk)
    BY <1>1, <1>2, RefusedOK, Zenon DEF Refused
  <2>2. QED
    BY <1>1, <2>1, Zenon DEF BlkInv, BlkTypeOK
<1>3. CASE blk' = [blk EXCEPT !.pc = "done", !.toMem = @ + 1, !.used = blk.count + 1]
  <2>1. PICK n \in Nat, u \in Int : n = blk.toMem + 1 /\ u = blk.count + 1
    BY <1>1, SMTT(30) DEF Requests
  <2>2. blk' = [blk EXCEPT !.pc = "done", !.toMem = n, !.used = u]
    BY <1>3, <2>1, Zenon
  <2>3. blk' \in Requests
    BY <1>1, <2>2, Zenon DEF Requests, BlkPcs
  <2>4. SameRequest(blk, blk') /\ blk'.target = blk.target /\ blk'.read = blk.read
    BY <1>1, <2>2, Zenon DEF Requests, SameRequest
  <2>5. blk'.pc = "done" /\ blk'.toMem = n /\ blk'.used = u /\ blk'.status = blk.status
    BY <1>1, <2>2, Zenon DEF Requests
  <2>6. Start(blk') = Start(blk) /\ TotalLen(blk') = TotalLen(blk)
    BY <2>4, SameStart, Zenon
  <2>7. Confined(blk', disk)
    BY <1>1, <2>4, <2>6, Zenon DEF Confined, SameRequest
  <2>8. ASSUME blk.status = "ok"
        PROVE  Content(blk', disk, Start(blk') + TotalLen(blk')) /\ blk'.used = blk'.toMem
    <3>1. Content(blk, disk, Start(blk) + TotalLen(blk)) /\ blk.count = blk.toMem
      BY <1>1, <2>8, Zenon DEF Progress
    <3>2. QED
      BY <2>1, <2>4, <2>5, <2>6, <3>1, Zenon DEF Content, SameRequest
  <2>9. Progress(blk', disk)
    BY <2>5, <2>8, Zenon DEF Progress
  <2>10. QED
    BY <1>1, <2>3, <2>7, <2>9, Zenon DEF BlkInv, BlkTypeOK
<1>4. QED
  BY <1>2, <1>3, Zenon DEF WriteStatus

\* The other steps of execute: errors, and the next descriptor of segments.
LEMMA ExecuteFailsOK ==
    ASSUME BlkInv,
           \/ ExecuteFails
           \/ \E k \in Nat, hole \in BOOLEAN : ReadPartFails(k, hole)
           \/ NextSegments
    PROVE  BlkInv'
<1>1. /\ blk \in Requests /\ disk \in Disks /\ Confined(blk, disk) /\ Progress(blk, disk)
      /\ disk' = disk
  BY Zenon DEF BlkInv, BlkTypeOK, ExecuteFails, ReadPartFails, NextSegments
<1>2. CASE blk' = Ended(blk, "ioerr", 0)
  <2>1. blk' \in Requests /\ Confined(blk', disk) /\ Progress(blk', disk)
    BY <1>1, <1>2, EndedOK, Zenon
  <2>2. QED
    BY <1>1, <2>1, Zenon DEF BlkInv, BlkTypeOK
<1>3. CASE \E k \in Nat, hole \in BOOLEAN : ReadPartFails(k, hole)
  <2>1. PICK k \in Nat, hole \in BOOLEAN :
          blk' = [Ended(blk, "ioerr", blk.count + (IF hole THEN k ELSE 0)) EXCEPT !.toMem = @ + k]
    BY <1>3, Zenon DEF ReadPartFails
  <2>2. PICK count \in Nat : count = blk.count + (IF hole THEN k ELSE 0)
    BY <1>1 DEF Requests
  <2>3. PICK c : c = Ended(blk, "ioerr", count)
    BY Zenon
  <2>4. blk' = [c EXCEPT !.toMem = c.toMem + k]
    BY <2>1, <2>2, <2>3, Zenon
  <2>5. c \in Requests /\ Confined(c, disk) /\ Progress(c, disk)
    BY <1>1, <2>3, EndedOK, Zenon
  <2>6. c.pc = "status" /\ c.status = "ioerr"
    BY <1>1, <2>3, Zenon DEF Ended, Requests
  <2>7. PICK n \in Nat : n = c.toMem + k
    BY <2>5, SMTT(30) DEF Requests
  <2>8. blk' \in Requests
    BY <2>4, <2>5, <2>7, Zenon DEF Requests
  <2>9. SameRequest(c, blk') /\ blk'.target = c.target /\ blk'.pc = "status" /\ blk'.status = "ioerr"
    BY <2>4, <2>5, <2>6, Zenon DEF Requests, SameRequest
  <2>10. Confined(blk', disk) /\ Progress(blk', disk)
    BY <2>5, <2>9, FailedOK, Zenon
  <2>11. QED
    BY <1>1, <2>8, <2>10, Zenon DEF BlkInv, BlkTypeOK
<1>4. CASE NextSegments /\ blk' # Ended(blk, "ioerr", 0)
  <2>1. /\ blk.pc = "move" /\ blk.type \in {"Discard", "WriteZeroes"} /\ blk.at <= Len(blk.data)
        /\ blk' = [blk EXCEPT !.at = blk.at + 1,
                              !.left = IF blk.at < Len(blk.data) THEN blk.data[blk.at + 1] ELSE 0]
    BY <1>4, Zenon DEF NextSegments
  <2>2. PICK at \in Nat \ {0}, left \in Int :
          at = blk.at + 1 /\ left = IF blk.at < Len(blk.data) THEN blk.data[blk.at + 1] ELSE 0
    <3>1. blk.at \in Nat \ {0} /\ blk.data \in Seq(Nat)
      BY <1>1, Zenon DEF Requests
    <3>2. QED
      BY <3>1, SMTT(30)
  <2>3. blk' = [blk EXCEPT !.at = at, !.left = left]
    BY <2>1, <2>2, Zenon
  <2>4. blk' \in Requests
    BY <1>1, <2>3, Zenon DEF Requests
  <2>5. SameRequest(blk, blk') /\ blk'.target = blk.target
    BY <1>1, <2>3, Zenon DEF Requests, SameRequest
  <2>6. blk'.pc = "move" /\ blk'.count = blk.count /\ blk'.toMem = blk.toMem
    BY <1>1, <2>1, <2>3, Zenon DEF Requests
  <2>7. Confined(blk', disk) /\ Progress(blk', disk)
    BY <1>1, <2>1, <2>5, <2>6, GoesOn, Zenon
  <2>8. QED
    BY <1>1, <2>4, <2>7, Zenon DEF BlkInv, BlkTypeOK
<1>5. QED
  BY <1>2, <1>3, <1>4, Zenon DEF ExecuteFails

\* Every step of the block device keeps the invariant.
LEMMA BlkStep == BlkInv /\ [BlkNext]_<<chainVars, blkVars>> => BlkInv'
<1> SUFFICES ASSUME BlkInv, [BlkNext]_<<chainVars, blkVars>> PROVE BlkInv'
  BY Zenon
<1>1. Lens \subseteq Nat /\ Sectors \subseteq Nat /\ 0 .. MaxSegment \subseteq Nat
      /\ 0 .. MaxSegment * SectorSize \subseteq Nat
  BY ChainAssumption, BlkAssumption
<1>2. CASE \E head \in 0 .. QueueSize : NextRequest(head)
  <2>1. blk' = Request(blk.features, blk.hasId) /\ disk' = Untouched
    BY <1>2, Zenon DEF NextRequest
  <2>2. blk.features \in FeatureSets /\ blk.hasId \in BOOLEAN
    BY Zenon DEF BlkInv, BlkTypeOK, Requests
  <2>3. QED
    BY <2>1, <2>2, NewRequestOK, Zenon DEF BlkInv, BlkTypeOK
<1>3. CASE \E d \in Descriptor, type \in RequestTypes, sector \in Sectors : ParseHead(d, type, sector)
  BY <1>3, ParseOK, Zenon
<1>4. CASE \E d \in Descriptor : ParseNext(d)
  BY <1>4, ParseOK, Zenon
<1>5. CASE UNCHANGED blkVars
  BY <1>5, Zenon DEF BlkInv, BlkTypeOK, blkVars
<1>6. CASE ParseFails
  BY <1>6, ParseFailsOK, Zenon
<1>7. CASE Execute
  BY <1>7, ExecuteOK, Zenon
<1>8. CASE ExecuteFails \/ NextSegments
  BY <1>8, ExecuteFailsOK, Zenon
<1>9. CASE ReadPart
  BY <1>9, ReadPartOK, Zenon
<1>10. CASE \E k \in Lens, hole \in BOOLEAN : ReadPartFails(k, hole)
  BY <1>1, <1>10, ExecuteFailsOK, Zenon
<1>11. CASE \E k \in Lens : WritePart(k)
  BY <1>1, <1>11, WritePartOK, Zenon
<1>12. CASE \E sector \in Sectors, n \in 0 .. MaxSegment, flag \in {"none", "unmap", "reserved"},
              hole \in BOOLEAN, zeroed \in 0 .. MaxSegment * SectorSize :
              Segment(sector, n, flag, hole, zeroed)
  BY <1>1, <1>12, SegmentOK, Zenon
<1>13. CASE AllMoved
  BY <1>13, AllMovedOK, Zenon
<1>14. CASE \E ok \in BOOLEAN : WriteStatus(ok)
  BY <1>14, WriteStatusOK, Zenon
<1>15. CASE UNCHANGED <<chainVars, blkVars>>
  BY <1>5, <1>15, Zenon
<1>16. QED
  BY <1>2, <1>3, <1>4, <1>5, <1>6, <1>7, <1>8, <1>9, <1>10, <1>11, <1>12, <1>13, <1>14, <1>15, Zenon DEF BlkNext

\* The disk changes only where the request says, never past the sectors the
\* guest was told of and never when the device is read-only, even when the
\* request fails half way; a request that succeeds moved all of its bytes,
\* at its sector and in order, and is reported with the length it wrote to
\* memory, although the offset of a sector may wrap (parse, check_access,
\* execute and handle_discard_write_zeroes): for every disk, sector size,
\* chain and sequence of requests and errors.
THEOREM DiskExactHolds == BlkSpec => []DiskExact
<1>1. ChainInit /\ BlkInit => BlkInv
  <2> SUFFICES ASSUME BlkInit PROVE BlkInv
    BY Zenon
  <2>1. PICK features \in FeatureSets, hasId \in BOOLEAN : blk = Request(features, hasId)
    BY Zenon DEF BlkInit
  <2>2. disk = Untouched
    BY Zenon DEF BlkInit
  <2>3. QED
    BY <2>1, <2>2, NewRequestOK, Zenon DEF BlkInv, BlkTypeOK
<1>2. QED
  BY <1>1, BlkStep, BlkInvImplies, PTL DEF BlkSpec

-----------------------------------------------------------------------------
(* The stream of a Reader or Writer.                                       *)

Slices == [from : Nat, len : Nat \ {0}]

\* e says where each of the first n slices ends, from the front.
Adds(s, n, e) == e[0] = 0 /\ \A i \in 1 .. n : e[i] = e[i - 1] + s[i].len

\* The slices follow each other from position lo of the stream to position hi.
Tiles(s, lo, hi) ==
    /\ s \in Seq(Slices)
    /\ lo \in Nat /\ hi \in Nat
    /\ \A i \in 1 .. Len(s) : s[i].from = lo + Ends(s)[i - 1]
    /\ hi = lo + Ends(s)[Len(s)]

\* A function on 1 .. n is a list.
LEMMA ListIs ==
    ASSUME NEW S, NEW n \in Nat, NEW f \in [1 .. n -> S]
    PROVE  f \in Seq(S) /\ Len(f) = n /\ DOMAIN f = 1 .. n
  OBVIOUS

\* A slice of a list of slices.
LEMMA SliceIs ==
    ASSUME NEW s \in Seq(Slices), NEW i \in 1 .. Len(s)
    PROVE  s[i] \in Slices /\ s[i].len \in Nat /\ s[i].len > 0 /\ s[i].from \in Nat
<1>1. s[i] \in Slices
  OBVIOUS
<1>2. QED
  BY <1>1 DEF Slices

\* Where the slices end is found by adding up their lengths.
LEMMA EndsAre ==
    ASSUME NEW s \in Seq(Slices)
    PROVE  Ends(s) \in [0 .. Len(s) -> Nat] /\ Adds(s, Len(s), Ends(s))
<1>1. PICK n \in Nat : n = Len(s)
  OBVIOUS
<1>2. PICK d : d = SliceLens(s)
  BY Zenon
<1>3. d \in [1 .. n -> Nat] /\ \A i \in 1 .. n : d[i] = s[i].len
  <2>1. \A i \in 1 .. n : s[i].len \in Nat
    BY <1>1, SliceIs, Zenon
  <2>2. QED
    BY <1>1, <1>2, <2>1, Zenon DEF SliceLens
<1>4. d \in Seq(Nat) /\ Len(d) = n
  BY <1>3, ListIs, Zenon
<1>5. Sums(d, n, Ends(s))
  BY <1>2, <1>4, PartSumsAre, Zenon DEF Ends
<1>6. QED
  BY <1>1, <1>3, <1>5, Zenon DEF Sums, Adds

\* No other function says where the slices end.
LEMMA EndsUnique ==
    ASSUME NEW s \in Seq(Slices), NEW n \in Nat, n = Len(s), NEW g, Adds(s, n, g)
    PROVE  \A i \in 0 .. n : Ends(s)[i] = g[i]
<1>1. PICK e : e = Ends(s) /\ Adds(s, n, e)
  BY EndsAre, Zenon
<1> DEFINE T == {i \in Nat : i <= n => e[i] = g[i]}
<1>2. 0 \in T
  BY <1>1, Zenon DEF Adds
<1>3. ASSUME NEW i \in Nat, i \in T
      PROVE  i + 1 \in T
  <2>1. CASE i + 1 <= n
    <3>1. i + 1 \in 1 .. n /\ (i + 1) - 1 = i /\ e[i] = g[i]
      BY <1>3, <2>1
    <3>2. e[i + 1] = e[i] + s[i + 1].len /\ g[i + 1] = g[i] + s[i + 1].len
      BY <1>1, <3>1 DEF Adds
    <3>3. QED
      BY <3>1, <3>2
  <2>2. CASE ~(i + 1 <= n)
    BY <2>2
  <2>3. QED
    BY <2>1, <2>2, Zenon
<1>4. Nat \subseteq T
  <2> HIDE DEF T
  <2>1. QED
    BY <1>2, <1>3, Induction, Zenon
<1>5. QED
  BY <1>1, <1>4

\* How many whole slices k bytes take.
WholeAt(s, k, w) ==
    /\ w \in 0 .. Len(s)
    /\ Ends(s)[w] <= k
    /\ w < Len(s) => k < Ends(s)[w + 1]

\* The loops of consume() and split_at() find the slice in which k bytes end.
LEMMA WholeIs ==
    ASSUME NEW s \in Seq(Slices), NEW k \in Nat, k <= Available(s), NEW w, w = WholeSlices(s, k)
    PROVE  WholeAt(s, k, w)
<1>1. PICK n \in Nat : n = Len(s)
  OBVIOUS
<1>2. PICK e \in [0 .. n -> Nat] : e = Ends(s) /\ e[0] = 0 /\ k <= e[n]
  BY <1>1, EndsAre, Zenon DEF Adds, Available
<1> DEFINE Found(m) == \E v \in 0 .. n : v < m /\ e[v] <= k /\ k < e[v + 1]
           T == {m \in Nat : m <= n /\ k < e[m] => Found(m)}
<1>3. 0 \in T
  BY <1>2
<1>4. ASSUME NEW m \in Nat, m \in T
      PROVE  m + 1 \in T
  <2>0. m + 1 \in Nat
    OBVIOUS
  <2> SUFFICES ASSUME m + 1 <= n, k < e[m + 1] PROVE Found(m + 1)
    BY <2>0, Zenon
  <2>1. m \in 0 .. n /\ m < m + 1 /\ e[m] \in Nat
    BY <1>2
  <2>2. CASE k < e[m]
    <3>1. PICK v \in 0 .. n : v < m /\ e[v] <= k /\ k < e[v + 1]
      BY <1>4, <2>1, <2>2
    <3>2. v < m + 1
      BY <3>1
    <3>3. QED
      BY <3>1, <3>2, Zenon
  <2>3. CASE ~(k < e[m])
    <3>1. e[m] <= k
      BY <2>1, <2>3
    <3>2. QED
      BY <2>1, <3>1, Zenon
  <2>4. QED
    BY <2>2, <2>3, Zenon
<1>5. Nat \subseteq T
  <2> HIDE DEF T
  <2>1. QED
    BY <1>3, <1>4, Induction, Zenon
<1>6. \E v \in 0 .. n : e[v] <= k /\ (v < n => k < e[v + 1])
  <2>1. CASE k < e[n]
    <3>1. Found(n)
      BY <1>5, <2>1
    <3>2. QED
      BY <3>1, Zenon
  <2>2. CASE ~(k < e[n])
    <3>1. n \in 0 .. n /\ e[n] \in Nat /\ ~(n < n)
      BY <1>2
    <3>2. e[n] <= k
      BY <2>2, <3>1
    <3>3. QED
      BY <3>1, <3>2, Zenon
  <2>3. QED
    BY <2>1, <2>2, Zenon
<1>7. QED
  BY <1>1, <1>2, <1>6, Zenon DEF WholeSlices, WholeAt

\* The bytes of slices that follow each other are those from lo to hi.
LEMMA PositionsAre ==
    ASSUME NEW s, NEW lo, NEW hi, Tiles(s, lo, hi)
    PROVE  hi - lo \in Nat /\ Available(s) = hi - lo /\ Positions(s) = Upto(lo, hi - lo)
<1>1. s \in Seq(Slices) /\ lo \in Nat /\ hi \in Nat /\ hi = lo + Ends(s)[Len(s)]
  BY Zenon DEF Tiles
<1>2. PICK n \in Nat : n = Len(s)
  BY <1>1
<1>3. PICK e \in [0 .. n -> Nat] : e = Ends(s)
  BY <1>1, <1>2, EndsAre, Zenon
<1>4. PICK a \in Nat : a = e[n] /\ a = Available(s)
  <2>1. n \in 0 .. n
    OBVIOUS
  <2>2. QED
    BY <1>2, <1>3, <2>1, Zenon DEF Available
<1>5. a = hi - lo
  BY <1>1, <1>2, <1>3, <1>4
<1>6. ASSUME NEW p \in 1 .. a
      PROVE  s[WholeSlices(s, p - 1) + 1].from + (p - 1 - Ends(s)[WholeSlices(s, p - 1)]) = lo + p - 1
  <2>1. PICK k \in Nat : k = p - 1 /\ k <= a /\ k < a
    OBVIOUS
  <2>2. PICK w : w = WholeSlices(s, k)
    BY Zenon
  <2>3. w \in 0 .. n /\ e[w] <= k /\ (w < n => k < e[w + 1])
    BY <1>1, <1>2, <1>3, <1>4, <2>1, <2>2, WholeIs, Zenon DEF WholeAt
  <2>4. e[w] \in Nat /\ w # n
    <3>1. e[w] \in Nat
      BY <2>3, Zenon
    <3>2. ~(a <= k)
      BY <2>1
    <3>3. QED
      BY <1>4, <2>3, <3>1, <3>2, Zenon
  <2>5. w + 1 \in 1 .. n /\ (w + 1) - 1 = w
    BY <2>3, <2>4
  <2>6. s[w + 1].from = lo + e[w]
    BY <1>2, <1>3, <2>5 DEF Tiles
  <2>7. s[w + 1].from + (k - e[w]) = lo + k /\ lo + p - 1 = lo + k
    BY <1>1, <2>1, <2>4, <2>6
  <2>8. QED
    BY <1>3, <2>1, <2>2, <2>7, Zenon
<1>7. Positions(s) = [p \in 1 .. a |-> lo + p - 1]
  BY <1>4, <1>6, Zenon DEF Positions
<1>8. QED
  BY <1>1, <1>4, <1>5, <1>7, Zenon DEF Upto


\* Slices that follow each other, when g says where they end.
TiledBy(s, n, g, lo, hi) ==
    /\ n \in Nat /\ s \in [1 .. n -> Slices]
    /\ Adds(s, n, g)
    /\ lo \in Nat /\ hi \in Nat
    /\ \A i \in 1 .. n : s[i].from = lo + g[i - 1]
    /\ hi = lo + g[n]

\* Such slices follow each other.
LEMMA TiledIs ==
    ASSUME NEW s, NEW n, NEW g, NEW lo, NEW hi, TiledBy(s, n, g, lo, hi)
    PROVE  Tiles(s, lo, hi)
<1>1. /\ n \in Nat /\ s \in [1 .. n -> Slices] /\ Adds(s, n, g) /\ lo \in Nat /\ hi \in Nat
      /\ \A i \in 1 .. n : s[i].from = lo + g[i - 1]
      /\ hi = lo + g[n]
  BY Zenon DEF TiledBy
<1>2. s \in Seq(Slices) /\ Len(s) = n
  BY <1>1, ListIs, Zenon
<1>3. \A i \in 0 .. n : Ends(s)[i] = g[i]
  BY <1>1, <1>2, EndsUnique, ZenonT(30)
<1>4. n \in 0 .. n /\ \A i \in 1 .. n : i - 1 \in 0 .. n
  BY <1>1
<1>5. QED
  BY <1>1, <1>2, <1>3, <1>4, Zenon DEF Tiles

\* What slices that follow each other are, with their ends e, and where the
\* first k bytes end: after w slices and rem bytes of the next.
TilesUpto(s, lo, hi, k, n, e, w, rem) ==
    /\ s \in Seq(Slices) /\ lo \in Nat /\ hi \in Nat /\ k \in Nat
    /\ n \in Nat /\ n = Len(s)
    /\ e \in [0 .. n -> Nat] /\ e = Ends(s) /\ Adds(s, n, e)
    /\ \A i \in 1 .. n : s[i].from = lo + e[i - 1]
    /\ hi = lo + e[n] /\ k <= e[n]
    /\ w \in 0 .. n /\ e[w] <= k /\ (w < n => k < e[w + 1])
    /\ rem \in Nat /\ k = e[w] + rem
    /\ w = WholeSlices(s, k) /\ rem = k - e[w]

\* So it is for slices that follow each other, with at least k bytes.
LEMMA TilesAre ==
    ASSUME NEW s, NEW lo, NEW hi, Tiles(s, lo, hi), NEW k \in Nat, k <= hi - lo
    PROVE  \E n, e, w, rem : TilesUpto(s, lo, hi, k, n, e, w, rem)
<1>1. /\ s \in Seq(Slices) /\ lo \in Nat /\ hi \in Nat /\ hi = lo + Ends(s)[Len(s)]
      /\ \A i \in 1 .. Len(s) : s[i].from = lo + Ends(s)[i - 1]
  BY Zenon DEF Tiles
<1>2. PICK n \in Nat : n = Len(s)
  BY <1>1
<1>3. PICK e : e \in [0 .. n -> Nat] /\ e = Ends(s) /\ Adds(s, n, e)
  BY <1>1, <1>2, EndsAre, Zenon
<1>4. k <= e[n] /\ e[n] = Available(s)
  <2>1. e[n] = hi - lo
    <3>1. n \in 0 .. n
      OBVIOUS
    <3>2. e[n] \in Nat /\ hi = lo + e[n]
      BY <1>1, <1>2, <1>3, <3>1, Zenon
    <3>3. QED
      BY <1>1, <3>2
  <2>2. QED
    BY <1>2, <1>3, <2>1, Zenon DEF Available
<1>5. PICK w : w = WholeSlices(s, k)
  BY Zenon
<1>6. w \in 0 .. n /\ e[w] <= k /\ (w < n => k < e[w + 1])
  BY <1>1, <1>2, <1>3, <1>4, <1>5, WholeIs, Zenon DEF WholeAt
<1>7. e[w] \in Nat
  BY <1>3, <1>6, Zenon
<1>8. PICK rem \in Nat : rem = k - e[w] /\ k = e[w] + rem
  BY <1>6, <1>7
<1>9. TilesUpto(s, lo, hi, k, n, e, w, rem)
  BY <1>1, <1>2, <1>3, <1>4, <1>5, <1>6, <1>8, Zenon DEF TilesUpto
<1>10. QED
  BY <1>9, Zenon

\* The slices that consume() leaves, and those that split_at() gives away,
\* follow each other from where the first k bytes end.
LEMMA RestTiles ==
    ASSUME NEW s, NEW lo, NEW hi, Tiles(s, lo, hi), NEW k \in Nat, k <= hi - lo,
           NEW t, t = RestAfter(s, k)
    PROVE  Tiles(t, lo + k, hi)
<1>1. PICK n, e, w, rem : TilesUpto(s, lo, hi, k, n, e, w, rem)
  BY TilesAre, Zenon
<1>2. /\ s \in Seq(Slices) /\ n = Len(s) /\ e \in [0 .. n -> Nat] /\ e = Ends(s)
      /\ \A i \in 1 .. n : e[i] = e[i - 1] + s[i].len /\ s[i].from = lo + e[i - 1]
      /\ w = WholeSlices(s, k) /\ rem = k - e[w]
  BY <1>1, Zenon DEF TilesUpto, Adds
<1>9. /\ lo \in Nat /\ hi \in Nat /\ n \in Nat /\ w \in 0 .. n /\ rem \in Nat
      /\ k = e[w] + rem /\ hi = lo + e[n] /\ k <= e[n] /\ (w < n => k < e[w + 1])
  BY <1>1, Zenon DEF TilesUpto
<1>10. e[w] \in Nat /\ e[n] \in Nat /\ lo + k \in Nat
  <2>1. n \in 0 .. n /\ lo + k \in Nat
    BY <1>9
  <2>2. QED
    BY <1>2, <1>9, <2>1, Zenon
<1>3. PICK m \in Nat : m = n - w /\ n = w + m
  BY ONLY <1>9
<1>4. t = [i \in 1 .. m |-> IF i = 1 THEN DropBytes(s[w + 1], rem) ELSE s[w + i]]
  BY <1>2, <1>3, Zenon DEF RestAfter
<1>5. ASSUME NEW i \in 1 .. m
      PROVE  /\ w + i \in 1 .. n /\ (w + i) - 1 \in 0 .. n /\ w + i \in 0 .. n
             /\ s[w + i] \in Slices /\ s[w + i].len \in Nat \ {0} /\ s[w + i].from \in Nat
             /\ e[w + i] = e[(w + i) - 1] + s[w + i].len
             /\ s[w + i].from = lo + e[(w + i) - 1]
             /\ e[(w + i) - 1] \in Nat /\ e[w + i] \in Nat
  <2>1. w + i \in 1 .. n /\ (w + i) - 1 \in 0 .. n /\ w + i \in 0 .. n
    BY ONLY <1>3, <1>9, i \in 1 .. m
  <2>2. s[w + i] \in Slices /\ s[w + i].len \in Nat /\ s[w + i].len > 0 /\ s[w + i].from \in Nat
    BY <1>2, <2>1, SliceIs, Zenon
  <2>3. s[w + i].len \in Nat \ {0}
    BY <2>2
  <2>4. e[(w + i) - 1] \in Nat /\ e[w + i] \in Nat
    BY <1>2, <2>1, Zenon
  <2>5. e[w + i] = e[(w + i) - 1] + s[w + i].len /\ s[w + i].from = lo + e[(w + i) - 1]
    <3>1. PICK j \in 1 .. n : j = w + i
      BY <2>1, Zenon
    <3>2. e[j] = e[j - 1] + s[j].len /\ s[j].from = lo + e[j - 1]
      BY <1>2, Zenon
    <3>3. QED
      BY <3>1, <3>2, Zenon
  <2>6. QED
    BY <2>1, <2>2, <2>3, <2>4, <2>5, Zenon
<1>6. CASE m = 0
  <2>1. w = n
    BY ONLY <1>3, <1>6, <1>9
  <2>7. k = e[n]
    BY ONLY <1>9, <1>10, <2>1, k \in Nat
  <2>2. PICK g : g = [i \in 0 .. 0 |-> 0]
    BY Zenon
  <2>3. t \in [1 .. 0 -> Slices] /\ g[0] = 0 /\ 1 .. 0 = {}
    BY ONLY <1>4, <1>6, <2>2
  <2>4. hi = (lo + k) + g[0]
    BY ONLY <1>9, <1>10, <2>3, <2>7
  <2>5. TiledBy(t, 0, g, lo + k, hi)
    <3>1. 0 \in Nat
      OBVIOUS
    <3>2. QED
      BY <1>9, <1>10, <2>3, <2>4, <3>1, Zenon DEF TiledBy, Adds
  <2>6. QED
    BY <2>5, TiledIs, Zenon
<1>7. CASE m # 0
  <2>1. 1 \in 1 .. m /\ w < n /\ (w + 1) - 1 = w
    BY ONLY <1>3, <1>7, <1>9
  <2>2. PICK g : g = [i \in 0 .. m |-> IF i = 0 THEN 0 ELSE e[w + i] - k]
    BY Zenon
  <2>3. g[0] = 0 /\ \A i \in 1 .. m : g[i] = e[w + i] - k
    <3>1. 0 \in 0 .. m /\ \A i \in 1 .. m : i \in 0 .. m /\ i # 0
      BY ONLY <1>3
    <3>2. QED
      BY <2>2, <3>1, Zenon
  <2>4. PICK f \in Slices : f = s[w + 1]
    BY <1>5, <2>1, Zenon
  <2>5. f.from \in Nat /\ f.len \in Nat /\ f.from = lo + e[w] /\ e[w + 1] = e[w] + f.len
    <3>1. f.from \in Nat /\ f.len \in Nat
      BY Zenon DEF Slices
    <3>2. e[w + 1] = e[(w + 1) - 1] + s[w + 1].len /\ s[w + 1].from = lo + e[(w + 1) - 1]
      BY <1>5, <2>1, Zenon
    <3>3. QED
      BY <2>1, <2>4, <3>1, <3>2, Zenon
  <2>6. PICK b : b = DropBytes(f, rem)
    BY Zenon
  <2>7. b.from = f.from + rem /\ b.len = f.len - rem
    BY <2>6 DEF DropBytes
  <2>8. b \in Slices
    <3>1. f.from + rem \in Nat /\ f.len - rem \in Nat \ {0}
      BY ONLY <1>9, <1>10, <2>1, <2>5
    <3>2. QED
      BY <2>6, <3>1, Zenon DEF DropBytes, Slices
  <2>9. t[1] = b /\ \A i \in 1 .. m : i # 1 => t[i] = s[w + i]
    BY <1>4, <2>1, <2>4, <2>6, Zenon
  <2>10. t \in [1 .. m -> Slices]
    BY <1>4, <1>5, <2>4, <2>6, <2>8, Zenon
  <2>11. ASSUME NEW i \in 1 .. m
         PROVE  g[i] = g[i - 1] + t[i].len /\ t[i].from = (lo + k) + g[i - 1]
    <3>1. CASE i = 1
      <4>1. g[i] = e[w + 1] - k /\ t[i] = b
        BY <2>1, <2>3, <2>9, <3>1, Zenon
      <4>2. g[i - 1] = 0
        BY ONLY <2>3, <3>1
      <4>3. e[w + 1] - k = b.len /\ b.from = lo + k
        BY ONLY <1>9, <1>10, <2>5, <2>7
      <4>4. QED
        BY ONLY <1>10, <2>5, <2>7, <4>1, <4>2, <4>3, <1>9
    <3>2. CASE i # 1
      <4>1. PICK j \in 1 .. m : j = i - 1 /\ w + j = (w + i) - 1
        BY ONLY <1>9, <3>2, i \in 1 .. m
      <4>2. g[i] = e[w + i] - k /\ g[j] = e[w + j] - k /\ t[i] = s[w + i]
        BY <2>3, <2>9, <3>2, Zenon
      <4>3. /\ e[w + i] = e[w + j] + s[w + i].len /\ s[w + i].from = lo + e[w + j]
            /\ e[w + j] \in Nat /\ s[w + i].len \in Nat
        <5>1. e[(w + i) - 1] = e[w + j]
          BY <4>1, Zenon
        <5>2. s[w + i].len \in Nat
          BY <1>5
        <5>3. QED
          BY <1>5, <5>1, <5>2, Zenon
      <4>4. e[w + i] - k = (e[w + j] - k) + s[w + i].len /\ lo + e[w + j] = (lo + k) + (e[w + j] - k)
        BY ONLY <1>9, <4>3, k \in Nat
      <4>5. QED
        BY <4>1, <4>2, <4>3, <4>4, Zenon
    <3>3. QED
      BY <3>1, <3>2, Zenon
  <2>12. hi = (lo + k) + g[m]
    <3>1. m \in 1 .. m
      BY ONLY <1>3, <1>7
    <3>2. g[m] = e[n] - k
      BY <1>3, <2>3, <3>1, Zenon
    <3>3. QED
      BY ONLY <1>9, <1>10, <3>2, k \in Nat
  <2>13. TiledBy(t, m, g, lo + k, hi)
    BY <1>3, <1>9, <1>10, <2>3, <2>10, <2>11, <2>12, Zenon DEF TiledBy, Adds
  <2>14. QED
    BY <2>13, TiledIs, Zenon
<1>8. QED
  BY <1>6, <1>7, Zenon


\* The slices that split_at() keeps, and the bytes that consume() hands out,
\* follow each other up to where the first k bytes end.
LEMMA FirstTiles ==
    ASSUME NEW s, NEW lo, NEW hi, Tiles(s, lo, hi), NEW k \in Nat, k <= hi - lo,
           NEW t, t = FirstBytes(s, k)
    PROVE  Tiles(t, lo, lo + k)
<1>1. PICK n, e, w, rem : TilesUpto(s, lo, hi, k, n, e, w, rem)
  BY TilesAre, Zenon
<1>2. /\ s \in Seq(Slices) /\ n = Len(s) /\ e \in [0 .. n -> Nat] /\ e = Ends(s) /\ e[0] = 0
      /\ \A i \in 1 .. n : e[i] = e[i - 1] + s[i].len /\ s[i].from = lo + e[i - 1]
      /\ w = WholeSlices(s, k) /\ rem = k - e[w]
  BY <1>1, Zenon DEF TilesUpto, Adds
<1>3. /\ lo \in Nat /\ n \in Nat /\ w \in 0 .. n /\ rem \in Nat
      /\ k = e[w] + rem /\ k <= e[n] /\ (w < n => k < e[w + 1])
  BY <1>1, Zenon DEF TilesUpto
<1>4. e[w] \in Nat /\ lo + k \in Nat
  <2>1. lo + k \in Nat
    BY ONLY <1>3, k \in Nat
  <2>2. QED
    BY <1>2, <1>3, <2>1, Zenon
<1>5. PICK m : m = IF rem > 0 THEN w + 1 ELSE w
  BY Zenon
<1>6. m \in Nat /\ m >= w /\ (rem > 0 => m = w + 1 /\ w < n) /\ (rem = 0 => m = w) /\ m <= n
  <2>1. rem > 0 => w < n
    BY ONLY <1>3, <1>4
  <2>2. QED
    BY ONLY <1>3, <1>5, <2>1
<1>7. t = [i \in 1 .. m |-> IF i = w + 1 THEN TakeBytes(s[w + 1], rem) ELSE s[i]]
  BY <1>2, <1>5, Zenon DEF FirstBytes
<1>8. PICK g : g = [i \in 0 .. m |-> IF i = w + 1 THEN k ELSE e[i]]
  BY Zenon
<1>9. ASSUME NEW i \in 1 .. m
      PROVE  /\ i \in 1 .. n /\ s[i] \in Slices /\ s[i].len \in Nat /\ s[i].from \in Nat
             /\ e[i] = e[i - 1] + s[i].len /\ s[i].from = lo + e[i - 1]
  <2>1. i \in 1 .. n
    BY ONLY <1>3, <1>6, i \in 1 .. m
  <2>2. s[i] \in Slices /\ s[i].len \in Nat /\ s[i].from \in Nat
    BY <1>2, <2>1, SliceIs, Zenon
  <2>3. e[i] = e[i - 1] + s[i].len /\ s[i].from = lo + e[i - 1]
    BY <1>2, <2>1, Zenon
  <2>4. QED
    BY <2>1, <2>2, <2>3, Zenon
<1>10. ASSUME NEW i \in 1 .. m, i = w + 1
       PROVE  t[i] \in Slices /\ t[i].from = s[i].from /\ t[i].len = rem /\ rem > 0
  <2>1. rem \in Nat \ {0}
    BY ONLY <1>3, <1>6, <1>10, i \in 1 .. m
  <2>2. s[i].from \in Nat
    BY <1>9, Zenon
  <2>3. t[i] = [from |-> s[i].from, len |-> rem]
    BY <1>7, <1>10, Zenon DEF TakeBytes
  <2>4. rem > 0
    BY ONLY <2>1
  <2>5. QED
    BY ONLY <2>1, <2>2, <2>3, <2>4 DEF Slices
<1>11. \A i \in 1 .. m : i # w + 1 => t[i] = s[i]
  BY <1>7, Zenon
<1>12. t \in [1 .. m -> Slices]
  <2>1. \A i \in 1 .. m : t[i] \in Slices
    BY <1>9, <1>10, <1>11, Zenon
  <2>2. QED
    BY <1>7, <2>1, Zenon
<1>13. \A i \in 0 .. m : i <= w => g[i] = e[i]
  <2>1. \A i \in 0 .. m : i <= w => i # w + 1
    BY ONLY <1>3, <1>6
  <2>2. QED
    BY <1>8, <2>1, Zenon
<1>14. g[0] = 0
  <2>1. 0 \in 0 .. m /\ 0 <= w
    BY ONLY <1>3, <1>6
  <2>2. QED
    BY <1>2, <1>13, <2>1, Zenon
<1>15. ASSUME NEW i \in 1 .. m
       PROVE  g[i] = g[i - 1] + t[i].len /\ t[i].from = lo + g[i - 1]
  <2>1. i - 1 \in 0 .. m /\ i \in 0 .. m /\ i - 1 <= w /\ (i # w + 1 => i <= w)
    BY ONLY <1>3, <1>6, i \in 1 .. m
  <2>2. g[i - 1] = e[i - 1]
    BY <1>13, <2>1, Zenon
  <2>3. CASE i = w + 1
    <3>1. i - 1 = w
      BY ONLY <1>3, <2>3
    <3>2. g[i] = k /\ t[i].len = rem /\ t[i].from = s[i].from
      BY <1>8, <1>10, <2>1, <2>3, Zenon
    <3>3. QED
      BY <1>3, <1>9, <2>2, <3>1, <3>2, Zenon
  <2>4. CASE i # w + 1
    <3>1. g[i] = e[i] /\ t[i] = s[i]
      BY <1>11, <1>13, <2>1, <2>4, Zenon
    <3>2. QED
      BY <1>9, <2>2, <3>1, Zenon
  <2>5. QED
    BY <2>3, <2>4, Zenon
<1>16. lo + k = lo + g[m]
  <2>1. m \in 0 .. m
    BY ONLY <1>6
  <2>2. CASE rem > 0
    BY <1>6, <1>8, <2>1, <2>2, Zenon
  <2>3. CASE ~(rem > 0)
    <3>1. rem = 0 /\ m = w /\ m <= w /\ k = e[w]
      BY ONLY <1>3, <1>4, <1>6, <2>3, k \in Nat
    <3>2. QED
      BY <1>13, <2>1, <3>1, Zenon
  <2>4. QED
    BY <2>2, <2>3, Zenon
<1>17. TiledBy(t, m, g, lo, lo + k)
  BY <1>3, <1>4, <1>6, <1>12, <1>14, <1>15, <1>16, Zenon DEF TiledBy, Adds
<1>18. QED
  BY <1>17, TiledIs, Zenon

\* Reader::new and Writer::new: a slice for the next n bytes of the chain.
LEMMA AddTiles ==
    ASSUME NEW s, NEW lo, NEW hi, Tiles(s, lo, hi), NEW k \in Nat, NEW t, t = AddSlice(s, hi, k)
    PROVE  Tiles(t, lo, hi + k)
<1>1. s \in Seq(Slices) /\ lo \in Nat /\ hi \in Nat /\ hi = lo + Ends(s)[Len(s)]
  BY Zenon DEF Tiles
<1>2. CASE ~(k > 0)
  <2>1. hi + k = hi
    BY ONLY <1>1, <1>2, k \in Nat
  <2>2. t = s
    BY <1>2, Zenon DEF AddSlice
  <2>3. QED
    BY <2>1, <2>2, Zenon
<1>3. CASE k > 0
  <2>1. PICK x \in Slices : x = [from |-> hi, len |-> k]
    <3>1. k \in Nat \ {0}
      BY ONLY <1>3, k \in Nat
    <3>2. QED
      BY <1>1, <3>1, Zenon DEF Slices
  <2>2. x.from = hi /\ x.len = k
    BY ONLY <2>1
  <2>3. t = Append(s, x)
    BY <1>3, <2>1, Zenon DEF AddSlice
  <2>4. PICK n \in Nat : n = Len(s)
    BY ONLY <1>1
  <2>5. PICK m \in Nat : m = n + 1
    BY ONLY <2>4
  <2>6. t \in [1 .. m -> Slices] /\ (\A i \in 1 .. n : t[i] = s[i]) /\ t[m] = x
    <3>1. Append(s, x) \in Seq(Slices) /\ Len(Append(s, x)) = n + 1
      BY ONLY <1>1, <2>4, x \in Slices
    <3>2. t \in Seq(Slices) /\ Len(t) = m
      BY <2>3, <2>5, <3>1, Zenon
    <3>3. t \in [1 .. m -> Slices]
      BY ONLY <3>2, m \in Nat
    <3>4. Append(s, x)[n + 1] = x /\ \A i \in 1 .. n : Append(s, x)[i] = s[i]
      BY ONLY <1>1, <2>4, x \in Slices
    <3>5. QED
      BY <2>3, <2>5, <3>3, <3>4, Zenon
  <2>7. PICK e \in [0 .. n -> Nat] : e = Ends(s) /\ Adds(s, n, e)
    BY <1>1, <2>4, EndsAre, Zenon
  <2>8. /\ e[0] = 0 /\ hi = lo + e[n]
        /\ \A i \in 1 .. n : e[i] = e[i - 1] + s[i].len /\ s[i].from = lo + e[i - 1]
    BY <1>1, <2>4, <2>7, Zenon DEF Adds, Tiles
  <2>9. PICK g : g = [i \in 0 .. m |-> IF i = m THEN e[n] + k ELSE e[i]]
    BY Zenon
  <2>10. g[m] = e[n] + k /\ \A i \in 0 .. n : g[i] = e[i]
    <3>1. m \in 0 .. m /\ \A i \in 0 .. n : i \in 0 .. m /\ i # m
      BY ONLY <2>5, <2>4
    <3>2. QED
      BY <2>9, <3>1, Zenon
  <2>11. g[0] = 0
    <3>1. 0 \in 0 .. n
      BY ONLY n \in Nat
    <3>2. QED
      BY <2>8, <2>10, <3>1, Zenon
  <2>12. ASSUME NEW i \in 1 .. m
         PROVE  g[i] = g[i - 1] + t[i].len /\ t[i].from = lo + g[i - 1]
    <3>1. i - 1 \in 0 .. n /\ (i # m => i \in 1 .. n /\ i \in 0 .. n) /\ (i = m => i - 1 = n)
      BY ONLY <2>5, n \in Nat, i \in 1 .. m
    <3>2. g[i - 1] = e[i - 1]
      BY <2>10, <3>1, Zenon
    <3>3. CASE i = m
      BY <2>2, <2>6, <2>8, <2>10, <3>1, <3>2, <3>3, Zenon
    <3>4. CASE i # m
      <4>1. i \in 1 .. n /\ g[i] = e[i] /\ t[i] = s[i]
        BY <2>6, <2>10, <3>1, <3>4, Zenon
      <4>2. QED
        BY <2>8, <3>2, <4>1, Zenon
    <3>5. QED
      BY <3>3, <3>4, Zenon
  <2>13. hi + k = lo + g[m] /\ hi + k \in Nat
    <3>1. n \in 0 .. n
      BY ONLY n \in Nat
    <3>2. e[n] \in Nat
      BY <3>1, Zenon
    <3>3. QED
      BY ONLY <1>1, <2>8, <2>10, <3>2, k \in Nat
  <2>14. TiledBy(t, m, g, lo, hi + k)
    BY <1>1, <2>5, <2>6, <2>11, <2>12, <2>13, Zenon DEF TiledBy, Adds
  <2>15. QED
    BY <2>14, TiledIs, Zenon
<1>4. QED
  BY <1>2, <1>3, Zenon


\* One half of the stream, from lo to hi: it has handed out its first e bytes
\* and holds the others.
HalfIs(g, s, e, lo, hi) ==
    /\ lo \in Nat /\ hi \in Nat /\ e \in Nat
    /\ g = Upto(lo, e)
    /\ Tiles(s, lo + e, hi)

\* A half with nothing in it.
LEMMA EmptyHalf ==
    ASSUME NEW t \in Nat
    PROVE  HalfIs(<<>>, <<>>, 0, t, t)
<1>1. PICK g : g = [i \in 0 .. 0 |-> 0]
  BY Zenon
<1>2. g[0] = 0 /\ <<>> \in [1 .. 0 -> Slices] /\ 1 .. 0 = {} /\ <<>> = [i \in 1 .. 0 |-> t + i - 1]
  BY <1>1
<1>3. 0 \in Nat /\ t + 0 = t /\ t + g[0] = t
  BY <1>2
<1>4. TiledBy(<<>>, 0, g, t, t)
  BY <1>2, <1>3, Zenon DEF TiledBy, Adds
<1>5. Tiles(<<>>, t, t)
  BY <1>4, TiledIs, Zenon
<1>6. QED
  BY <1>2, <1>3, <1>5, Zenon DEF HalfIs, Upto

\* What a half has handed out and what it holds are its part of the stream.
LEMMA HalfWhole ==
    ASSUME NEW g, NEW s, NEW e, NEW lo, NEW hi, HalfIs(g, s, e, lo, hi)
    PROVE  g \o Positions(s) = Upto(lo, hi - lo) /\ Len(g) = e
<1>1. lo \in Nat /\ hi \in Nat /\ e \in Nat /\ g = Upto(lo, e) /\ Tiles(s, lo + e, hi)
  BY Zenon DEF HalfIs
<1>2. PICK p \in Nat : p = lo + e
  BY ONLY <1>1
<1>3. hi - p \in Nat /\ Positions(s) = Upto(p, hi - p)
  BY <1>1, <1>2, PositionsAre, Zenon
<1>4. PICK k \in Nat : k = hi - p
  BY <1>3, Zenon
<1>5. hi - lo \in Nat /\ hi - lo = e + k
  BY ONLY <1>1, <1>2, <1>4, k \in Nat, p \in Nat
<1>6. ReadsOn(lo, e, p, k, hi - lo)
  BY <1>1, <1>2, <1>5, Zenon DEF ReadsOn
<1>7. Upto(lo, e) \o Upto(p, k) = Upto(lo, hi - lo)
  BY <1>6, UptoCat, Zenon
<1>8. Len(Upto(lo, e)) = e
  BY <1>1, UptoIs, Zenon
<1>9. QED
  BY <1>1, <1>3, <1>4, <1>7, <1>8, Zenon

\* consume() on a half hands out its next k bytes.
LEMMA HalfConsumed ==
    ASSUME NEW g, NEW s, NEW e, NEW lo, NEW hi, HalfIs(g, s, e, lo, hi),
           NEW k \in Nat, k <= Available(s)
    PROVE  HalfIs(g \o Positions(FirstBytes(s, k)), RestAfter(s, k), e + k, lo, hi)
<1>1. lo \in Nat /\ hi \in Nat /\ e \in Nat /\ g = Upto(lo, e) /\ Tiles(s, lo + e, hi)
  BY Zenon DEF HalfIs
<1>2. PICK p \in Nat : p = lo + e
  BY ONLY <1>1
<1>3. PICK q \in Nat : q = p + k
  BY ONLY p \in Nat, k \in Nat
<1>4. k <= hi - p
  BY <1>1, <1>2, PositionsAre, Zenon
<1>5. Tiles(RestAfter(s, k), q, hi)
  BY <1>1, <1>2, <1>3, <1>4, RestTiles, Zenon
<1>6. Tiles(FirstBytes(s, k), p, q)
  BY <1>1, <1>2, <1>3, <1>4, FirstTiles, Zenon
<1>7. q - p = k /\ q = lo + (e + k) /\ e + k \in Nat
  BY ONLY <1>1, <1>2, <1>3, k \in Nat, p \in Nat
<1>8. Positions(FirstBytes(s, k)) = Upto(p, k)
  BY <1>6, <1>7, PositionsAre, Zenon
<1>9. ReadsOn(lo, e, p, k, e + k)
  BY <1>1, <1>2, <1>7, Zenon DEF ReadsOn
<1>10. Upto(lo, e) \o Upto(p, k) = Upto(lo, e + k)
  BY <1>9, UptoCat, Zenon
<1>11. QED
  BY <1>1, <1>5, <1>7, <1>8, <1>10, Zenon DEF HalfIs

\* The end of the first half.
EndOf(c, t) == IF c = -1 THEN t ELSE c

\* The inductive invariant: a reader, and the one split off from it, are the
\* two halves of the stream; nothing is split off while the reader is built.
StreamIs(b, e, g, st, t, c) ==
    /\ b \in [Both -> Seq(Slices)] /\ e \in [Both -> Nat] /\ g \in [Both -> Seq(Nat)]
    /\ t \in Nat
    /\ st = "building" => c = -1
    /\ c = -1 => b["other"] = <<>> /\ e["other"] = 0 /\ g["other"] = <<>>
    /\ HalfIs(g["self"], b["self"], e["self"], 0, EndOf(c, t))
    /\ HalfIs(g["other"], b["other"], e["other"], EndOf(c, t), t)

StreamInv == StreamIs(bufs, eaten, got, stream, total, cut)

\* The invariant says what the callers of read() and write() see.
LEMMA StreamImplies == StreamInv => StreamExact
<1> SUFFICES ASSUME StreamInv PROVE StreamExact
  BY Zenon
<1>1. PICK end : end = IF cut = -1 THEN total ELSE cut
  BY Zenon
<1>2. /\ HalfIs(got["self"], bufs["self"], eaten["self"], 0, end)
      /\ HalfIs(got["other"], bufs["other"], eaten["other"], end, total)
  BY <1>1, Zenon DEF StreamInv, StreamIs, EndOf
<1>3. /\ got["self"] \o Positions(bufs["self"]) = Upto(0, end - 0) /\ Len(got["self"]) = eaten["self"]
      /\ got["other"] \o Positions(bufs["other"]) = Upto(end, total - end) /\ Len(got["other"]) = eaten["other"]
  BY <1>2, HalfWhole, Zenon
<1>4. \A x \in Both : eaten[x] = Len(got[x])
  BY <1>3, Zenon DEF Both
<1>5. QED
  BY <1>1, <1>3, <1>4, Zenon DEF StreamExact, Upto

\* A new reader, before the first descriptor.
LEMMA StreamFresh ==
    StreamIs([x \in Both |-> <<>>], [x \in Both |-> 0], [x \in Both |-> <<>>], "building", 0, -1)
<1>1. "self" \in Both /\ "other" \in Both
  BY Zenon DEF Both
<1>2. HalfIs(<<>>, <<>>, 0, 0, 0) /\ 0 \in Nat
  BY EmptyHalf
<1>3. <<>> \in Seq(Slices) /\ <<>> \in Seq(Nat)
  OBVIOUS
<1>4. QED
  BY <1>1, <1>2, <1>3, Zenon DEF StreamIs, EndOf


\* Reader::new with a descriptor of its kind.
LEMMA StreamAdds ==
    ASSUME NEW b, NEW e, NEW g, NEW st, NEW t, NEW c, StreamIs(b, e, g, st, t, c), c = -1,
           NEW len \in Nat, NEW first \in 0 .. len
    PROVE  StreamIs([b EXCEPT !["self"] = AddSlice(AddSlice(@, t, first), t + first, len - first)],
                    e, g, st, t + len, c)
<1>1. /\ b \in [Both -> Seq(Slices)] /\ e \in [Both -> Nat] /\ g \in [Both -> Seq(Nat)] /\ t \in Nat
      /\ b["other"] = <<>> /\ e["other"] = 0 /\ g["other"] = <<>>
      /\ HalfIs(g["self"], b["self"], e["self"], 0, t)
  BY Zenon DEF StreamIs, EndOf
<1>2. "self" \in Both /\ "other" \in Both /\ "self" # "other"
  BY Zenon DEF Both
<1>3. PICK s : s = AddSlice(AddSlice(b["self"], t, first), t + first, len - first)
  BY Zenon
<1>4. PICK rest \in Nat : rest = len - first /\ first \in Nat
  OBVIOUS
<1>5. t + len \in Nat /\ (t + first) + rest = t + len
  BY ONLY <1>1, <1>4, len \in Nat, rest \in Nat
<1>6. PICK lo : lo = 0 + e["self"] /\ Tiles(b["self"], lo, t)
  BY <1>1, Zenon DEF HalfIs
<1>7. Tiles(AddSlice(b["self"], t, first), lo, t + first)
  BY <1>4, <1>6, AddTiles, Zenon
<1>8. Tiles(s, lo, t + len)
  BY <1>3, <1>4, <1>5, <1>7, AddTiles, Zenon
<1>9. HalfIs(g["self"], s, e["self"], 0, t + len) /\ s \in Seq(Slices)
  BY <1>1, <1>5, <1>6, <1>8, Zenon DEF HalfIs, Tiles
<1>10. HalfIs(<<>>, <<>>, 0, t + len, t + len)
  BY <1>5, EmptyHalf, Zenon
<1>11. PICK h : h = [b EXCEPT !["self"] = AddSlice(AddSlice(@, t, first), t + first, len - first)]
  BY Zenon
<1>12. h \in [Both -> Seq(Slices)] /\ h["self"] = s /\ h["other"] = b["other"]
  <2>1. h = [b EXCEPT !["self"] = s]
    BY <1>3, <1>11, Zenon
  <2>2. QED
    BY <1>1, <1>2, <1>9, <2>1, Zenon
<1>13. StreamIs(h, e, g, st, t + len, c)
  BY <1>1, <1>5, <1>9, <1>10, <1>12, Zenon DEF StreamIs, EndOf
<1>14. QED
  BY <1>11, <1>13, Zenon

\* read() and write() by either half.
LEMMA StreamConsumed ==
    ASSUME NEW b, NEW e, NEW g, NEW st, NEW t, NEW c, StreamIs(b, e, g, st, t, c),
           NEW x \in Both, NEW k \in Nat, k > 0, k <= Available(b[x])
    PROVE  StreamIs([b EXCEPT ![x] = RestAfter(@, k)], [e EXCEPT ![x] = @ + k],
                    [g EXCEPT ![x] = @ \o Positions(FirstBytes(b[x], k))], st, t, c)
<1>1. /\ b \in [Both -> Seq(Slices)] /\ e \in [Both -> Nat] /\ g \in [Both -> Seq(Nat)] /\ t \in Nat
      /\ st = "building" => c = -1
      /\ c = -1 => b["other"] = <<>> /\ e["other"] = 0 /\ g["other"] = <<>>
      /\ HalfIs(g["self"], b["self"], e["self"], 0, EndOf(c, t))
      /\ HalfIs(g["other"], b["other"], e["other"], EndOf(c, t), t)
  BY Zenon DEF StreamIs
<1>2. "self" \in Both /\ "other" \in Both /\ "self" # "other" /\ (x = "self" \/ x = "other")
  BY Zenon DEF Both
<1>3. PICK lo, hi : HalfIs(g[x], b[x], e[x], lo, hi)
  BY <1>1, <1>2, Zenon
<1>4. PICK b1 : b1 = [b EXCEPT ![x] = RestAfter(@, k)]
  BY Zenon
<1>5. PICK e1 : e1 = [e EXCEPT ![x] = @ + k]
  BY Zenon
<1>6. PICK g1 : g1 = [g EXCEPT ![x] = @ \o Positions(FirstBytes(b[x], k))]
  BY Zenon
<1>7. \A l, h : HalfIs(g[x], b[x], e[x], l, h) =>
                HalfIs(g[x] \o Positions(FirstBytes(b[x], k)), RestAfter(b[x], k), e[x] + k, l, h)
  BY HalfConsumed, Zenon
<1>8. /\ e[x] + k \in Nat /\ RestAfter(b[x], k) \in Seq(Slices)
      /\ g[x] \o Positions(FirstBytes(b[x], k)) \in Seq(Nat)
  <2>1. HalfIs(g[x] \o Positions(FirstBytes(b[x], k)), RestAfter(b[x], k), e[x] + k, lo, hi)
    BY <1>3, <1>7, Zenon
  <2>2. /\ lo \in Nat /\ e[x] + k \in Nat /\ RestAfter(b[x], k) \in Seq(Slices)
        /\ g[x] \o Positions(FirstBytes(b[x], k)) = Upto(lo, e[x] + k)
    BY <2>1, Zenon DEF HalfIs, Tiles
  <2>3. QED
    BY <2>2, UptoIs, Zenon
<1>9. /\ b1 \in [Both -> Seq(Slices)] /\ e1 \in [Both -> Nat] /\ g1 \in [Both -> Seq(Nat)]
      /\ b1[x] = RestAfter(b[x], k) /\ e1[x] = e[x] + k
      /\ g1[x] = g[x] \o Positions(FirstBytes(b[x], k))
      /\ \A y \in Both : y # x => b1[y] = b[y] /\ e1[y] = e[y] /\ g1[y] = g[y]
  BY <1>1, <1>4, <1>5, <1>6, <1>8, Zenon
<1>10. ~(c = -1 /\ x = "other")
  <2> SUFFICES ASSUME c = -1, x = "other" PROVE FALSE
    BY Zenon
  <2>1. Tiles(b[x], t + 0, t)
    BY <1>1, Zenon DEF HalfIs, EndOf
  <2>2. Available(b[x]) = t - (t + 0)
    BY <2>1, PositionsAre, Zenon
  <2>3. QED
    BY <1>1, <2>2
<1>11. \A l, h : HalfIs(g[x], b[x], e[x], l, h) => HalfIs(g1[x], b1[x], e1[x], l, h)
  BY <1>7, <1>9, Zenon
<1>12. /\ HalfIs(g1["self"], b1["self"], e1["self"], 0, EndOf(c, t))
       /\ HalfIs(g1["other"], b1["other"], e1["other"], EndOf(c, t), t)
  <2>1. CASE x = "self"
    BY <1>1, <1>2, <1>9, <1>11, <2>1, Zenon
  <2>2. CASE x = "other"
    BY <1>1, <1>2, <1>9, <1>11, <2>2, Zenon
  <2>3. QED
    BY <1>2, <2>1, <2>2, Zenon
<1>13. c = -1 => b1["other"] = <<>> /\ e1["other"] = 0 /\ g1["other"] = <<>>
  BY <1>1, <1>2, <1>9, <1>10, Zenon
<1>14. StreamIs(b1, e1, g1, st, t, c)
  BY <1>1, <1>9, <1>12, <1>13, Zenon DEF StreamIs
<1>15. QED
  BY <1>4, <1>5, <1>6, <1>14, Zenon

\* split_at().
LEMMA StreamSplit ==
    ASSUME NEW b, NEW e, NEW g, NEW st, NEW t, StreamIs(b, e, g, st, t, -1), st # "building",
           NEW k \in Nat, k <= Available(b["self"])
    PROVE  StreamIs([self |-> FirstBytes(b["self"], k), other |-> RestAfter(b["self"], k)],
                    e, g, st, t, e["self"] + k)
<1>1. /\ b \in [Both -> Seq(Slices)] /\ e \in [Both -> Nat] /\ g \in [Both -> Seq(Nat)] /\ t \in Nat
      /\ b["other"] = <<>> /\ e["other"] = 0 /\ g["other"] = <<>>
      /\ HalfIs(g["self"], b["self"], e["self"], 0, t)
  BY Zenon DEF StreamIs, EndOf
<1>2. PICK p \in Nat : p = e["self"] /\ 0 + p = p
  <2>1. e["self"] \in Nat
    BY <1>1, Zenon DEF HalfIs
  <2>2. QED
    BY <2>1
<1>3. PICK q \in Nat : q = p + k /\ q # -1
  BY ONLY p \in Nat, k \in Nat
<1>4. g["self"] = Upto(0, p) /\ Tiles(b["self"], p, t)
  BY <1>1, <1>2, Zenon DEF HalfIs
<1>5. k <= t - p
  BY <1>4, PositionsAre, Zenon
<1>6. Tiles(RestAfter(b["self"], k), q, t)
  BY <1>3, <1>4, <1>5, RestTiles, Zenon
<1>7. Tiles(FirstBytes(b["self"], k), p, q)
  BY <1>3, <1>4, <1>5, FirstTiles, Zenon
<1>8. HalfIs(g["self"], FirstBytes(b["self"], k), p, 0, q)
  <2>1. 0 \in Nat
    OBVIOUS
  <2>2. QED
    BY <1>2, <1>4, <1>7, <2>1, Zenon DEF HalfIs
<1>9. HalfIs(<<>>, RestAfter(b["self"], k), 0, q, t)
  <2>1. HalfIs(<<>>, <<>>, 0, q, q) /\ q + 0 = q
    BY EmptyHalf
  <2>2. QED
    BY <1>1, <1>6, <2>1, Zenon DEF HalfIs
<1>10. PICK h : h = [self |-> FirstBytes(b["self"], k), other |-> RestAfter(b["self"], k)]
  BY Zenon
<1>11. h["self"] = FirstBytes(b["self"], k) /\ h["other"] = RestAfter(b["self"], k)
  BY ONLY <1>10
<1>12. h \in [Both -> Seq(Slices)]
  <2>1. FirstBytes(b["self"], k) \in Seq(Slices) /\ RestAfter(b["self"], k) \in Seq(Slices)
    BY <1>6, <1>7, Zenon DEF Tiles
  <2>2. h = [x \in Both |-> h[x]]
    BY ONLY <1>10 DEF Both
  <2>3. \A x \in Both : h[x] \in Seq(Slices)
    BY <1>11, <2>1, Zenon DEF Both
  <2>4. QED
    BY <2>2, <2>3, Zenon
<1>13. StreamIs(h, e, g, st, t, q)
  BY <1>1, <1>2, <1>3, <1>8, <1>9, <1>11, <1>12, Zenon DEF StreamIs, EndOf
<1>14. QED
  BY <1>2, <1>3, <1>10, <1>13, Zenon

\* Every step on a Reader or Writer keeps its stream.
LEMMA StreamStep == StreamInv /\ [BuffersNext]_<<chainVars, bufferVars>> => StreamInv'
<1> SUFFICES ASSUME StreamInv, [BuffersNext]_<<chainVars, bufferVars>> PROVE StreamInv'
  BY Zenon
<1>1. StreamIs(bufs, eaten, got, stream, total, cut)
  BY Zenon DEF StreamInv
<1>2. stream = "building" => cut = -1
  BY <1>1, Zenon DEF StreamIs
<1>3. ASSUME NEW head \in 0 .. QueueSize, NEW w \in BOOLEAN, NextReader(head, w) PROVE StreamInv'
  BY <1>3, StreamFresh, Zenon DEF NextReader, StreamInv
<1>4. ASSUME NEW d \in Descriptor, NEW first \in 0 .. d.len, AddDescriptor(d, first)
      PROVE  StreamInv'
  <2>1. d.len \in Nat
    BY ChainAssumption, Zenon DEF Descriptor
  <2>2. stream = "building" /\ UNCHANGED <<eaten, got, stream, cut>>
    BY <1>4, Zenon DEF AddDescriptor
  <2>3. CASE d.write = writer
    <3>1. /\ bufs' = [bufs EXCEPT !["self"] = AddSlice(AddSlice(@, total, first), total + first, d.len - first)]
          /\ total' = total + d.len
      BY <1>4, <2>3, Zenon DEF AddDescriptor
    <3>2. StreamIs(bufs', eaten, got, stream, total', cut)
      BY <1>1, <1>2, <2>1, <2>2, <3>1, StreamAdds, Zenon
    <3>3. QED
      BY <2>2, <3>2, Zenon DEF StreamInv
  <2>4. CASE d.write # writer
    <3>1. UNCHANGED <<bufs, total>>
      BY <1>4, <2>4, Zenon DEF AddDescriptor
    <3>2. QED
      BY <1>1, <2>2, <3>1, Zenon DEF StreamInv
  <2>5. QED
    BY <2>3, <2>4, Zenon
<1>5. ASSUME NEW n \in 0 .. MaxTable, Switch(n), UNCHANGED bufferVars PROVE StreamInv'
  BY <1>1, <1>5, Zenon DEF bufferVars, StreamInv
<1>6. ASSUME Built PROVE StreamInv'
  <2>1. stream' # "building" /\ UNCHANGED <<bufs, eaten, got, total, cut>>
    BY <1>6 DEF Built
  <2>2. QED
    BY <1>1, <2>1, Zenon DEF StreamInv, StreamIs
<1>7. ASSUME NEW x \in Both, NEW n \in 1 .. MaxAsked, Consume(x, n) PROVE StreamInv'
  <2>1. PICK k : k = IF n < Available(bufs[x]) THEN n ELSE Available(bufs[x])
    BY Zenon
  <2>2. /\ k > 0 /\ UNCHANGED <<stream, total, cut>>
        /\ got' = [got EXCEPT ![x] = @ \o Positions(FirstBytes(bufs[x], k))]
        /\ bufs' = [bufs EXCEPT ![x] = RestAfter(@, k)]
        /\ eaten' = [eaten EXCEPT ![x] = @ + k]
    BY <1>7, <2>1, Zenon DEF Consume
  <2>3. PICK a \in Nat : a = Available(bufs[x])
    <3>1. \E lo, hi : Tiles(bufs[x], lo, hi)
      BY <1>1, Zenon DEF StreamIs, HalfIs, Both
    <3>2. QED
      BY <3>1, PositionsAre, Zenon
  <2>4. k \in Nat /\ k <= a
    BY <2>1, <2>3, BuffersAssumption
  <2>5. StreamIs(bufs', eaten', got', stream, total, cut)
    BY <1>1, <2>2, <2>3, <2>4, StreamConsumed, Zenon
  <2>6. QED
    BY <2>2, <2>5, Zenon DEF StreamInv
<1>8. ASSUME NEW offset \in 0 .. MaxBytes, SplitAt(offset) PROVE StreamInv'
  <2>1. offset \in Nat
    BY ChainAssumption
  <2>2. /\ stream # "building" /\ cut = -1 /\ offset <= Available(bufs["self"])
        /\ bufs' = [self |-> FirstBytes(bufs["self"], offset), other |-> RestAfter(bufs["self"], offset)]
        /\ cut' = eaten["self"] + offset /\ UNCHANGED <<eaten, got, stream, total>>
    BY <1>8 DEF SplitAt
  <2>3. StreamIs(bufs', eaten, got, stream, total, cut')
    BY <1>1, <2>1, <2>2, StreamSplit, Zenon
  <2>4. QED
    BY <2>2, <2>3, Zenon DEF StreamInv
<1>9. CASE UNCHANGED <<chainVars, bufferVars>>
  BY <1>1, <1>9, Zenon DEF bufferVars, StreamInv
<1>10. QED
  BY <1>3, <1>4, <1>5, <1>6, <1>7, <1>8, <1>9, Zenon DEF BuffersNext

\* Every byte of the descriptors is handed out once and in order, by the half
\* it belongs to, whatever the sizes asked for and wherever the split falls in
\* a slice (consume and split_at): for every chain, every way its descriptors
\* lie in memory and every sequence of calls.
THEOREM StreamExactHolds == BuffersSpec => []StreamExact
<1>1. ChainInit /\ BuffersInit => StreamInv
  BY StreamFresh, Zenon DEF BuffersInit, StreamInv
<1>2. QED
  BY <1>1, StreamStep, StreamImplies, PTL DEF BuffersSpec

====
