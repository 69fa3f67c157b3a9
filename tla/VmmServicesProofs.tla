--------------------------- MODULE VmmServicesProofs ---------------------------
(* Proofs about the bookkeeping of a VMM: IoManager for every size of its     *)
(* buses, set of devices and number of resources, IdAllocator for every range *)
(* of ids, AddressAllocator for every address space, size and alignment, and  *)
(* FamStructWrapper for every pair of sizes and every limit.                  *)
EXTENDS AddressAllocator, IdAllocator, IoManager, FamStruct, WellFoundedInduction, TLAPS

(* IoManager. *)

BusEntries == [range : Ranges, dev : Devices]

IoType ==
  /\ bus \in [Buses -> SUBSET BusEntries]
  /\ assigned \in [Devices -> UNION {[1..n -> Resources] : n \in 0..MaxRes}]
  /\ unique \in BOOLEAN

(* While the resources are unique no two of them meet on a bus. *)
AssignedApart ==
  unique => \A b \in Buses, d, c \in Devices :
    \A i \in On(b, assigned[d]), j \in On(b, assigned[c]) :
      d # c \/ i # j => ~Overlaps(assigned[d][i].range, assigned[c][j].range)

IoInv == IoType /\ NoOverlap /\ AssignedApart /\ ExactlyRegistered

(* A range of a bus has a last address, at or after its base. *)
LEMMA RangeType ==
  ASSUME NEW r \in Ranges
  PROVE  /\ r.base \in Nat /\ r.size \in Nat \ {0} /\ LastOf(r) \in Nat
         /\ r.base <= LastOf(r) /\ LastOf(r) <= MaxBusAddr
BY IoAssumption DEF Ranges, BusAddrs, LastOf

(* Two ranges overlap when one holds the other's base; the test is symmetric. *)
LEMMA OverlapsMeans ==
  ASSUME NEW r \in Ranges, NEW s \in Ranges
  PROVE  /\ Overlaps(r, s) <=> Overlaps(s, r)
         /\ Overlaps(r, r)
         /\ r.base <= s.base /\ s.base <= LastOf(r) => Overlaps(r, s)
BY RangeType DEF Overlaps

(* A resource that register_*_resources puts on a bus has a range there. *)
LEMMA OnRanges ==
  ASSUME NEW n \in Nat, NEW res \in [1..n -> Resources], NEW b \in Buses, NEW i \in On(b, res)
  PROVE  i \in 1..n /\ res[i].range \in Ranges
BY Zenon DEF On, Resources, Buses

(* Bus::register compares each range with all that are there before it: the   *)
(* ranges it accepts meet neither the bus nor each other.                     *)
LEMMA AcceptedApart ==
  ASSUME NEW n \in Nat, NEW res \in [1..n -> Resources], NEW b \in Buses,
         NEW i \in Accepted(b, res)
  PROVE  /\ i \in On(b, res)
         /\ \A e \in bus[b] : ~Overlaps(res[i].range, e.range)
         /\ \A j \in Accepted(b, res) : i # j => ~Overlaps(res[i].range, res[j].range)
<1>1. i \in On(b, res) /\ i \notin Refused(b, res) /\ i \in 1..n
  BY OnRanges DEF Accepted, On
<1>2. ASSUME NEW j \in Accepted(b, res), i # j PROVE ~Overlaps(res[i].range, res[j].range)
  <2>1. j \in On(b, res) /\ j \notin Refused(b, res) /\ j \in 1..n
    BY OnRanges DEF Accepted, On
  <2>2. res[i].range \in Ranges /\ res[j].range \in Ranges
    BY <1>1, <2>1, OnRanges, Zenon
  <2>3. CASE i < j
    BY <1>1, <2>1, <2>2, <2>3, OverlapsMeans, Zenon DEF Refused
  <2>4. CASE j < i
    BY <1>1, <2>1, <2>2, <2>4, Zenon DEF Refused
  <2> QED
    BY <1>1, <2>1, <2>3, <2>4, <1>2
<1> QED
  BY <1>1, <1>2, Zenon DEF Refused

(* What register_resources leaves on bus b: accepted ranges, for device d. *)
LEMMA RegisterAdds ==
  ASSUME IoType, NEW d \in Devices, NEW n \in 1..MaxRes, NEW res \in [1..n -> Resources],
         RegisterResources(d, res)
  PROVE  /\ IoType'
         /\ \A b \in Buses : \E S \in SUBSET Accepted(b, res) :
              /\ bus'[b] = bus[b] \union Entries(d, res, S)
              /\ (\A c \in Buses : Refused(c, res) = {}) => S = Accepted(b, res)
<1> DEFINE mmio == Accepted("mmio", res)
           pio  == IF Refused("mmio", res) = {} THEN Accepted("pio", res) ELSE {}
<1>1. /\ bus' = [bus EXCEPT !["mmio"] = @ \union Entries(d, res, mmio),
                            !["pio"]  = @ \union Entries(d, res, pio)]
      /\ assigned' = [assigned EXCEPT ![d] = res]
      /\ unique' = (unique /\ Allocated(res))
  BY Zenon DEF RegisterResources
<1>2. /\ bus'["mmio"] = bus["mmio"] \union Entries(d, res, mmio)
      /\ bus'["pio"] = bus["pio"] \union Entries(d, res, pio)
      /\ DOMAIN bus' = Buses
  BY <1>1, Zenon DEF IoType, Buses
<1>3. n \in Nat
  BY IoAssumption
<1>4. \A b \in Buses : \A i \in Accepted(b, res) : res[i].range \in Ranges
  BY <1>3, OnRanges, Zenon DEF Accepted
<1>5. Entries(d, res, mmio) \subseteq BusEntries /\ Entries(d, res, pio) \subseteq BusEntries
  BY <1>4 DEF Entries, BusEntries, Buses
<1>6. \A b \in Buses : b = "mmio" \/ b = "pio"
  BY Zenon DEF Buses
<1>7. bus' \in [Buses -> SUBSET BusEntries]
  <2>1. bus["mmio"] \subseteq BusEntries /\ bus["pio"] \subseteq BusEntries
    BY Zenon DEF IoType, Buses
  <2> HIDE DEF mmio, pio
  <2> QED
    BY <1>1, <1>5, <2>1, Zenon DEF IoType, Buses
<1>8. IoType'
  BY <1>1, <1>7, IoAssumption DEF IoType
<1>9. ASSUME NEW b \in Buses
      PROVE  \E S \in SUBSET Accepted(b, res) :
               /\ bus'[b] = bus[b] \union Entries(d, res, S)
               /\ (\A c \in Buses : Refused(c, res) = {}) => S = Accepted(b, res)
  <2>1. CASE b = "mmio"
    BY <1>2, <2>1, Zenon
  <2>2. CASE b = "pio"
    BY <1>2, <2>2 DEF Buses
  <2> QED
    BY <1>6, <2>1, <2>2, Zenon
<1> QED
  BY <1>8, <1>9, Zenon

(* A registration of unique resources is complete, and one of others, whole   *)
(* or half-way, still leaves no two ranges that overlap.                      *)
LEMMA RegisterStep ==
  ASSUME IoInv, NEW d \in Devices, assigned[d] = <<>>,
         NEW n \in 1..MaxRes, NEW res \in [1..n -> Resources],
         RegisterResources(d, res)
  PROVE  IoInv'
<1>0. n \in Nat
  BY IoAssumption
<1>1. /\ IoType'
      /\ \A b \in Buses : \E S \in SUBSET Accepted(b, res) :
           /\ bus'[b] = bus[b] \union Entries(d, res, S)
           /\ (\A c \in Buses : Refused(c, res) = {}) => S = Accepted(b, res)
  BY RegisterAdds, Zenon DEF IoInv
<1>2. /\ assigned'[d] = res
      /\ \A c \in Devices : c # d => assigned'[c] = assigned[c]
      /\ unique' = (unique /\ Allocated(res))
  BY Zenon DEF RegisterResources, IoInv, IoType
<1>3. \A b \in Buses : \A e \in bus[b] : e.range \in Ranges
  BY DEF IoInv, IoType, BusEntries
<1>4. NoOverlap'
  <2> SUFFICES ASSUME NEW b \in Buses, NEW e \in bus'[b], NEW f \in bus'[b], e # f
               PROVE  ~Overlaps(e.range, f.range)
    BY Zenon DEF NoOverlap, Overlaps, LastOf
  <2>1. PICK S \in SUBSET Accepted(b, res) : bus'[b] = bus[b] \union Entries(d, res, S)
    BY <1>1, Zenon
  <2>2. \A g \in Entries(d, res, S) : \E i \in Accepted(b, res) :
          g = [range |-> res[i].range, dev |-> d]
    BY Zenon DEF Entries
  <2>3. \A g \in Entries(d, res, S) : g.range \in Ranges
    BY <1>0, <2>2, AcceptedApart, OnRanges
  <2>4. CASE e \in bus[b] /\ f \in bus[b]
    BY <2>4, Zenon DEF IoInv, NoOverlap
  <2>5. CASE e \in Entries(d, res, S) /\ f \in bus[b]
    BY <1>0, <2>2, <2>5, AcceptedApart
  <2>6. CASE e \in bus[b] /\ f \in Entries(d, res, S)
    <3>1. ~Overlaps(f.range, e.range)
      BY <1>0, <2>2, <2>6, AcceptedApart
    <3> QED
      BY <1>3, <2>3, <2>6, <3>1, OverlapsMeans, Zenon
  <2>7. CASE e \in Entries(d, res, S) /\ f \in Entries(d, res, S)
    <3>1. PICK i \in Accepted(b, res), j \in Accepted(b, res) :
            e = [range |-> res[i].range, dev |-> d] /\ f = [range |-> res[j].range, dev |-> d]
      BY <2>2, <2>7, Zenon
    <3>2. i # j
      BY <3>1, Zenon
    <3> QED
      BY <1>0, <3>1, <3>2, AcceptedApart, Zenon
  <2> QED
    BY <2>1, <2>4, <2>5, <2>6, <2>7, Zenon
<1>5. ASSUME unique'
      PROVE  /\ unique /\ Allocated(res)
             /\ \A b \in Buses : bus'[b] = bus[b] \union Entries(d, res, On(b, res))
  <2>1. unique /\ Allocated(res)
    BY <1>2, <1>5, Zenon
  <2>2. ASSUME NEW b \in Buses PROVE Refused(b, res) = {}
    <3> SUFFICES ASSUME NEW i \in Refused(b, res) PROVE FALSE
      BY Zenon
    <3>1. i \in On(b, res) /\ i \in 1..n
      BY <1>0, OnRanges, Zenon DEF Refused
    <3>2. CASE \E e \in bus[b] : Overlaps(res[i].range, e.range)
      <4>1. PICK e \in bus[b] : Overlaps(res[i].range, e.range)
        BY <3>2, Zenon
      <4>2. PICK c \in Devices : e \in Entries(c, assigned[c], On(b, assigned[c]))
        BY <2>1, <4>1 DEF IoInv, ExactlyRegistered
      <4>3. PICK j \in On(b, assigned[c]) : e.range = assigned[c][j].range
        BY <4>2 DEF Entries
      <4> QED
        BY <2>1, <3>1, <4>1, <4>3, Zenon DEF Allocated
    <3>3. CASE \E j \in On(b, res) : j < i /\ Overlaps(res[i].range, res[j].range)
      <4>1. PICK j \in On(b, res) : j < i /\ Overlaps(res[i].range, res[j].range)
        BY <3>3, Zenon
      <4>2. j # i
        BY <1>0, <3>1, <4>1, OnRanges
      <4> QED
        BY <2>1, <3>1, <4>1, <4>2, Zenon DEF Allocated
    <3> QED
      BY <3>2, <3>3, Zenon DEF Refused
  <2>3. \A b \in Buses : Accepted(b, res) = On(b, res)
    BY <2>2, Zenon DEF Accepted
  <2> QED
    BY <1>1, <2>1, <2>2, <2>3, Zenon
<1>6. AssignedApart'
  <2> SUFFICES ASSUME unique', NEW b \in Buses, NEW a \in Devices, NEW c \in Devices,
                      NEW i \in On(b, assigned'[a]), NEW j \in On(b, assigned'[c]),
                      a # c \/ i # j
               PROVE  ~Overlaps(assigned'[a][i].range, assigned'[c][j].range)
    BY Zenon DEF AssignedApart, On, Overlaps, LastOf
  <2>1. unique /\ Allocated(res)
    BY <1>5, Zenon
  <2>2. CASE a = d /\ c = d
    BY <1>2, <2>1, <2>2, Zenon DEF Allocated
  <2>3. CASE a = d /\ c # d
    BY <1>2, <2>1, <2>3, Zenon DEF Allocated
  <2>4. CASE a # d /\ c = d
    <3>1. ~Overlaps(res[j].range, assigned[a][i].range)
      BY <1>2, <2>1, <2>4, Zenon DEF Allocated
    <3>2. res[j].range \in Ranges
      BY <1>0, <1>2, <2>4, OnRanges, Zenon
    <3>3. PICK m \in 0..MaxRes : assigned[a] \in [1..m -> Resources]
      BY DEF IoInv, IoType
    <3>4. assigned[a][i].range \in Ranges
      BY <1>2, <2>4, <3>3, OnRanges, IoAssumption
    <3> QED
      BY <1>2, <2>4, <3>1, <3>2, <3>4, OverlapsMeans, Zenon
  <2>5. CASE a # d /\ c # d
    BY <1>2, <2>1, <2>5, Zenon DEF IoInv, AssignedApart
  <2> QED
    BY <2>2, <2>3, <2>4, <2>5, Zenon
<1>7. ExactlyRegistered'
  <2> SUFFICES ASSUME unique', NEW b \in Buses
               PROVE  bus'[b] = UNION {Entries(c, assigned'[c], On(b, assigned'[c])) : c \in Devices}
    BY Zenon DEF ExactlyRegistered, Entries, On
  <2>1. bus'[b] = bus[b] \union Entries(d, res, On(b, res))
    BY <1>5, Zenon
  <2>2. bus[b] = UNION {Entries(c, assigned[c], On(b, assigned[c])) : c \in Devices}
    BY <1>5, Zenon DEF IoInv, ExactlyRegistered
  <2>3. Entries(d, assigned[d], On(b, assigned[d])) = {}
    BY DEF Entries, On
  <2> QED
    BY <1>2, <2>1, <2>2, <2>3
<1> QED
  BY <1>1, <1>4, <1>6, <1>7, Zenon DEF IoInv

(* deregister_resources finds an entry by the base of its range: it takes     *)
(* away the device's own entries and, if resources are unique, no others.     *)
LEMMA DeregisterStep ==
  ASSUME IoInv, NEW d \in Devices, DeregisterResources(d)
  PROVE  IoInv'
<1>1. /\ bus' = [b \in Buses |-> {e \in bus[b] : \A i \in On(b, assigned[d]) :
                                    e \notin Device(b, assigned[d][i].range.base)}]
      /\ assigned' = [assigned EXCEPT ![d] = <<>>]
      /\ unique' = unique
  BY Zenon DEF DeregisterResources
<1>2. /\ assigned'[d] = <<>>
      /\ \A c \in Devices : c # d => assigned'[c] = assigned[c]
  BY <1>1, Zenon DEF IoInv, IoType
<1>3. \A b \in Buses : bus'[b] \subseteq bus[b]
  BY <1>1, Zenon
<1>4. \A b \in Buses : \A e \in bus[b] : e.range \in Ranges
  BY DEF IoInv, IoType, BusEntries
<1>5. IoType'
  <2>1. <<>> \in [1..0 -> Resources] /\ 0 \in 0..MaxRes
    BY IoAssumption
  <2>2. assigned' \in [Devices -> UNION {[1..n -> Resources] : n \in 0..MaxRes}]
    BY <1>1, <2>1, Zenon DEF IoInv, IoType
  <2>3. bus' \in [Buses -> SUBSET BusEntries]
    BY <1>1, Zenon DEF IoInv, IoType
  <2> QED
    BY <1>1, <2>2, <2>3, Zenon DEF IoInv, IoType
<1>6. NoOverlap'
  <2> SUFFICES ASSUME NEW b \in Buses, NEW e \in bus'[b], NEW f \in bus'[b], e # f
               PROVE  ~Overlaps(e.range, f.range)
    BY Zenon DEF NoOverlap, Overlaps, LastOf
  <2> QED
    BY <1>3, Zenon DEF IoInv, NoOverlap
<1>7. AssignedApart'
  <2> SUFFICES ASSUME unique', NEW b \in Buses, NEW a \in Devices, NEW c \in Devices,
                      NEW i \in On(b, assigned'[a]), NEW j \in On(b, assigned'[c]),
                      a # c \/ i # j
               PROVE  ~Overlaps(assigned'[a][i].range, assigned'[c][j].range)
    BY Zenon DEF AssignedApart, On, Overlaps, LastOf
  <2>1. a # d /\ c # d
    BY <1>2 DEF On
  <2> QED
    BY <1>1, <1>2, <2>1, Zenon DEF IoInv, AssignedApart
<1>8. ExactlyRegistered'
  <2> SUFFICES ASSUME unique', NEW b \in Buses
               PROVE  bus'[b] = UNION {Entries(c, assigned'[c], On(b, assigned'[c])) : c \in Devices}
    BY Zenon DEF ExactlyRegistered, Entries, On
  <2>1. bus[b] = UNION {Entries(c, assigned[c], On(b, assigned[c])) : c \in Devices}
    BY <1>1, Zenon DEF IoInv, ExactlyRegistered
  <2>2. Entries(d, assigned'[d], On(b, assigned'[d])) = {}
    BY <1>2 DEF Entries, On
  <2>3. ASSUME NEW i \in On(b, assigned[d]), NEW e \in bus[b], e.range = assigned[d][i].range
        PROVE  e \in Device(b, assigned[d][i].range.base)
    BY <1>4, <2>3, RangeType DEF Device
  <2>4. ASSUME NEW c \in Devices, c # d, NEW j \in On(b, assigned[c]), NEW e \in bus[b],
               e.range = assigned[c][j].range, NEW i \in On(b, assigned[d])
        PROVE  e \notin Device(b, assigned[d][i].range.base)
    <3>1. ~Overlaps(assigned[c][j].range, assigned[d][i].range)
      BY <1>1, <2>4, Zenon DEF IoInv, AssignedApart
    <3>2. PICK m \in 0..MaxRes : assigned[d] \in [1..m -> Resources]
      BY SMTT(30) DEF IoInv, IoType
    <3>3. assigned[d][i].range \in Ranges /\ e.range \in Ranges
      BY <1>4, <3>2, OnRanges, IoAssumption
    <3> QED
      BY <2>4, <3>1, <3>3, OverlapsMeans, Zenon DEF Device
  <2>5. ASSUME NEW c \in Devices, c # d
        PROVE  Entries(c, assigned[c], On(b, assigned[c])) \subseteq bus'[b]
    <3> SUFFICES ASSUME NEW e \in Entries(c, assigned[c], On(b, assigned[c])) PROVE e \in bus'[b]
      BY Zenon
    <3>1. PICK j \in On(b, assigned[c]) : e.range = assigned[c][j].range
      BY DEF Entries
    <3>2. e \in bus[b]
      BY <2>1, Zenon
    <3> QED
      BY <1>1, <2>4, <2>5, <3>1, <3>2, Zenon
  <2>6. ASSUME NEW e \in bus'[b]
        PROVE  \E c \in Devices : c # d /\ e \in Entries(c, assigned[c], On(b, assigned[c]))
    <3>1. e \in bus[b]
      BY <1>3, Zenon
    <3>2. PICK c \in Devices : e \in Entries(c, assigned[c], On(b, assigned[c]))
      BY <2>1, <3>1, Zenon
    <3>3. ASSUME c = d PROVE FALSE
      <4>1. PICK j \in On(b, assigned[d]) : e.range = assigned[d][j].range
        BY <3>2, <3>3 DEF Entries
      <4> QED
        BY <1>1, <2>3, <3>1, <4>1, Zenon
    <3> QED
      BY <3>2, <3>3, Zenon
  <2> QED
    BY <1>2, <2>2, <2>5, <2>6, Zenon
<1> QED
  BY <1>5, <1>6, <1>7, <1>8, Zenon DEF IoInv

(* The inductive invariant of IoManager holds in every reachable state. *)
LEMMA IoInvHolds == IoSpec => []IoInv
<1>1. IoInit => IoInv
  <2> SUFFICES ASSUME IoInit PROVE IoInv
    BY Zenon
  <2>1. <<>> \in [1..0 -> Resources] /\ 0 \in 0..MaxRes
    BY IoAssumption
  <2>2. IoType
    BY <2>1, Zenon DEF IoInit, IoType
  <2>3. NoOverlap /\ AssignedApart
    BY DEF IoInit, NoOverlap, AssignedApart, On
  <2>4. ExactlyRegistered
    BY DEF IoInit, ExactlyRegistered, Entries, On
  <2> QED
    BY <2>2, <2>3, <2>4, Zenon DEF IoInv
<1>2. IoInv /\ [IoNext]_ioVars => IoInv'
  <2> SUFFICES ASSUME IoInv, [IoNext]_ioVars PROVE IoInv'
    BY Zenon
  <2>1. ASSUME NEW d \in Devices, assigned[d] = <<>>,
               NEW n \in 1..MaxRes, NEW res \in [1..n -> Resources], RegisterResources(d, res)
        PROVE  IoInv'
    BY <2>1, RegisterStep, Zenon
  <2>2. ASSUME NEW d \in Devices, DeregisterResources(d) PROVE IoInv'
    BY <2>2, DeregisterStep, Zenon
  <2>3. CASE UNCHANGED ioVars
    BY <2>3 DEF ioVars, IoInv, IoType, NoOverlap, AssignedApart, ExactlyRegistered, On,
                Entries, Overlaps, LastOf
  <2> QED
    BY <2>1, <2>2, <2>3, Zenon DEF IoNext
<1> QED
  BY <1>1, <1>2, PTL DEF IoSpec

(* No two ranges of a bus overlap, whatever was registered and deregistered   *)
(* and wherever a registration failed (Bus::register).                        *)
THEOREM NoOverlapHolds == IoSpec => []NoOverlap
BY IoInvHolds, PTL DEF IoInv

(* With unique resources the buses hold exactly the ranges of the registered  *)
(* devices (register_resources and deregister_resources).                     *)
THEOREM ExactlyRegisteredHolds == IoSpec => []ExactlyRegistered
BY IoInvHolds, PTL DEF IoInv

(* Where ranges do not overlap, the entry with the greatest base up to an     *)
(* address is the only one that can hold it.                                  *)
LEMMA DispatchFromApart == IoInv => DispatchExact
<1> SUFFICES ASSUME IoInv, NEW b \in Buses, NEW addr \in BusAddrs, NEW len \in 0..(MaxBusAddr + 2)
             PROVE  CheckAccess(b, addr, len) =
                      {e \in bus[b] : len > 0 /\ \A a \in addr..(addr + len - 1) :
                                        e.range.base <= a /\ a <= LastOf(e.range)}
  BY Zenon DEF DispatchExact
<1>1. /\ addr \in Nat /\ len \in Nat
      /\ \A e \in bus[b] : /\ e.range.base \in Nat /\ LastOf(e.range) \in Nat
                           /\ LastOf(e.range) <= MaxBusAddr /\ e.range \in Ranges
  BY RangeType, IoAssumption DEF IoInv, IoType, BusEntries, BusAddrs
<1>2. ASSUME NEW e \in CheckAccess(b, addr, len)
      PROVE  e \in bus[b] /\ len > 0 /\ e.range.base <= addr /\ addr + len - 1 <= LastOf(e.range)
  BY Zenon DEF CheckAccess, Device
<1>3. ASSUME NEW e \in bus[b], len > 0, e.range.base <= addr, addr + len - 1 <= LastOf(e.range)
      PROVE  e \in CheckAccess(b, addr, len)
  <2>1. addr <= LastOf(e.range) /\ addr + len - 1 <= MaxBusAddr
    BY <1>1, <1>3, IoAssumption
  <2>2. ASSUME NEW f \in bus[b], f.range.base <= addr, ~(f.range.base <= e.range.base)
        PROVE  FALSE
    <3>1. e # f
      BY <1>1, <2>2
    <3>2. Overlaps(e.range, f.range)
      BY <1>1, <2>1, <2>2, OverlapsMeans
    <3> QED
      BY <3>1, <3>2, Zenon DEF IoInv, NoOverlap
  <2> QED
    BY <1>3, <2>1, <2>2, Zenon DEF CheckAccess, Device
<1>4. ASSUME NEW e \in bus[b], len > 0
      PROVE  (\A a \in addr..(addr + len - 1) : e.range.base <= a /\ a <= LastOf(e.range))
             <=> e.range.base <= addr /\ addr + len - 1 <= LastOf(e.range)
  <2>1. addr \in addr..(addr + len - 1) /\ addr + len - 1 \in addr..(addr + len - 1)
    BY <1>1, <1>4
  <2> QED
    BY <1>1, <2>1
<1> QED
  BY <1>2, <1>3, <1>4, Zenon

(* Every access is dispatched to the device all its bytes belong to, and one  *)
(* that leaves a range or meets none is refused (Bus::check_access).          *)
THEOREM DispatchExactHolds == IoSpec => []DispatchExact
BY IoInvHolds, DispatchFromApart, PTL

--------------------------------------------------------------------------------
(* Every id is in exactly one of three places: not yet reached by the         *)
(* counter, freed, or held by one client.                                     *)
ThreeWays ==
  /\ next_id # None => range_base <= next_id /\ next_id <= range_end + 1
  /\ next_id = None => range_end = MaxId
  /\ \A id \in freed_ids : next_id # None => id < next_id
  /\ \A id \in U32 : holders[id] = IF IsAllocated(id) THEN 1 ELSE 0

IdInv == IdTypeOK /\ ThreeWays

(* Giving out one id changes the number of its holders only. *)
LEMMA OneHolder ==
  ASSUME NEW h \in [U32 -> Nat], NEW id \in U32, NEW n \in Nat
  PROVE  /\ [h EXCEPT ![id] = n] \in [U32 -> Nat]
         /\ \A i \in U32 : [h EXCEPT ![id] = n][i] = IF i = id THEN n ELSE h[i]
BY Zenon

(* Ids handed out by allocate_id and ids given back stay apart. *)
LEMMA IdInvHolds == IdSpec => []IdInv
<1> USE MaxIdAssumption
<1>1. IdInit => IdInv
  <2> SUFFICES ASSUME IdInit PROVE IdInv
    BY Zenon
  <2>1. IdTypeOK
    BY Zenon DEF IdInit, IdTypeOK, U32, None
  <2>2. ThreeWays
    BY DEF IdInit, ThreeWays, IsAllocated, IdInRange, U32, None
  <2> QED
    BY <2>1, <2>2, Zenon DEF IdInv
<1>2. IdInv /\ [IdNext]_idVars => IdInv'
  <2> SUFFICES ASSUME IdInv, [IdNext]_idVars PROVE IdInv'
    BY Zenon
  <2>1. /\ range_base \in Int /\ range_end \in Int /\ next_id \in Int
        /\ \A id \in freed_ids : id \in U32 /\ range_base <= id /\ id <= range_end
        /\ holders \in [U32 -> Nat]
    BY DEF IdInv, IdTypeOK, U32, None
  <2>2. CASE Reuse
    <3>1. PICK id \in freed_ids :
            /\ freed_ids' = freed_ids \ {id}
            /\ GiveOut(id)
            /\ UNCHANGED <<range_base, range_end, next_id>>
      BY <2>2, Zenon DEF Reuse
    <3>2. holders[id] = 0
      BY <2>1, Zenon DEF IdInv, ThreeWays, IsAllocated
    <3>3. /\ holders' \in [U32 -> Nat]
          /\ \A i \in U32 : holders'[i] = IF i = id THEN 1 ELSE holders[i]
      BY <2>1, <3>1, <3>2, OneHolder DEF GiveOut
    <3>4. IdTypeOK'
      BY <2>1, <3>1, <3>3, Zenon DEF IdInv, IdTypeOK
    <3>5. ThreeWays'
      BY <2>1, <3>1, <3>3, Zenon DEF IdInv, ThreeWays, IsAllocated, IdInRange, U32, None
    <3> QED
      BY <3>4, <3>5, Zenon DEF IdInv
  <2>3. CASE AllocateNext
    <3>1. /\ freed_ids = {} /\ next_id # None /\ next_id <= range_end
          /\ next_id' = IF next_id = MaxId THEN None ELSE next_id + 1
          /\ GiveOut(next_id)
          /\ UNCHANGED <<range_base, range_end, freed_ids>>
      BY <2>3, Zenon DEF AllocateNext
    <3>2. next_id \in U32 /\ holders[next_id] = 0
      BY <2>1, <3>1 DEF IdInv, IdTypeOK, ThreeWays, IsAllocated, U32
    <3>3. /\ holders' \in [U32 -> Nat]
          /\ \A i \in U32 : holders'[i] = IF i = next_id THEN 1 ELSE holders[i]
      BY <2>1, <3>1, <3>2, OneHolder DEF GiveOut
    <3>4. IdTypeOK'
      BY <2>1, <3>1, <3>2, <3>3 DEF IdInv, IdTypeOK, U32, None
    <3>5. ThreeWays'
      BY <2>1, <3>1, <3>2, <3>3
         DEF IdInv, IdTypeOK, ThreeWays, IsAllocated, IdInRange, U32, None
    <3> QED
      BY <3>4, <3>5, Zenon DEF IdInv
  <2>4. ASSUME NEW id \in U32, FreeId(id) PROVE IdInv'
    <3>1. /\ range_base <= id /\ id <= range_end
          /\ next_id # None => id < next_id
          /\ id \notin freed_ids
          /\ freed_ids' = freed_ids \union {id}
          /\ UNCHANGED <<range_base, range_end, next_id>>
      BY <2>4, Zenon DEF FreeId, IdInRange
    <3>2. holders[id] = 1
      BY <3>1, Zenon DEF IdInv, ThreeWays, IsAllocated, IdInRange
    <3>3. holders' = [holders EXCEPT ![id] = 0]
      BY <2>4, <3>2 DEF FreeId
    <3>4. /\ holders' \in [U32 -> Nat]
          /\ \A i \in U32 : holders'[i] = IF i = id THEN 0 ELSE holders[i]
      BY <2>1, <3>3, OneHolder, Zenon
    <3>5. IdTypeOK'
      BY <2>1, <3>1, <3>4 DEF IdInv, IdTypeOK, U32
    <3>6. ThreeWays'
      BY <2>1, <3>1, <3>4, Zenon DEF IdInv, ThreeWays, IsAllocated, IdInRange, U32, None
    <3> QED
      BY <3>5, <3>6, Zenon DEF IdInv
  <2>5. CASE UNCHANGED idVars
    BY <2>5, Zenon DEF idVars, IdInv, IdTypeOK, ThreeWays, IsAllocated, IdInRange
  <2> QED
    BY <2>2, <2>3, <2>4, <2>5, Zenon DEF IdNext
<1> QED
  BY <1>1, <1>2, PTL DEF IdSpec

(* The counter, the freed ids and the range keep their types for every range. *)
THEOREM IdTypeCorrect == IdSpec => []IdTypeOK
<1>1. IdInv => IdTypeOK
  BY Zenon DEF IdInv
<1> QED
  BY <1>1, IdInvHolds, PTL

(* No sequence of allocate_id and free_id gives an id to two clients.         *)
THEOREM NoIdTwiceHolds == IdSpec => []NoIdTwice
<1>1. IdInv => NoIdTwice
  BY DEF IdInv, ThreeWays, NoIdTwice
<1> QED
  BY <1>1, IdInvHolds, PTL

(* is_allocated answers exactly which ids are held.                           *)
THEOREM IsAllocatedExactHolds == IdSpec => []IsAllocatedExact
<1>1. IdInv => IsAllocatedExact
  BY DEF IdInv, ThreeWays, IsAllocatedExact
<1> QED
  BY <1>1, IdInvHolds, PTL

(* allocate_id fails only when every id of the range is held.                 *)
THEOREM FailsOnlyWhenFullHolds == IdSpec => []FailsOnlyWhenFull
<1>1. IdInv => FailsOnlyWhenFull
  BY MaxIdAssumption
     DEF IdInv, IdTypeOK, ThreeWays, FailsOnlyWhenFull, IsAllocated, IdInRange, U32, None
<1> QED
  BY <1>1, IdInvHolds, PTL

--------------------------------------------------------------------------------
(* The nodes of the tree do not overlap. *)
Apart == \A x, y \in nodes : x # y => Disjoint(x, y)

--------------------------------------------------------------------------------
(* align_down goes down by less than the alignment. *)
LEMMA AlignDownBound ==
  ASSUME NEW a \in Nat, NEW align \in Nat \ {0}
  PROVE  /\ AlignDown(a, align) \in Int
         /\ AlignDown(a, align) <= a
         /\ a < AlignDown(a, align) + align
<1>1. a % align \in 0..(align - 1)
  OBVIOUS
<1> QED
  BY <1>1 DEF AlignDown

(* Whatever the policy, the slot lies inside the node it was found in. *)
LEMMA SlotInside ==
  ASSUME TypeOK, NEW x \in nodes, NEW size \in Sizes, NEW align \in Aligns,
         NEW policy \in Policies, NEW addr \in Addrs,
         NEW s \in Slot(x, size, align, policy, addr)
  PROVE  /\ s \in Int /\ x.start <= s /\ s + size - 1 <= x.end
         /\ policy # "exact" => x.free
         /\ policy = "exact" => s = addr
<1>1. /\ x.start \in Nat /\ x.end \in Nat /\ x.start <= x.end
      /\ size \in Nat \ {0} /\ align \in Nat \ {0}
  BY RangeAssumption, ClientAssumption DEF TypeOK, Addrs, Sizes
<1>2. CASE policy = "first"
  <2>1. PICK a \in Nat : a = x.start + align - 1
    BY <1>1
  <2>2. /\ AlignDown(a, align) \in Int
        /\ a < AlignDown(a, align) + align
    BY <1>1, <2>1, AlignDownBound, Zenon
  <2>3. AlignUp(x.start, align) = AlignDown(a, align)
    BY <2>1, Zenon DEF AlignUp
  <2>4. /\ AlignUp(x.start, align) \in Int
        /\ x.start <= AlignUp(x.start, align)
    BY <1>1, <2>1, <2>2, <2>3
  <2> QED
    BY <1>1, <1>2, <2>4 DEF Slot, FirstSlot
<1>3. CASE policy = "last"
  <2>1. x.end >= size /\ x.free /\ s = AlignDown(x.end - size + 1, align) /\ s >= x.start
    BY <1>3, Zenon DEF Slot, LastSlot
  <2>2. x.end - size + 1 \in Nat
    BY <1>1, <2>1
  <2>3. s \in Int /\ s <= x.end - size + 1
    BY <1>1, <2>1, <2>2, AlignDownBound, Zenon
  <2> QED
    BY <1>1, <1>3, <2>1, <2>3
<1>4. CASE policy = "exact"
  BY <1>1, <1>4, RangeAssumption DEF Slot, ExactSlot, Contains, Addrs
<1> QED
  BY <1>2, <1>3, <1>4, ClientAssumption, Zenon

(* What Pieces leaves of a node: free rests on either side, the slot between. *)
LEMMA PiecesInside ==
  ASSUME TypeOK, NEW x \in nodes, NEW s \in Int, NEW e \in Int,
         x.start <= s, s <= e, e <= x.end
  PROVE  /\ \A y \in Pieces(x, s, e) :
              /\ y \in [start : Addrs, end : Addrs, free : BOOLEAN]
              /\ x.start <= y.start /\ y.start <= y.end /\ y.end <= x.end
         /\ \A y, z \in Pieces(x, s, e) : y # z => Disjoint(y, z)
         /\ \A a \in Addrs : x.start <= a /\ a <= x.end =>
              \E y \in Pieces(x, s, e) : y.start <= a /\ a <= y.end
         /\ Node(s, e, FALSE) \in Pieces(x, s, e)
         /\ \A y \in Pieces(x, s, e) : ~y.free => y = Node(s, e, FALSE)
<1>1. /\ x.start \in Addrs /\ x.end \in Addrs
      /\ x.start \in Int /\ x.end \in Int /\ Base \in Int /\ End \in Int
  BY RangeAssumption DEF TypeOK, Addrs
<1>2. PICK head, slot, tail :
        head = Node(x.start, s - 1, TRUE) /\ slot = Node(s, e, FALSE) /\ tail = Node(e + 1, x.end, TRUE)
  BY Zenon
<1>3. \A y : y \in Pieces(x, s, e) <=>
               (y = head \/ y = slot \/ y = tail) /\ y.start <= y.end
  BY <1>2, Zenon DEF Pieces
<1>4. /\ head.start = x.start /\ head.end = s - 1
      /\ slot.start = s       /\ slot.end = e
      /\ tail.start = e + 1   /\ tail.end = x.end
  BY <1>2, Zenon DEF Node
<1>5. head.free = TRUE /\ slot.free = FALSE /\ tail.free = TRUE
  BY <1>2, Zenon DEF Node
<1>6. ASSUME NEW y \in Pieces(x, s, e)
      PROVE  /\ y.start \in Addrs /\ y.end \in Addrs
             /\ x.start <= y.start /\ y.start <= y.end /\ y.end <= x.end
  BY <1>1, <1>3, <1>4 DEF Addrs
<1>7. ASSUME NEW y \in Pieces(x, s, e)
      PROVE  y \in [start : Addrs, end : Addrs, free : BOOLEAN]
  <2>1. PICK i, j, f : y = [start |-> i, end |-> j, free |-> f] /\ (f = TRUE \/ f = FALSE)
    BY <1>2, <1>3, Zenon DEF Node
  <2>2. i \in Addrs /\ j \in Addrs
    BY <1>6, <2>1, Zenon
  <2>3. f \in BOOLEAN
    BY <2>1, Zenon
  <2> QED
    BY <2>1, <2>2, <2>3, Zenon
<1>8. ASSUME NEW y \in Pieces(x, s, e), NEW z \in Pieces(x, s, e), y # z
      PROVE  Disjoint(y, z)
  BY <1>1, <1>3, <1>4, <1>8 DEF Disjoint
<1>9. ASSUME NEW a \in Addrs, x.start <= a, a <= x.end
      PROVE  \E y \in Pieces(x, s, e) : y.start <= a /\ a <= y.end
  <2>1. a \in Int
    BY <1>1 DEF Addrs
  <2>2. CASE a < s
    BY <1>1, <1>3, <1>4, <1>9, <2>1, <2>2
  <2>3. CASE s <= a /\ a <= e
    BY <1>1, <1>3, <1>4, <1>9, <2>1, <2>3, Zenon
  <2>4. CASE e < a
    BY <1>1, <1>3, <1>4, <1>9, <2>1, <2>4
  <2> QED
    BY <2>1, <2>2, <2>3, <2>4
<1>10. slot \in Pieces(x, s, e)
  BY <1>3, <1>4, Zenon
<1>11. ASSUME NEW y \in Pieces(x, s, e), ~y.free
       PROVE  y = slot
  BY <1>3, <1>5, <1>11, Zenon
<1> QED
  BY <1>2, <1>6, <1>7, <1>8, <1>9, <1>10, <1>11, Zenon

(* A successful allocate cuts a slot [s, e] out of one node; when no client   *)
(* asks for what another one has, that node is free.                          *)
LEMMA AllocateCuts ==
  ASSUME TypeOK, NEW size \in Sizes, NEW align \in Aligns, NEW policy \in Policies,
         NEW addr \in Addrs, Allocate(size, align, policy, addr)
  PROVE  \E x \in nodes : \E s, e \in Int :
           /\ x.start <= s /\ s <= e /\ e <= x.end
           /\ nodes' = (nodes \ {x}) \union Pieces(x, s, e)
           /\ owned' = owned \union {Range(s, e)}
           /\ policy # "exact" => x.free
           /\ policy = "exact" => s = addr /\ e = addr + size - 1
<1>1. PICK x \in nodes : \E s \in Slot(x, size, align, policy, addr) :
        /\ nodes' = (nodes \ {x}) \union Pieces(x, s, s + size - 1)
        /\ owned' = owned \union {Range(s, s + size - 1)}
  BY Zenon DEF Allocate, Found
<1>2. PICK s \in Slot(x, size, align, policy, addr) :
        /\ nodes' = (nodes \ {x}) \union Pieces(x, s, s + size - 1)
        /\ owned' = owned \union {Range(s, s + size - 1)}
  BY <1>1, Zenon
<1>3. /\ s \in Int /\ x.start <= s /\ s + size - 1 <= x.end
      /\ policy # "exact" => x.free
      /\ policy = "exact" => s = addr
  BY SlotInside
<1>4. PICK e \in Int : e = s + size - 1
  BY <1>3, RangeAssumption DEF Sizes
<1>5. x.start <= s /\ s <= e /\ e <= x.end
  BY <1>3, <1>4, RangeAssumption DEF Sizes
<1> QED
  BY <1>2, <1>3, <1>4, <1>5, Zenon

(* A freed node reaches up to the free neighbours found beside it. *)
LEMMA NeighboursAdjacent ==
  ASSUME TypeOK, Apart, NEW x \in nodes
  PROVE  /\ \A y \in LeftOf(x) : y \in nodes /\ y.free /\ y # x /\ y.end = x.start - 1
         /\ \A y \in RightOf(x) : y \in nodes /\ y.free /\ y # x /\ y.start = x.end + 1
<1>1. \A y \in nodes : y.start \in Int /\ y.end \in Int /\ y.start <= y.end
  BY RangeAssumption DEF TypeOK, Addrs
<1>2. ASSUME NEW y \in LeftOf(x)
      PROVE  y \in nodes /\ y.free /\ y # x /\ y.end = x.start - 1
  <2>1. y \in nodes /\ y.start <= x.start - 2 /\ y.end >= x.start - 1
    BY Zenon DEF LeftOf, Contains
  <2>2. y.free
    BY Zenon DEF LeftOf
  <2>3. y # x
    BY <1>1, <2>1
  <2>4. y.end = x.start - 1
    BY <1>1, <2>1, <2>3 DEF Apart, Disjoint
  <2> QED
    BY <2>1, <2>2, <2>3, <2>4, Zenon
<1>3. ASSUME NEW y \in RightOf(x)
      PROVE  y \in nodes /\ y.free /\ y # x /\ y.start = x.end + 1
  <2>1. y \in nodes /\ y.start <= x.end + 1 /\ y.end >= x.end + 2
    BY Zenon DEF RightOf, Contains
  <2>2. y.free
    BY Zenon DEF RightOf
  <2>3. y # x
    BY <1>1, <2>1
  <2>4. y.start = x.end + 1
    BY <1>1, <2>1, <2>3 DEF Apart, Disjoint
  <2> QED
    BY <2>1, <2>2, <2>3, <2>4, Zenon
<1> QED
  BY <1>2, <1>3, Zenon

(* The nodes a free takes out of the tree. *)
Swallowed(x) == {x} \union LeftOf(x) \union RightOf(x)

(* The freed node x becomes new, which starts and ends where the neighbours   *)
(* found do.                                                                  *)
Reaches(x, new) ==
  /\ \/ LeftOf(x) = {} /\ new.start = x.start
     \/ \E y \in LeftOf(x) : new.start = y.start
  /\ \/ RightOf(x) = {} /\ new.end = x.end
     \/ \E y \in RightOf(x) : new.end = y.end

(* A free that finds its neighbours replaces a node and the free ones beside  *)
(* it by one free node, which covers them and no other node.                  *)
LEMMA FreeMerges ==
  ASSUME TypeOK, Apart, NEW x \in nodes, Free(x), NeighboursExist(x)
  PROVE  \E new \in [start : Addrs, end : Addrs, free : BOOLEAN] :
           /\ nodes' = (nodes \ Swallowed(x)) \union {new}
           /\ new.free /\ new.start <= new.end
           /\ \A w \in nodes \ Swallowed(x) : Disjoint(w, new)
           /\ \A w \in Swallowed(x) : new.start <= w.start /\ w.end <= new.end
           /\ Reaches(x, new)
<1>1. PICK s \in Addrs, e \in Addrs : Merged(x, Node(s, e, TRUE))
  BY Zenon DEF Free
<1>2. PICK new : new = Node(s, e, TRUE)
  BY Zenon
<1>3. new.start = s /\ new.end = e /\ new \in [start : Addrs, end : Addrs, free : BOOLEAN]
  BY <1>2, Zenon DEF Node
<1>4. new.free
  BY <1>2, Zenon DEF Node
<1>5. nodes' = (nodes \ Swallowed(x)) \union {new}
  BY <1>1, <1>2, Zenon DEF Merged, Swallowed
<1>6. /\ \/ LeftOf(x) = {} /\ new.start = x.start
         \/ \E y \in LeftOf(x) : new.start = y.start
      /\ \/ RightOf(x) = {} /\ new.end = x.end
         \/ \E y \in RightOf(x) : new.end = y.end
  BY <1>1, <1>2, Zenon DEF Merged
<1>7. \A y \in nodes : y.start \in Int /\ y.end \in Int /\ y.start <= y.end
  BY RangeAssumption DEF TypeOK, Addrs
<1>8. /\ \A y \in LeftOf(x) : y \in nodes /\ y.end = x.start - 1
      /\ \A y \in RightOf(x) : y \in nodes /\ y.start = x.end + 1
  BY NeighboursAdjacent, Zenon
<1>9. /\ \A y, z \in LeftOf(x) : y = z
      /\ \A y, z \in RightOf(x) : y = z
  BY <1>7, <1>8 DEF Apart, Disjoint
<1>10. new.start <= x.start /\ x.end <= new.end
  BY <1>6, <1>7, <1>8
<1>11. new.start <= new.end
  BY <1>3, <1>7, <1>10, RangeAssumption DEF Addrs
<1>12. ASSUME NEW w \in nodes \ Swallowed(x)
       PROVE  Disjoint(w, new)
  <2>1. /\ w # x /\ w \in nodes
        /\ \A y \in LeftOf(x) \union RightOf(x) : w # y
    BY Zenon DEF Swallowed
  <2>2. /\ Disjoint(w, x)
        /\ \A y \in LeftOf(x) \union RightOf(x) : Disjoint(w, y)
    BY <1>8, <2>1, Zenon DEF Apart
  <2>3. w.end < x.start => w.end < new.start
    BY <1>6, <1>7, <1>8, <2>1, <2>2 DEF Disjoint
  <2>4. x.end < w.start => new.end < w.start
    BY <1>6, <1>7, <1>8, <2>1, <2>2 DEF Disjoint
  <2> QED
    BY <2>2, <2>3, <2>4, Zenon DEF Disjoint
<1>13. ASSUME NEW w \in Swallowed(x)
       PROVE  new.start <= w.start /\ w.end <= new.end
  <2>1. CASE w = x
    BY <1>10, <2>1, Zenon
  <2>2. CASE w \in LeftOf(x)
    BY <1>3, <1>6, <1>7, <1>8, <1>9, <1>10, <2>2, RangeAssumption DEF Addrs
  <2>3. CASE w \in RightOf(x)
    BY <1>3, <1>6, <1>7, <1>8, <1>9, <1>10, <2>3, RangeAssumption DEF Addrs
  <2> QED
    BY <2>1, <2>2, <2>3, Zenon DEF Swallowed
<1>14. Reaches(x, new)
  BY <1>6, Zenon DEF Reaches
<1> QED
  BY <1>3, <1>4, <1>5, <1>11, <1>12, <1>13, <1>14, Zenon

--------------------------------------------------------------------------------
(* Nodes and ranges lie in the managed address space, and the nodes do not    *)
(* overlap.                                                                   *)
SafeInv == TypeOK /\ Apart

(* AddressAllocator::allocate keeps the nodes apart. *)
LEMMA AllocateSafe ==
  ASSUME SafeInv, NEW size \in Sizes, NEW align \in Aligns, NEW policy \in Policies,
         NEW addr \in Addrs, Allocate(size, align, policy, addr)
  PROVE  SafeInv'
<1>1. TypeOK /\ Apart
  BY Zenon DEF SafeInv
<1>2. PICK x \in nodes, s \in Int, e \in Int :
        /\ x.start <= s /\ s <= e /\ e <= x.end
        /\ nodes' = (nodes \ {x}) \union Pieces(x, s, e)
        /\ owned' = owned \union {Range(s, e)}
  BY <1>1, AllocateCuts
<1>3. /\ \A y \in Pieces(x, s, e) :
           /\ y \in [start : Addrs, end : Addrs, free : BOOLEAN]
           /\ x.start <= y.start /\ y.start <= y.end /\ y.end <= x.end
      /\ \A y, z \in Pieces(x, s, e) : y # z => Disjoint(y, z)
  BY <1>1, <1>2, PiecesInside, Zenon
<1>4. \A y \in nodes : y.start \in Int /\ y.end \in Int /\ y.start <= y.end
  BY <1>1, RangeAssumption DEF TypeOK, Addrs
<1>5. \A y \in nodes' : y \in [start : Addrs, end : Addrs, free : BOOLEAN] /\ y.start <= y.end
  BY <1>1, <1>2, <1>3, Zenon DEF TypeOK
<1>6. Range(s, e) \in [start : Addrs, end : Addrs]
  <2>1. s \in Addrs /\ e \in Addrs
    BY <1>1, <1>2, RangeAssumption DEF TypeOK, Addrs
  <2> QED
    BY <2>1, Zenon DEF Range
<1>7. TypeOK'
  BY <1>1, <1>2, <1>5, <1>6, Zenon DEF TypeOK
<1>8. \A y \in Pieces(x, s, e), z \in nodes \ {x} : Disjoint(y, z) /\ Disjoint(z, y)
  <2> SUFFICES ASSUME NEW y \in Pieces(x, s, e), NEW z \in nodes \ {x}
               PROVE  Disjoint(y, z) /\ Disjoint(z, y)
    BY Zenon
  <2>1. Disjoint(x, z)
    BY <1>1, Zenon DEF Apart
  <2>2. y.start \in Int /\ y.end \in Int
    BY <1>3, RangeAssumption DEF Addrs
  <2> QED
    BY <1>3, <1>4, <2>1, <2>2 DEF Disjoint
<1>9. Apart'
  BY <1>1, <1>2, <1>3, <1>8, Zenon DEF Apart
<1> QED
  BY <1>7, <1>9, Zenon DEF SafeInv

(* AddressAllocator::free keeps the nodes apart. *)
LEMMA FreeSafe ==
  ASSUME SafeInv, NEW x \in nodes, Free(x)
  PROVE  SafeInv'
<1>1. TypeOK /\ Apart
  BY Zenon DEF SafeInv
<1>2. owned' \subseteq owned
  BY Zenon DEF Free
<1>3. CASE NeighboursExist(x)
  <2>1. PICK new \in [start : Addrs, end : Addrs, free : BOOLEAN] :
          /\ nodes' = (nodes \ Swallowed(x)) \union {new}
          /\ new.start <= new.end
          /\ \A w \in nodes \ Swallowed(x) : Disjoint(w, new)
    BY <1>1, <1>3, FreeMerges, Zenon
  <2>2. TypeOK'
    BY <1>1, <1>2, <2>1, Zenon DEF TypeOK
  <2>3. \A w \in nodes \ Swallowed(x) : Disjoint(new, w)
    BY <2>1, Zenon DEF Disjoint
  <2>4. Apart'
    BY <1>1, <2>1, <2>3, Zenon DEF Apart
  <2> QED
    BY <2>2, <2>4, Zenon DEF SafeInv
<1>4. CASE ~NeighboursExist(x)
  <2>1. nodes' = nodes \ {x}
    BY <1>4, Zenon DEF Free
  <2> QED
    BY <1>1, <1>2, <2>1, Zenon DEF SafeInv, TypeOK, Apart
<1> QED
  BY <1>3, <1>4, Zenon

(* The nodes are apart after any calls of allocate and free. *)
LEMMA SafeInvHolds == Spec => []SafeInv
<1>1. Init => SafeInv
  <2> SUFFICES ASSUME Init PROVE SafeInv
    BY Zenon
  <2>1. PICK n : n = Node(Base, End, TRUE)
    BY Zenon
  <2>2. nodes = {n} /\ owned = {}
    BY <2>1, Zenon DEF Init
  <2>3. n \in [start : Addrs, end : Addrs, free : BOOLEAN] /\ n.start <= n.end
    BY <2>1, RangeAssumption DEF Node, Addrs
  <2> QED
    BY <2>2, <2>3, Zenon DEF SafeInv, TypeOK, Apart
<1>2. SafeInv /\ [Next]_vars => SafeInv'
  <2> SUFFICES ASSUME SafeInv, [Next]_vars PROVE SafeInv'
    BY Zenon
  <2>1. CASE UNCHANGED vars
    BY <2>1, Zenon DEF vars, SafeInv, TypeOK, Apart
  <2>2. CASE Next
    BY <2>2, AllocateSafe, FreeSafe, Zenon DEF Next
  <2> QED
    BY <2>1, <2>2, Zenon
<1> QED
  BY <1>1, <1>2, PTL DEF Spec

(* Nodes and owned ranges stay inside the managed address space. *)
THEOREM TypeCorrect == Spec => []TypeOK
<1>1. SafeInv => TypeOK
  BY Zenon DEF SafeInv
<1> QED
  BY <1>1, SafeInvHolds, PTL

--------------------------------------------------------------------------------
(* The ranges of the nodes marked Allocated. *)
Given == {Key(x) : x \in {y \in nodes : ~y.free}}

ExactInv == SafeInv /\ owned = Given

(* When no client asks for what another one has, allocate cuts a free node.   *)
LEMMA AllocateFromFree ==
  ASSUME ExactInv, ~ExactInUse, NEW size \in Sizes, NEW align \in Aligns,
         NEW policy \in Policies, NEW addr \in Addrs,
         Asks(size, align, policy, addr), Allocate(size, align, policy, addr)
  PROVE  \E x \in nodes : \E s, e \in Int :
           /\ x.free /\ x.start <= s /\ s <= e /\ e <= x.end
           /\ nodes' = (nodes \ {x}) \union Pieces(x, s, e)
           /\ owned' = owned \union {Range(s, e)}
<1>1. TypeOK /\ Apart /\ owned = Given
  BY Zenon DEF ExactInv, SafeInv
<1>2. PICK x \in nodes, s \in Int, e \in Int :
        /\ x.start <= s /\ s <= e /\ e <= x.end
        /\ nodes' = (nodes \ {x}) \union Pieces(x, s, e)
        /\ owned' = owned \union {Range(s, e)}
        /\ policy # "exact" => x.free
        /\ policy = "exact" => s = addr /\ e = addr + size - 1
  BY <1>1, AllocateCuts
<1>3. x.free
  <2>1. SUFFICES ASSUME policy = "exact", ~x.free PROVE FALSE
    BY <1>2, Zenon
  <2>2. Key(x) \in owned
    BY <1>1, <2>1, Zenon DEF Given
  <2>3. addr + size <= Key(x).start \/ Key(x).end < addr
    BY <2>1, <2>2, Zenon DEF Asks
  <2>4. Key(x).start = x.start /\ Key(x).end = x.end
    BY Zenon DEF Key, Range
  <2>5. x.start \in Int /\ x.end \in Int /\ addr \in Int /\ size \in Int
    BY <1>1, RangeAssumption DEF TypeOK, Addrs, Sizes
  <2> QED
    BY <1>2, <2>1, <2>3, <2>4, <2>5
<1> QED
  BY <1>2, <1>3, Zenon

(* allocate gives its caller the node it puts in, no other. *)
LEMMA AllocateExact ==
  ASSUME ExactInv, ~ExactInUse, NEW size \in Sizes, NEW align \in Aligns,
         NEW policy \in Policies, NEW addr \in Addrs,
         Asks(size, align, policy, addr), Allocate(size, align, policy, addr)
  PROVE  (owned = Given)'
<1>1. TypeOK /\ Apart /\ owned = Given
  BY Zenon DEF ExactInv, SafeInv
<1>2. PICK x \in nodes, s \in Int, e \in Int :
        /\ x.free /\ x.start <= s /\ s <= e /\ e <= x.end
        /\ nodes' = (nodes \ {x}) \union Pieces(x, s, e)
        /\ owned' = owned \union {Range(s, e)}
  BY AllocateFromFree
<1>3. x.free
  BY <1>2, Zenon
<1>4. /\ Node(s, e, FALSE) \in Pieces(x, s, e)
      /\ \A y \in Pieces(x, s, e) : ~y.free => y = Node(s, e, FALSE)
  BY <1>1, <1>2, PiecesInside, Zenon
<1>5. ~Node(s, e, FALSE).free /\ Key(Node(s, e, FALSE)) = Range(s, e)
  BY Zenon DEF Node, Key
<1>6. Given' = {Key(y) : y \in {z \in nodes' : ~z.free}}
  BY Zenon DEF Given, Key, Range
<1>7. {z \in nodes' : ~z.free} = {z \in nodes : ~z.free} \union {Node(s, e, FALSE)}
  BY <1>2, <1>3, <1>4, <1>5, Zenon
<1>8. Given' = Given \union {Range(s, e)}
  <2>1. PICK slot, r : slot = Node(s, e, FALSE) /\ r = Range(s, e) /\ Key(slot) = r
    BY <1>5, Zenon
  <2>2. {z \in nodes' : ~z.free} = {z \in nodes : ~z.free} \union {slot}
    BY <1>7, <2>1, Zenon
  <2>3. Given' = Given \union {r}
    BY <1>6, <2>1, <2>2, Zenon DEF Given
  <2> QED
    BY <2>1, <2>3, Zenon
<1> QED
  BY <1>1, <1>2, <1>8, Zenon

(* free takes back the node of the caller, no other. *)
LEMMA FreeExact ==
  ASSUME ExactInv, NEW x \in nodes, Free(x)
  PROVE  (owned = Given)'
<1>1. TypeOK /\ Apart /\ owned = Given
  BY Zenon DEF ExactInv, SafeInv
<1>2. owned' = owned \ {Key(x)}
  BY Zenon DEF Free
<1>3. {z \in nodes' : ~z.free} = {z \in nodes : ~z.free} \ {x}
  <2>1. CASE NeighboursExist(x)
    <3>1. PICK new \in [start : Addrs, end : Addrs, free : BOOLEAN] :
            nodes' = (nodes \ Swallowed(x)) \union {new} /\ new.free
      BY <1>1, <2>1, FreeMerges, Zenon
    <3>2. \A y \in Swallowed(x) : y = x \/ y.free
      BY <1>1, NeighboursAdjacent, Zenon DEF Swallowed
    <3>3. x \in Swallowed(x)
      BY Zenon DEF Swallowed
    <3> QED
      BY <3>1, <3>2, <3>3, Zenon
  <2>2. CASE ~NeighboursExist(x)
    BY <2>2, Zenon DEF Free
  <2> QED
    BY <2>1, <2>2, Zenon
<1>4. \A y \in nodes : y # x => Key(y) # Key(x)
  <2> SUFFICES ASSUME NEW y \in nodes, y # x, Key(y) = Key(x) PROVE FALSE
    BY Zenon
  <2>1. y.start = x.start /\ y.end = x.end
    BY Zenon DEF Key, Range
  <2> QED
    BY <1>1, <2>1, RangeAssumption DEF Apart, Disjoint, TypeOK, Addrs
<1>5. Given' = {Key(y) : y \in {z \in nodes' : ~z.free}}
  BY Zenon DEF Given, Key, Range
<1>6. Given' = Given \ {Key(x)}
  BY <1>3, <1>4, <1>5, Zenon DEF Given
<1> QED
  BY <1>1, <1>2, <1>6, Zenon

(* The callers own what the tree says is in use, call after call. *)
LEMMA ExactInvHolds ==
  ASSUME ~ExactInUse
  PROVE  Spec => []ExactInv
<1>1. Init => owned = Given
  <2> SUFFICES ASSUME Init PROVE owned = Given
    BY Zenon
  <2>1. nodes = {Node(Base, End, TRUE)} /\ owned = {}
    BY Zenon DEF Init
  <2>2. Node(Base, End, TRUE).free
    BY Zenon DEF Node
  <2> QED
    BY <2>1, <2>2, Zenon DEF Given
<1>2. SafeInv /\ owned = Given /\ [Next]_vars => (owned = Given)'
  <2> SUFFICES ASSUME SafeInv, owned = Given, [Next]_vars PROVE (owned = Given)'
    BY Zenon
  <2>1. ExactInv
    BY Zenon DEF ExactInv
  <2>2. CASE UNCHANGED vars
    BY <2>2, Zenon DEF vars, Given, Key, Range
  <2>3. CASE Next
    BY <2>1, <2>3, AllocateExact, FreeExact, Zenon DEF Next
  <2> QED
    BY <2>2, <2>3, Zenon
<1> QED
  BY <1>1, <1>2, SafeInvHolds, PTL DEF Spec, ExactInv

(* If no client asks for an address another one has, the nodes stay apart     *)
(* and a node is Allocated exactly while a client has its range, whatever is  *)
(* freed in between.                                                          *)
THEOREM NodesExactHolds ==
  ASSUME ~ExactInUse
  PROVE  Spec => []NodesExact
<1>1. ExactInv => NodesExact
  BY Zenon DEF ExactInv, SafeInv, Apart, Given, NodesExact
<1> QED
  BY <1>1, ExactInvHolds, PTL

(* ... and so no address is given to two clients at once. *)
THEOREM NoDoubleAllocationHolds ==
  ASSUME ~ExactInUse
  PROVE  Spec => []NoDoubleAllocation
<1>1. ExactInv => NoDoubleAllocation
  <2> SUFFICES ASSUME ExactInv, NEW r \in owned, NEW s \in owned, r # s
               PROVE  Disjoint(r, s)
    BY Zenon DEF NoDoubleAllocation
  <2>1. PICK x \in nodes, y \in nodes : r = Key(x) /\ s = Key(y)
    BY Zenon DEF ExactInv, Given
  <2>2. /\ r.start = x.start /\ r.end = x.end
        /\ s.start = y.start /\ s.end = y.end
    BY <2>1, Zenon DEF Key, Range
  <2>3. Disjoint(x, y)
    BY <2>1, Zenon DEF ExactInv, SafeInv, Apart
  <2> QED
    BY <2>2, <2>3, Zenon DEF Disjoint
<1> QED
  BY <1>1, ExactInvHolds, PTL

--------------------------------------------------------------------------------
(* What the merging of free achieves: of two free nodes side by side one is a *)
(* single address, as the search for a neighbour wants two.                   *)
OneAlone ==
  \A x, y \in nodes :
    x.free /\ y.free /\ x.end + 1 = y.start => x.start = x.end \/ y.start = y.end

(* allocate: the rests of a free node have the neighbours the node had. *)
LEMMA AllocateAlone ==
  ASSUME ExactInv, OneAlone, ~ExactInUse, NEW size \in Sizes, NEW align \in Aligns,
         NEW policy \in Policies, NEW addr \in Addrs,
         Asks(size, align, policy, addr), Allocate(size, align, policy, addr)
  PROVE  OneAlone'
<1>1. TypeOK /\ Apart
  BY Zenon DEF ExactInv, SafeInv
<1>2. PICK x \in nodes, s \in Int, e \in Int :
        /\ x.free /\ x.start <= s /\ s <= e /\ e <= x.end
        /\ nodes' = (nodes \ {x}) \union Pieces(x, s, e)
  BY AllocateFromFree, Zenon
<1>3. \A y \in nodes : y.start \in Int /\ y.end \in Int /\ y.start <= y.end
  BY <1>1, RangeAssumption DEF TypeOK, Addrs
<1>4. ASSUME NEW y \in Pieces(x, s, e), y.free
      PROVE  /\ y.start \in Int /\ y.end \in Int /\ y.start <= y.end
             /\ \/ y.start = x.start /\ y.end = s - 1
                \/ y.start = e + 1 /\ y.end = x.end
  <2>1. PICK head, slot, tail :
          head = Node(x.start, s - 1, TRUE) /\ slot = Node(s, e, FALSE) /\ tail = Node(e + 1, x.end, TRUE)
    BY Zenon
  <2>2. (y = head \/ y = slot \/ y = tail) /\ y.start <= y.end
    BY <2>1, Zenon DEF Pieces
  <2>3. /\ head.start = x.start /\ head.end = s - 1
        /\ tail.start = e + 1   /\ tail.end = x.end
    BY <2>1, Zenon DEF Node
  <2>4. slot.free = FALSE
    BY <2>1, Zenon DEF Node
  <2>5. y # slot
    BY <1>4, <2>4, Zenon
  <2> QED
    BY <1>2, <1>3, <2>2, <2>3, <2>5
<1>5. ASSUME NEW v \in nodes', NEW w \in nodes', v.free, w.free, v.end + 1 = w.start
      PROVE  v.start = v.end \/ w.start = w.end
  <2>1. CASE v \in nodes \ {x} /\ w \in nodes \ {x}
    BY <1>5, <2>1, Zenon DEF OneAlone
  <2>2. CASE v \in Pieces(x, s, e) /\ w \in Pieces(x, s, e)
    BY <1>2, <1>3, <1>4, <1>5, <2>2
  <2>3. CASE v \in nodes \ {x} /\ w \in Pieces(x, s, e)
    <3>1. Disjoint(v, x)
      BY <1>1, <2>3, Zenon DEF Apart
    <3>2. v \in nodes /\ v.end + 1 = x.start /\ x.start # x.end
      BY <1>2, <1>3, <1>4, <1>5, <2>3, <3>1 DEF Disjoint
    <3> QED
      BY <1>2, <1>5, <3>2, Zenon DEF OneAlone
  <2>4. CASE v \in Pieces(x, s, e) /\ w \in nodes \ {x}
    <3>1. Disjoint(w, x)
      BY <1>1, <2>4, Zenon DEF Apart
    <3>2. w \in nodes /\ x.end + 1 = w.start /\ x.start # x.end
      BY <1>2, <1>3, <1>4, <1>5, <2>4, <3>1 DEF Disjoint
    <3> QED
      BY <1>2, <1>5, <3>2, Zenon DEF OneAlone
  <2> QED
    BY <1>2, <2>1, <2>2, <2>3, <2>4, Zenon
<1> QED
  BY <1>5, Zenon DEF OneAlone

(* free: a free neighbour that stays has one address, or the node that was    *)
(* merged in between had it beside itself before.                             *)
LEMMA FreeAlone ==
  ASSUME SafeInv, OneAlone, NEW x \in nodes, Free(x)
  PROVE  OneAlone'
<1>1. TypeOK /\ Apart
  BY Zenon DEF SafeInv
<1>2. \A y \in nodes : y.start \in Int /\ y.end \in Int /\ y.start <= y.end
  BY <1>1, RangeAssumption DEF TypeOK, Addrs
<1>3. CASE ~NeighboursExist(x)
  <2>1. nodes' = nodes \ {x}
    BY <1>3, Zenon DEF Free
  <2> QED
    BY <2>1, Zenon DEF OneAlone
<1>4. CASE NeighboursExist(x)
  <2>1. PICK new \in [start : Addrs, end : Addrs, free : BOOLEAN] :
          /\ nodes' = (nodes \ Swallowed(x)) \union {new}
          /\ new.start <= new.end /\ Reaches(x, new)
    BY <1>1, <1>4, FreeMerges, Zenon
  <2>2. new.start \in Int /\ new.end \in Int
    BY RangeAssumption DEF Addrs
  <2>3. ASSUME NEW w \in nodes \ Swallowed(x), w.free, w.end + 1 = new.start
        PROVE  w.start = w.end
    <3>1. w \in nodes /\ w \notin LeftOf(x)
      BY Zenon DEF Swallowed
    <3>2. CASE LeftOf(x) = {} /\ new.start = x.start
      <4>1. ~Contains(w, x.start - 2, x.start - 1)
        BY <2>3, <3>1, Zenon DEF LeftOf
      <4> QED
        BY <1>2, <2>3, <3>1, <3>2, <4>1 DEF Contains
    <3>3. ASSUME NEW y \in LeftOf(x), new.start = y.start
          PROVE  w.start = w.end
      <4>1. y \in nodes /\ y.free /\ y.start <= x.start - 2 /\ y.end >= x.start - 1
        BY Zenon DEF LeftOf, Contains
      <4>2. y.start # y.end
        BY <1>2, <4>1
      <4> QED
        BY <2>3, <3>1, <3>3, <4>1, <4>2, Zenon DEF OneAlone
    <3> QED
      BY <2>1, <3>2, <3>3, Zenon DEF Reaches
  <2>4. ASSUME NEW w \in nodes \ Swallowed(x), w.free, new.end + 1 = w.start
        PROVE  w.start = w.end
    <3>1. w \in nodes /\ w \notin RightOf(x)
      BY Zenon DEF Swallowed
    <3>2. CASE RightOf(x) = {} /\ new.end = x.end
      <4>1. ~Contains(w, x.end + 1, x.end + 2)
        BY <2>4, <3>1, Zenon DEF RightOf
      <4> QED
        BY <1>2, <2>4, <3>1, <3>2, <4>1 DEF Contains
    <3>3. ASSUME NEW y \in RightOf(x), new.end = y.end
          PROVE  w.start = w.end
      <4>1. y \in nodes /\ y.free /\ y.start <= x.end + 1 /\ y.end >= x.end + 2
        BY Zenon DEF RightOf, Contains
      <4>2. y.start # y.end
        BY <1>2, <4>1
      <4> QED
        BY <2>4, <3>1, <3>3, <4>1, <4>2, Zenon DEF OneAlone
    <3> QED
      BY <2>1, <3>2, <3>3, Zenon DEF Reaches
  <2>5. new.end + 1 # new.start
    BY <2>1, <2>2
  <2> QED
    BY <2>1, <2>3, <2>4, <2>5, ZenonT(30) DEF OneAlone
<1> QED
  BY <1>3, <1>4, Zenon

(* ... call after call. *)
LEMMA OneAloneHolds ==
  ASSUME ~ExactInUse
  PROVE  Spec => []OneAlone
<1>1. Init => OneAlone
  <2> SUFFICES ASSUME Init PROVE OneAlone
    BY Zenon
  <2>1. PICK n : n = Node(Base, End, TRUE)
    BY Zenon
  <2>2. nodes = {n} /\ n.start = Base /\ n.end = End
    BY <2>1, Zenon DEF Init, Node
  <2>3. n.end + 1 # n.start
    BY <2>2, RangeAssumption
  <2> QED
    BY <2>2, <2>3, Zenon DEF OneAlone
<1>2. ExactInv /\ OneAlone /\ [Next]_vars => OneAlone'
  <2> SUFFICES ASSUME ExactInv, OneAlone, [Next]_vars PROVE OneAlone'
    BY Zenon
  <2>1. SafeInv
    BY Zenon DEF ExactInv
  <2>2. CASE UNCHANGED vars
    BY <2>2, Zenon DEF vars, OneAlone
  <2>3. CASE Next
    BY <2>1, <2>3, AllocateAlone, FreeAlone, Zenon DEF Next
  <2> QED
    BY <2>2, <2>3, Zenon
<1> QED
  BY <1>1, <1>2, ExactInvHolds, PTL DEF Spec

--------------------------------------------------------------------------------
(* In an address space away from both ends of u64, where the two addresses    *)
(* beside a node can be computed, no address ever drops out of the tree.      *)
THEOREM NoAddressLostHolds ==
  ASSUME Base >= 2, End <= MaxAddr - 2
  PROVE  Spec => []NoAddressLost
<1>1. Init => NoAddressLost
  BY RangeAssumption DEF Init, NoAddressLost, Node, Addrs
<1>2. SafeInv /\ NoAddressLost /\ [Next]_vars => NoAddressLost'
  <2> SUFFICES ASSUME SafeInv, NoAddressLost, [Next]_vars, NEW a \in Addrs
               PROVE  \E y \in nodes' : y.start <= a /\ a <= y.end
    BY Zenon DEF NoAddressLost
  <2>1. TypeOK /\ Apart
    BY Zenon DEF SafeInv
  <2>2. PICK w \in nodes : w.start <= a /\ a <= w.end
    BY Zenon DEF NoAddressLost
  <2>3. ASSUME NEW size \in Sizes, NEW align \in Aligns, NEW policy \in Policies,
               NEW addr \in Addrs, Allocate(size, align, policy, addr)
        PROVE  \E y \in nodes' : y.start <= a /\ a <= y.end
    <3>1. PICK x \in nodes, s \in Int, e \in Int :
            /\ x.start <= s /\ s <= e /\ e <= x.end
            /\ nodes' = (nodes \ {x}) \union Pieces(x, s, e)
      BY <2>1, <2>3, AllocateCuts, ZenonT(30)
    <3>2. x.start <= a /\ a <= x.end =>
            \E y \in Pieces(x, s, e) : y.start <= a /\ a <= y.end
      BY <2>1, <3>1, PiecesInside, Zenon
    <3> QED
      BY <2>2, <3>1, <3>2, Zenon
  <2>4. ASSUME NEW x \in nodes, Free(x)
        PROVE  \E y \in nodes' : y.start <= a /\ a <= y.end
    <3>1. NeighboursExist(x)
      BY <2>1, RangeAssumption DEF NeighboursExist, TypeOK, Addrs
    <3>2. PICK new \in [start : Addrs, end : Addrs, free : BOOLEAN] :
            /\ nodes' = (nodes \ Swallowed(x)) \union {new}
            /\ \A v \in Swallowed(x) : new.start <= v.start /\ v.end <= new.end
      BY <2>1, <2>4, <3>1, FreeMerges, Zenon
    <3>3. CASE w \in Swallowed(x)
      BY <2>1, <2>2, <3>2, <3>3, RangeAssumption DEF TypeOK, Addrs
    <3>4. CASE w \notin Swallowed(x)
      BY <2>2, <3>2, <3>4, Zenon
    <3> QED
      BY <3>3, <3>4, Zenon
  <2>5. CASE UNCHANGED vars
    BY <2>2, <2>5, Zenon DEF vars
  <2> QED
    BY <2>3, <2>4, <2>5, Zenon DEF Next
<1> QED
  BY <1>1, <1>2, SafeInvHolds, PTL DEF Spec
--------------------------------------------------------------------------------
(* Why the policies give the lowest and the highest slot: the slot of a node  *)
(* is its first or last multiple of the alignment that leaves room, and the   *)
(* nodes lie in the order of their starts.                                    *)

(* A nonempty set of natural numbers has a least element. *)
LEMMA LeastOf ==
  ASSUME NEW T \in SUBSET Nat, T # {}
  PROVE  \E m \in T : \A n \in T : m <= n
<1> DEFINE R == {ss \in Nat \X Nat : ss[1] < ss[2]}
<1>1. OpToRel(<, Nat) = R
  BY Zenon DEF OpToRel
<1>2. IsWellFoundedOn(R, Nat)
  BY <1>1, NatLessThanWellFounded, Zenon
<1> HIDE DEF R
<1>3. PICK m \in T : \A n \in T : ~(<<n, m>> \in R)
  BY <1>2, WFMin, Zenon
<1>4. ASSUME NEW n \in T, n < m
      PROVE  FALSE
  BY <1>3, <1>4, Zenon DEF R
<1> QED
  BY <1>4

(* A number and the multiple below it. *)
LEMMA Divided ==
  ASSUME NEW a \in Nat, NEW d \in Nat \ {0}
  PROVE  /\ a \div d \in Nat /\ a % d \in 0 .. d - 1
         /\ a = d * (a \div d) + (a % d)
OBVIOUS

(* A number without remainder is a multiple. *)
LEMMA Multiple ==
  ASSUME NEW a \in Nat, NEW d \in Nat \ {0}, a % d = 0
  PROVE  \E p \in Nat : a = d * p
<1>1. a \div d \in Nat /\ a = d * (a \div d) + 0
  BY Divided, Zenon
<1> QED
  BY <1>1

(* Of two multiples the smaller one ends before the larger one starts. *)
LEMMA NextMultiple ==
  ASSUME NEW d \in Nat \ {0}, NEW p \in Nat, NEW q \in Int, d * p < d * q + d
  PROVE  d * p <= d * q
<1>1. CASE p <= q
  <2>1. PICK k \in Nat : q = p + k
    BY <1>1
  <2>2. d * q = d * p + d * k /\ d * k >= 0
    BY <2>1
  <2> QED
    BY <2>2
<1>2. CASE p >= q + 1
  <2>1. PICK k \in Nat : p = q + 1 + k
    BY <1>2
  <2>2. d * p = d * q + d + d * k /\ d * k >= 0
    BY <2>1
  <2> QED
    BY <2>2
<1> QED
  BY <1>1, <1>2

(* align_down gives the largest multiple that is not above the address. *)
LEMMA AlignDownGreatest ==
  ASSUME NEW a \in Nat, NEW align \in Nat \ {0}
  PROVE  /\ AlignDown(a, align) \in Nat
         /\ AlignDown(a, align) % align = 0
         /\ \A b \in Nat : b % align = 0 /\ b <= a => b <= AlignDown(a, align)
<1>1. PICK q \in Nat, r \in 0 .. align - 1 : a = align * q + r /\ r = a % align
  BY Divided, Zenon
<1>2. AlignDown(a, align) = align * q /\ align * q \in Nat
  BY <1>1 DEF AlignDown
<1>3. (align * q) % align = 0
  OBVIOUS
<1>4. ASSUME NEW b \in Nat, b % align = 0, b <= a
      PROVE  b <= align * q
  <2>1. PICK p \in Nat : b = align * p
    BY <1>4, Multiple, Zenon
  <2>2. align * p < align * q + align
    BY <1>1, <1>4, <2>1
  <2> QED
    BY <2>1, <2>2, NextMultiple
<1> QED
  BY <1>2, <1>3, <1>4, Zenon

(* Where the policies promise something: 0 is not managed, where LastMatch    *)
(* refuses a node it could fill, nor is the largest address, which ends no    *)
(* slot; and the alignments divide the size of the whole space, as powers of  *)
(* two do.                                                                    *)
Regular ==
  /\ Base >= 1 /\ End < MaxAddr
  /\ \A align \in Aligns : (MaxAddr + 1) % align = 0

(* Node x has room for size addresses from a on. *)
Fits(x, a, size, align) ==
  /\ x.free /\ a % align = 0
  /\ Contains(x, a, a + size - 1)

(* FirstMatch: a free node has a slot iff some aligned slot fits into it, and *)
(* its slot is the lowest of them.                                            *)
LEMMA FirstSlotLowest ==
  ASSUME Regular, TypeOK, NEW x \in nodes, NEW size \in Sizes, NEW align \in Aligns
  PROVE  /\ \A s \in FirstSlot(x, size, align) : s \in Nat /\ Fits(x, s, size, align)
         /\ \A a \in Nat : Fits(x, a, size, align) =>
              /\ FirstSlot(x, size, align) # {}
              /\ \A s \in FirstSlot(x, size, align) : s <= a
<1>1. /\ x.start \in Nat /\ x.end \in Nat /\ x.start >= Base /\ x.end <= End
      /\ size \in Nat \ {0} /\ align \in Nat \ {0}
      /\ Base \in Nat /\ End \in Nat /\ MaxAddr \in Nat /\ Base >= 1 /\ End < MaxAddr
  BY RangeAssumption, ClientAssumption DEF TypeOK, Addrs, Sizes, Regular
<1>2. PICK b \in Nat : b = x.start + align - 1
  BY <1>1
<1>3. PICK s \in Nat : s = AlignDown(b, align)
  BY <1>1, AlignDownGreatest, Zenon
<1>4. s % align = 0 /\ x.start <= s /\ s <= b
  <2>1. s % align = 0 /\ s <= b /\ b < s + align
    BY <1>1, <1>3, AlignDownGreatest, AlignDownBound, Zenon
  <2> QED
    BY <1>1, <1>2, <2>1
<1>5. AlignUp(x.start, align) = s
  BY <1>2, <1>3, Zenon DEF AlignUp
<1>6. \A t : t \in FirstSlot(x, size, align) <=>
        /\ t = s /\ x.free /\ b <= MaxAddr
        /\ ValidRange(s, x.end) /\ x.end - s + 1 >= size
  BY <1>2, <1>5, Zenon DEF FirstSlot
<1>7. ASSUME NEW t \in FirstSlot(x, size, align)
      PROVE  t \in Nat /\ Fits(x, t, size, align)
  BY <1>1, <1>4, <1>6 DEF Fits, Contains
<1>8. ASSUME NEW a \in Nat, Fits(x, a, size, align)
      PROVE  s \in FirstSlot(x, size, align) /\ s <= a
  <2>1. x.free /\ a % align = 0 /\ x.start <= a /\ a + size - 1 <= x.end
    BY <1>1, <1>8, Zenon DEF Fits, Contains
  <2>2. PICK p \in Nat : a = align * p
    BY <1>1, <2>1, Multiple, Zenon
  <2>3. PICK q \in Nat : s = align * q
    BY <1>1, <1>4, Multiple, Zenon
  <2>4. s < a + align
    BY <1>1, <1>2, <1>4, <2>1
  <2>5. s <= a
    BY <1>1, <2>2, <2>3, <2>4, NextMultiple
  <2>6. b <= MaxAddr
    <3>1. PICK m \in Nat : MaxAddr + 1 = align * m
      <4>1. (MaxAddr + 1) % align = 0 /\ MaxAddr + 1 \in Nat
        BY <1>1 DEF Regular
      <4> QED
        BY <1>1, <4>1, Multiple, Zenon
    <3>2. align * q < align * m
      BY <1>1, <2>1, <2>3, <2>5, <3>1
    <3>3. align * q + align <= align * m
      <4>1. CASE align * m < align * q + align
        BY <1>1, <3>2, <4>1, NextMultiple, SMTT(30)
      <4> QED
        BY <1>1, <4>1
    <3> QED
      BY <1>1, <1>2, <1>4, <2>3, <3>1, <3>3
  <2>7. ValidRange(s, x.end) /\ x.end - s + 1 >= size
    BY <1>1, <1>4, <2>1, <2>5 DEF ValidRange
  <2> QED
    BY <1>6, <2>1, <2>5, <2>6, <2>7, Zenon
<1> QED
  BY <1>6, <1>7, <1>8

(* LastMatch: the same with the highest. *)
LEMMA LastSlotHighest ==
  ASSUME Regular, TypeOK, NEW x \in nodes, NEW size \in Sizes, NEW align \in Aligns
  PROVE  /\ \A s \in LastSlot(x, size, align) : s \in Nat /\ Fits(x, s, size, align)
         /\ \A a \in Nat : Fits(x, a, size, align) =>
              /\ LastSlot(x, size, align) # {}
              /\ \A s \in LastSlot(x, size, align) : s >= a
<1>1. /\ x.start \in Nat /\ x.end \in Nat /\ x.start >= Base /\ x.end <= End
      /\ size \in Nat \ {0} /\ align \in Nat \ {0}
      /\ Base \in Nat /\ End \in Nat /\ MaxAddr \in Nat /\ Base >= 1 /\ End < MaxAddr
  BY RangeAssumption, ClientAssumption DEF TypeOK, Addrs, Sizes, Regular
<1>2. ASSUME NEW s \in LastSlot(x, size, align)
      PROVE  /\ s \in Nat /\ Fits(x, s, size, align)
             /\ s = AlignDown(x.end - size + 1, align)
  <2>1. /\ x.free /\ x.end >= size /\ s >= x.start
        /\ s = AlignDown(x.end - size + 1, align)
    BY Zenon DEF LastSlot
  <2>2. PICK b \in Nat : b = x.end - size + 1
    BY <1>1, <2>1
  <2>3. s \in Nat /\ s % align = 0 /\ s <= b
    BY <1>1, <2>1, <2>2, AlignDownGreatest, AlignDownBound, Zenon
  <2> QED
    BY <1>1, <2>1, <2>2, <2>3 DEF Fits, Contains
<1>3. ASSUME NEW a \in Nat, Fits(x, a, size, align)
      PROVE  /\ AlignDown(x.end - size + 1, align) \in LastSlot(x, size, align)
             /\ AlignDown(x.end - size + 1, align) >= a
  <2>1. x.free /\ a % align = 0 /\ x.start <= a /\ a + size - 1 <= x.end
    BY <1>1, <1>3, Zenon DEF Fits, Contains
  <2>2. PICK b \in Nat : b = x.end - size + 1
    BY <1>1, <2>1
  <2>3. AlignDown(b, align) \in Nat /\ a <= AlignDown(b, align) /\ AlignDown(b, align) <= b
    <3>1. a <= b
      BY <1>1, <2>1, <2>2
    <3> QED
      BY <1>1, <2>1, <3>1, AlignDownGreatest, AlignDownBound, Zenon
  <2>4. ValidRange(AlignDown(b, align), x.end)
    BY <1>1, <2>1, <2>2, <2>3 DEF ValidRange
  <2> QED
    BY <1>1, <2>1, <2>2, <2>3, <2>4 DEF LastSlot
<1> QED
  BY <1>2, <1>3, Zenon

(* Before the slot, or behind it, as the policy prefers. *)
Preferred(policy, s, a) == IF policy = "first" THEN s <= a ELSE s >= a

(* Both at once, for the slot of one node. *)
LEMMA SlotBest ==
  ASSUME Regular, TypeOK, NEW x \in nodes, NEW size \in Sizes, NEW align \in Aligns,
         NEW policy \in {"first", "last"}
  PROVE  /\ \A s \in Slot(x, size, align, policy, Base) :
              s \in Nat /\ Fits(x, s, size, align)
         /\ \A a \in Nat : Fits(x, a, size, align) =>
              /\ Slot(x, size, align, policy, Base) # {}
              /\ \A s \in Slot(x, size, align, policy, Base) : Preferred(policy, s, a)
<1>1. CASE policy = "first"
  <2>1. Slot(x, size, align, policy, Base) = FirstSlot(x, size, align)
    BY <1>1, Zenon DEF Slot
  <2> QED
    BY <1>1, <2>1, FirstSlotLowest, Zenon DEF Preferred
<1>2. CASE policy = "last"
  <2>1. Slot(x, size, align, policy, Base) = LastSlot(x, size, align)
    BY <1>2, Zenon DEF Slot
  <2> QED
    BY <1>2, <2>1, LastSlotHighest, Zenon DEF Preferred
<1> QED
  BY <1>1, <1>2, Zenon

(* find_candidate finds a node if any node has a slot. *)
LEMMA FoundIfAny ==
  ASSUME TypeOK, NEW size, NEW align, NEW policy \in {"first", "last"},
         NEW y \in nodes, Slot(y, size, align, policy, Base) # {}
  PROVE  Found(size, align, policy, Base) # {}
<1> DEFINE Some == {x \in nodes : Slot(x, size, align, policy, Base) # {}}
<1>1. y \in Some /\ Some \subseteq nodes
  BY Zenon
<1>2. \A x \in Some : x.start \in Nat /\ End - x.start \in Nat
  BY <1>1, RangeAssumption DEF TypeOK, Addrs
<1>3. ASSUME NEW x \in Some,
             \A z \in Some : /\ policy = "first" => x.start <= z.start
                             /\ policy = "last"  => x.start >= z.start
      PROVE  x \in Found(size, align, policy, Base)
  BY <1>3, Zenon DEF Found
<1> HIDE DEF Some
<1>4. CASE policy = "first"
  <2>1. PICK T : T = {x.start : x \in Some}
    BY Zenon
  <2>2. T \in SUBSET Nat /\ T # {}
    BY <1>1, <1>2, <2>1, Zenon
  <2>3. PICK m \in T : \A n \in T : m <= n
    BY <2>2, LeastOf, Zenon
  <2>4. PICK x \in Some : m = x.start
    BY <2>1, Zenon
  <2>5. \A z \in Some : x.start <= z.start
    BY <2>1, <2>3, <2>4, Zenon
  <2> QED
    BY <1>3, <1>4, <2>5, Zenon
<1>5. CASE policy = "last"
  <2>1. PICK T : T = {End - x.start : x \in Some}
    BY Zenon
  <2>2. T \in SUBSET Nat /\ T # {}
    BY <1>1, <1>2, <2>1, Zenon
  <2>3. PICK m \in T : \A n \in T : m <= n
    BY <2>2, LeastOf, Zenon
  <2>4. PICK x \in Some : m = End - x.start
    BY <2>1, Zenon
  <2>5. ASSUME NEW z \in Some
        PROVE  x.start >= z.start
    <3>1. End - z.start \in T
      BY <2>1, Zenon
    <3> QED
      BY <1>2, <2>3, <2>4, <3>1, RangeAssumption
  <2> QED
    BY <1>3, <1>5, <2>5, Zenon
<1> QED
  BY <1>4, <1>5, Zenon

(* A slot that was found is granted. *)
LEMMA GrantedIs ==
  ASSUME Regular, TypeOK, NEW size \in Sizes, NEW align \in Aligns,
         NEW policy \in {"first", "last"}, NEW s
  PROVE  s \in Grantable(size, align, policy) <=>
           \E x \in Found(size, align, policy, Base) : s \in Slot(x, size, align, policy, Base)
<1>1. ASSUME NEW x \in nodes, s \in Slot(x, size, align, policy, Base)
      PROVE  Grants(x, s, size)
  <2>1. s \in Nat /\ Fits(x, s, size, align)
    BY <1>1, SlotBest, Zenon
  <2>2. x.end \in Nat /\ x.end <= End /\ End < MaxAddr /\ size \in Nat
    BY RangeAssumption DEF TypeOK, Addrs, Sizes, Regular
  <2>3. s + size - 1 <= x.end /\ x.free
    BY <2>1, Zenon DEF Fits, Contains
  <2> QED
    BY <2>1, <2>2, <2>3, RangeAssumption DEF Grants
<1>2. Found(size, align, policy, Base) \subseteq nodes
  BY Zenon DEF Found
<1>3. s \in Grantable(size, align, policy) <=>
        \E x \in Found(size, align, policy, Base) :
          s \in Slot(x, size, align, policy, Base) /\ Grants(x, s, size)
  BY DEF Grantable
<1> QED
  BY <1>1, <1>2, <1>3, Zenon

(* A slot of free addresses that crosses no free node of one address lies in  *)
(* one node.                                                                  *)
LEMMA ReachableFits ==
  ASSUME TypeOK, Apart, OneAlone, NEW size \in Sizes, NEW align \in Aligns,
         NEW a \in Reachable(size, align)
  PROVE  \E x \in nodes : Fits(x, a, size, align)
<1>1. /\ a % align = 0
      /\ \A b \in a..(a + size - 1) : Open(b)
      /\ size = 1 \/ \A b \in a..(a + size - 1) : ~Alone(b)
  BY Zenon DEF Reachable, Available
<1>2. a \in Int /\ size \in Nat \ {0}
  BY RangeAssumption DEF Reachable, Available, Addrs, Sizes
<1>3. a \in a..(a + size - 1)
  BY <1>2
<1>4. PICK x \in nodes : x.free /\ x.start <= a /\ a <= x.end
  BY <1>1, <1>3, Zenon DEF Open
<1>5. \A y \in nodes : y.start \in Int /\ y.end \in Int /\ y.start <= y.end
  BY RangeAssumption DEF TypeOK, Addrs
<1>6. a + size - 1 <= x.end
  <2>1. SUFFICES ASSUME x.end < a + size - 1 PROVE FALSE
    BY <1>2, <1>5
  <2>2. PICK b : b = x.end + 1
    BY Zenon
  <2>3. /\ x.end \in a..(a + size - 1) /\ b \in a..(a + size - 1) /\ size # 1
    BY <1>2, <1>4, <1>5, <2>1, <2>2
  <2>4. PICK y \in nodes : y.free /\ y.start <= b /\ b <= y.end
    BY <1>1, <2>3, Zenon DEF Open
  <2>5. x # y
    BY <1>5, <2>2, <2>4
  <2>6. Disjoint(x, y)
    BY <2>5, Zenon DEF Apart
  <2>7. x.end + 1 = y.start
    BY <1>5, <2>2, <2>4, <2>6 DEF Disjoint
  <2>8. x.start = x.end \/ y.start = y.end
    BY <1>4, <2>4, <2>7, Zenon DEF OneAlone
  <2>9. Alone(x.end) \/ Alone(b)
    BY <1>4, <2>2, <2>4, <2>7, <2>8, Zenon DEF Alone
  <2> QED
    BY <1>1, <2>3, <2>9, Zenon
<1> QED
  BY <1>1, <1>4, <1>6, Zenon DEF Fits, Contains

(* A slot inside a free node is available. *)
LEMMA FitsAvailable ==
  ASSUME TypeOK, NEW x \in nodes, NEW a \in Nat, NEW size \in Sizes, NEW align \in Aligns,
         Fits(x, a, size, align)
  PROVE  a \in Available(size, align)
<1>1. x.free /\ a % align = 0 /\ x.start <= a /\ a + size - 1 <= x.end
  BY Zenon DEF Fits, Contains
<1>2. x.start \in Addrs /\ x.end \in Addrs /\ size \in Nat \ {0}
  BY RangeAssumption DEF TypeOK, Sizes
<1>3. a \in Addrs
  BY <1>1, <1>2, RangeAssumption DEF Addrs
<1>4. ASSUME NEW b \in a..(a + size - 1)
      PROVE  x.start <= b /\ b <= x.end
  BY <1>1, <1>2, RangeAssumption DEF Addrs
<1> QED
  BY <1>1, <1>3, <1>4, Zenon DEF Available, Open

(* FirstMatch gives the lowest aligned run of free addresses and LastMatch    *)
(* the highest, unless a lower or higher one crosses a free node of a single  *)
(* address, and either fails only if every such run does, whatever was        *)
(* allocated and freed before (first_match, last_match, check_constraint,     *)
(* free): in every address space without 0 and the largest address, for       *)
(* alignments that divide the whole space, as the powers of two the code asks *)
(* for do, when no client asks ExactMatch for what another one has.           *)
THEOREM PolicyRespectedHolds ==
  ASSUME Regular, ~ExactInUse
  PROVE  Spec => []PolicyRespected
<1>1. SafeInv /\ OneAlone => PolicyRespected
  <2> SUFFICES ASSUME SafeInv, OneAlone, NEW size \in Sizes, NEW align \in Aligns,
                      NEW policy \in {"first", "last"}
               PROVE  /\ Grantable(size, align, policy) \subseteq Available(size, align)
                      /\ Reachable(size, align) # {} => Grantable(size, align, policy) # {}
                      /\ \A s \in Grantable(size, align, policy), a \in Reachable(size, align) :
                           Preferred(policy, s, a)
    BY Zenon DEF PolicyRespected, Preferred
  <2>1. TypeOK /\ Apart
    BY Zenon DEF SafeInv
  <2>2. \A a \in Reachable(size, align) :
          a \in Addrs /\ \E x \in nodes : Fits(x, a, size, align)
    BY <2>1, ReachableFits, Zenon DEF Reachable, Available
  <2>3. Addrs \subseteq Nat
    BY RangeAssumption DEF Addrs
  <2>4. ASSUME NEW s \in Grantable(size, align, policy)
        PROVE  s \in Available(size, align)
    <3>1. PICK x \in nodes : s \in Nat /\ Fits(x, s, size, align)
      BY <2>1, GrantedIs, SlotBest, Zenon DEF Found
    <3> QED
      BY <2>1, <3>1, FitsAvailable, Zenon
  <2>5. ASSUME NEW a \in Reachable(size, align)
        PROVE  Grantable(size, align, policy) # {}
    <3>1. PICK y \in nodes : Slot(y, size, align, policy, Base) # {}
      BY <2>1, <2>2, <2>3, SlotBest, Zenon
    <3>2. PICK x : x \in Found(size, align, policy, Base)
      BY <2>1, <3>1, FoundIfAny, Zenon
    <3>3. PICK s : s \in Slot(x, size, align, policy, Base)
      BY <3>2, Zenon DEF Found
    <3> QED
      BY <2>1, <3>2, <3>3, GrantedIs, Zenon
  <2>6. ASSUME NEW s \in Grantable(size, align, policy), NEW a \in Reachable(size, align)
        PROVE  Preferred(policy, s, a)
    <3>1. PICK x \in Found(size, align, policy, Base) : s \in Slot(x, size, align, policy, Base)
      BY <2>1, GrantedIs, Zenon
    <3>2. PICK y \in nodes : Fits(y, a, size, align)
      BY <2>2, Zenon
    <3>3. a \in Nat /\ x \in nodes /\ Slot(y, size, align, policy, Base) # {}
      BY <2>1, <2>2, <2>3, <3>1, <3>2, SlotBest, Zenon DEF Found
    <3>4. CASE x = y
      BY <2>1, <3>1, <3>2, <3>3, <3>4, SlotBest, Zenon
    <3>5. CASE x # y
      <4>1. /\ policy = "first" => x.start <= y.start
            /\ policy = "last"  => x.start >= y.start
        BY <3>1, <3>3, Zenon DEF Found
      <4>2. Disjoint(x, y)
        BY <2>1, <3>3, <3>5, Zenon DEF Apart
      <4>3. s \in Nat /\ Fits(x, s, size, align)
        BY <2>1, <3>1, <3>3, SlotBest, Zenon
      <4>4. /\ x.start \in Nat /\ x.end \in Nat /\ y.start \in Nat /\ y.end \in Nat
            /\ x.start <= x.end /\ y.start <= y.end
        BY <2>1, <2>3, <3>3, Zenon DEF TypeOK
      <4>5. /\ x.start <= s /\ s + size - 1 <= x.end
            /\ y.start <= a /\ a + size - 1 <= y.end
        BY <3>2, <4>3, Zenon DEF Fits, Contains
      <4>6. size \in Nat \ {0}
        BY RangeAssumption DEF Sizes
      <4> QED
        BY <3>3, <4>1, <4>2, <4>3, <4>4, <4>5, <4>6, SMTT(30) DEF Disjoint, Preferred
    <3> QED
      BY <3>4, <3>5, Zenon
  <2> QED
    BY <2>4, <2>5, <2>6, Zenon
<1> QED
  BY <1>1, SafeInvHolds, OneAloneHolds, PTL

--------------------------------------------------------------------------------
(* Induction on how far a loop has come. *)
LEMMA UpTo ==
  ASSUME NEW n \in Nat, NEW T, 0 \in T,
         \A k \in 0 .. n - 1 : k \in T => k + 1 \in T
  PROVE  0 .. n \subseteq T
<1> DEFINE Out == {k \in 0 .. n : k \notin T}
<1> SUFFICES ASSUME Out # {}
             PROVE  FALSE
  BY Zenon
<1>1. PICK m \in Out : \A k \in Out : m <= k
  <2>1. Out \in SUBSET Nat
    OBVIOUS
  <2> QED
    BY <2>1, LeastOf, Zenon
<1>2. m # 0 /\ m - 1 \in 0 .. n - 1
  OBVIOUS
<1>3. m - 1 \in T
  BY <1>1, <1>2
<1> QED
  BY <1>2, <1>3

(* num_kept_entries as the loop of retain counts it. *)
Counts(s, kept, n, f) ==
  /\ f \in [0 .. n -> Nat]
  /\ f[0] = 0
  /\ \A i \in 1 .. n : f[i] = f[i - 1] + (IF s[i] \in kept THEN 1 ELSE 0)

(* The loop of retain counts the entries kept, as far as it runs. *)
LEMMA CountsExist ==
  ASSUME NEW s, NEW kept, NEW n \in Nat
  PROVE  \E f : Counts(s, kept, n, f)
<1> DEFINE T == {k \in Nat : \E f : Counts(s, kept, k, f)}
<1>1. 0 \in T
  <2>1. Counts(s, kept, 0, [i \in 0 .. 0 |-> 0])
    BY DEF Counts
  <2> QED
    BY <2>1, Zenon
<1>2. ASSUME NEW k \in 0 .. n - 1, k \in T
      PROVE  k + 1 \in T
  <2>1. PICK f : Counts(s, kept, k, f)
    BY <1>2, Zenon
  <2> DEFINE g == [i \in 0 .. k + 1 |->
                     IF i = k + 1 THEN f[k] + (IF s[k + 1] \in kept THEN 1 ELSE 0) ELSE f[i]]
  <2>2. g \in [0 .. k + 1 -> Nat] /\ g[0] = 0
    BY <2>1 DEF Counts
  <2>3. ASSUME NEW i \in 1 .. k + 1
        PROVE  g[i] = g[i - 1] + (IF s[i] \in kept THEN 1 ELSE 0)
    <3>1. CASE i = k + 1
      BY <3>1
    <3>2. CASE i # k + 1
      <4>1. i \in 1 .. k /\ i - 1 \in 0 .. k
        BY <3>2
      <4> QED
        BY <2>1, <4>1 DEF Counts
    <3> QED
      BY <3>1, <3>2, Zenon
  <2>4. Counts(s, kept, k + 1, g)
    <3> HIDE DEF g
    <3> QED
      BY <2>2, <2>3, Zenon DEF Counts
  <2> QED
    BY <2>4
<1>3. 0 .. n \subseteq T
  <2> HIDE DEF T
  <2> QED
    BY <1>1, <1>2, UpTo, Zenon
<1> QED
  BY <1>3

(* NumKept is that count. *)
LEMMA NumKeptCounts ==
  ASSUME NEW s, Len(s) \in Nat, NEW kept
  PROVE  Counts(s, kept, Len(s), NumKept(s, kept))
<1>1. PICK g : Counts(s, kept, Len(s), g)
  BY CountsExist, Zenon
<1> DEFINE Step(f) == [i \in 0 .. Len(s) |->
                         IF i = 0 THEN 0 ELSE f[i - 1] + (IF s[i] \in kept THEN 1 ELSE 0)]
<1>2. g = Step(g)
  BY <1>1 DEF Counts
<1>3. NumKept(s, kept) = Step(NumKept(s, kept))
  BY <1>2, Zenon DEF NumKept
<1>4. PICK f : f = NumKept(s, kept)
  BY Zenon
<1>5. f = Step(f)
  BY <1>3, <1>4, Zenon
<1>6. f[0] = 0 /\ \A i \in 1 .. Len(s) : f[i] = f[i - 1] + (IF s[i] \in kept THEN 1 ELSE 0)
  BY <1>5
<1> DEFINE T == {k \in Nat : k <= Len(s) => f[k] \in Nat}
<1>7. 0 \in T
  BY <1>6
<1>8. ASSUME NEW k \in 0 .. Len(s) - 1, k \in T
      PROVE  k + 1 \in T
  <2>1. k + 1 \in 1 .. Len(s) /\ f[k] \in Nat
    BY <1>8
  <2> QED
    BY <1>6, <2>1
<1>9. 0 .. Len(s) \subseteq T
  <2> HIDE DEF T
  <2> QED
    BY <1>7, <1>8, UpTo, Zenon
<1>10. f \in [0 .. Len(s) -> Nat]
  <2>1. \A k \in 0 .. Len(s) : f[k] \in Nat
    BY <1>9
  <2>2. f = [k \in 0 .. Len(s) |-> f[k]]
    BY <1>5, Zenon
  <2> QED
    BY <2>1, <2>2, Zenon
<1> QED
  BY <1>4, <1>6, <1>10, Zenon DEF Counts

(* The loop of retain leaves the kept entries, each once and in order, and    *)
(* never more of them than there were.                                        *)
LEMMA KeptInOrder ==
  ASSUME NEW s \in Seq(FamEntries), NEW t \in Seq(FamEntries), NEW kept, Remaining(t, s, kept)
  PROVE  KeptEntries(s, kept) = t /\ Len(t) <= Len(s)
<1>1. PICK n \in Nat, m \in Nat : n = Len(s) /\ m = Len(t) /\ DOMAIN s = 1 .. n /\ DOMAIN t = 1 .. m
  OBVIOUS
<1>2. PICK at \in [1 .. m -> 1 .. n] :
        /\ \A j, k \in 1 .. m : j < k => at[j] < at[k]
        /\ \A j \in 1 .. m : t[j] = s[at[j]]
        /\ \A i \in 1 .. n : s[i] \in kept <=> \E j \in 1 .. m : at[j] = i
  <2>1. PICK a \in [DOMAIN t -> DOMAIN s] :
          /\ \A j, k \in DOMAIN t : j < k => a[j] < a[k]
          /\ \A j \in DOMAIN t : t[j] = s[a[j]]
          /\ \A i \in DOMAIN s : s[i] \in kept <=> \E j \in DOMAIN t : a[j] = i
    BY Zenon DEF Remaining
  <2>2. a \in [1 .. m -> 1 .. n]
    BY <1>1, <2>1, Zenon
  <2>3. \A j, k \in 1 .. m : j < k => a[j] < a[k]
    BY <1>1, <2>1, Zenon
  <2>4. \A j \in 1 .. m : t[j] = s[a[j]]
    BY <1>1, <2>1, Zenon
  <2>5. \A i \in 1 .. n : s[i] \in kept <=> \E j \in 1 .. m : a[j] = i
    BY <1>1, <2>1, Zenon
  <2> QED
    BY <2>2, <2>3, <2>4, <2>5, Zenon
<1>3. PICK f : f = NumKept(s, kept) /\ Counts(s, kept, n, f)
  BY <1>1, NumKeptCounts, Zenon
<1> DEFINE T == {i \in Nat : f[i] <= i /\ f[i] <= m /\ \A j \in 1 .. m : at[j] <= i <=> j <= f[i]}
<1>4. 0 \in T
  <2>1. f[0] = 0
    BY <1>3, Zenon DEF Counts
  <2>2. \A j \in 1 .. m : ~(at[j] <= 0)
    BY <1>2
  <2> QED
    BY <2>1, <2>2
<1>5. ASSUME NEW i \in 0 .. n - 1, i \in T
      PROVE  i + 1 \in T
  <2>1. /\ f[i] \in Nat /\ f[i] <= i /\ f[i] <= m
        /\ \A j \in 1 .. m : at[j] <= i <=> j <= f[i]
    BY <1>3, <1>5 DEF Counts
  <2>2. i + 1 \in 1 .. n /\ f[i + 1] = f[i] + (IF s[i + 1] \in kept THEN 1 ELSE 0)
    BY <1>3 DEF Counts
  <2>3. CASE s[i + 1] \in kept
    <3>1. PICK j0 \in 1 .. m : at[j0] = i + 1
      BY <1>2, <2>2, <2>3, Zenon
    <3>2. j0 > f[i]
      BY <2>1, <3>1
    <3>3. j0 = f[i] + 1
      <4>1. SUFFICES ASSUME f[i] + 1 < j0
                     PROVE  FALSE
        BY <2>1, <3>2
      <4>2. f[i] + 1 \in 1 .. m /\ at[f[i] + 1] < i + 1
        BY <1>2, <2>1, <3>1, <4>1, SMTT(30)
      <4> QED
        BY <1>2, <2>1, <4>2
    <3>4. f[i + 1] = j0
      BY <2>2, <2>3, <3>3, Zenon
    <3>5. \A j \in 1 .. m : at[j] <= i + 1 <=> j <= j0
      BY <1>2, <3>1
    <3> QED
      BY <2>1, <3>3, <3>4, <3>5, SMTT(30)
  <2>4. CASE s[i + 1] \notin kept
    <3>1. f[i + 1] = f[i]
      BY <2>1, <2>2, <2>4
    <3>2. \A j \in 1 .. m : at[j] # i + 1
      BY <1>2, <2>2, <2>4, Zenon
    <3>3. \A j \in 1 .. m : at[j] <= i + 1 <=> at[j] <= i
      BY <1>2, <3>2
    <3> QED
      BY <2>1, <3>1, <3>3, SMTT(30)
  <2> QED
    BY <2>3, <2>4, Zenon
<1>6. 0 .. n \subseteq T
  <2> HIDE DEF T
  <2> QED
    BY <1>4, <1>5, UpTo, Zenon
<1>7. \A i \in 0 .. n : f[i] \in Nat /\ f[i] <= i /\ f[i] <= m /\ \A j \in 1 .. m : at[j] <= i <=> j <= f[i]
  BY <1>3, <1>6, Zenon DEF Counts
<1> HIDE DEF T
<1>8. f[n] = m
  <2>1. f[n] \in Nat /\ f[n] <= m /\ \A j \in 1 .. m : at[j] <= n <=> j <= f[n]
    BY <1>7
  <2>2. ASSUME m # 0
        PROVE  m <= f[n]
    <3>1. m \in 1 .. m /\ at[m] <= n
      BY <1>2, <2>2
    <3> QED
      BY <2>1, <3>1, Zenon
  <2> QED
    BY <2>1, <2>2
<1>9. ASSUME NEW j \in 1 .. m
      PROVE  f[at[j]] = j
  <2>1. PICK k : k = f[at[j]] /\ k \in Nat /\ j <= k /\ k <= m
    BY <1>2, <1>7
  <2>2. k \in 1 .. m /\ at[k] \in Nat /\ at[j] \in Nat /\ at[k] <= at[j]
    BY <1>2, <1>7, <2>1, SMTT(30)
  <2>3. ~(j < k)
    BY <1>2, <2>2
  <2> QED
    BY <2>1, <2>3
<1>10. ASSUME NEW j \in 1 .. m
       PROVE  s[KeptAt(s, kept, j)] = t[j]
  <2>1. at[j] \in 1 .. n /\ s[at[j]] \in kept /\ f[at[j]] = j
    BY <1>2, <1>9, Zenon
  <2>2. ASSUME NEW i \in 1 .. n, s[i] \in kept, f[i] = j
        PROVE  i = at[j]
    BY <1>2, <1>9, <2>2, Zenon
  <2>3. KeptAt(s, kept, j) = at[j]
    BY <1>1, <1>3, <2>1, <2>2, Zenon DEF KeptAt
  <2> QED
    BY <1>2, <2>3, Zenon
<1>11. KeptEntries(s, kept) = [j \in 1 .. m |-> t[j]]
  <2>1. KeptEntries(s, kept) = [j \in 1 .. m |-> s[KeptAt(s, kept, j)]]
    BY <1>1, <1>3, <1>8, Zenon DEF KeptEntries
  <2> QED
    BY <1>10, <2>1, Zenon
<1>12. t = [j \in 1 .. m |-> t[j]]
  BY <1>1
<1> QED
  BY <1>1, <1>7, <1>8, <1>11, <1>12

--------------------------------------------------------------------------------
(* Division by a size. *)
LEMMA QuotientIs ==
  ASSUME NEW d \in Nat \ {0}, NEW q \in Nat, NEW r \in Nat, r < d
  PROVE  (q * d + r) \div d = q
<1>1. PICK y : y = q * d + r
  BY Zenon
<1>2. y \in Nat /\ q * d \in Nat
  BY <1>1
<1>3. PICK p \in Nat, z \in Nat : p = y \div d /\ z = y % d /\ y = d * p + z /\ z < d
  BY <1>2
<1>4. ~(p < q)
  <2>1. SUFFICES ASSUME p < q
                 PROVE  FALSE
    BY Zenon
  <2>2. PICK k \in Nat : q = p + 1 + k
    BY <2>1
  <2>3. q * d = d * p + d + k * d /\ k * d \in Nat /\ d * p \in Nat
    BY <2>2
  <2> QED
    BY <1>1, <1>3, <2>3
<1>5. ~(q < p)
  <2>1. SUFFICES ASSUME q < p
                 PROVE  FALSE
    BY Zenon
  <2>2. PICK k \in Nat : p = q + 1 + k
    BY <2>1
  <2>3. d * p = q * d + d + k * d /\ k * d \in Nat /\ q * d \in Nat
    BY <2>2
  <2> QED
    BY <1>1, <1>3, <2>3
<1> QED
  BY <1>1, <1>3, <1>4, <1>5

(* Products grow with their first factor. *)
LEMMA ProductGrows ==
  ASSUME NEW d \in Nat, NEW i \in Nat, NEW n \in Nat, i <= n
  PROVE  i * d \in Nat /\ n * d \in Nat /\ i * d <= n * d
<1>1. PICK k \in Nat : n = i + k
  OBVIOUS
<1>2. n * d = i * d + k * d /\ i * d \in Nat /\ k * d \in Nat
  BY <1>1
<1> QED
  BY <1>2

(* The bytes of entry i, k from 1 on, are those whose number divided by the   *)
(* size of an entry is i - 1.                                                 *)
LEMMA ByteOfEntry ==
  ASSUME NEW e \in Nat \ {0}, NEW n \in Nat, NEW i \in 1 .. n, NEW k \in 1 .. e
  PROVE  /\ (i - 1) * e + k \in 1 .. n * e
         /\ ((i - 1) * e + k - 1) \div e + 1 = i
<1>1. PICK j \in Nat, r \in Nat : j = i - 1 /\ r = k - 1 /\ r < e
  OBVIOUS
<1>2. (j * e + r) \div e = j
  BY <1>1, QuotientIs, Zenon
<1>3. (j + 1) * e \in Nat /\ (j + 1) * e <= n * e /\ n * e \in Nat
  BY <1>1, ProductGrows
<1>4. (j + 1) * e = j * e + e /\ j * e \in Nat
  BY <1>1
<1>5. (i - 1) * e + k - 1 = j * e + r /\ (i - 1) * e + k = j * e + r + 1
  BY <1>1, <1>4
<1> QED
  BY <1>1, <1>2, <1>3, <1>4, <1>5

--------------------------------------------------------------------------------
(* mem_allocator_len is enough for the entries, and no more than a capacity   *)
(* whose fam_len holds them.                                                  *)
LEMMA NeedIs ==
  ASSUME layout \in Layouts, NEW n \in Nat
  PROVE  \E m \in Nat :
           /\ MemAllocatorLen(n) = m + 1
           /\ m * HeaderSize \in Nat /\ n * EntrySize <= m * HeaderSize
           /\ \A c \in Nat : 0 < c /\ n <= FamLen(c) => m + 1 <= c
<1>1. PICK h \in Nat \ {0}, e \in Nat \ {0} : h = HeaderSize /\ e = EntrySize
  BY FamAssumption, Zenon DEF HeaderSize, EntrySize
<1>2. PICK x \in Nat : x = n * e
  BY <1>1
<1>3. PICK y \in Nat : y = h + x + h - 1
  BY <1>1, <1>2
<1>4. PICK q \in Nat, z \in Nat : q = y \div h /\ y = h * q + z /\ z < h
  BY <1>1, <1>3
<1>5. q # 0
  BY <1>3, <1>4
<1>6. PICK m \in Nat : q = m + 1
  BY <1>4, <1>5
<1>7. h * q = m * h + h /\ m * h \in Nat
  BY <1>4, <1>6
<1>8. x <= m * h
  BY <1>3, <1>4, <1>7
<1>9. MemAllocatorLen(n) = m + 1
  BY <1>1, <1>2, <1>3, <1>4, <1>6, Zenon DEF MemAllocatorLen
<1>10. ASSUME NEW c \in Nat, 0 < c, n <= FamLen(c)
       PROVE  m + 1 <= c
  <2>1. PICK b \in Nat : c = b + 1
    BY <1>10
  <2>2. PICK w \in Nat : w = b * h
    BY <1>1, <2>1
  <2>3. PICK p \in Nat, u \in Nat : p = w \div e /\ w = e * p + u
    BY <1>1, <2>2
  <2>4. FamLen(c) = p
    BY <1>1, <2>1, <2>2, <2>3 DEF FamLen
  <2>5. x <= w
    <3>1. n * e <= p * e /\ p * e = e * p /\ p * e \in Nat
      BY <1>1, <1>10, <2>3, <2>4, ProductGrows, SMTT(30)
    <3> QED
      BY <1>2, <2>3, <3>1, SMTT(30)
  <2>6. SUFFICES ASSUME b < m
                 PROVE  FALSE
    BY <2>1
  <2>7. PICK k \in Nat : m = b + 1 + k
    BY <2>6
  <2>8. m * h = b * h + h + k * h /\ k * h \in Nat
    BY <2>7
  <2> QED
    BY <1>3, <1>4, <1>7, <2>2, <2>5, <2>8
<1> QED
  BY <1>1, <1>2, <1>7, <1>8, <1>9, <1>10, Zenon

(* A function on 1 .. n is a list of n. *)
LEMMA ListOf ==
  ASSUME NEW S, NEW n \in Nat, NEW f \in [1 .. n -> S]
  PROVE  f \in Seq(S) /\ Len(f) = n /\ DOMAIN f = 1 .. n
OBVIOUS

(* What Append does to such a list. *)
LEMMA AppendIs ==
  ASSUME NEW S, NEW n \in Nat, NEW f \in [1 .. n -> S], NEW x \in S
  PROVE  /\ Append(f, x) \in [1 .. n + 1 -> S] /\ Append(f, x)[n + 1] = x
         /\ \A i \in 1 .. n : Append(f, x)[i] = f[i]
<1>1. f \in Seq(S) /\ Len(f) = n
  BY ListOf, Zenon
<1>2. Append(f, x) \in Seq(S) /\ Len(Append(f, x)) = n + 1
  BY <1>1
<1>3. PICK g : g = Append(f, x)
  BY Zenon
<1>4. g \in Seq(S) /\ Len(g) = n + 1
  BY <1>2, <1>3, Zenon
<1>5. g \in [1 .. n + 1 -> S]
  BY ONLY <1>4, n \in Nat
<1>6. Append(f, x)[n + 1] = x /\ \A i \in 1 .. n : Append(f, x)[i] = f[i]
  BY <1>1
<1> QED
  BY <1>3, <1>5, <1>6, Zenon

(* The memory holds the entries of s. *)
Written(n, mem, s) ==
  \A i \in 1 .. n : \A k \in 1 .. EntrySize : mem[(i - 1) * EntrySize + k] = s[i]

(* n entries of s in the memory of m structs that follow the header. *)
InStructs(n, mem, cap, m) ==
  /\ m * HeaderSize \in Nat
  /\ mem \in [1 .. m * HeaderSize -> FamEntries]
  /\ m + 1 <= cap
  /\ n * EntrySize <= m * HeaderSize

FamHolds(n, mem, cap, s) ==
  /\ n \in 0 .. MaxLen
  /\ s \in [1 .. n -> FamEntries]
  /\ cap \in Nat
  /\ \E m \in Nat : InStructs(n, mem, cap, m)
  /\ Written(n, mem, s)

(* new is mem, z bytes long, with es stored from the entry from to the last. *)
StoredAs(new, mem, z, from, last, es) ==
  /\ new \in [1 .. z -> FamEntries]
  /\ \A i \in 1 .. last : \A k \in 1 .. EntrySize :
       new[(i - 1) * EntrySize + k] =
         IF i >= from THEN es[i - from + 1] ELSE mem[(i - 1) * EntrySize + k]

(* Writing entries changes their bytes and no others. *)
LEMMA StoredIs ==
  ASSUME layout \in Layouts, NEW z \in Nat, NEW mem \in [1 .. z -> FamEntries],
         NEW from \in Nat \ {0}, NEW l \in Nat, NEW es \in [1 .. l -> FamEntries],
         NEW last \in Nat, last = from + l - 1, last * EntrySize <= z
  PROVE  StoredAs(Stored(mem, from, es), mem, z, from, last, es)
<1>1. PICK e \in Nat \ {0} : e = EntrySize
  BY FamAssumption, Zenon DEF EntrySize
<1>2. Len(es) = l /\ DOMAIN mem = 1 .. z
  BY ListOf, Zenon
<1> DEFINE Place(b) == (b - 1) \div e + 1
<1>3. Stored(mem, from, es) = [b \in 1 .. z |-> IF Place(b) \in from .. last
                                                THEN es[Place(b) - from + 1] ELSE mem[b]]
  BY <1>1, <1>2, Zenon DEF Stored
<1>4. ASSUME NEW b \in 1 .. z
      PROVE  Place(b) \in Nat
  BY <1>1
<1>5. Stored(mem, from, es) \in [1 .. z -> FamEntries]
  <2> HIDE DEF Place
  <2>1. ASSUME NEW b \in 1 .. z, Place(b) \in from .. last
        PROVE  es[Place(b) - from + 1] \in FamEntries
    <3>1. Place(b) - from + 1 \in 1 .. l
      BY <1>4, <2>1, SMTT(30)
    <3> QED
      BY <3>1, Zenon
  <2> QED
    BY <1>3, <2>1, Zenon
<1>6. ASSUME NEW i \in 1 .. last, NEW k \in 1 .. e
      PROVE  Stored(mem, from, es)[(i - 1) * e + k] =
               IF i >= from THEN es[i - from + 1] ELSE mem[(i - 1) * e + k]
  <2>1. PICK b : b = (i - 1) * e + k
    BY Zenon
  <2>2. b \in 1 .. last * e /\ Place(b) = i
    BY <1>1, <2>1, ByteOfEntry, SMTT(30)
  <2>3. last * e \in Nat /\ last * e <= z
    BY <1>1, ProductGrows
  <2>4. b \in 1 .. z
    BY <2>2, <2>3
  <2> HIDE DEF Place
  <2> QED
    BY <1>3, <1>6, <2>1, <2>2, <2>4
<1> QED
  BY <1>1, <1>5, <1>6, Zenon DEF StoredAs

(* as_slice reads the entries that were written. *)
LEMMA HoldsExact ==
  ASSUME layout \in Layouts, FamHolds(famLen, bytes, memCap, list)
  PROVE  FamExact /\ AsSlice = list /\ MemLen <= memCap
<1>1. PICK h \in Nat \ {0}, e \in Nat \ {0} : h = HeaderSize /\ e = EntrySize
  BY FamAssumption, Zenon DEF HeaderSize, EntrySize
<1>2. PICK m \in Nat : InStructs(famLen, bytes, memCap, m)
  BY Zenon DEF FamHolds
<1>3. famLen \in Nat /\ list \in [1 .. famLen -> FamEntries] /\ Written(famLen, bytes, list)
  BY FamAssumption DEF FamHolds
<1>4. PICK z \in Nat : z = m * h /\ bytes \in [1 .. z -> FamEntries] /\ m + 1 <= memCap /\ famLen * e <= z
  BY <1>1, <1>2, Zenon DEF InStructs
<1>5. Len(bytes) = z
  BY <1>4, ListOf, Zenon
<1>6. z \div h = m
  <2>1. (m * h + 0) \div h = m
    BY QuotientIs
  <2> QED
    BY <1>4, <2>1
<1>7. MemLen <= memCap
  BY <1>1, <1>4, <1>5, <1>6 DEF MemLen
<1>8. ASSUME NEW i \in 1 .. famLen
      PROVE  EntryAt(bytes, i) = list[i]
  <2>1. i * e <= z
    BY <1>3, <1>4, ProductGrows
  <2>2. \A k \in 1 .. e : bytes[(i - 1) * e + k] = list[i]
    BY <1>1, <1>3, Zenon DEF Written
  <2>3. 1 \in 1 .. e
    OBVIOUS
  <2> QED
    BY <1>1, <1>5, <2>1, <2>2, <2>3, Zenon DEF EntryAt
<1>9. AsSlice = list
  BY <1>3, <1>8, Zenon DEF AsSlice
<1> QED
  BY <1>1, <1>4, <1>5, <1>7, <1>9, Zenon DEF FamExact

(* A Vec of the structs that es needs, with es stored from its start. *)
LEMMA FreshHolds ==
  ASSUME layout \in Layouts, NEW n \in 0 .. MaxLen, NEW es \in [1 .. n -> FamEntries],
         FreshVec(es)
  PROVE  famLen' = n /\ FamHolds(famLen', bytes', memCap', es)
<1>1. n \in Nat /\ Len(es) = n
  BY FamAssumption, ListOf
<1>2. PICK m \in Nat : /\ MemAllocatorLen(n) = m + 1
                       /\ m * HeaderSize \in Nat /\ n * EntrySize <= m * HeaderSize
  BY <1>1, NeedIs, Zenon
<1>3. PICK z \in Nat : z = m * HeaderSize
  BY <1>2, Zenon
<1>4. /\ famLen' = n
      /\ bytes' = Stored(Zeroed(z), 1, es)
      /\ memCap' \in m + 1 .. m + 1 + Slack
  BY <1>1, <1>2, <1>3 DEF FreshVec
<1>5. Zeroed(z) \in [1 .. z -> FamEntries]
  BY FamAssumption, Zenon DEF Zeroed
<1>6. n = 1 + n - 1 /\ n * EntrySize <= z
  BY <1>1, <1>2, <1>3
<1>7. /\ bytes' \in [1 .. z -> FamEntries]
      /\ \A i \in 1 .. n : \A k \in 1 .. EntrySize :
           bytes'[(i - 1) * EntrySize + k] = IF i >= 1 THEN es[i - 1 + 1] ELSE Zeroed(z)[(i - 1) * EntrySize + k]
  <2>1. 1 \in Nat \ {0}
    OBVIOUS
  <2>2. StoredAs(bytes', Zeroed(z), z, 1, n, es)
    BY <1>1, <1>4, <1>5, <1>6, <2>1, StoredIs, Zenon
  <2> QED
    BY <2>2, Zenon DEF StoredAs
<1>8. \A i \in 1 .. n : i >= 1 /\ i - 1 + 1 = i
  BY <1>1
<1>9. Written(n, bytes', es)
  BY <1>7, <1>8, Zenon DEF Written
<1>10. memCap' \in Nat /\ m + 1 <= memCap'
  BY <1>4, FamAssumption
<1>11. InStructs(n, bytes', memCap', m)
  BY <1>2, <1>3, <1>7, <1>10, Zenon DEF InStructs
<1> QED
  BY <1>4, <1>9, <1>10, <1>11, Zenon DEF FamHolds

(* resize_with keeps what fits and adds zeroed structs. *)
LEMMA ResizedIs ==
  ASSUME NEW z \in Nat, NEW mem \in [1 .. z -> FamEntries], NEW n \in Nat, NEW m \in Nat,
         MemAllocatorLen(n) = m + 1, m * HeaderSize \in Nat
  PROVE  /\ Resized(mem, n) \in [1 .. m * HeaderSize -> FamEntries]
         /\ \A b \in 1 .. m * HeaderSize : b <= z => Resized(mem, n)[b] = mem[b]
<1>1. PICK y \in Nat : y = m * HeaderSize
  BY Zenon
<1>2. Len(mem) = z
  BY ListOf, Zenon
<1>3. Resized(mem, n) = [b \in 1 .. y |-> IF b <= z THEN mem[b] ELSE 0]
  BY <1>1, <1>2 DEF Resized
<1>4. \A b \in 1 .. y : b <= z => mem[b] \in FamEntries
  OBVIOUS
<1> QED
  BY <1>1, <1>3, <1>4, FamAssumption, Zenon

(* The capacity after set_len is enough for the structs of the new length. *)
LEMMA CapacityIs ==
  ASSUME layout \in Layouts, famLen \in Nat, memCap \in Nat, 0 < memCap,
         NEW n \in Nat, n # famLen, NEW c \in NewCapacity(n)
  PROVE  c \in Nat /\ MemAllocatorLen(n) <= c
<1>1. PICK m \in Nat : /\ MemAllocatorLen(n) = m + 1
                       /\ \A d \in Nat : 0 < d /\ n <= FamLen(d) => m + 1 <= d
  BY NeedIs, Zenon
<1>2. CASE n > famLen /\ n <= FamLen(memCap)
  <2>1. c = memCap
    BY <1>2, Zenon DEF NewCapacity
  <2> QED
    BY <1>1, <1>2, <2>1, Zenon
<1>3. CASE n > famLen /\ ~(n <= FamLen(memCap))
  <2>1. c \in m + 1 .. m + 1 + Slack
    BY <1>1, <1>3, Zenon DEF NewCapacity
  <2> QED
    BY <1>1, <2>1, FamAssumption
<1>4. CASE ~(n > famLen)
  <2>1. c \in m + 1 .. m + 1 + Slack
    BY <1>1, <1>4, Zenon DEF NewCapacity
  <2> QED
    BY <1>1, <2>1, FamAssumption
<1> QED
  BY <1>2, <1>3, <1>4, Zenon

--------------------------------------------------------------------------------
FamInv ==
  /\ layout \in Layouts
  /\ FamHolds(famLen, bytes, memCap, list)

(* What the invariant says, with names for the sizes. *)
LEMMA FamFacts ==
  ASSUME FamInv
  PROVE  /\ layout \in Layouts
         /\ famLen \in 0 .. MaxLen /\ famLen \in Nat
         /\ list \in [1 .. famLen -> FamEntries]
         /\ memCap \in Nat /\ 0 < memCap
         /\ Written(famLen, bytes, list)
         /\ AsSlice = list
         /\ \E m \in Nat : InStructs(famLen, bytes, memCap, m)
<1>1. PICK m \in Nat : InStructs(famLen, bytes, memCap, m)
  BY Zenon DEF FamInv, FamHolds
<1>2. memCap \in Nat /\ m + 1 <= memCap
  BY <1>1, Zenon DEF FamInv, FamHolds, InStructs
<1>3. AsSlice = list
  BY HoldsExact, Zenon DEF FamInv
<1> QED
  BY <1>1, <1>2, <1>3, FamAssumption DEF FamInv, FamHolds

(* push writes behind the entries that are there. *)
LEMMA PushHolds ==
  ASSUME FamInv, NEW x \in FamEntries, Push(x)
  PROVE  FamHolds(famLen', bytes', memCap', list')
<1>1. PICK n \in Nat : n = famLen + 1
  BY FamFacts
<1>2. /\ n <= MaxLen /\ famLen' = n
      /\ bytes' = Stored(Resized(bytes, n), n, <<x>>)
      /\ memCap' \in NewCapacity(n)
      /\ list' = Append(list, x)
  BY <1>1, Zenon DEF Push
<1>3. PICK m \in Nat : /\ MemAllocatorLen(n) = m + 1
                       /\ m * HeaderSize \in Nat /\ n * EntrySize <= m * HeaderSize
  BY FamFacts, NeedIs, Zenon
<1>4. PICK y \in Nat : y = m * HeaderSize
  BY <1>3, Zenon
<1>5. PICK z \in Nat : bytes \in [1 .. z -> FamEntries] /\ famLen * EntrySize <= z
  BY FamFacts, Zenon DEF InStructs
<1>6. PICK r \in [1 .. y -> FamEntries] : r = Resized(bytes, n) /\ \A b \in 1 .. y : b <= z => r[b] = bytes[b]
  BY <1>3, <1>4, <1>5, ResizedIs
<1>7. <<x>> \in [1 .. 1 -> FamEntries] /\ <<x>>[1] = x
  OBVIOUS
<1>8. n \in Nat \ {0} /\ n = n + 1 - 1 /\ n * EntrySize <= y /\ layout \in Layouts
  BY <1>1, <1>3, <1>4, FamFacts
<1>9. /\ bytes' \in [1 .. y -> FamEntries]
      /\ \A i \in 1 .. n : \A k \in 1 .. EntrySize :
           bytes'[(i - 1) * EntrySize + k] = IF i >= n THEN <<x>>[i - n + 1] ELSE r[(i - 1) * EntrySize + k]
  <2>1. 1 \in Nat
    BY Zenon
  <2>2. StoredAs(bytes', r, y, n, n, <<x>>)
    BY <1>2, <1>6, <1>7, <1>8, <2>1, StoredIs, Zenon
  <2> QED
    BY <2>2, Zenon DEF StoredAs
<1>10. /\ list' \in [1 .. n -> FamEntries] /\ list'[n] = x
       /\ \A i \in 1 .. famLen : list'[i] = list[i]
  <2>1. famLen \in Nat /\ list \in [1 .. famLen -> FamEntries]
    BY FamFacts, Zenon
  <2>2. PICK l, f : l \in Nat /\ l = famLen /\ f = list /\ f \in [1 .. l -> FamEntries]
    BY <2>1, Zenon
  <2>3. Append(f, x) \in [1 .. l + 1 -> FamEntries]
    BY <2>2, AppendIs, Zenon
  <2>4. Append(f, x)[l + 1] = x
    BY <2>2, AppendIs
  <2>5. \A i \in 1 .. l : Append(f, x)[i] = f[i]
    BY <2>2, AppendIs
  <2> QED
    BY <1>1, <1>2, <2>2, <2>3, <2>4, <2>5, Zenon
<1>11. ASSUME NEW i \in 1 .. n, NEW k \in 1 .. EntrySize
       PROVE  bytes'[(i - 1) * EntrySize + k] = list'[i]
  <2>1. CASE i = n
    <3>1. i >= n /\ i - n + 1 = 1
      BY <2>1
    <3> QED
      BY <1>7, <1>9, <1>10, <2>1, <3>1, Zenon
  <2>2. CASE i # n
    <3>1. i \in 1 .. famLen /\ ~(i >= n)
      BY <1>1, <2>2, FamFacts
    <3>2. PICK e \in Nat \ {0} : e = EntrySize
      BY FamAssumption, FamFacts, Zenon DEF EntrySize
    <3>3. PICK b : b = (i - 1) * e + k
      BY Zenon
    <3>4. b \in 1 .. famLen * e /\ b \in 1 .. n * e
      BY <1>1, <3>1, <3>2, <3>3, FamFacts, ByteOfEntry, Zenon
    <3>5. famLen * e \in Nat /\ n * e \in Nat
      BY <1>1, <3>2, FamFacts, ProductGrows
    <3>6. b \in 1 .. y /\ b <= z
      BY <1>5, <1>8, <3>2, <3>4, <3>5
    <3>7. bytes'[b] = r[b]
      BY <1>9, <3>1, <3>2, <3>3, Zenon
    <3>8. bytes[b] = list[i]
      BY <3>1, <3>2, <3>3, FamFacts, Zenon DEF Written
    <3> QED
      BY <1>6, <1>10, <3>1, <3>2, <3>3, <3>6, <3>7, <3>8, Zenon
  <2> QED
    BY <2>1, <2>2, Zenon
<1>12. memCap' \in Nat /\ m + 1 <= memCap'
  BY <1>1, <1>2, <1>3, FamFacts, CapacityIs, SMTT(30)
<1>13. InStructs(n, bytes', memCap', m)
  BY <1>3, <1>4, <1>9, <1>12, Zenon DEF InStructs
<1>14. n \in 0 .. MaxLen
  BY <1>2, FamAssumption
<1> QED
  BY <1>2, <1>10, <1>11, <1>12, <1>13, <1>14, Zenon DEF FamHolds, Written

(* Entries stored from the start, no more than there were, in memory that is  *)
(* as long as before.                                                         *)
LEMMA OverwrittenHolds ==
  ASSUME FamInv, NEW n \in 0 .. famLen, NEW es \in [1 .. n -> FamEntries]
  PROVE  FamHolds(n, Stored(bytes, 1, es), memCap, es)
<1>1. n \in Nat /\ n <= famLen /\ n \in 0 .. MaxLen
  BY FamFacts, FamAssumption
<1>2. PICK m \in Nat : InStructs(famLen, bytes, memCap, m)
  BY FamFacts, Zenon
<1>3. PICK z \in Nat : z = m * HeaderSize /\ bytes \in [1 .. z -> FamEntries] /\ famLen * EntrySize <= z
  BY <1>2, Zenon DEF InStructs
<1>4. n * EntrySize <= z
  <2>1. PICK e \in Nat : e = EntrySize
    BY FamAssumption, FamFacts, Zenon DEF EntrySize
  <2>2. n * e \in Nat /\ famLen * e \in Nat /\ n * e <= famLen * e
    BY <1>1, <2>1, FamFacts, ProductGrows, Zenon
  <2> QED
    BY <1>3, <2>1, <2>2
<1>5. PICK new : new = Stored(bytes, 1, es)
  BY Zenon
<1>6. StoredAs(new, bytes, z, 1, n, es)
  <2>1. 1 \in Nat \ {0} /\ n = 1 + n - 1 /\ layout \in Layouts
    BY <1>1, FamFacts
  <2> QED
    BY <1>1, <1>3, <1>4, <1>5, <2>1, StoredIs, Zenon
<1>7. \A i \in 1 .. n : i >= 1 /\ i - 1 + 1 = i
  BY <1>1
<1>8. new \in [1 .. z -> FamEntries] /\ Written(n, new, es)
  BY <1>6, <1>7, Zenon DEF StoredAs, Written
<1>9. InStructs(n, new, memCap, m)
  BY <1>2, <1>3, <1>4, <1>8, Zenon DEF InStructs
<1> QED
  BY <1>1, <1>5, <1>8, <1>9, FamFacts, Zenon DEF FamHolds

(* retain keeps what its user expects, and gives memory back. *)
LEMMA RetainHolds ==
  ASSUME FamInv, NEW kept \in SUBSET FamEntries, Retain(kept)
  PROVE  FamHolds(famLen', bytes', memCap', list')
<1>1. PICK n \in 0 .. MaxLen : list' \in [1 .. n -> FamEntries] /\ Remaining(list', list, kept)
  BY Zenon DEF Retain, FamLists
<1>2. n \in Nat /\ list' \in Seq(FamEntries) /\ Len(list') = n
  BY <1>1, FamAssumption, ListOf
<1>3. list \in Seq(FamEntries) /\ Len(list) = famLen
  BY FamFacts, ListOf, Zenon
<1>4. PICK es \in [1 .. n -> FamEntries] : es = list' /\ KeptEntries(AsSlice, kept) = es /\ n <= famLen
  BY <1>1, <1>2, <1>3, FamFacts, KeptInOrder, Zenon
<1>5. PICK moved : moved = Stored(bytes, 1, es)
  BY Zenon
<1>6. /\ bytes' = (IF n = famLen THEN moved ELSE Resized(moved, n))
      /\ famLen' = n
      /\ memCap' \in NewCapacity(n)
  BY <1>2, <1>4, <1>5, Zenon DEF Retain
<1>7. FamHolds(n, moved, memCap, es)
  BY <1>2, <1>4, <1>5, FamFacts, OverwrittenHolds
<1>8. CASE n = famLen
  <2>1. memCap' = memCap
    BY <1>6, <1>8 DEF NewCapacity
  <2> QED
    BY <1>4, <1>6, <1>7, <1>8, <2>1, Zenon
<1>9. CASE n # famLen
  <2>1. PICK m \in Nat : /\ MemAllocatorLen(n) = m + 1
                         /\ m * HeaderSize \in Nat /\ n * EntrySize <= m * HeaderSize
    BY <1>2, FamFacts, NeedIs, Zenon
  <2>2. PICK y \in Nat : y = m * HeaderSize
    BY <2>1, Zenon
  <2>3. PICK o \in Nat : InStructs(n, moved, memCap, o)
    BY <1>7, Zenon DEF FamHolds
  <2>4. PICK z \in Nat : moved \in [1 .. z -> FamEntries] /\ n * EntrySize <= z
    BY <2>3, Zenon DEF InStructs
  <2>5. PICK r \in [1 .. y -> FamEntries] : r = bytes' /\ \A b \in 1 .. y : b <= z => r[b] = moved[b]
    BY <1>2, <1>6, <1>9, <2>1, <2>2, <2>4, ResizedIs, SMTT(30)
  <2>6. ASSUME NEW i \in 1 .. n, NEW k \in 1 .. EntrySize
        PROVE  r[(i - 1) * EntrySize + k] = es[i]
    <3>1. PICK e \in Nat \ {0} : e = EntrySize
      BY FamAssumption, FamFacts, Zenon DEF EntrySize
    <3>2. PICK b : b = (i - 1) * e + k
      BY Zenon
    <3>3. b \in 1 .. n * e /\ n * e \in Nat
      BY <1>2, <3>1, <3>2, ByteOfEntry, ProductGrows, SMTT(30)
    <3>4. b \in 1 .. y /\ b <= z
      BY <2>1, <2>2, <2>4, <3>1, <3>3
    <3>5. moved[b] = es[i]
      BY <1>7, <3>1, <3>2, Zenon DEF FamHolds, Written
    <3> QED
      BY <2>5, <3>1, <3>2, <3>4, <3>5, Zenon
  <2>7. memCap' \in Nat /\ m + 1 <= memCap'
    BY <1>2, <1>6, <1>9, <2>1, FamFacts, CapacityIs, Zenon
  <2>8. InStructs(n, r, memCap', m)
    BY <2>1, <2>2, <2>5, <2>7, Zenon DEF InStructs
  <2>9. Written(n, r, es)
    BY <2>6, Zenon DEF Written
  <2> QED
    BY <1>4, <1>6, <2>5, <2>7, <2>8, <2>9, Zenon DEF FamHolds
<1> QED
  BY <1>8, <1>9, Zenon

(* A wrapper that an ioctl refused still has the memory of its Vec. *)
FamSafe ==
  /\ layout \in Layouts /\ refused \in BOOLEAN
  /\ refused => MemLen <= memCap
  /\ ~refused => FamInv

(* Every call on a FamStructWrapper keeps the structure whole. *)
LEMMA FamStep == FamSafe /\ [FamNext]_famVars => FamSafe'
<1> SUFFICES ASSUME FamSafe, [FamNext]_famVars
             PROVE  FamSafe'
  BY Zenon
<1>1. ASSUME layout' = layout, refused' = FALSE, FamHolds(famLen', bytes', memCap', list')
      PROVE  FamSafe'
  BY <1>1, Zenon DEF FamSafe, FamInv, FamHolds, InStructs, Written, HeaderSize, EntrySize
<1>2. layout \in Layouts
  BY Zenon DEF FamSafe
<1>3. ASSUME NEW n \in 0 .. MaxLen, New(n)
      PROVE  FamSafe'
  <2>1. Zeroed(n) \in [1 .. n -> FamEntries]
    BY FamAssumption, Zenon DEF Zeroed
  <2> QED
    BY <1>1, <1>2, <1>3, <2>1, FreshHolds, Zenon DEF New
<1>4. ASSUME NEW es \in FamLists, FromEntries(es)
      PROVE  FamSafe'
  <2>1. PICK n \in 0 .. MaxLen : es \in [1 .. n -> FamEntries]
    BY Zenon DEF FamLists
  <2> QED
    BY <1>1, <1>2, <1>4, <2>1, FreshHolds, Zenon DEF FromEntries
<1>5. ASSUME NEW es \in FamLists, KernelFill(es)
      PROVE  FamSafe'
  <2>1. PICK n \in 0 .. MaxLen : es \in [1 .. n -> FamEntries]
    BY Zenon DEF FamLists
  <2> FamInv /\ refused' = FALSE
    BY <1>5, Zenon DEF KernelFill, FamSafe
  <2>2. Len(es) = n /\ n \in 0 .. famLen
    BY <1>5, <2>1, FamAssumption, FamFacts, ListOf DEF KernelFill
  <2>3. FamHolds(n, Stored(bytes, 1, es), memCap, es)
    BY <2>1, <2>2, OverwrittenHolds, Zenon
  <2> QED
    BY <1>1, <1>5, <2>2, <2>3, Zenon DEF KernelFill
<1>6. ASSUME Clone
      PROVE  FamSafe'
  <2>1. FamInv /\ refused' = FALSE
    BY <1>6, Zenon DEF Clone, FamSafe
  <2> QED
    BY <1>1, <1>2, <1>6, <2>1, FamFacts, FreshHolds, Zenon DEF Clone
<1>7. ASSUME NEW x \in FamEntries, Push(x)
      PROVE  FamSafe'
  <2>1. FamInv /\ refused' = FALSE
    BY <1>7, Zenon DEF Push, FamSafe
  <2> QED
    BY <1>1, <1>7, <2>1, PushHolds, Zenon DEF Push
<1>8. ASSUME NEW kept \in SUBSET FamEntries, Retain(kept)
      PROVE  FamSafe'
  <2>1. FamInv /\ refused' = FALSE /\ layout' = layout
    BY <1>8, Zenon DEF Retain, FamSafe
  <2> QED
    BY <1>1, <1>8, <2>1, RetainHolds, Zenon
<1>9. ASSUME NEW n \in 0 .. MaxLen + 1, KernelRefuses(n)
      PROVE  FamSafe'
  <2>1. FamInv /\ refused' = TRUE /\ layout' = layout /\ bytes' = bytes /\ memCap' = memCap
    BY <1>9, Zenon DEF KernelRefuses, FamSafe
  <2>2. MemLen <= memCap
    BY <2>1, HoldsExact, Zenon DEF FamInv
  <2> QED
    BY <1>2, <2>1, <2>2, Zenon DEF FamSafe, MemLen, HeaderSize
<1>10. CASE UNCHANGED famVars
  <2>1. CASE refused
    BY <1>10, <2>1, Zenon DEF famVars, FamSafe, MemLen, HeaderSize
  <2>2. CASE ~refused
    <3>1. refused' = FALSE /\ FamHolds(famLen', bytes', memCap', list') /\ layout' = layout
      BY <1>10, <2>2, Zenon DEF famVars, FamSafe, FamInv
    <3> QED
      BY <1>1, <3>1, Zenon
  <2> QED
    BY <2>1, <2>2, Zenon
<1> QED
  BY <1>3, <1>4, <1>5, <1>6, <1>7, <1>8, <1>9, <1>10, Zenon DEF FamNext

(* For every pair of sizes, every limit and whatever the allocator adds: the  *)
(* wrapper holds the list its user has in mind, inside what it allocated,     *)
(* after any sequence of new, from_entries, push, retain, clone and ioctls    *)
(* that fill it; and one that an ioctl refused, with the length it wants in   *)
(* the header, has its memory until it is made anew.                          *)
THEOREM FamExactHolds == FamSpec => []FamExact
<1>1. FamInit => FamSafe
  <2> SUFFICES ASSUME FamInit
               PROVE  FamSafe
    BY Zenon
  <2>1. /\ layout \in Layouts /\ famLen = 0 /\ bytes = <<>> /\ memCap = 1 /\ list = <<>> /\ refused = FALSE
    BY Zenon DEF FamInit
  <2>2. HeaderSize \in Nat /\ EntrySize \in Nat /\ 0 \in 0 .. MaxLen
    BY <2>1, FamAssumption DEF HeaderSize, EntrySize
  <2>3. 0 * HeaderSize = 0 /\ 0 * EntrySize = 0
    BY <2>2
  <2>4. <<>> \in [1 .. 0 -> FamEntries]
    OBVIOUS
  <2>5. InStructs(0, bytes, 1, 0)
    BY <2>1, <2>3, <2>4 DEF InStructs
  <2>6. FamInv
    BY <2>1, <2>2, <2>4, <2>5 DEF FamInv, FamHolds, Written
  <2> QED
    BY <2>1, <2>6, Zenon DEF FamSafe
<1>2. FamSafe => FamExact
  BY HoldsExact, Zenon DEF FamSafe, FamInv, FamExact
<1> QED
  BY <1>1, <1>2, FamStep, PTL DEF FamSpec
================================================================================
