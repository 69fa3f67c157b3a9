------------------------------ MODULE IoManager -------------------------------
(* IoManager of vm-device/src/device_manager.rs and its two buses (bus/): the *)
(* ranges devices are registered with, and the dispatch of an access.         *)
EXTENDS Integers

CONSTANTS
  Devices,
  MaxBusAddr,     \* last address of either bus
  MaxRes       \* most resources of a device

ASSUME IoAssumption ==
  MaxBusAddr \in Nat /\ MaxRes \in Nat

Buses == {"pio", "mmio"}

BusAddrs == 0..MaxBusAddr

(* Address ranges that BusRange::new accepts. *)
Ranges == {r \in [base : BusAddrs, size : 1..(MaxBusAddr + 1)] : r.base + r.size - 1 <= MaxBusAddr}

(* A resource is a range on a bus; "irq" stands for the kinds that are        *)
(* skipped.                                                                   *)
Resources == [bus : Buses, range : Ranges] \union [bus : {"irq"}]

VARIABLES
  bus,         \* the ranges on each bus and their devices
  assigned,    \* history: the resources a device was last registered with
  unique       \* history: no address has been given to two devices

ioVars == <<bus, assigned, unique>>

IoInit ==
  /\ bus = [b \in Buses |-> {}]
  /\ assigned = [d \in Devices |-> <<>>]
  /\ unique = TRUE

LastOf(r) == r.base + r.size - 1

Overlaps(r, s) == ~(r.base > LastOf(s) \/ LastOf(r) < s.base)

(* The places of the ranges for bus b in a list of resources. *)
On(b, res) == {i \in DOMAIN res : res[i].bus = b}

--------------------------------------------------------------------------------
(* Bus::device: the entry with the greatest base up to addr, if it reaches    *)
(* that far.                                                                  *)
Device(b, addr) ==
  {e \in bus[b] : /\ e.range.base <= addr
                  /\ \A f \in bus[b] : f.range.base <= addr => f.range.base <= e.range.base
                  /\ LastOf(e.range) >= addr}

(* Mutant: only the first address of the access is checked. *)
CheckAccess_First(b, addr, len) ==
  {e \in Device(b, addr) : len > 0 /\ addr + len - 1 <= MaxBusAddr}

(* Bus::check_access: the entry an access of len bytes goes to. *)
CheckAccess(b, addr, len) ==
  {e \in Device(b, addr) : /\ len > 0 /\ addr + len - 1 <= MaxBusAddr
                           /\ LastOf(e.range) >= addr + len - 1}

(* Mutant: a range is only compared with the entry at its base. *)
Refused_Base(b, res) ==
  {i \in On(b, res) :
     \/ \E e \in bus[b] : res[i].range.base = e.range.base
     \/ \E j \in On(b, res) : j < i /\ Overlaps(res[i].range, res[j].range)}

(* The ranges that overlap one that Bus::register has before.  Up to the      *)
(* first of them each range is registered, so that one is refused.            *)
Refused(b, res) ==
  {i \in On(b, res) :
     \/ \E e \in bus[b] : Overlaps(res[i].range, e.range)
     \/ \E j \in On(b, res) : j < i /\ Overlaps(res[i].range, res[j].range)}

(* The ranges Bus::register accepts before the first it refuses. *)
Accepted(b, res) == {i \in On(b, res) : \A j \in Refused(b, res) : i < j}

Entries(d, res, S) == {[range |-> res[i].range, dev |-> d] : i \in S}

(* "The VMM must first allocate unique resources (such as bus ranges)". *)
Allocated(res) ==
  \A b \in Buses : \A i \in On(b, res) :
    /\ \A j \in On(b, res) : i # j => ~Overlaps(res[i].range, res[j].range)
    /\ \A d \in Devices : \A j \in On(b, assigned[d]) :
         ~Overlaps(res[i].range, assigned[d][j].range)

(* register_resources: first the MMIO ranges, then the PIO ranges; at the     *)
(* first refusal it returns, and the ranges before it stay registered.        *)
RegisterResources(d, res) ==
  LET mmio == Accepted("mmio", res)
      pio  == IF Refused("mmio", res) = {} THEN Accepted("pio", res) ELSE {}
  IN /\ bus' = [bus EXCEPT !["mmio"] = @ \union Entries(d, res, mmio),
                           !["pio"]  = @ \union Entries(d, res, pio)]
     /\ assigned' = [assigned EXCEPT ![d] = res]
     /\ unique' = (unique /\ Allocated(res))

(* Mutant: only ranges on the MMIO bus are taken away. *)
DeregisterResources_MmioOnly(d) ==
  /\ bus' = [bus EXCEPT !["mmio"] = {e \in @ : \A i \in On("mmio", assigned[d]) :
                                       e \notin Device("mmio", assigned[d][i].range.base)}]
  /\ assigned' = [assigned EXCEPT ![d] = <<>>]
  /\ UNCHANGED unique

(* deregister_resources: for each range, the entry its base lies in.          *)
DeregisterResources(d) ==
  /\ bus' = [b \in Buses |-> {e \in bus[b] : \A i \in On(b, assigned[d]) :
                                e \notin Device(b, assigned[d][i].range.base)}]
  /\ assigned' = [assigned EXCEPT ![d] = <<>>]
  /\ UNCHANGED unique

IoNext ==
  \E d \in Devices :
    \/ /\ assigned[d] = <<>>
       /\ \E n \in 1..MaxRes : \E res \in [1..n -> Resources] :
            RegisterResources(d, res)
    \/ assigned[d] # <<>> /\ DeregisterResources(d)

IoSpec == IoInit /\ [][IoNext]_ioVars

--------------------------------------------------------------------------------
(* "A single device can be registered with multiple ranges, but no two ranges *)
(* can overlap": also after registrations that failed half-way.               *)
NoOverlap ==
  \A b \in Buses : \A e, f \in bus[b] : e # f => ~Overlaps(e.range, f.range)

(* The search for the greatest base in the BTreeMap dispatches every access   *)
(* to the device that all of its bytes belong to, and refuses one that        *)
(* leaves a range or meets none.                                              *)
DispatchExact ==
  \A b \in Buses : \A addr \in BusAddrs, len \in 0..(MaxBusAddr + 2) :
    CheckAccess(b, addr, len) =
      {e \in bus[b] : len > 0 /\ \A a \in addr..(addr + len - 1) :
                                    e.range.base <= a /\ a <= LastOf(e.range)}

(* With unique resources registration never fails and deregistration takes    *)
(* away the device's own ranges: the buses hold exactly the ranges assigned   *)
(* to the devices that are registered.                                        *)
ExactlyRegistered ==
  unique => \A b \in Buses :
    bus[b] = UNION {Entries(d, assigned[d], On(b, assigned[d])) : d \in Devices}
================================================================================
