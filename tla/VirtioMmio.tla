------------------------------ MODULE VirtioMmio ------------------------------
(* The virtio device behind the MMIO transport (virtio-device/src): what each *)
(* register write of the driver does to the device status, the negotiated     *)
(* features and the configuration of the queues.                              *)
(*                                                                            *)
(* A status byte is the set of its bits and a feature word the set of its     *)
(* features.  Register reads change nothing and are left out.                 *)
EXTENDS Integers

CONSTANTS
  Page0, Page1,    \* features of the two 32-bit pages
  EventIdx,        \* VIRTIO_F_RING_EVENT_IDX, a feature of the first one
  Offered,         \* device_features
  NumQueues,
  MaxSize,         \* max_size of every queue
  Mod16,           \* number of values of a u16
  Lows, Highs,     \* low and high halves of ring addresses that drivers write
  ConfigLen, Bytes,  \* the device configuration space
  DropBits         \* whether drivers clear bits other than all of them

ASSUME FeatureAssumption ==
  /\ Page0 \intersect Page1 = {}
  /\ EventIdx \in Page0
  /\ Offered \subseteq Page0 \union Page1

ASSUME SizeAssumption ==
  /\ NumQueues \in Nat \ {0} /\ ConfigLen \in Nat
  /\ MaxSize \in Nat /\ Mod16 \in Nat /\ MaxSize < Mod16 /\ NumQueues < Mod16
  /\ \E n \in 0..15 : MaxSize = 2^n
  /\ Lows \subseteq Nat /\ 0 \in Lows /\ Highs \subseteq Nat /\ 0 \in Highs
  /\ Bytes # {} /\ DropBits \in BOOLEAN

VARIABLES
  device_status,
  driver_features,
  driver_features_select, queue_select,
  queues,
  config_space,
  interrupt_status,
  activations      \* history: successful activate() calls since the last reset

mmioVars == <<device_status, driver_features, driver_features_select, queue_select,
          queues, config_space, interrupt_status, activations>>

Bits == {"ACKNOWLEDGE", "DRIVER", "DRIVER_OK", "FEATURES_OK", "FAILED"}

Interrupts == {"vring", "config"}

Qs == 0..(NumQueues - 1)

(* Values of a 32-bit register: those that fit a u16, and the first that      *)
(* does not.                                                                  *)
Words == 0..Mod16

Rings == {"desc", "avail", "used"}

Align(ring) == IF ring = "desc" THEN 16 ELSE IF ring = "avail" THEN 2 ELSE 4

(* Queue::new and Queue::reset. *)
NewQueue == [size |-> MaxSize, ready |-> FALSE, event_idx |-> FALSE,
             addr |-> [r \in Rings |-> [high |-> 0, low |-> 0]]]

MmioInit ==
  /\ device_status = {}
  /\ driver_features = {}
  /\ driver_features_select = 0
  /\ queue_select = 0
  /\ queues = [q \in Qs |-> NewQueue]
  /\ config_space \in [0..(ConfigLen - 1) -> Bytes]
  /\ interrupt_status = {}
  /\ activations = 0

--------------------------------------------------------------------------------
(* check_device_status. *)
CheckDeviceStatus(set, cleared) == device_status \intersect (set \union cleared) = set

(* VIRTIO_MMIO_DRIVER_FEATURES_SEL. *)
WriteFeaturesSelect(page) ==
  /\ driver_features_select' = page
  /\ UNCHANGED <<device_status, driver_features, queue_select, queues,
                 config_space, interrupt_status, activations>>

(* VIRTIO_MMIO_QUEUE_SEL, as u16. *)
WriteQueueSelect(v) ==
  /\ queue_select' = v % Mod16
  /\ UNCHANGED <<device_status, driver_features, driver_features_select, queues,
                 config_space, interrupt_status, activations>>

(* set_driver_features: the page is replaced, the other one stays. *)
SetDriverFeatures(page, value) ==
  IF page = 0 THEN (driver_features \intersect Page1) \union (value \intersect Page0)
  ELSE IF page = 1 THEN (driver_features \intersect Page0) \union (value \intersect Page1)
  ELSE driver_features

(* VIRTIO_MMIO_DRIVER_FEATURES. *)
WriteDriverFeatures(value) ==
  /\ CheckDeviceStatus({"DRIVER"}, {"FEATURES_OK", "FAILED"})
  /\ driver_features' = SetDriverFeatures(driver_features_select, value)
  /\ UNCHANGED <<device_status, driver_features_select, queue_select, queues,
                 config_space, interrupt_status, activations>>

--------------------------------------------------------------------------------
(* What a write to a queue register does to the selected queue; a value that  *)
(* try_set_size or try_set_..._address refuses leaves it as it was.           *)
SetSize(q, v) ==
  IF \E n \in 0..15 : v % Mod16 = 2^n /\ 2^n <= MaxSize
  THEN [q EXCEPT !.size = v % Mod16]
  ELSE q

SetReady(q, v) == [q EXCEPT !.ready = (v = 1)]

SetLow(q, ring, low) ==
  IF low % Align(ring) = 0 THEN [q EXCEPT !.addr[ring].low = low] ELSE q

SetHigh(q, ring, high) == [q EXCEPT !.addr[ring].high = high]

(* Mutant: queues can be changed after DRIVER_OK. *)
UpdateQueueField_Late(new) ==
  /\ CheckDeviceStatus({"FEATURES_OK"}, {"FAILED"})
  /\ queue_select \in Qs
  /\ queues' = [queues EXCEPT ![queue_select] = new]
  /\ UNCHANGED <<device_status, driver_features, driver_features_select, queue_select,
                 config_space, interrupt_status, activations>>

(* update_queue_field. *)
UpdateQueueField(new) ==
  /\ CheckDeviceStatus({"FEATURES_OK"}, {"DRIVER_OK", "FAILED"})
  /\ queue_select \in Qs
  /\ queues' = [queues EXCEPT ![queue_select] = new]
  /\ UNCHANGED <<device_status, driver_features, driver_features_select, queue_select,
                 config_space, interrupt_status, activations>>

Selected == queues[queue_select]

WriteQueueNum(v) == UpdateQueueField(SetSize(Selected, v))

WriteQueueReady(v) == UpdateQueueField(SetReady(Selected, v))

WriteQueueLow(ring, low) == UpdateQueueField(SetLow(Selected, ring, low))

WriteQueueHigh(ring, high) == UpdateQueueField(SetHigh(Selected, ring, high))

--------------------------------------------------------------------------------
(* VIRTIO_MMIO_STATUS, ack_device_status: one action per arm of its match on  *)
(* the bits that status adds.  The accepted status is stored as written, so   *)
(* the bits it leaves out are gone.                                           *)
Accept(status) ==
  /\ device_status' = status
  /\ UNCHANGED <<driver_features, driver_features_select, queue_select,
                 config_space, interrupt_status>>

AckAcknowledge(status) ==
  /\ status \ device_status = {"ACKNOWLEDGE"} /\ device_status = {}
  /\ Accept(status)
  /\ UNCHANGED <<queues, activations>>

AckDriver(status) ==
  /\ status \ device_status = {"DRIVER"} /\ device_status = {"ACKNOWLEDGE"}
  /\ Accept(status)
  /\ UNCHANGED <<queues, activations>>

(* Mutant: features the device does not offer are accepted. *)
AckFeaturesOk_Any(status) ==
  /\ status \ device_status = {"FEATURES_OK"}
  /\ device_status = {"ACKNOWLEDGE", "DRIVER"}
  /\ queues' = [q \in Qs |->
                  IF EventIdx \in driver_features
                  THEN [queues[q] EXCEPT !.event_idx = TRUE]
                  ELSE queues[q]]
  /\ Accept(status)
  /\ UNCHANGED activations

AckFeaturesOk(status) ==
  /\ status \ device_status = {"FEATURES_OK"}
  /\ device_status = {"ACKNOWLEDGE", "DRIVER"}
  /\ driver_features \subseteq Offered
  /\ queues' = [q \in Qs |->
                  IF EventIdx \in driver_features
                  THEN [queues[q] EXCEPT !.event_idx = TRUE]
                  ELSE queues[q]]
  /\ Accept(status)
  /\ UNCHANGED activations

(* Mutant: a device that is already driven is activated again. *)
AckDriverOk_Again(status) ==
  /\ "DRIVER_OK" \in status
  /\ {"ACKNOWLEDGE", "DRIVER", "FEATURES_OK"} \subseteq device_status
  /\ activations' = IF activations < 2 THEN activations + 1 ELSE 2
  /\ Accept(status)
  /\ UNCHANGED queues

(* activate() is the device's own code; if it fails the status stays. *)
AckDriverOk(status) ==
  /\ status \ device_status = {"DRIVER_OK"}
  /\ device_status = {"ACKNOWLEDGE", "DRIVER", "FEATURES_OK"}
  /\ activations' = activations + 1
  /\ Accept(status)
  /\ UNCHANGED queues

(* No arm above matches the new bits. *)
OtherBits(status) ==
  /\ ~(status \ device_status = {"ACKNOWLEDGE"} /\ device_status = {})
  /\ ~(status \ device_status = {"DRIVER"} /\ device_status = {"ACKNOWLEDGE"})
  /\ ~(status \ device_status = {"FEATURES_OK"} /\ device_status = {"ACKNOWLEDGE", "DRIVER"})
  /\ ~(/\ status \ device_status = {"DRIVER_OK"}
       /\ device_status = {"ACKNOWLEDGE", "DRIVER", "FEATURES_OK"})

(* Mutant: FAILED replaces the other bits, as the accepted states do. *)
AckFailed_Replace(status) ==
  /\ OtherBits(status)
  /\ "FAILED" \in status
  /\ device_status' = status
  /\ UNCHANGED <<driver_features, driver_features_select, queue_select, queues,
                 config_space, interrupt_status, activations>>

AckFailed(status) ==
  /\ OtherBits(status)
  /\ "FAILED" \in status
  /\ device_status' = device_status \union {"FAILED"}
  /\ UNCHANGED <<driver_features, driver_features_select, queue_select, queues,
                 config_space, interrupt_status, activations>>

(* A zero asks for a reset(), again the device's own code: one that succeeds  *)
(* takes the device back to where it started, with Queue::reset for each      *)
(* queue; one that fails changes nothing.                                     *)
AckReset(status) ==
  /\ status = {}
  /\ device_status' = {}
  /\ driver_features' = {}
  /\ queues' = [q \in Qs |-> NewQueue]
  /\ interrupt_status' = {}
  /\ activations' = 0
  /\ UNCHANGED <<driver_features_select, queue_select, config_space>>

WriteStatus(status) ==
  /\ DropBits \/ status = {} \/ device_status \subseteq status
  /\ \/ AckAcknowledge(status)
     \/ AckDriver(status)
     \/ AckFeaturesOk(status)
     \/ AckDriverOk(status)
     \/ AckFailed(status)
     \/ AckReset(status)

--------------------------------------------------------------------------------
(* The device raises an interrupt: fetch_or on its handle of the status. *)
RaiseInterrupt(bit) ==
  /\ activations > 0
  /\ interrupt_status' = interrupt_status \union {bit}
  /\ UNCHANGED <<device_status, driver_features, driver_features_select, queue_select,
                 queues, config_space, activations>>

(* VIRTIO_MMIO_INTERRUPT_ACK. *)
WriteInterruptAck(v) ==
  /\ CheckDeviceStatus({"DRIVER_OK"}, {})
  /\ interrupt_status' = interrupt_status \ v
  /\ UNCHANGED <<device_status, driver_features, driver_features_select, queue_select,
                 queues, config_space, activations>>

(* A write to the configuration space; what lies behind its end is dropped. *)
WriteConfig(offset, data) ==
  /\ CheckDeviceStatus({"DRIVER"}, {"FAILED"})
  /\ offset < ConfigLen
  /\ config_space' = [i \in DOMAIN config_space |->
                        IF i - offset + 1 \in DOMAIN data THEN data[i - offset + 1]
                        ELSE config_space[i]]
  /\ UNCHANGED <<device_status, driver_features, driver_features_select, queue_select,
                 queues, interrupt_status, activations>>

MmioNext ==
  \/ \E page \in 0..2 : WriteFeaturesSelect(page)
  \/ \E v \in Words : WriteQueueSelect(v)
  \/ \E value \in SUBSET (Page0 \union Page1) : WriteDriverFeatures(value)
  \/ \E v \in Words : WriteQueueNum(v)
  \/ \E v \in 0..2 : WriteQueueReady(v)
  \/ \E ring \in Rings, low \in Lows : WriteQueueLow(ring, low)
  \/ \E ring \in Rings, high \in Highs : WriteQueueHigh(ring, high)
  \/ \E status \in SUBSET Bits : WriteStatus(status)
  \/ \E bit \in Interrupts : RaiseInterrupt(bit)
  \/ \E v \in SUBSET Interrupts : WriteInterruptAck(v)
  \/ \E offset \in 0..ConfigLen, data \in [1..2 -> Bytes] : WriteConfig(offset, data)

MmioSpec == MmioInit /\ [][MmioNext]_mmioVars

--------------------------------------------------------------------------------
Addr == [high : Highs, low : Lows]

(* The registers hold values of their types.  A queue's size is a power of    *)
(* two within its maximum and each ring of it is aligned, whatever the        *)
(* driver writes.                                                             *)
MmioTypeOK ==
  /\ device_status \subseteq Bits
  /\ driver_features \subseteq Page0 \union Page1
  /\ driver_features_select \in 0..2
  /\ queue_select \in 0..(Mod16 - 1)
  /\ queues \in [Qs -> [size : 1..MaxSize, ready : BOOLEAN, event_idx : BOOLEAN,
                        addr : [Rings -> Addr]]]
  /\ \A q \in Qs : /\ \E n \in 0..15 : queues[q].size = 2^n
                   /\ \A r \in Rings : queues[q].addr[r].low % Align(r) = 0
  /\ config_space \in [0..(ConfigLen - 1) -> Bytes]
  /\ interrupt_status \subseteq Interrupts
  /\ activations \in Nat

(* FEATURES_OK means what it says: nothing was acknowledged that was not      *)
(* offered, and every queue works with EVENT_IDX exactly if that was          *)
(* negotiated.                                                                *)
Negotiated ==
  "FEATURES_OK" \in device_status =>
    /\ driver_features \subseteq Offered
    /\ \A q \in Qs : queues[q].event_idx <=> EventIdx \in driver_features

(* Between two resets the device is activated at most once, and it has been   *)
(* exactly while DRIVER_OK is set.                                            *)
ActivatedOnce == activations = IF "DRIVER_OK" \in device_status THEN 1 ELSE 0

(* While DRIVER_OK is set no register write changes a queue: the device can   *)
(* work with the queues it was activated with.                                *)
QueuesFrozen ==
  [][ "DRIVER_OK" \in device_status /\ "DRIVER_OK" \in device_status'
        => UNCHANGED queues ]_mmioVars

(* An activated device is driven "based on the features and notification      *)
(* mechanisms established during the configuration phase": while DRIVER_OK is *)
(* set the acknowledged features do not change.                               *)
FeaturesFrozen ==
  [][ "DRIVER_OK" \in device_status /\ "DRIVER_OK" \in device_status'
        => UNCHANGED driver_features ]_mmioVars

(* A driver that gave up on the device gets nowhere but to a reset. *)
FailedIsFinal ==
  [][ "FAILED" \in device_status /\ device_status' # {}
        => /\ device_status' = device_status
           /\ UNCHANGED <<driver_features, queues, config_space>> ]_mmioVars
================================================================================
