------------------------------- MODULE Virtqueue -------------------------------
(* One split virtqueue: the device side, Queue of                             *)
(* vm-virtio/virtio-queue/src/queue.rs, behind the mutex of QueueSync, a      *)
(* driver (external: the guest), and the ring memory they share.              *)
(*                                                                            *)
(* The device side is two kinds of threads.  The poller runs the loop of the  *)
(* documentation of Queue: disable_notification, take chains until none is    *)
(* left, enable_notification, sleep until kicked.  The completers give chains *)
(* back in any order: add_used, then needs_notification.  Every call holds    *)
(* the lock; an iterator holds it for as long as it lives.                    *)
(*                                                                            *)
(* Device stores reach the shared memory late.  pend keeps, per location, the *)
(* newest store that the driver cannot see yet; Relaxed stores become visible *)
(* in any order, the Release store of the used index only after the used      *)
(* elements it publishes, and fence(SeqCst) waits for all of them.            *)
EXTENDS Integers

CONSTANTS
  MaxSize,      \* max_size of the queue, a power of two
  IdxMod,       \* number of values of a ring index: 2^16 in the code
  MaxBatch,     \* most add_used calls between two needs_notification calls
  DriverBatch,  \* most chains the driver adds between two decisions to kick
  Completers,   \* threads that complete requests
  AllowUndo,    \* whether the poller uses go_to_previous_position
  EventIdx,     \* what the driver may negotiate for VIRTIO_F_RING_EVENT_IDX
  DirtySave     \* whether a save may come between add_used and needs_notification

IsPowerOf2(n) == \E k \in 0..15 : n = 2^k

Sizes == {s \in 1..MaxSize : IsPowerOf2(s)}

Idx == 0..(IdxMod - 1)

Heads == 0..(MaxSize - 1)

None == -1

ASSUME SizeAssumption ==
  /\ MaxSize \in Nat \ {0}
  /\ MaxSize \in Sizes
  /\ IdxMod \in Nat
  /\ 2 * MaxSize <= IdxMod
  /\ \A s \in Sizes : IdxMod % s = 0

ASSUME BatchAssumption ==
  /\ MaxBatch \in Nat
  /\ MaxBatch < IdxMod
  /\ DriverBatch \in Nat
  /\ DriverBatch < IdxMod

ASSUME FlagAssumption ==
  AllowUndo \in BOOLEAN /\ DirtySave \in BOOLEAN /\ EventIdx \subseteq BOOLEAN

VARIABLES
  \* Queue
  ready, size, event_idx_enabled, next_avail, next_used, num_added,
  \* the poller: where it is, AvailIter::last_index, the chain it looks at
  dpc, last_index, got,
  \* chains handed to the completers, and who owes a needs_notification call
  inflight, dirty,
  \* stores of the device the driver cannot see yet
  pend,
  \* shared memory written by the driver
  avail_idx, avail_ring, used_event,
  \* shared memory written by the device
  used_idx, used_ring, used_flags, avail_event,
  \* eventfd towards the device, interrupt towards the driver
  kick, irq,
  \* the driver
  free, drv_added, last_used, cb,
  \* history, with EVENT_IDX: add_used calls since the last needs_notification
  since

queueVars  == <<ready, size, event_idx_enabled, next_avail, next_used, num_added>>
deviceVars == <<dpc, last_index, got, inflight, dirty>>
driverMem  == <<avail_idx, avail_ring, used_event>>
deviceMem  == <<used_idx, used_ring, used_flags, avail_event>>
driverVars == <<free, drv_added, last_used, cb>>
vars == <<queueVars, deviceVars, pend, driverMem, deviceMem, kick, irq, driverVars, since>>

--------------------------------------------------------------------------------
(* Wrapping<u16> arithmetic. *)
WAdd(a, b) == (a + b) % IdxMod

WSub(a, b) == (a - b) % IdxMod

(* Is event in the circular interval [old, new)?  needs_notification computes *)
(* it for the used ring, the driver for the available ring.                   *)
EventPassed(event, new, old) == WSub(WSub(new, event), 1) < WSub(new, old)

NoPend ==
  [used_elem |-> [s \in Heads |-> None], used_idx |-> None,
   used_flags |-> None, avail_event |-> None]

(* fence(Ordering::SeqCst) has returned: no store of the device is pending. *)
Fenced == pend = NoPend

(* The mutex of QueueSync is free: no iterator lives, and the poller is not   *)
(* inside enable_notification.                                                *)
LockFree == dpc \notin {"next", "got", "recheck"}

Init ==
  /\ ready = FALSE /\ size = MaxSize /\ event_idx_enabled = FALSE
  /\ next_avail = 0 /\ next_used = 0 /\ num_added = 0
  /\ dpc = "off" /\ last_index = 0 /\ got = None
  /\ inflight = {} /\ dirty = {}
  /\ pend = NoPend
  /\ avail_idx = 0 /\ avail_ring = [s \in Heads |-> 0] /\ used_event = 0
  /\ used_idx = 0 /\ used_ring = [s \in Heads |-> 0]
  /\ used_flags = 0 /\ avail_event = 0
  /\ kick = FALSE /\ irq = FALSE
  /\ free = Heads /\ drv_added = 0 /\ last_used = 0 /\ cb = "idle"
  /\ since = 0

--------------------------------------------------------------------------------
(* Configuration.  The driver writes the queue registers and the device is    *)
(* activated; the rings are zeroed.                                           *)
Setup(sz, ei) ==
  /\ ~ready
  /\ ready' = TRUE
  /\ size' = sz
  /\ event_idx_enabled' = ei
  /\ dpc' = IF dpc = "off" THEN "sleep" ELSE dpc
  /\ free' = 0..(sz - 1)
  /\ UNCHANGED <<next_avail, next_used, num_added, last_index, got, inflight,
                 dirty, pend, driverMem, deviceMem, kick, irq, drv_added,
                 last_used, cb, since>>

(* Queue::reset, when the poller sleeps or stands between two iterations.     *)
(* The device drops the chains it holds and the driver starts over.           *)
Reset ==
  /\ ready
  /\ dpc \in {"sleep", "iter"}
  /\ Fenced
  /\ ready' = FALSE
  /\ size' = MaxSize
  /\ event_idx_enabled' = FALSE
  /\ next_avail' = 0 /\ next_used' = 0 /\ num_added' = 0
  /\ dpc' = IF dpc = "sleep" THEN "off" ELSE dpc
  /\ inflight' = {}
  /\ avail_idx' = 0 /\ avail_ring' = [s \in Heads |-> 0] /\ used_event' = 0
  /\ used_idx' = 0 /\ used_ring' = [s \in Heads |-> 0]
  /\ used_flags' = 0 /\ avail_event' = 0
  /\ free' = Heads /\ drv_added' = 0 /\ last_used' = 0 /\ cb' = "idle"
  /\ since' = 0
  /\ UNCHANGED <<last_index, got, dirty, pend, kick, irq>>

(* Queue::state, then Queue::try_from of the saved state: QueueState has no   *)
(* num_added.                                                                 *)
SaveRestore ==
  /\ ready
  /\ dpc = "sleep"
  /\ Fenced
  /\ DirtySave \/ dirty = {}
  /\ num_added' = 0
  /\ UNCHANGED <<ready, size, event_idx_enabled, next_avail, next_used,
                 deviceVars, pend, driverMem, deviceMem, kick, irq, driverVars,
                 since>>

--------------------------------------------------------------------------------
(* The poller. *)

(* set_notification(false): nothing to do when EVENT_IDX is negotiated. *)
DisableNotification ==
  /\ dpc = "poll"
  /\ dpc' = "iter"
  /\ pend' = IF event_idx_enabled THEN pend ELSE [pend EXCEPT !.used_flags = 1]
  /\ UNCHANGED <<queueVars, last_index, got, inflight, dirty, driverMem,
                 deviceMem, kick, irq, driverVars, since>>

(* Mutant: a full ring is taken for a corrupt index. *)
Iter_OffByOne ==
  /\ dpc = "iter"
  /\ dpc' = IF ~ready THEN "off"
            ELSE IF WSub(avail_idx, next_avail) >= size THEN "broken"
            ELSE "next"
  /\ last_index' = IF ready THEN avail_idx ELSE 0
  /\ UNCHANGED <<queueVars, got, inflight, dirty, pend, driverMem, deviceMem,
                 kick, irq, driverVars, since>>

(* Queue::iter and AvailIter::new. *)
Iter ==
  /\ dpc = "iter"
  /\ dpc' = IF ~ready THEN "off"
            ELSE IF WSub(avail_idx, next_avail) > size THEN "broken"
            ELSE "next"
  /\ last_index' = IF ready THEN avail_idx ELSE 0
  /\ UNCHANGED <<queueVars, got, inflight, dirty, pend, driverMem, deviceMem,
                 kick, irq, driverVars, since>>

(* AvailIter::next returns None: the iterator is dropped. *)
IterEnd ==
  /\ dpc = "next"
  /\ next_avail = last_index
  /\ dpc' = "enable"
  /\ last_index' = 0
  /\ UNCHANGED <<queueVars, got, inflight, dirty, pend, driverMem,
                 deviceMem, kick, irq, driverVars, since>>

(* AvailIter::next returns a chain. *)
IterNext ==
  /\ dpc = "next"
  /\ next_avail # last_index
  /\ got' = avail_ring[next_avail % size]
  /\ next_avail' = WAdd(next_avail, 1)
  /\ dpc' = "got"
  /\ UNCHANGED <<ready, size, event_idx_enabled, next_used, num_added,
                 last_index, inflight, dirty, pend, driverMem, deviceMem, kick,
                 irq, driverVars, since>>

(* The chain goes to the completers.  The poller keeps its iterator, or drops *)
(* it as pop_descriptor_chain does.                                           *)
Dispatch(keep) ==
  /\ dpc = "got"
  /\ inflight' = inflight \union {got}
  /\ got' = None
  /\ dpc' = IF keep THEN "next" ELSE "iter"
  /\ last_index' = IF keep THEN last_index ELSE 0
  /\ UNCHANGED <<queueVars, dirty, pend, driverMem, deviceMem,
                 kick, irq, driverVars, since>>

(* go_to_previous_position: the poller cannot serve the chain now.  It goes   *)
(* on with its iterator, or drops it and starts again later.                  *)
GoToPreviousPosition(keep) ==
  /\ AllowUndo
  /\ dpc = "got"
  /\ next_avail' = WSub(next_avail, 1)
  /\ got' = None
  /\ dpc' = IF keep THEN "next" ELSE "poll"
  /\ last_index' = IF keep THEN last_index ELSE 0
  /\ UNCHANGED <<ready, size, event_idx_enabled, next_used, num_added, inflight,
                 dirty, pend, driverMem, deviceMem, kick, irq, driverVars, since>>

(* enable_notification, first half: set_notification(true). *)
EnableNotification ==
  /\ dpc = "enable"
  /\ dpc' = "recheck"
  /\ pend' = IF event_idx_enabled
             THEN [pend EXCEPT !.avail_event = next_avail]
             ELSE [pend EXCEPT !.used_flags = 0]
  /\ UNCHANGED <<queueVars, last_index, got, inflight, dirty, driverMem,
                 deviceMem, kick, irq, driverVars, since>>

(* Mutants: no fence before the load; no second look at the ring at all. *)
RecheckAvail_NoFence ==
  /\ dpc = "recheck"
  /\ dpc' = IF avail_idx # next_avail THEN "poll" ELSE "sleep"
  /\ UNCHANGED <<queueVars, last_index, got, inflight, dirty, pend, driverMem,
                 deviceMem, kick, irq, driverVars, since>>

(* Mutant: the ring is not looked at again. *)
RecheckAvail_NoCheck ==
  /\ dpc = "recheck"
  /\ Fenced
  /\ dpc' = "sleep"
  /\ UNCHANGED <<queueVars, last_index, got, inflight, dirty, pend, driverMem,
                 deviceMem, kick, irq, driverVars, since>>

(* enable_notification, second half: the fence, then the load of avail_idx.   *)
(* The loop continues if there is more to do, else the poller sleeps.         *)
RecheckAvail ==
  /\ dpc = "recheck"
  /\ Fenced
  /\ dpc' = IF avail_idx # next_avail THEN "poll" ELSE "sleep"
  /\ UNCHANGED <<queueVars, last_index, got, inflight, dirty, pend, driverMem,
                 deviceMem, kick, irq, driverVars, since>>

WakeUp ==
  /\ dpc = "sleep"
  /\ kick
  /\ kick' = FALSE
  /\ dpc' = "poll"
  /\ UNCHANGED <<queueVars, last_index, got, inflight, dirty, pend, driverMem,
                 deviceMem, irq, driverVars, since>>

--------------------------------------------------------------------------------
(* The completers. *)

(* add_used writes the element, advances next_used and num_added, and stores  *)
(* the new used index with Release.                                           *)
AddUsed(t, h) ==
  /\ LockFree
  /\ h \in inflight
  /\ h < size
  /\ event_idx_enabled => num_added < MaxBatch
  /\ inflight' = inflight \ {h}
  /\ dirty' = dirty \union {t}
  /\ next_used' = WAdd(next_used, 1)
  /\ num_added' = WAdd(num_added, 1)
  /\ since' = IF event_idx_enabled THEN WAdd(since, 1) ELSE 0
  /\ pend' = [pend EXCEPT !.used_elem[next_used % size] = h,
                          !.used_idx = WAdd(next_used, 1)]
  /\ UNCHANGED <<ready, size, event_idx_enabled, next_avail, dpc, last_index,
                 got, driverMem, deviceMem, kick, irq, driverVars>>

(* Mutants: no fence before used_event is read; num_added is not reset.       *)
NeedsNotification_NoFence(t) ==
  /\ LockFree
  /\ t \in dirty
  /\ dirty' = dirty \ {t}
  /\ num_added' = IF event_idx_enabled THEN 0 ELSE num_added
  /\ since' = 0
  /\ irq' = (irq \/ (event_idx_enabled =>
                       EventPassed(used_event, next_used, WSub(next_used, num_added))))
  /\ UNCHANGED <<ready, size, event_idx_enabled, next_avail, next_used, dpc,
                 last_index, got, inflight, pend, driverMem, deviceMem, kick,
                 driverVars>>

(* Mutant: num_added is not reset. *)
NeedsNotification_NoReset(t) ==
  /\ LockFree
  /\ t \in dirty
  /\ Fenced
  /\ dirty' = dirty \ {t}
  /\ num_added' = num_added
  /\ since' = 0
  /\ irq' = (irq \/ (event_idx_enabled =>
                       EventPassed(used_event, next_used, WSub(next_used, num_added))))
  /\ UNCHANGED <<ready, size, event_idx_enabled, next_avail, next_used, dpc,
                 last_index, got, inflight, pend, driverMem, deviceMem, kick,
                 driverVars>>

(* needs_notification, and the interrupt when it returns true. *)
NeedsNotification(t) ==
  /\ LockFree
  /\ t \in dirty
  /\ Fenced
  /\ dirty' = dirty \ {t}
  /\ num_added' = IF event_idx_enabled THEN 0 ELSE num_added
  /\ since' = 0
  /\ irq' = (irq \/ (event_idx_enabled =>
                       EventPassed(used_event, next_used, WSub(next_used, num_added))))
  /\ UNCHANGED <<ready, size, event_idx_enabled, next_avail, next_used, dpc,
                 last_index, got, inflight, pend, driverMem, deviceMem, kick,
                 driverVars>>

--------------------------------------------------------------------------------
(* Pending stores become visible. *)
FlushElem(s) ==
  /\ pend.used_elem[s] # None
  /\ used_ring' = [used_ring EXCEPT ![s] = pend.used_elem[s]]
  /\ pend' = [pend EXCEPT !.used_elem[s] = None]
  /\ UNCHANGED <<queueVars, deviceVars, driverMem, used_idx, used_flags,
                 avail_event, kick, irq, driverVars, since>>

(* Mutant: the used index is stored with Relaxed. *)
FlushUsedIdx_Relaxed ==
  /\ pend.used_idx # None
  /\ used_idx' = pend.used_idx
  /\ pend' = [pend EXCEPT !.used_idx = None]
  /\ UNCHANGED <<queueVars, deviceVars, driverMem, used_ring, used_flags,
                 avail_event, kick, irq, driverVars, since>>

(* Release: the elements written before the index are visible already. *)
FlushUsedIdx ==
  /\ pend.used_idx # None
  /\ pend.used_elem = NoPend.used_elem
  /\ used_idx' = pend.used_idx
  /\ pend' = [pend EXCEPT !.used_idx = None]
  /\ UNCHANGED <<queueVars, deviceVars, driverMem, used_ring, used_flags,
                 avail_event, kick, irq, driverVars, since>>

FlushUsedFlags ==
  /\ pend.used_flags # None
  /\ used_flags' = pend.used_flags
  /\ pend' = [pend EXCEPT !.used_flags = None]
  /\ UNCHANGED <<queueVars, deviceVars, driverMem, used_idx, used_ring,
                 avail_event, kick, irq, driverVars, since>>

FlushAvailEvent ==
  /\ pend.avail_event # None
  /\ avail_event' = pend.avail_event
  /\ pend' = [pend EXCEPT !.avail_event = None]
  /\ UNCHANGED <<queueVars, deviceVars, driverMem, used_idx, used_ring,
                 used_flags, kick, irq, driverVars, since>>

--------------------------------------------------------------------------------
(* The driver (external).  It has a full barrier between publishing a chain   *)
(* and reading the suppression fields, and between writing used_event and     *)
(* reading the used index.                                                    *)
DriverAdd(h) ==
  /\ ready
  /\ h \in free
  /\ drv_added < DriverBatch
  /\ free' = free \ {h}
  /\ avail_ring' = [avail_ring EXCEPT ![avail_idx % size] = h]
  /\ avail_idx' = WAdd(avail_idx, 1)
  /\ drv_added' = drv_added + 1
  /\ UNCHANGED <<queueVars, deviceVars, pend, used_event, deviceMem, kick, irq,
                 last_used, cb, since>>

DriverWantsKick ==
  IF event_idx_enabled
  THEN EventPassed(avail_event, avail_idx, WSub(avail_idx, drv_added))
  ELSE used_flags = 0

DriverKick ==
  /\ drv_added > 0
  /\ kick' = (kick \/ DriverWantsKick)
  /\ drv_added' = 0
  /\ UNCHANGED <<queueVars, deviceVars, pend, driverMem, deviceMem, irq, free,
                 last_used, cb, since>>

DriverInterrupt ==
  /\ irq
  /\ cb = "idle"
  /\ irq' = FALSE
  /\ cb' = "collect"
  /\ UNCHANGED <<queueVars, deviceVars, pend, driverMem, deviceMem, kick, free,
                 drv_added, last_used, since>>

DriverCollect ==
  /\ cb = "collect"
  /\ last_used # used_idx
  /\ free' = free \union {used_ring[last_used % size]}
  /\ last_used' = WAdd(last_used, 1)
  /\ UNCHANGED <<queueVars, deviceVars, pend, driverMem, deviceMem, kick, irq,
                 drv_added, cb, since>>

DriverEnableInterrupt ==
  /\ cb = "collect"
  /\ last_used = used_idx
  /\ used_event' = IF event_idx_enabled THEN last_used ELSE used_event
  /\ cb' = "recheck"
  /\ UNCHANGED <<queueVars, deviceVars, pend, avail_idx, avail_ring, deviceMem,
                 kick, irq, free, drv_added, last_used, since>>

DriverRecheck ==
  /\ cb = "recheck"
  /\ cb' = IF last_used # used_idx THEN "collect" ELSE "idle"
  /\ UNCHANGED <<queueVars, deviceVars, pend, driverMem, deviceMem, kick, irq,
                 free, drv_added, last_used, since>>

--------------------------------------------------------------------------------
Config == (\E sz \in Sizes, ei \in EventIdx : Setup(sz, ei)) \/ Reset \/ SaveRestore

Poller ==
  \/ DisableNotification \/ Iter \/ IterEnd \/ IterNext
  \/ (\E keep \in BOOLEAN : Dispatch(keep))
  \/ EnableNotification \/ RecheckAvail \/ WakeUp

Flush ==
  \/ (\E s \in Heads : FlushElem(s))
  \/ FlushUsedIdx \/ FlushUsedFlags \/ FlushAvailEvent

DriverCallback ==
  DriverInterrupt \/ DriverCollect \/ DriverEnableInterrupt \/ DriverRecheck

Next ==
  \/ Config
  \/ Poller
  \/ (\E keep \in BOOLEAN : GoToPreviousPosition(keep))
  \/ (\E t \in Completers, h \in Heads : AddUsed(t, h))
  \/ (\E t \in Completers : NeedsNotification(t))
  \/ Flush
  \/ (\E h \in Heads : DriverAdd(h))
  \/ DriverKick
  \/ DriverCallback

Spec == Init /\ [][Next]_vars

(* Scheduling: every thread of the device keeps running, a completer gets the *)
(* lock sooner or later and completes every chain it was given, stores become *)
(* visible, and the driver finishes what it began.  Nothing forces the driver *)
(* to offer chains, and nothing forces a reset, a save or an undo.            *)
Fairness ==
  /\ WF_vars(Poller)
  /\ WF_vars(Flush)
  /\ WF_vars(DriverKick)
  /\ WF_vars(DriverCallback)
  /\ \A h \in Heads : SF_vars(\E t \in Completers : AddUsed(t, h))
  /\ \A t \in Completers : SF_vars(NeedsNotification(t))

FairSpec == Spec /\ Fairness

--------------------------------------------------------------------------------
Events == Idx \union {None}

Stores ==
  [used_elem : [Heads -> Heads \union {None}], used_idx : Events,
   used_flags : {None, 0, 1}, avail_event : Events]

(* The fields of Queue and the memory hold values of their types: the indices *)
(* stay within u16, and a chain in hand is a descriptor of the table.         *)
TypeOK ==
  /\ ready \in BOOLEAN /\ size \in Sizes /\ event_idx_enabled \in BOOLEAN
  /\ next_avail \in Idx /\ next_used \in Idx /\ num_added \in Idx
  /\ dpc \in {"off", "sleep", "poll", "iter", "next", "got", "enable",
              "recheck", "broken"}
  /\ last_index \in Idx
  /\ got \in Heads \union {None} /\ (dpc = "got" => got # None)
  /\ inflight \in SUBSET Heads /\ dirty \in SUBSET Completers
  /\ pend \in Stores
  /\ avail_idx \in Idx /\ avail_ring \in [Heads -> Heads] /\ used_event \in Idx
  /\ used_idx \in Idx /\ used_ring \in [Heads -> Heads]
  /\ used_flags \in {0, 1} /\ avail_event \in Idx
  /\ kick \in BOOLEAN /\ irq \in BOOLEAN
  /\ free \in SUBSET Heads /\ drv_added \in Idx /\ last_used \in Idx
  /\ cb \in {"idle", "collect", "recheck"}
  /\ since \in Idx

(* A sleeping device with a chain to serve has been kicked, or the driver has *)
(* yet to decide and will kick: enable_notification never loses a             *)
(* notification, whichever way it races the driver.                           *)
NoLostKick ==
  dpc = "sleep" /\ avail_idx # next_avail =>
    kick \/ (drv_added > 0 /\ DriverWantsKick)

(* A driver that sleeps while a chain was given back has an interrupt         *)
(* pending, or some completer has yet to call needs_notification, and that    *)
(* call will answer true: the window of num_added never closes too early.     *)
NoLostInterrupt ==
  cb = "idle" /\ ~irq /\ last_used # next_used =>
    /\ dirty # {}
    /\ event_idx_enabled =>
         EventPassed(used_event, next_used, WSub(next_used, num_added))

(* AvailIter::new never reports InvalidAvailRingIndex to a device whose       *)
(* driver respects the queue size, wrap-around of the indices and             *)
(* go_to_previous_position included.                                          *)
IndexNeverRefused == dpc # "broken"

(* num_added counts the chains placed in the used ring since the last         *)
(* needs_notification call, as its documentation says; needs_notification     *)
(* only looks at it when EVENT_IDX is negotiated.                             *)
NumAddedCounts == event_idx_enabled => num_added = since

LatestElem(s) ==
  IF pend.used_elem[s] # None THEN pend.used_elem[s] ELSE used_ring[s]

Outstanding(h) == ready /\ h < size /\ h \notin free

(* Every chain the driver gives away comes back (or the queue is reset), with *)
(* both sides sleeping whenever they are allowed to.                          *)
EveryChainReturns == \A h \in Heads : Outstanding(h) ~> ~Outstanding(h)
================================================================================
