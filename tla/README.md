# A verification of rust-vmm in TLA+

rust-vmm is a collection of crates from which virtual machine monitors are
built.  A VMM allocates addresses (`vm-allocator`), registers devices on buses
(`vm-device`), exposes virtio devices through a register interface
(`virtio-device`), exchanges buffers with the guest over virtqueues in shared
memory (`virtio-queue`, `vm-memory`) and drives all of it from an event loop
(`event-manager`).  This directory models the parts in which order,
interleaving or long sequences of calls decide whether the code is right,
checks them with TLC and proves the most important results with TLAPS.

Paths below are relative to `src/`.

## The parts and how they interact

| part | state | operations that change it | what is hard |
|---|---|---|---|
| split virtqueue (`vm-virtio/virtio-queue/src/queue.rs`, `queue_sync.rs`) | `next_avail`, `next_used`, `num_added`, `ready`, `size`, `event_idx_enabled`, the rings in guest memory | iterate, pop, undo, add_used, enable/disable_notification, needs_notification, reset, state/try_from | two sides that sleep, relaxed stores and fences, 16-bit indices that wrap |
| virtio MMIO transport (`vm-virtio/virtio-device/src`) | device status, features, selectors, queue configuration, config space, interrupt status | one per register, the status protocol, activate and reset | a driver that writes anything at any time |
| event loop (`event-manager/src/manager.rs`, `epoll.rs`, `events.rs`, `subscribers.rs`) | subscribers, `fd_dispatch`, `subscriber_watch_list`, epoll's interest list, polled events | add/remove subscriber, EventOps add/remove, poll, dispatch | callbacks that change the tables the loop walks over |
| remote endpoint (`event-manager/src/endpoint.rs`) | mpsc channel, eventfd, reply channels | call_blocking, fire, kick, handle_endpoint_calls | a message and its wake-up are two steps; the eventfd has a limit; the manager may be dropped |
| address allocator (`vm-allocator/src/address_allocator.rs`, `allocation_engine/interval_tree.rs`) | an AVL tree of free and allocated ranges | allocate by three policies, free | long sequences of splits, merges and rotations; the ends of u64 |
| id allocator (`vm-allocator/src/id_allocator.rs`) | `next_id`, `freed_ids` | allocate_id, free_id | the end of u32, ids freed by those who do not hold them |
| buses (`vm-device/src/device_manager.rs`, `bus/`) | a map from ranges to devices for each bus | register_resources, deregister_resources | registrations that fail half-way |
| descriptor chains (`virtio-queue/src/chain.rs`, `descriptor_utils.rs`) | the iterator: ttl, indirect table, length so far | next, Reader and Writer | loops, indirection, partial reads |
| guest memory (`vm-memory/src`) | regions, atomic map, dirty bitmap, IOTLB | insert, remove, replace, mark, reset, map, invalidate | snapshots against updates, marks against collections, accesses across regions |
| devices (`virtio-blk`, `virtio-vsock`, `virtio-console`) | a request or packet, the console's input buffer | parse, execute, enqueue | what a failure half-way leaves, a guest that rewrites what was checked |
| `seccompiler` | a filter and the BPF program made of it | compile | jumps that are too long for a u8 |
| flexible arrays (`vmm-sys-util/src/fam.rs`) | a header with a length, and the memory behind it | new, from_entries, push, retain, clone | lengths that do not divide, a kernel that changes the length |
| `linux-loader`, the rest of `vmm-sys-util`, `kvm-ioctls`, `acpi_tables` | mostly pure functions and wrappers of system calls | load, serialise | not modelled, see below |

The VMM takes an address range from the allocator and hands it to
`IoManager::register_resources`; a guest access is dispatched by the bus to the
MMIO transport; its status protocol configures and activates the queues; a
write to QUEUE_NOTIFY becomes an eventfd that the event loop delivers to the
device, which polls its queue and answers with an interrupt.

## Modules

| module | models | abstract specification | proofs |
|---|---|---|---|
| `Virtqueue` | `Queue` behind `QueueSync`, the driver, the shared memory | `ChainExchange`, by the mapping in `VirtqueueExchange` | `VirtqueueProofs`, `VirtqueueExchangeProofs` |
| `VirtioMmio` | the transport and the status protocol | | `VirtioDevicesProofs` |
| `EventManager` | the tables and one dispatch after another | | `EventManagerProofs` |
| `RemoteEndpoint` | the senders and the loop's side of the channel | | `EventManagerProofs` |
| `AddressAllocator` | the allocator over a set of nodes | | `VmmServicesProofs` |
| `IntervalTree` | the AVL tree itself | `AddressAllocator` | |
| `IdAllocator` | the id allocator | | `VmmServicesProofs` |
| `IoManager` | the two buses and the device manager | | `VmmServicesProofs` |
| `SeccompFilter` | the compiler of filters, and the machine that runs them | the meaning of the rules (`Meets`) | `SeccompProofs` |
| `FamStruct` | `FamStructWrapper` | the list its user has in mind (`list`) | `VmmServicesProofs` |
| `VmmServices` | the sum of the four modules above | | |
| `DirtyBitmap` | `AtomicBitmap`, its writers and its collector | | `VirtioDevicesProofs` |
| `GuestMemory` | region collections, their slices, `GuestMemoryAtomic` | | `VmMemoryProofs` |
| `IommuMemory` | `GuestMemory` behind an IOTLB, with an access under way | | `VmMemoryProofs` |
| `DescriptorChain` | the iterator over a chain | | `VirtioDevicesProofs` |
| `ChainBuffers` | `Reader` and `Writer`, on `DescriptorChain` | the stream of positions | `ChainDataProofs` |
| `BlkDevice` | the block device, on `DescriptorChain` | | `ChainDataProofs` |
| `ConsoleDevice`, `VsockPacket` | the other devices, on `DescriptorChain` | | `VirtioDevicesProofs` |
| `VirtioDevices` | the sum of the four users of a chain | | |
| `MC...` | views, symmetry sets and values of constants for TLC | | |

A definition whose comment says "Mutant" is the definition after it with a
plausible mistake in it; no specification uses it.  Every property of a passing
run is violated when some mutant takes the place of the definition it is of, so
none of them holds whatever the code does.

### Virtqueue

The poller runs the loop that the documentation of `Queue` recommends:
`disable_notification`, iterate until nothing is left, `enable_notification`,
and sleep if that returned false.  Completers call `add_used` and later
`needs_notification`.  A call holds the mutex of `QueueSync`; an iterator holds
it while it lives (`LockFree`).  A chain is its head: what the descriptors say
does not matter to the rings.  A reset comes when the poller sleeps or is
between two looks at the ring, not inside one of its calls.

The point of the model is memory order.  `pend` holds the stores of the device
the driver cannot see yet.  Relaxed stores become visible in any order; the
Release store of the used index after the elements; `fence(SeqCst)` is
`Fenced`, a guard that all stores are visible.  The driver, external, is a
correct one: it never offers more chains than the queue has room for, and it
has the barriers the virtio specification asks of it.  `SaveRestore` is
`Queue::state` followed by `Queue::try_from`.

`ImplementsExchange`, in `VirtqueueExchange`, maps the rings to two sequences: the
chains offered and not taken, and those returned and not collected.

### VirtioMmio

One action per register.  The status byte is a set of bits and
`ack_device_status` one action per arm of its `match`.  `activate` and `reset`
belong to the device; when they fail nothing changes, so a failure is no step.
`DropBits` says whether drivers write status values that leave out bits that
are set, which the code accepts.  16-bit registers are reduced modulo `Mod16`.

### EventManager and RemoteEndpoint

`pc` says where the thread of the loop is: between calls of `run`, in the for
loop of `dispatch_events`, in a callback, or in a closure of a remote thread.
In a callback the subscriber may use its `EventOps` as it likes; in a closure
and between runs anything of `SubscriberOps` may happen.  What is ready is up
to the kernel: `Poll` takes any sequence of distinct watched fds up to the
capacity.  `RemoteEndpoint` zooms in on how a closure gets there: send, then
write the eventfd, in two steps, against read-then-drain on the side of the
loop.

### AddressAllocator and IntervalTree

`AddressAllocator` has the meaning of the three policies over a set of nodes,
arithmetic checks included; `owned` is the history of what clients were given.
`IntervalTree` extends it with the tree as a nested record, the recursive
searches, rotations, insert and delete of the code, and sets `nodes` to what the
tree contains.  `ImplementsNodes` says that every step of the tree is the step
of `AddressAllocator`.  Calls that fail before they change anything are no
steps; those that fail later leave what the code leaves.

`PolicyRespected` measures the searches against the free addresses, whatever nodes
they are in: `Available` are the aligned starts from which enough addresses are
free.  `free` merges no neighbour of a single address (see below), so a slot
across such a node is available and not found; `Reachable` leaves these out, and
no slot given may be worse than a reachable one.

### IdAllocator and IoManager

`holders` counts the clients of an id, `assigned` the resources a device was
registered with.  `register_resources` goes through the list and stops at the
first range the bus refuses: `Refused` are the places of those, `Accepted` the
places before the first of them.  `unique` records
whether the VMM kept to the documented rule to "first allocate unique resources
(such as bus ranges)"; what needs the rule is stated under it and the rest is
not.  A resource is a sound range: one of size 0, or past the end of the address
space, panics in the `unwrap` of `register_mmio_resources` or
`register_pio_resources`, whose comment says that the addresses were "allocated
before".

### SeccompFilter, FamStruct and VmmServices

`SeccompFilter` compiles rules the way `backend/` does (conditions from the last
to the first, with three helper jumps when the way out gets too long for a u8)
and then runs the program one instruction at a time; the machine is the
kernel's and external.  `FilterExact` compares its verdict with what the rules
say.  `MaxJump` takes the place of 255, so that a rule of three conditions already
needs helpers, and `HalfBits` that of 32.

`FamStruct` keeps the memory behind the header as bytes, for several sizes of
header and entry, because what can be wrong is the arithmetic from one to the
other.  `KernelFill` is an ioctl that fills the array and leaves a smaller
length; `KernelRefuses` is `get_reg_list` on an array that is too short, which
leaves a larger one.  Callers then drop the wrapper and make a longer one, so only
`New` and `FromEntries` follow.  `list` follows `retain` by what its user expects of it (`Remaining`), the
memory by what its loop does (`KeptEntries`).

The four modules share no state.  `VmmServices` puts them side by side and a
behaviour is about one of them.

### DirtyBitmap

Every atomic operation on a word is a step.  `WriteSlice` is the copy of the bytes and
`MarkDirty` one `fetch_or` after it, so a collection may fall between the two or
between two pages of one write.  What the collector does with the pages is not
in the library; `stale` is the history of what it has still to copy.  After
`reset` it copies everything and after `reset_addr_range` the range, which is
the use these calls have; clones clear nothing.

All operations are SeqCst read-modify-writes but the stores of `reset`, which are
Release: `unseen` are the words whose 0 the writers do not see yet, and
`StoreLands` is its arrival, which erases what was set before it.  Nothing in the
library keeps the copying after that.  `ResetFenced` says that the caller does,
with a fence of its own; the run and the theorem have it, and
`DirtyBitmapUnfenced.cfg` shows a write lost without it.

### GuestMemory and IommuMemory

An updater of `GuestMemoryAtomic` takes the exclusive guard, edits a copy and
replaces the map, or gives up.  `live` is the history of what the completed
updates left.  A collection is sorted, so the sort after an insertion moves only
the new region.  `NextSlice` is one `next()` of the slice iterator.

`IommuMemory` adds an access.  It takes a snapshot of the map, asks the IOTLB,
has the IOMMU fill in what was missing or not permitted, asks again, and walks
the slices while it holds the read lock.  `Walk` is one `next()` of its iterator:
`Current` is the mapped range it is in or, when that one is used up (`Entering`),
the next one; `Broken` are the `unwrap` and the `assert!` on the way there.
`acc.out` records each byte of the slices so far, with its place in the bitmap and
its address.  Meanwhile the guest changes its
mappings, the VMM invalidates IOTLB entries and updaters replace the map.  The
IOMMU's own table is external; `pending` are the IOVAs whose invalidation is not
over, until when the guest may not count on it.

### DescriptorChain, ChainBuffers and the devices

The guest may rewrite descriptors whenever it likes, so a step reads any
descriptor at all, with an index inside or past the table (`PastTables`); loops need
no table.  `Switch` enters an indirect table,
`Yield` returns a descriptor, `NoMore` returns none and changes nothing.

`ChainBuffers` builds a reader or a writer from a chain and then uses and splits it;
each passes over the descriptors of the other kind, wherever they are.  A
slice is an interval of positions in the stream, and a descriptor that spans two
regions gives two.  The loops of `consume` and `split_at` over the slices are
`WholeSlices`: how many slices lie entirely within the bytes asked for, found from
the partial sums of the lengths (`Ends`).  `BlkDevice` parses a request and executes it on a disk whose
bytes are old, zero, or byte n of the data of the request, and any transfer may stop
after any byte.  What the request names (`Place`) is computed without a width; only
the code's `ByteOffset` wraps.
`ConsoleDevice` numbers the bytes of the input in the order of their arrival;
the receive handler holds the lock of the buffer until it returns, so other
threads come in between two chains.  The transmit handler gets an error when the sink
fails or the first byte of a descriptor is not in memory, and a short count when a
later one is not.  `VsockPacket` keeps the copy of the length
apart from the one in guest memory, which the guest may change at every step; the
device may set the length of TX and RX packets (`own` says that it did).
A behaviour of `VirtioDevices` is about one of the four.

## Runs

Deadlock is checked in every run.

| run | instance | states | shows |
|---|---|---|---|
| `virtqueue_safety` | queues of 1 and 2, indices modulo 4, batches of 2, one completer, undo, both modes | 1,490,701 | no kick and no interrupt is lost, no index refused, `num_added` counts, the queue implements `ChainExchange` |
| `virtqueue_liveness` | queue of 1, indices modulo 2, two completers, both modes | 47,108 | every chain comes back |
| `event_manager` | 2 fds, 3 ids, 3 events per poll, foreign removals | 495,482 | no panic, no event for a younger registration |
| `remote_endpoint` | 2 threads, 2 requests each, eventfd limit 2 | 33,757 | no request without a wake-up, answers are the caller's own, calls return, requests run |
| `address_allocator` | 7 addresses, alignments 1, 2, 4, all policies, frees of free nodes | 6,086 | the tree is balanced and implements the set of nodes; no address twice, none lost; policies respected |
| `virtio_mmio` | 1 queue, 2 features, any register value | 368,880 | negotiation, activation, frozen queues, FAILED is final |
| `vmm_services` | ids: every range of a 7-value integer; buses: 2 devices, 2 resources each, 3 addresses; filters: every operator at several values, and chains of up to 5 conditions on 2 arguments in 2 rules of 2 calls, on all first arguments below 16; arrays of up to 3 entries in 4 layouts | 372,367 | no id twice, `is_allocated` exact, failure only when full; no overlap, exact dispatch and deregistration; a filter decides as its rules say; the array is the list its user expects |
| `dirty_bitmap` | 2 writers, memory of 3 to 5 bytes, pages of 2, words of 2 bits, late stores of `reset` | 84,488 | no write escapes the collector, and every page written is copied |
| `iommu_memory` | 2 updaters, 8 addresses, 2 regions with a hole and 2 candidates for it, 3 IOVAs, 2 changes of mappings | 657,776 | no update of the map lost, slices exact, no use of an invalidated mapping |
| `virtio_devices` | queue of 2, indirect tables of up to 3, chains of 5 bytes, descriptors of 0 to 2; a disk of 2 sectors and a byte; a console buffer of 3 | 557,752 | chains end, streams, disk and input are exact, packets fit |

Bounds.  A queue of two has an empty, a partly full and a full ring; modulo 4
is the smallest index range in which full and empty differ for it, so every
wrap happens.  Three ids and two fds let an fd pass from one subscriber to
another and to a third while its event is queued.  An eventfd limit of 2 is
reached by two threads.  Seven addresses give trees of up to seven nodes, hence
double rotations on both sides and deletions of inner nodes.  Two resources for
each of two devices allow a registration that fails at its second range, and a
deregistration that hits the other device.  `MaxBatch` bounds `num_added` below
a whole index period, `MaxWatch` the copies of an fd in one watch list,
`MaxRequests`, `MaxId` and `MaxInput` the lengths of the histories, `MaxChanges`
the changes the guest makes to its mappings.

Pages of two bytes and a last page that is half there give writes that start
inside one page and end inside another; words of two bits give a map of two
words.  Three IOVAs allow a range of two table entries that are merged into one
and a third with other permissions, and the accesses without the IOMMU start in
the first region, in the second and past both.  A table of 3 is larger than the
queue, so the ttl really grows at the switch.  A disk of two sectors and a byte
has a tail that no sector covers.  Offsets are kept modulo `Wide` (16, for 2^64),
so the offset of sector 8 wraps to 0.  A discard or write-zeroes segment has at
most `MaxSegment`, 2, sectors, the whole disk.

Views and symmetry.  The view of `MCVirtqueue` hides ring slots that will be
written before they are read, that of `MCVirtioMmio` tells no queue numbers
apart that name no queue; fds are symmetric in `MCEventManager`.

### Fairness

`virtqueue_liveness`: weak fairness of the poller, of stores becoming visible
and of the driver finishing what it began; strong fairness of `AddUsed` for
each chain and `NeedsNotification` for each completer, because they need the
mutex, which others take in between.  Nothing forces the driver to offer a
chain, and nothing forces a reset, a save or an undo.  Undo is off in this run:
a poller that undoes for ever serves nothing, which is its own choice.

`remote_endpoint`: weak fairness of the loop (its owner calls `run` again and
again) and of threads that are not blocked.  Nothing forces a request or a drop.

`dirty_bitmap`: weak fairness of a writer that has pages to mark, of a
collection that has begun and of the copying; strong fairness of starting
`get_and_reset`, because a collector that makes rounds comes to it again and
again, while other calls of its own come in between.  Nothing forces a write.

## What the runs found

Two runs expect a violation.

- `allocator_exact_match`.  `ExactMatch` finds the node that holds the address
  and does not ask whether it is free, so part of an allocated range is granted
  again (`interval_tree.rs:353`).  `lib.rs:301` says "if it is available".
- `iommu_memory_short_read`.  `read_volatile_from` asks its source once for each
  slice and goes on with the next slice when the source gave less, so the bytes
  of an access that spans two slices have a gap
  (`vm-memory/src/guest_memory.rs:683` against `bytes.rs:318`).

The others have a configuration to reproduce them:

| command | what it shows |
|---|---|
| `tlc -config AllocatorFreeAtOne.cfg AddressAllocator` | `free` deletes the node and only then computes `start - 2`, which fails for a range that starts at 1: the addresses are in no node any more (`interval_tree.rs:613`) |
| `tlc -config AllocatorLastMatchAtZero.cfg AddressAllocator` | `LastMatch` refuses a request for the whole of a free node that starts at 0, where a comment says that the subtraction cannot underflow (`interval_tree.rs:460`) |
| `tlc -config AllocatorFreeTwice.cfg AddressAllocator` | freeing a free node succeeds, where the documentation announces `ResourceNotAvailable` |
| `tlc -config AllocatorUnmerged.cfg AddressAllocator` | `free` looks for a neighbour with a search for two addresses, so a free node of one address is never merged, where the comment says that neighbours are (`interval_tree.rs:612` against 609) |
| `tlc -config EventManagerWatchList.cfg MCEventManager` | `EventOps::remove` does not ask who added the fd and edits the list of the caller, so the owner's list keeps it (`events.rs:257` against `epoll.rs:19`); `NoPanic` and `NoStaleEvent` hold nevertheless |
| `tlc -config VirtioMmioDroppedBits.cfg MCVirtioMmio` | a status write that adds DRIVER_OK and leaves out FEATURES_OK is accepted and activates the device, whose features can then be written (`virtio-device/src/lib.rs:152`) |
| `tlc -config VirtqueueDirtySave.cfg MCVirtqueue` | a queue saved between `add_used` and `needs_notification` comes back with `num_added` 0 |
| `tlc -config FamStructRefused.cfg MCVmmServices` | `get_reg_list` on a list that is too short leaves the number of registers in its header, more than there is memory for (`kvm-ioctls/src/ioctls/vcpu.rs:1319` against `fam.rs:54`) |
| `tlc -config ReaderWriterOrder.cfg MCVirtioDevices` | a `Reader` takes readable descriptors that follow a writable one, and a `Writer` passes over them (`chain.rs:225`), where `descriptor_utils.rs:149` and `257` say that the first writable descriptor ends the one and starts the other |
| `tlc -config DirtyBitmapUnfenced.cfg DirtyBitmap` | without a fence of the caller's, a store of `reset` arrives after the page was copied and erases the mark of a later write; no line of the library promises otherwise, so this is an obligation of callers |

Three are shown by adding an invariant to `VirtioDevices.cfg`:

- `UsedLengthExact`: when the file fails in the middle of a descriptor, the used
  length leaves out bytes that are in guest memory (`stdio_executor.rs:336`).
- `TransmitComplete`: a descriptor that runs into addresses without memory is
  sent up to there, the short count is dropped and the handler returns Ok
  (`console.rs:213`).
- `RxWithinLimit`, with `Lens = {0, 1, 3}`: the limit is not applied to the data
  that shares its descriptor with the header (`packet.rs:648`).  With lengths up
  to 2 the header leaves no room for more than the limit.

The passing runs state what holds apart from these: `ExactInUse`, `DirtySave`,
`ForeignRemove` and `DropBits` say whether clients do what leads there, `ResetFenced`
whether they keep `reset` apart from what follows, `refused` that an ioctl has
refused an array, `Ops` whether sources give less than they are asked for, and
`Base >= 2, End <= MaxAddr - 2` keeps the address space off its ends.

## Proofs

A theorem is about the specification of its component (`Spec`, or `EndpointSpec`,
`IdSpec`, `IoSpec`, `FamSpec`, `FilterSpec`, `MmioSpec`, `BitmapSpec`, `ChainSpec`, `BuffersSpec`,
`VsockSpec`, `ConsoleSpec` and `BlkSpec`), for every value
of the constants that satisfies the named assumptions of the module: sizes and
bounds are natural numbers, and not 0 where the code divides by them or refuses
it; addresses are below the number of addresses; the memory map at start is one
that `from_arc_regions` accepted.

The work a proof costs the prover grows with the length of the module it is in,
so the theorems are spread over eight modules: `VirtqueueProofs` (notification,
and the lemmas about where a chain is) and `VirtqueueExchangeProofs` (the
refinement) for the queue; `EventManagerProofs`; `VmmServicesProofs` for the
allocators, the buses and the flexible arrays; `SeccompProofs` for the compiler;
`VirtioDevicesProofs` for the transport, the dirty bitmap, chains, console and
vsock; `ChainDataProofs` for what is done with the bytes of a chain; and
`VmMemoryProofs`.

| theorem | extra assumption | argument |
|---|---|---|
| `VirtqueueProofs`: `TypeCorrect`, `NoLostKickHolds` | | `KickInv`: from `enable_notification` on the newest store to the suppression field asks for a kick at `next_avail`; once the poller sleeps that store is visible; and the chains it has not seen are among the `drv_added` ones the driver has still to decide about, or it is kicked |
| `NoLostInterruptHolds` | `~DirtySave` | `InterruptInv`: the distance from the driver's `used_event` to `next_used` is covered by `num_added` whenever nobody has decided to interrupt; for any number of completers |
| `NumAddedCountsHolds` | `~DirtySave` | `CountInv` on top of `InterruptInv`: the counts agree and are 0 before a setup; `InterruptInv` says that nothing is counted when nobody owes a `needs_notification`, which is what a save needs |
| `VirtqueueExchangeProofs`: `IndexNeverRefusedHolds` | | `RingInv`: every chain is in one place at a time (free, offered, with a completer, returned), so neither ring holds more than the queue; the iterator stays inside what was offered; the driver sees the used index only after the elements in front of it |
| `QueueImplementsExchange` | | the refinement, from `RingInv`: the two sequences of `ChainExchange` are read off the rings from the oldest entry on, and each action appends to one, takes the head of one, or changes neither |
| `EventManagerProofs`: `TypeCorrect`, `NoPanicHolds` | | `LiveInv`: an fd with a subscriber has a live one whose list names it; epoll watches just these fds; a polled fd that was not discarded is one of them |
| `NoStaleEventHolds` | | inductive as it stands, given the types |
| `WatchListHolds` | `~ForeignRemove` | the three tables of `EpollWrapper` agree |
| `EndpointTypeCorrect`, `NoLostRequestHolds` | | inductive, given the types |
| `AnswerIsOwnHolds` | | `AnswerInv`: a reply that is there belongs to the thread's present request |
| `VmmServicesProofs`: `TypeCorrect` | | `SafeInv`: nodes are apart from each other; slots lie inside their node; the pieces of a node and a merged node cover what they replace |
| `NodesExactHolds`, `NoDoubleAllocationHolds` | `~ExactInUse` | `ExactInv`: in addition, `owned` is the set of keys of allocated nodes |
| `NoAddressLostHolds` | `Base >= 2`, `End <= MaxAddr - 2` | the pieces cover the node, the merged node its neighbours |
| `PolicyRespectedHolds` | `~ExactInUse`; `Regular`: `Base >= 1`, `End < MaxAddr`, alignments divide `MaxAddr + 1` | `OneAlone`: of two free nodes side by side one is a single address, so a reachable slot lies in one node; the slot computed in a node is its first (last) aligned one, or there is none; `LastMatch` fails at 0 (see above), the largest address ends no slot, and powers of two divide 2^64 |
| `IdTypeCorrect`, `NoIdTwiceHolds`, `IsAllocatedExactHolds`, `FailsOnlyWhenFullHolds` | | `IdInv`: every id is in one of three places: held once, freed, or not yet given out |
| `NoOverlapHolds`, `DispatchExactHolds`, `ExactlyRegisteredHolds` | | `IoInv`: while the rule of unique resources is kept, no two resources of devices meet on a bus; so a registration fails only where the rule is broken, and a deregistration finds its own ranges |
| `FamExactHolds` | | `FamSafe`: `FamInv` until an ioctl refuses the array, and the capacity after that.  `FamInv`: the memory after the header is a whole number of structs and within it the capacity holds the length, and every byte of an entry is that of the user's list; the rounding of `mem_allocator_len` covers the entries it was asked for, so a resize keeps every entry that stays; the entries `retain` leaves are the only list the user may expect, because an increasing choice of the kept places is unique |
| `SeccompProofs`: `FilterExactHolds` | | `FilterInv`: the program is that of the filter, and from where the machine is the only verdict that can be returned is the one the rules give.  That is shown for each piece of code in turn, a condition, the conditions of a rule, the rules of a call, the chains of a filter, by induction on how many there are (see below) |
| `VirtioDevicesProofs`: `NegotiatedHolds`, `ActivatedOnceHolds`, `QueuesFrozenHolds`, `FailedIsFinalHolds` | | `StatusInv`: EVENT_IDX is off in every queue until FEATURES_OK is accepted, which makes `Negotiated` inductive; the others need only the types of the queues |
| `FeaturesFrozenHolds` | `~DropBits` | without dropped bits, DRIVER_OK implies FEATURES_OK |
| `WritesNeverLost` | `ResetFenced` | `BitmapInv`: bits and written pages lie inside the map, and while `reset` or `reset_addr_range` runs, the pages it has still to clear are among those its caller copies, and so are the pages of the words whose store is on its way; without these parts a clearing step or a late store could take away the only trace of a write |
| `ChainsAreBounded` | | `ChainInv`: the descriptors yielded and the ttl together stay within one table, or two after the switch, and `yielded` misses no descriptor |
| `PacketFitsHolds` | | `PacketInv`: the length that was checked is the copied one, which the guest cannot change, and the device's own lengths stay within the data it has |
| `InputInOrderHolds` | | `ConsoleInv`: what was given, what the chain under way holds and what waits are increasing, each before the next, and together all that was accepted and not lost |
| `ChainDataProofs`: `DiskExactHolds` | | `BlkInv`: the file is at the sum of the lengths of the descriptors served, what the request has moved ends there, and nothing outside its target has changed; the sums are those of `PartSums` |
| `StreamExactHolds` | | `StreamInv`: the slices of a half follow each other without a gap from the last position it gave out to the end of its part, none is empty, and the two parts meet where the reader was split; `StreamExact` alone does not say that a slice is an interval, which is what a read or a split inside it needs |
| `VmMemoryProofs`: `NoUpdateLostHolds` | | `MapInv`: the draft of the holder of the lock is the map with its edits, and nobody else has edits; inserting into and removing from a sorted collection that is apart keeps it so |
| `SlicesExactHolds`, `NoUseAfterInvalidationHolds` | | `MemInv`: in addition, every IOTLB entry agrees with the IOMMU's table or waits for its invalidation (`TlbInv`); a walk under way has the bytes given, the rest of the mapped range it is in and the IOVAs left one after the other, all translated by the IOTLB as it is now, which no writer can change before the walk ends (`AccInv`) |

The theorems with an extra assumption mark the boundary that the violations
above show from the other side.

`ChainSpec` lets a device do anything with its chains, so every device of
`VirtioDevices` takes its chain steps only (their `StartChain`, `Switch`, `Yield`
and `NoMore`).

Where a fact about sequences or sums needs induction (a collection whose
neighbours are apart is apart, partial sums grow), the proof takes a least
counterexample: the natural numbers are well-founded, so a non-empty set of them
has a least element, and the step before that one contradicts it.

`SeccompProofs` has three layers.  The first is about words: masking two words
masks their halves (`MaskedHalves`), and comparing two words is comparing their
upper halves and, where these are equal, the lower ones (`CompareHalves`).  The
second is about the machine: `Leads(prog, s, p, a, v)` says that some set of positions
and accumulators holds the present one, is closed under steps, and returns
nothing but `v`, so a run through a piece of code is put together from runs
through its parts.  The third follows the compiler.  What is proved of a
condition is where it goes on if it is met, behind its own code, and where if it
is not, `offset` further; of a rule under construction that the distance to its
way out is what `offset` says, with and without helper jumps.  `FilterAssumption` asks
for a jump limit above 6, the length of the longest condition, and for rules
that are not empty, which `SeccompRule::new` refuses.

`TlbInv` and `AccInv`, the parts of `MemInv` that no run states, were checked with
TLC on the instance of `iommu_memory` before they were proved.

Only model-checked:

- liveness under fairness (`EveryChainReturns`, `CallReturns`,
  `EveryRequestRuns`, and the copying of dirty pages), which is out of the
  prover's reach;
- the tree (`Balanced`, `ImplementsNodes`), whose operators are recursive.

## What is not modelled

- Failing accesses to guest memory in the queue, and `set_next_avail` and
  `set_next_used` other than through a restore.
- Register reads and other calls that change nothing; `EventOps::modify`, which
  changes no table; errors of epoll, which change no table either.
- `call_blocking` from the loop's own thread, which its documentation forbids.
- `num_added` after a whole period of indices without `needs_notification`.
- The content of bytes and byte order, pointer arithmetic within a slice, and the
  system calls that map memory.
- The coalesced MMIO ring of `kvm-ioctls`.  The kernel is on the other side, and
  whether the reader is right depends on the order in which plain loads and
  stores become visible, about which the source says nothing.
- The JSON frontend of `seccompiler`, the command line and the image formats of
  `linux-loader`, `acpi_tables`: parsing and formatting in one pass, without
  state that a later call could find wrong.
- `kvm-ioctls` and most of `vmm-sys-util`: one system call for each method.
- `kvm-bindings` and `virtio-bindings`, which are mostly generated from C headers
  and are half of the repository's lines.

The share of lines that is modelled is small for the last three reasons, and
because the unit tests are in the same files as the code.  What keeps state
between calls, or shares it with another thread or with the guest, is modelled
except for the first items of this list.
