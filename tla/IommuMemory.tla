---- MODULE IommuMemory ----
(***************************************************************************)
(* IommuMemory of vm-memory: guest memory seen through an IOMMU.  A device *)
(* access takes a snapshot of the memory map, has the IOTLB translate its  *)
(* range, and walks the slices of each mapped range; meanwhile the guest   *)
(* changes its mappings, the VMM invalidates IOTLB entries, and updaters   *)
(* replace the memory map.  The IOTLB is behind an RwLock whose read guard *)
(* the iterator of the access owns.                                        *)
(***************************************************************************)
EXTENDS GuestMemory

CONSTANTS
    Iovas,      \* number of I/O virtual addresses in use
    InitTable,  \* the IOMMU's table at start, IOVA -> [to, perm]
    Targets,    \* addresses the guest maps IOVAs to
    PhysStarts, \* where an access without the IOMMU starts
    Ops,        \* "bytes": the access uses whole slices; "volatile": a source may give less
    MaxChanges  \* bound on the guest's changes of its mappings

VARIABLES
    useIommu,  \* IommuMemory::use_iommu
    table,     \* the IOMMU's own mappings (outside the library)
    tlb,       \* Iotlb::tlb: IOVA -> [diff, perm]
    pending,   \* IOVAs unmapped by the guest and not yet invalidated in the IOTLB
    changes,   \* number of changes the guest made
    acc        \* the access under way

iommuVars == <<useIommu, table, tlb, pending, changes>>
vars == <<mapVars, iommuVars, acc>>

Perms == {{"r"}, {"r", "w"}}

\* Addresses are below 2^64.
ASSUME IommuAssumption ==
    /\ Iovas \in Nat /\ Iovas <= Top
    /\ \A a \in DOMAIN InitTable : InitTable[a] \in [to : 0 .. Top - 1, perm : Perms]
    /\ DOMAIN InitTable \subseteq 0 .. Iovas - 1
    /\ Targets \subseteq 0 .. Top - 1
    /\ PhysStarts \subseteq 0 .. Top - 1

\* IommuMapping: the difference between target and source, modulo 2^64, so
\* that equal neighbours are one contiguous mapping.
Mapping(iova, to, perm) == [diff |-> (to - iova) % Top, perm |-> perm]
MapTo(m, iova) == (iova + m.diff) % Top
Allows(m, access) == access \subseteq m.perm

\* One past the last IOVA of the RangeMap entry that holds iova.
EntryEnd(iova) ==
    Min({e \in iova + 1 .. Iovas : e \notin DOMAIN tlb \/ (e \in DOMAIN tlb /\ tlb[e] # tlb[iova])}
        \cup {Iovas})

Idle == [pc |-> "idle"]

Init ==
    /\ MapInit
    /\ useIommu \in BOOLEAN
    /\ table = InitTable
    /\ tlb = <<>>
    /\ pending = {}
    /\ changes = 0
    /\ acc = Idle

-----------------------------------------------------------------------------
(* The access.                                                             *)

\* memory(), then get_slices(): phys() starts on the backend at once, virt()
\* asks for a translation.  from/left: the IOVA range of the translation;
\* cur: the slices of the mapped range being walked; iova: the place of the
\* next slice in the bitmap; out: for each byte of the slices so far its place in
\* the bitmap and its address; got: bytes moved; filled: offsets written; dry: the
\* source has reached its end.
Begin(from, len, access, op) ==
    /\ acc = Idle
    /\ acc' = [pc |-> IF useIommu THEN "lookup" ELSE "walk", virt |-> useIommu, op |-> op,
               mem |-> map, from |-> from, len |-> len, access |-> access,
               left |-> IF useIommu THEN from .. from + len - 1 ELSE {},
               phys |-> [i \in 0 .. len - 1 |-> (from + i) % Top],
               cur |-> IF useIommu THEN Stopped ELSE [addr |-> from, count |-> len],
               iova |-> from, out |-> <<>>, got |-> 0, filled |-> {}, dry |-> FALSE, fails |-> {}]
    /\ UNCHANGED <<mapVars, iommuVars>>

\* Iotlb::lookup: the misses and the mappings that do not allow the access.
LookupFails ==
    {a \in acc.left : a \notin DOMAIN tlb \/ (a \in DOMAIN tlb /\ ~Allows(tlb[a], acc.access))}

Lookup ==
    /\ acc.pc = "lookup"
    /\ acc' = IF LookupFails = {}
              THEN [acc EXCEPT !.pc = "walk", !.phys = [i \in DOMAIN @ |-> MapTo(tlb[acc.from + i], acc.from + i)]]
              ELSE [acc EXCEPT !.pc = "fill", !.fails = LookupFails]
    /\ UNCHANGED <<mapVars, iommuVars>>

\* Iommu::translate resolves the failures from the IOMMU's table, puts the
\* answers into the IOTLB under the write lock, and looks up again.
Fill ==
    /\ acc.pc = "fill"
    /\ IF \A a \in acc.fails : a \in DOMAIN table /\ Allows(table[a], acc.access)
       THEN /\ tlb' = [a \in DOMAIN tlb \cup acc.fails |->
                      IF a \in acc.fails THEN Mapping(a, table[a].to, table[a].perm) ELSE tlb[a]]
            /\ acc' = [acc EXCEPT !.pc = "lookup", !.fails = {}]
       ELSE /\ acc' = Idle
            /\ UNCHANGED tlb
    /\ UNCHANGED <<mapVars, useIommu, table, pending, changes>>

\* The slices come from the snapshot the access holds.
\* (Mutant: each slice from the map of the moment.)
WalkedLatest == map
WalkedMap == acc.mem

\* The next mapped range: the part the access covers of the entry that holds the
\* first IOVA left.  The IOTLB iterator unwraps that entry and asserts that it
\* allows the access.
Entering == acc.cur.count = 0 /\ acc.left # {}
First == Min(acc.left)
End == Min({EntryEnd(First), acc.from + acc.len})
Broken == Entering /\ (First \notin DOMAIN tlb \/ ~Allows(tlb[First], acc.access))
Current == IF Entering THEN [addr |-> MapTo(tlb[First], First), count |-> End - First] ELSE acc.cur
Remaining == IF Entering THEN acc.left \ (First .. End - 1) ELSE acc.left

\* The access uses k bytes of the slice, from the place of the slice in the range on.
UseSlice(slice, it, k) ==
    [acc EXCEPT !.cur = it,
                !.left = Remaining,
                !.out = @ \o [i \in 1 .. slice.len |-> <<acc.iova + i - 1, slice.addr + i - 1>>],
                !.iova = (@ + slice.len) % Top,
                !.got = @ + k,
                !.dry = (k = 0),
                !.filled = @ \cup {((acc.iova - acc.from) % Top) + i : i \in 0 .. k - 1}]

\* IommuMemorySliceIterator::next: the next slice of the range being walked,
\* or the first one of the next mapped range.
Walk(k) ==
    LET step == NextSlice(WalkedMap, Current)
    IN  /\ acc.pc = "walk"
        /\ UNCHANGED <<mapVars, iommuVars>>
        /\ IF Broken THEN k = 0 /\ acc' = [acc EXCEPT !.pc = "panic"]
           ELSE IF step.item.kind # "slice" THEN k = 0 /\ acc' = [acc EXCEPT !.pc = "done"]
           ELSE /\ k \in 0 .. step.item.len
                /\ acc.op = "bytes" => k = step.item.len
                /\ acc.dry => k = 0
                /\ acc' = UseSlice(step.item, step.it, k)

Finish ==
    /\ acc.pc = "done"
    /\ acc' = Idle
    /\ UNCHANGED <<mapVars, iommuVars>>

-----------------------------------------------------------------------------
(* The guest and the VMM.                                                  *)

\* Outside the library: the guest maps an IOVA whose last invalidation is over.
GuestMap(a, to, perm) ==
    /\ changes < MaxChanges
    /\ a \notin DOMAIN table /\ a \notin pending
    /\ table' = [b \in DOMAIN table \cup {a} |-> IF b = a THEN [to |-> to, perm |-> perm] ELSE table[b]]
    /\ changes' = changes + 1
    /\ UNCHANGED <<mapVars, useIommu, tlb, pending, acc>>

GuestUnmap(a) ==
    /\ changes < MaxChanges
    /\ table' = [b \in DOMAIN table \ {a} |-> table[b]]
    /\ pending' = pending \cup {a}
    /\ changes' = changes + 1
    /\ UNCHANGED <<mapVars, useIommu, tlb, acc>>

\* The write lock on the IOTLB waits for the iterator of an access.
\* (Mutant: it does not.)
WriteLockAlways == TRUE
WriteLockFree == ~(acc.pc = "walk" /\ acc.virt)

InvalidateMapping(a, len) ==
    /\ WriteLockFree
    /\ a \in pending
    /\ tlb' = [b \in DOMAIN tlb \ (a .. a + len - 1) |-> tlb[b]]
    /\ pending' = pending \ (a .. a + len - 1)
    /\ UNCHANGED <<mapVars, useIommu, table, changes, acc>>

InvalidateAll ==
    /\ WriteLockFree
    /\ pending # {}
    /\ tlb' = <<>>
    /\ pending' = {}
    /\ UNCHANGED <<mapVars, useIommu, table, changes, acc>>

\* set_iommu_enabled on the object later accesses will use.
SetIommuEnabled(enabled) ==
    /\ useIommu # enabled
    /\ useIommu' = enabled
    /\ UNCHANGED <<mapVars, table, tlb, pending, changes, acc>>

Device ==
    \/ \E from \in 0 .. Iovas - 1, len \in 1 .. Iovas, access \in {{"r"}, {"w"}}, op \in Ops :
         useIommu /\ from + len <= Iovas /\ Begin(from, len, access, op)
    \/ \E from \in PhysStarts, len \in 1 .. Iovas, op \in Ops :
         ~useIommu /\ Begin(from, len, {"w"}, op)
    \/ Lookup
    \/ Fill
    \/ \E k \in 0 .. Iovas : Walk(k)
    \/ Finish

Vmm ==
    \/ \E a \in 0 .. Iovas - 1, len \in 1 .. Iovas : InvalidateMapping(a, len)
    \/ InvalidateAll
    \/ \E enabled \in BOOLEAN : SetIommuEnabled(enabled)

Guest ==
    \/ \E a \in 0 .. Iovas - 1, to \in Targets, perm \in Perms : GuestMap(a, to, perm)
    \/ \E a \in DOMAIN table : GuestUnmap(a)

Next ==
    \/ Device
    \/ Vmm
    \/ Guest
    \/ MapNext /\ UNCHANGED <<iommuVars, acc>>

Spec == Init /\ [][Next]_vars

-----------------------------------------------------------------------------
Present(a) == \E i \in DOMAIN acc.mem : acc.mem[i].start <= a /\ a <= LastAddr(acc.mem[i])

\* An access sees one memory map and one translation, whatever changes around
\* it: its slices follow the range byte by byte, each at the address the IOTLB
\* gave and at its own place in the dirty bitmap, and stop only at the end of
\* the range or at the first byte the map does not hold
\* (GuestMemoryBackendSliceIterator and IommuMemorySliceIterator).
SlicesExact ==
    acc.pc \in {"walk", "done"} =>
        LET n == Len(acc.out)
        IN  /\ n <= acc.len
            /\ \A i \in 1 .. n : acc.out[i] = <<acc.from + i - 1, acc.phys[i - 1]>> /\ Present(acc.phys[i - 1])
            /\ acc.pc = "done" /\ n < acc.len => ~Present(acc.phys[n])

\* Once the invalidation of an IOVA is over no access goes on using the old
\* mapping, nor does the iterator find its entry gone and panic: the slices
\* given and to come follow the IOMMU's table, except where an invalidation is
\* still waiting (invalidate_mapping against the guard in IotlbIterator).
NoUseAfterInvalidation ==
    /\ acc.pc # "panic"
    /\ acc.pc = "walk" /\ acc.virt =>
         \A i \in 0 .. acc.len - 1 :
            \/ acc.from + i \in pending
            \/ /\ acc.from + i \in DOMAIN table
               /\ table[acc.from + i].to = acc.phys[i]
               /\ Allows(table[acc.from + i], acc.access)

\* "Reads up to `count` bytes from `src` and writes them into the container at
\* `addr`" (read_volatile_from): what was read fills the start of the range.
VolatileReadContiguous ==
    acc.pc = "done" => acc.filled = 0 .. acc.got - 1

====
