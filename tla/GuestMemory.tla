---- MODULE GuestMemory ----
(***************************************************************************)
(* The guest's physical memory in vm-memory: GuestRegionCollection, the    *)
(* iterator over its slices, and GuestMemoryAtomic, which lets a VMM       *)
(* replace the collection (memory hotplug) while devices use it.           *)
(***************************************************************************)
EXTENDS Integers, Sequences, FiniteSetsExt, Functions

CONSTANTS
    Updaters,    \* threads that change the memory map
    Top,         \* number of addresses (2^64 in the code)
    InitRegions, \* the regions at start
    Hotplug      \* regions an updater may insert or remove

VARIABLES
    map,    \* the collection GuestMemoryAtomic points at: a sequence of regions
    lock,   \* the holder of the update mutex, or "nobody"
    draft,  \* per updater, the collection it is building
    edits,  \* per updater, the regions its draft added and removed
    live    \* the regions the completed updates leave

mapVars == <<map, lock, draft, edits, live>>

LastAddr(r) == r.start + r.len - 1

\* GuestRegionMmap::with_arc: base + size must not overflow.
Regions == {r \in [start : Nat, len : Nat] : r.len > 0 /\ r.start + r.len < Top}

-----------------------------------------------------------------------------
(* GuestRegionCollection.                                                  *)

\* from_arc_regions: not empty, sorted, and no two neighbours overlap.
FromArcRegions(regions) ==
    /\ regions # <<>>
    /\ \A i \in 1 .. Len(regions) - 1 :
         /\ regions[i].start <= regions[i + 1].start
         /\ LastAddr(regions[i]) < regions[i + 1].start

\* The map at start is one that from_arc_regions has accepted.
ASSUME MapAssumption ==
    /\ Top \in Nat \ {0}
    /\ "nobody" \notin Updaters
    /\ Hotplug \subseteq Regions
    /\ InitRegions \in Seq(Regions) /\ FromArcRegions(InitRegions)

\* push, then sort_by_key, which is stable: the others are sorted already, so
\* that only r moves, to behind those that do not start after it.
InsertRegion(regions, r) ==
    LET k == Max({0} \cup {i \in DOMAIN regions : regions[i].start <= r.start})
    IN  SubSeq(regions, 1, k) \o <<r>> \o SubSeq(regions, k + 1, Len(regions))

RemoveRegion(regions, i) == SubSeq(regions, 1, i - 1) \o SubSeq(regions, i + 1, Len(regions))

\* The region holding addr: an exact hit of the binary search on the start
\* addresses, or the one before the place where addr would be inserted.
FindRegion(regions, addr) ==
    LET below == Max({0} \cup {i \in DOMAIN regions : regions[i].start < addr})
    IN  IF \E i \in DOMAIN regions : regions[i].start = addr THEN below + 1
        ELSE IF below > 0 /\ addr <= LastAddr(regions[below]) THEN below
        ELSE 0

-----------------------------------------------------------------------------
(* GuestMemoryBackendSliceIterator: what next() gives for the addr and     *)
(* count left, and what it leaves.                                         *)

NoItem(kind) == [kind |-> kind, addr |-> 0, len |-> 0]
Stopped == [addr |-> 0, count |-> 0]

NextSlice(regions, it) ==
    LET i == FindRegion(regions, it.addr)
        len == Min({LastAddr(regions[i]) + 1 - it.addr, it.count})
    IN  IF it.count = 0 THEN [item |-> NoItem("end"), it |-> Stopped]
        ELSE IF i = 0 \/ it.addr + len > Top THEN [item |-> NoItem("error"), it |-> Stopped]
        ELSE [item |-> [kind |-> "slice", addr |-> it.addr, len |-> len],
              it |-> [addr |-> (it.addr + len) % Top, count |-> it.count - len]]

-----------------------------------------------------------------------------
(* GuestMemoryAtomic.  An updater locks, edits a copy of the current map   *)
(* and replaces it, as the hotplug test does.                              *)

NoEdits == [add |-> {}, del |-> {}]

MapInit ==
    /\ map = InitRegions
    /\ lock = "nobody"
    /\ draft = [u \in Updaters |-> <<>>]
    /\ edits = [u \in Updaters |-> NoEdits]
    /\ live = Range(InitRegions)

\* Mutant: the guard does not exclude other updaters.
LockUnheld(u) ==
    /\ lock # u
    /\ lock' = u
    /\ draft' = [draft EXCEPT ![u] = map]
    /\ UNCHANGED <<map, edits, live>>

\* lock(), then memory(): a poisoned mutex hands out its guard all the same.
Lock(u) ==
    /\ lock = "nobody"
    /\ lock' = u
    /\ draft' = [draft EXCEPT ![u] = map]
    /\ UNCHANGED <<map, edits, live>>

\* The guard goes away without replace(): an edit failed, or the thread panicked.
Drop(u) ==
    /\ lock = u
    /\ lock' = "nobody"
    /\ draft' = [draft EXCEPT ![u] = <<>>]
    /\ edits' = [edits EXCEPT ![u] = NoEdits]
    /\ UNCHANGED <<map, live>>

\* A failing insert_region leaves the caller with the map it had.
Plug(u, r) ==
    LET regions == InsertRegion(draft[u], r)
    IN  /\ lock = u
        /\ FromArcRegions(regions)
        /\ draft' = [draft EXCEPT ![u] = regions]
        /\ edits' = [edits EXCEPT ![u] = [add |-> @.add \cup {r}, del |-> @.del \ {r}]]
        /\ UNCHANGED <<map, lock, live>>

Unplug(u, i) ==
    /\ lock = u
    /\ draft' = [draft EXCEPT ![u] = RemoveRegion(@, i)]
    /\ edits' = [edits EXCEPT ![u] = [add |-> @.add \ {draft[u][i]}, del |-> @.del \cup {draft[u][i]}]]
    /\ UNCHANGED <<map, lock, live>>

\* replace() stores the new map and consumes the guard.
Replace(u) ==
    /\ lock = u
    /\ map' = draft[u]
    /\ live' = (live \ edits[u].del) \cup edits[u].add
    /\ lock' = "nobody"
    /\ draft' = [draft EXCEPT ![u] = <<>>]
    /\ edits' = [edits EXCEPT ![u] = NoEdits]

MapNext ==
    \E u \in Updaters :
        \/ Lock(u)
        \/ Drop(u)
        \/ \E r \in Hotplug : Plug(u, r)
        \/ \E i \in DOMAIN draft[u] : draft[u][i] \in Hotplug /\ Unplug(u, i)
        \/ Replace(u)

-----------------------------------------------------------------------------
\* The map holds exactly the regions the completed updates left, sorted and
\* without overlap: no update is lost to a concurrent one, and a failed or
\* abandoned one leaves no trace (lock, insert_region, remove_region, replace).
NoUpdateLost ==
    /\ Range(map) = live
    /\ \A i, j \in DOMAIN map : i < j => LastAddr(map[i]) < map[j].start

====
