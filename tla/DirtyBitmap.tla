---- MODULE DirtyBitmap ----
(***************************************************************************)
(* Dirty page tracking of vm-memory: AtomicBitmap, shared without a lock   *)
(* by the threads that write guest memory and by the thread that collects  *)
(* the dirty pages (live migration, snapshots).                            *)
(*                                                                         *)
(* A write through a VolatileSlice first copies its bytes and then sets    *)
(* the bits of the pages it touched, one atomic fetch_or per page; a       *)
(* collection clears the map one word at a time.  Every one of those       *)
(* atomic operations is a step here, so a write may overlap a collection   *)
(* anywhere.  All of them are SeqCst read-modify-writes but for reset():   *)
(* its Release stores are seen by other threads some time later, and the   *)
(* collector may read memory before that.  What the collector does with    *)
(* the pages it got (it copies them to their destination) is outside the   *)
(* library.                                                                *)
(***************************************************************************)
EXTENDS Integers

CONSTANTS
    Writers,   \* threads that write guest memory
    PageSize,  \* bytes of a page
    WordBits,  \* bits of a word of the map (64 in the code)
    InitBytes, \* size of the memory when the bitmap is made
    MaxMemory,  \* bound on the size after enlarge()
    ResetFenced \* whether a fence keeps reset() before the copying that follows it

ASSUME BitmapAssumption ==
    /\ PageSize \in Nat \ {0}
    /\ WordBits \in Nat \ {0}
    /\ InitBytes \in Nat
    /\ MaxMemory \in Nat
    /\ ResetFenced \in BOOLEAN

VARIABLES
    byteSize,  \* AtomicBitmap::byte_size
    dirty,     \* the set bits of AtomicBitmap::map, as the writers see them
    unseen,    \* words that reset() has stored 0 to and the writers do not see yet
    todo,      \* per writer, the pages next..last it has written and not yet marked
    harvest,   \* what the collector is doing: kind, and the words or pages next..last left
    collected, \* pages the collector will copy
    stale      \* pages written since the collector last copied them

bitmapVars == <<byteSize, dirty, unseen, todo, harvest, collected, stale>>

DivCeil(a, b) == (a + b - 1) \div b

\* AtomicBitmap::size, in pages, and the length of its vector of words.
Size(bytes) == DivCeil(bytes, PageSize)
MapLen(bytes) == DivCeil(Size(bytes), WordBits)
Pages == 0 .. Size(byteSize) - 1
WordOf(page) == page \div WordBits

FirstBit(start) == start \div PageSize
\* (Mutant: start and length are divided one by one.)
LastBitPerPart(start, len) == start \div PageSize + (len - 1) \div PageSize
LastBit(start, len) == (start + len - 1) \div PageSize

Nothing == [next |-> 1, last |-> 0]
Busy(t) == t.next <= t.last
NoHarvest == [kind |-> "none", next |-> 1, last |-> 0]

BitmapInit ==
    /\ byteSize = InitBytes
    /\ dirty = {}
    /\ unseen = {}
    /\ todo = [w \in Writers |-> Nothing]
    /\ harvest = NoHarvest
    /\ collected = {}
    /\ stale = {}

-----------------------------------------------------------------------------
(* Writers.                                                                *)

\* The bytes of a write of len bytes at start have landed; the call to
\* mark_dirty that follows computes the pages to mark.
WriteSlice(w, start, len) ==
    /\ ~Busy(todo[w])
    /\ start + len <= byteSize
    /\ stale' = stale \cup {a \div PageSize : a \in start .. start + len - 1}
    /\ todo' = [todo EXCEPT ![w] = [next |-> FirstBit(start), last |-> LastBit(start, len)]]
    /\ UNCHANGED <<byteSize, dirty, unseen, harvest, collected>>

\* One round of the loop of set_reset_addr_range: pages past the end of the
\* map stop it.
MarkDirty(w) ==
    LET n == todo[w].next
        done == n >= Size(byteSize) \/ n = todo[w].last
    IN  /\ Busy(todo[w])
        /\ dirty' = IF n >= Size(byteSize) THEN dirty ELSE dirty \cup {n}
        /\ todo' = [todo EXCEPT ![w] = IF done THEN Nothing ELSE [@ EXCEPT !.next = n + 1]]
        /\ UNCHANGED <<byteSize, unseen, harvest, collected, stale>>

-----------------------------------------------------------------------------
(* The collector.                                                          *)

\* A SeqCst read-modify-write comes after the stores its thread made before.
Drained == unseen = {}

\* get_and_reset() and clone() walk the words and gather what they hold.
StartGather(kind) ==
    /\ ~Busy(harvest)
    /\ kind = "get" => Drained
    /\ collected = {}
    /\ harvest' = [kind |-> kind, next |-> 0, last |-> MapLen(byteSize) - 1]
    /\ UNCHANGED <<byteSize, dirty, unseen, todo, collected, stale>>

\* reset() drops what the words hold: its caller copies every page after it.
StartReset ==
    /\ ~Busy(harvest)
    /\ collected = {}
    /\ collected' = Pages
    /\ harvest' = [kind |-> "reset", next |-> 0, last |-> MapLen(byteSize) - 1]
    /\ UNCHANGED <<byteSize, dirty, unseen, todo, stale>>

\* reset_addr_range() clears the bits of a range, which its caller then copies.
StartResetRange(start, len) ==
    /\ ~Busy(harvest)
    /\ Drained
    /\ collected = {}
    /\ start + len <= byteSize
    /\ collected' = {p \in Pages : FirstBit(start) <= p /\ p <= LastBit(start, len)}
    /\ harvest' = [kind |-> "range", next |-> FirstBit(start), last |-> LastBit(start, len)]
    /\ UNCHANGED <<byteSize, dirty, unseen, todo, stale>>

\* The bits one atomic operation of a collection is about.  The collector
\* sees its own stores at once.
Under(h) ==
    {p \in dirty : IF h.kind = "range" THEN p = h.next
                   ELSE WordOf(p) = h.next /\ WordOf(p) \notin unseen}

\* Mutant: get_and_reset() clears the following word with the one it loads.
HarvestStepWide ==
    /\ Busy(harvest)
    /\ collected' = IF harvest.kind \in {"get", "clone"} THEN collected \cup Under(harvest) ELSE collected
    /\ dirty' = IF harvest.kind \notin {"get", "range"} THEN dirty
                ELSE dirty \ (Under(harvest) \cup {p \in dirty : WordOf(p) = harvest.next + 1})
    /\ unseen' = IF harvest.kind = "reset" THEN unseen \cup {harvest.next} ELSE unseen
    /\ harvest' = IF harvest.next = harvest.last THEN NoHarvest ELSE [harvest EXCEPT !.next = @ + 1]
    /\ UNCHANGED <<byteSize, todo, stale>>

\* fetch_and(0), load, store(0) on a word, or fetch_and(!bit) on a page.
HarvestStep ==
    /\ Busy(harvest)
    /\ collected' = IF harvest.kind \in {"get", "clone"} THEN collected \cup Under(harvest) ELSE collected
    /\ dirty' = IF harvest.kind \in {"get", "range"} THEN dirty \ Under(harvest) ELSE dirty
    /\ unseen' = IF harvest.kind = "reset" THEN unseen \cup {harvest.next} ELSE unseen
    /\ harvest' = IF harvest.next = harvest.last THEN NoHarvest ELSE [harvest EXCEPT !.next = @ + 1]
    /\ UNCHANGED <<byteSize, todo, stale>>

\* The 0 that reset() stored arrives, and erases what was set before.
StoreLands(word) ==
    /\ word \in unseen
    /\ unseen' = unseen \ {word}
    /\ dirty' = {p \in dirty : WordOf(p) # word}
    /\ UNCHANGED <<byteSize, todo, harvest, collected, stale>>

\* The collector copies a page it got, once the call has returned.
Copy(p) ==
    /\ ~Busy(harvest)
    /\ ResetFenced => Drained
    /\ p \in collected
    /\ collected' = collected \ {p}
    /\ stale' = stale \ {p}
    /\ UNCHANGED <<byteSize, dirty, unseen, todo, harvest>>

\* enlarge() takes &mut self: nobody else is using the bitmap, and whoever
\* does later sees what was stored to it.
Enlarge(additional) ==
    /\ \A w \in Writers : ~Busy(todo[w])
    /\ ~Busy(harvest)
    /\ Drained
    /\ byteSize + additional <= MaxMemory
    /\ byteSize' = byteSize + additional
    /\ UNCHANGED <<dirty, unseen, todo, harvest, collected, stale>>

BitmapNext ==
    \/ \E w \in Writers, start \in 0 .. byteSize, len \in 1 .. byteSize : WriteSlice(w, start, len)
    \/ \E w \in Writers : MarkDirty(w)
    \/ \E kind \in {"get", "clone"} : StartGather(kind)
    \/ StartReset
    \/ \E start \in 0 .. byteSize, len \in 1 .. byteSize : StartResetRange(start, len)
    \/ HarvestStep
    \/ \E word \in unseen : StoreLands(word)
    \/ \E p \in collected : Copy(p)
    \/ \E additional \in 1 .. MaxMemory : Enlarge(additional)

BitmapSpec == BitmapInit /\ [][BitmapNext]_bitmapVars

\* A thread inside a bitmap operation is eventually scheduled, a store is
\* seen in the end, and the collector keeps making rounds with
\* get_and_reset().
BitmapFairness ==
    /\ \A w \in Writers : WF_bitmapVars(MarkDirty(w))
    /\ WF_bitmapVars(HarvestStep)
    /\ WF_bitmapVars(\E word \in unseen : StoreLands(word))
    /\ WF_bitmapVars(\E p \in collected : Copy(p))
    /\ SF_bitmapVars(StartGather("get"))

FairBitmapSpec == BitmapSpec /\ BitmapFairness

-----------------------------------------------------------------------------
BitmapTypeOK ==
    /\ byteSize \in Nat
    /\ dirty \subseteq Nat
    /\ unseen \subseteq Nat
    /\ todo \in [Writers -> [next : Nat, last : Nat]]
    /\ harvest \in [kind : {"none", "get", "clone", "reset", "range"}, next : Nat, last : Int]
    /\ collected \subseteq Nat
    /\ stale \subseteq Nat

\* No write is lost to the collector, whatever overlaps it: a page whose
\* contents changed since the last copy still has its bit set, or is in the
\* collector's hands, or is about to be marked by the thread that wrote it
\* (set_reset_addr_range, get_and_reset, reset and reset_addr_range racing).
\* After reset() this takes a fence: its store is no more than a Release.
NoWriteLost ==
    \A p \in stale :
        \/ p \in dirty
        \/ p \in collected
        \/ \E w \in Writers : todo[w].next <= p /\ p <= todo[w].last

\* Every page written is copied in the end, if the collector keeps making
\* rounds with get_and_reset(): a bit set behind the word being cleared is
\* found by the next round.
EveryWriteCopied ==
    \A p \in 0 .. Size(MaxMemory) - 1 : p \in stale ~> p \notin stale

====
