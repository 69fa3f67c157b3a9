------------------------------- MODULE FamStruct -------------------------------
(* FamStructWrapper of vmm-sys-util/src/fam.rs: a C struct that ends in a     *)
(* flexible array, kept in a Vec of such structs that is long enough.  A      *)
(* header and an entry need not divide each other, so that the array may end  *)
(* inside a struct of the Vec.  The kernel that fills the array in an ioctl   *)
(* is external.                                                               *)
EXTENDS Integers, Sequences

CONSTANTS
  Layouts,   \* pairs of size_of::<T>() and size_of::<T::Entry>()
  FamEntries, \* the entries, each a byte that is repeated; 0 is the zeroed one
  MaxLen,    \* T::max_len()
  Slack      \* what Vec may allocate beyond what it is asked for

(* mem_allocator_len and fam_len divide by the two sizes. *)
ASSUME FamAssumption ==
  /\ Layouts \subseteq (Nat \ {0}) \X (Nat \ {0})
  /\ 0 \in FamEntries
  /\ MaxLen \in Nat /\ Slack \in Nat

VARIABLES
  layout,
  famLen,    \* the length in the header, mem_allocator[0]
  bytes,     \* what follows the header in mem_allocator
  memCap,    \* mem_allocator.capacity()
  list,      \* the list a user of the wrapper has in mind
  refused    \* an ioctl has left a length here that it wants, and failed

famVars == <<layout, famLen, bytes, memCap, list, refused>>

HeaderSize == layout[1]
EntrySize == layout[2]

--------------------------------------------------------------------------------
(* Mutant: the bytes of the array are not rounded up to whole structs. *)
MemAllocatorLen_Floor(n) == (HeaderSize + n * EntrySize) \div HeaderSize

MemAllocatorLen(n) == (HeaderSize + n * EntrySize + HeaderSize - 1) \div HeaderSize

FamLen(len) == IF len = 0 THEN 0 ELSE ((len - 1) * HeaderSize) \div EntrySize

MemLen == 1 + Len(bytes) \div HeaderSize

Zeroed(n) == [i \in 1 .. n |-> 0]

(* An entry is its byte when all of its bytes agree and are in memory. *)
EntryAt(mem, i) ==
  LET byte(k) == mem[(i - 1) * EntrySize + k]
  IN IF i * EntrySize <= Len(mem) /\ \A k \in 1 .. EntrySize : byte(k) = byte(1)
     THEN byte(1) ELSE "torn"

AsSlice == [i \in 1 .. famLen |-> EntryAt(bytes, i)]

(* Stores entries from a place on; a byte outside of the memory is not there  *)
(* to be written.                                                             *)
Stored(mem, from, es) ==
  [b \in DOMAIN mem |->
     LET i == (b - 1) \div EntrySize + 1
     IN IF i \in from .. from + Len(es) - 1 THEN es[i - from + 1] ELSE mem[b]]

(* new, from_entries, Deserialize and clone: a Vec of exactly the structs     *)
(* that the entries need.                                                     *)
FreshVec(es) ==
  LET len == MemAllocatorLen(Len(es))
  IN /\ famLen' = Len(es)
     /\ bytes' = Stored(Zeroed((len - 1) * HeaderSize), 1, es)
     /\ memCap' \in len .. len + Slack

FamInit ==
  /\ layout \in Layouts
  /\ famLen = 0 /\ bytes = <<>> /\ memCap = 1 /\ list = <<>> /\ refused = FALSE

New(n) ==
  /\ n <= MaxLen
  /\ FreshVec(Zeroed(n))
  /\ list' = Zeroed(n)
  /\ refused' = FALSE
  /\ UNCHANGED layout

FromEntries(es) ==
  /\ Len(es) <= MaxLen
  /\ FreshVec(es)
  /\ list' = es
  /\ refused' = FALSE
  /\ UNCHANGED layout

Clone ==
  /\ ~refused
  /\ FreshVec(AsSlice)
  /\ UNCHANGED <<layout, list, refused>>

(* set_len with reserve, resize_with and shrink_to_fit: the memory after it.  *)
Resized(mem, len) ==
  LET size == (MemAllocatorLen(len) - 1) * HeaderSize
  IN [b \in 1 .. size |-> IF b <= Len(mem) THEN mem[b] ELSE 0]

NewCapacity(len) ==
  LET need == MemAllocatorLen(len)
  IN CASE len = famLen -> {memCap}
       [] len > famLen -> IF len <= FamLen(memCap) THEN {memCap} ELSE need .. need + Slack
       [] OTHER -> {c \in need .. need + Slack : c <= memCap}

Push(e) ==
  LET len == famLen + 1
  IN /\ ~refused
     /\ len <= MaxLen
     /\ bytes' = Stored(Resized(bytes, len), len, <<e>>)
     /\ famLen' = len
     /\ memCap' \in NewCapacity(len)
     /\ list' = Append(list, e)
     /\ UNCHANGED <<layout, refused>>

(* The entries a caller or the kernel may give. *)
FamLists == UNION {[1 .. n -> FamEntries] : n \in 0 .. MaxLen}

(* What a user expects of retain: t has the entries of s that are kept, each  *)
(* of them once and in their order.                                           *)
Remaining(t, s, kept) ==
  \E at \in [DOMAIN t -> DOMAIN s] :
    /\ \A j, k \in DOMAIN t : j < k => at[j] < at[k]
    /\ \A j \in DOMAIN t : t[j] = s[at[j]]
    /\ \A i \in DOMAIN s : s[i] \in kept <=> \E j \in DOMAIN t : at[j] = i

(* num_kept_entries after each turn of the loop of retain. *)
NumKept(s, kept) ==
  LET n[i \in 0 .. Len(s)] ==
        IF i = 0 THEN 0 ELSE n[i - 1] + (IF s[i] \in kept THEN 1 ELSE 0)
  IN n

(* What the loop leaves in the first num_kept_entries places: an entry moves  *)
(* to the place that was num_kept_entries when its turn came, which is never  *)
(* one the loop has yet to read.                                              *)
KeptAt(s, kept, j) == CHOOSE i \in 1 .. Len(s) : s[i] \in kept /\ NumKept(s, kept)[i] = j

KeptEntries(s, kept) == [j \in 1 .. NumKept(s, kept)[Len(s)] |-> s[KeptAt(s, kept, j)]]

Retain(kept) ==
  LET es == KeptEntries(AsSlice, kept)
      moved == Stored(bytes, 1, es)
  IN /\ ~refused
     /\ bytes' = IF Len(es) = famLen THEN moved ELSE Resized(moved, Len(es))
     /\ famLen' = Len(es)
     /\ memCap' \in NewCapacity(Len(es))
     /\ list' \in {t \in FamLists : Remaining(t, list, kept)}
     /\ UNCHANGED <<layout, refused>>

(* An ioctl on the pointer: the kernel reads the length in the header, writes *)
(* no more entries than that and leaves their number there.                   *)
KernelFill(es) ==
  /\ ~refused
  /\ Len(es) <= famLen
  /\ bytes' = Stored(bytes, 1, es)
  /\ famLen' = Len(es)
  /\ list' = es
  /\ UNCHANGED <<layout, memCap, refused>>

(* get_reg_list when there are more registers than the array has room for:    *)
(* the kernel puts their number into the header and fails with E2BIG.  The    *)
(* code leaves it there.  Callers read the number, make a wrapper of that     *)
(* length and drop this one, as the tests of get_reg_list do: nothing but     *)
(* New and FromEntries follows.                                               *)
KernelRefuses(n) ==
  /\ ~refused
  /\ n > famLen
  /\ famLen' = n
  /\ refused' = TRUE
  /\ UNCHANGED <<layout, bytes, memCap, list>>

FamNext ==
  \/ \E n \in 0 .. MaxLen : New(n)
  \/ \E es \in FamLists : FromEntries(es) \/ KernelFill(es)
  \/ \E n \in 0 .. MaxLen + 1 : KernelRefuses(n)
  \/ Clone
  \/ \E e \in FamEntries : Push(e)
  \/ \E kept \in SUBSET FamEntries : Retain(kept)

FamSpec == FamInit /\ [][FamNext]_famVars

--------------------------------------------------------------------------------
(* The wrapper holds the list its user pushed, retained, cloned or was given  *)
(* by the kernel, inside the Vec, and the Vec is inside what it allocated, so *)
(* that neither as_slice nor an ioctl that trusts the length in the header    *)
(* leaves the memory, until an ioctl refuses the array as too short.  A       *)
(* shorter length the kernel leaves in the header is where the next push      *)
(* starts.                                                                    *)
FamExact ==
  /\ MemLen <= memCap
  /\ ~refused => famLen * EntrySize <= Len(bytes) /\ AsSlice = list

(* "the implementor should ensures that the FAM length as returned by         *)
(* FamStruct::len() always describes correctly the length of the flexible     *)
(* array member": the entries that the header counts are in memory.           *)
LengthInside == famLen * EntrySize <= Len(bytes)
================================================================================
