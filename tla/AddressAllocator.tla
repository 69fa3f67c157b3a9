--------------------------- MODULE AddressAllocator ---------------------------
(* AddressAllocator of vm-allocator/src/address_allocator.rs over the nodes   *)
(* of its IntervalTree, taken as a set: which ranges are free and which are   *)
(* given out.  The module IntervalTree models the tree itself.                *)
(*                                                                            *)
(* A call that fails before it changes the tree is no step.  One that fails   *)
(* later leaves its changes behind, as the code does.                         *)
EXTENDS Integers

CONSTANTS
  MaxAddr,        \* u64::MAX
  Base, End,      \* the address space
  Aligns,         \* alignments clients ask for, powers of two
  Policies,       \* allocation policies they use
  ExactInUse,     \* whether ExactMatch is asked for addresses that are in use
  FreeUnowned     \* whether clients free the key of a node that is free

ASSUME RangeAssumption ==
  /\ MaxAddr \in Nat /\ Base \in Nat /\ End \in Nat
  /\ Base <= End /\ End <= MaxAddr
  /\ ~(Base = 0 /\ End = MaxAddr)

ASSUME ClientAssumption ==
  /\ Aligns \subseteq Nat \ {0}
  /\ Policies \subseteq {"first", "last", "exact"}
  /\ ExactInUse \in BOOLEAN /\ FreeUnowned \in BOOLEAN

Addrs == Base..End

Sizes == 1..(End - Base + 1)

VARIABLES
  nodes,     \* the nodes of the tree
  owned      \* history: ranges given out and not taken back

vars == <<nodes, owned>>

Range(s, e) == [start |-> s, end |-> e]

Node(s, e, f) == [start |-> s, end |-> e, free |-> f]

Key(x) == Range(x.start, x.end)

RangeLen(x) == x.end - x.start + 1

Contains(x, s, e) == x.start <= s /\ x.end >= e

(* RangeInclusive::new accepts the bounds. *)
ValidRange(s, e) == s <= e /\ ~(s = 0 /\ e = MaxAddr)

Init ==
  /\ nodes = {Node(Base, End, TRUE)}
  /\ owned = {}

--------------------------------------------------------------------------------
AlignDown(a, align) == a - (a % align)

(* Mutant: an aligned start is moved to the next multiple. *)
AlignUp_Past(a, align) == AlignDown(a + align, align)

AlignUp(a, align) == AlignDown(a + align - 1, align)

(* Mutant: the state of the node is not looked at. *)
FirstSlot_AnyState(x, size, align) ==
  {s \in {AlignUp(x.start, align)} :
     /\ x.start + align - 1 <= MaxAddr
     /\ ValidRange(s, x.end)
     /\ x.end - s + 1 >= size}

(* Where check_constraint puts a slot in node x, if anywhere. *)
FirstSlot(x, size, align) ==
  {s \in {AlignUp(x.start, align)} :
     /\ x.free
     /\ x.start + align - 1 <= MaxAddr
     /\ ValidRange(s, x.end)
     /\ x.end - s + 1 >= size}

LastSlot(x, size, align) ==
  {s \in {AlignDown(x.end - size + 1, align)} :
     /\ x.free
     /\ x.end >= size
     /\ s >= x.start
     /\ ValidRange(s, x.end)}

(* ExactMatch: search_superset finds the node of the two addresses from addr  *)
(* on, and the slot has to lie in that node, whatever its state.              *)
ExactSlot(x, size, addr) ==
  {s \in {addr} :
     /\ addr + 1 <= MaxAddr
     /\ Contains(x, addr, addr + 1)
     /\ addr + size - 1 <= MaxAddr
     /\ ValidRange(addr, addr + size - 1)
     /\ Contains(x, addr, addr + size - 1)}

Slot(x, size, align, policy, addr) ==
  IF policy = "first" THEN FirstSlot(x, size, align)
  ELSE IF policy = "last" THEN LastSlot(x, size, align)
  ELSE ExactSlot(x, size, addr)

(* find_candidate: the first, the last or the only node with a slot. *)
Found(size, align, policy, addr) ==
  {x \in nodes :
     /\ Slot(x, size, align, policy, addr) # {}
     /\ \A y \in nodes : Slot(y, size, align, policy, addr) # {} =>
          /\ policy = "first" => x.start <= y.start
          /\ policy = "last"  => x.start >= y.start}

(* Node x gives way to the slot [s, e] and to what is left of x on each side. *)
Pieces(x, s, e) ==
  {y \in {Node(x.start, s - 1, TRUE), Node(s, e, FALSE), Node(e + 1, x.end, TRUE)} :
     y.start <= y.end}

(* The end of the slot is start + size - 1, the sum checked first; a node     *)
(* that fits in full goes through mark_as_allocated, which wants it free.     *)
Grants(x, s, size) ==
  /\ s + size <= MaxAddr
  /\ s = x.start /\ RangeLen(x) = size => x.free

(* AddressAllocator::allocate for a valid Constraint. *)
Allocate(size, align, policy, addr) ==
  \E x \in Found(size, align, policy, addr) :
    \E s \in Slot(x, size, align, policy, addr) :
      /\ Grants(x, s, size)
      /\ nodes' = (nodes \ {x}) \union Pieces(x, s, s + size - 1)
      /\ owned' = owned \union {Range(s, s + size - 1)}

--------------------------------------------------------------------------------
(* The free nodes beside x that search_superset finds: it looks for the node  *)
(* of the two addresses before x, and of the two behind x.                    *)
LeftOf(x) == {y \in nodes : y.free /\ Contains(y, x.start - 2, x.start - 1)}

RightOf(x) == {y \in nodes : y.free /\ Contains(y, x.end + 1, x.end + 2)}

(* x becomes free and swallows its free neighbours. *)
Merged(x, new) ==
  /\ new.free
  /\ \/ LeftOf(x) = {} /\ new.start = x.start
     \/ \E y \in LeftOf(x) : new.start = y.start
  /\ \/ RightOf(x) = {} /\ new.end = x.end
     \/ \E y \in RightOf(x) : new.end = y.end
  /\ nodes' = (nodes \ ({x} \union LeftOf(x) \union RightOf(x))) \union {new}

(* The two addresses beside x are computed with checked_sub and checked_add.  *)
NeighboursExist(x) == x.start # 1 /\ x.end # MaxAddr - 1

(* AddressAllocator::free with the key of node x, whatever its state.  x is   *)
(* deleted first, and stays deleted when the search for neighbours fails.     *)
Free(x) ==
  /\ owned' = owned \ {Key(x)}
  /\ IF NeighboursExist(x)
     THEN \E s, e \in Addrs : Merged(x, Node(s, e, TRUE))
     ELSE nodes' = nodes \ {x}

--------------------------------------------------------------------------------
(* Under ExactMatch clients ask for a multiple of the alignment. *)
Asks(size, align, policy, addr) ==
  /\ IF policy = "exact" THEN addr % align = 0 ELSE addr = Base
  /\ \/ ExactInUse
     \/ policy # "exact"
     \/ \A r \in owned : addr + size <= r.start \/ r.end < addr

Next ==
  \/ \E size \in Sizes, align \in Aligns, policy \in Policies, addr \in Addrs :
       Asks(size, align, policy, addr) /\ Allocate(size, align, policy, addr)
  \/ \E x \in nodes : (FreeUnowned \/ ~x.free) /\ Free(x)

Spec == Init /\ [][Next]_vars

--------------------------------------------------------------------------------
(* Nodes and ranges lie in the managed address space. *)
TypeOK ==
  /\ \A x \in nodes :
       /\ x \in [start : Addrs, end : Addrs, free : BOOLEAN]
       /\ x.start <= x.end
  /\ \A r \in owned : r \in [start : Addrs, end : Addrs]

Disjoint(x, y) == x.end < y.start \/ y.end < x.start

(* "Allocate a memory slot starting with the specified address if it is       *)
(* available": no address belongs to two clients at once.                     *)
NoDoubleAllocation == \A r, s \in owned : r # s => Disjoint(r, s)

(* Freeing a range makes it free again: no address of the space is ever lost  *)
(* from the tree.                                                             *)
NoAddressLost == \A a \in Addrs : \E x \in nodes : x.start <= a /\ a <= x.end

(* Whatever is allocated and freed, in whatever order, the nodes stay apart,  *)
(* and a node is marked Allocated exactly while its range belongs to a        *)
(* client.                                                                    *)
NodesExact ==
  /\ \A x, y \in nodes : x # y => Disjoint(x, y)
  /\ owned = {Key(x) : x \in {y \in nodes : ~y.free}}

(* "Deletes the specified memory slot or returns ResourceNotAvailable if the  *)
(* node was not allocated before": freeing what no client owns changes        *)
(* nothing.                                                                   *)
FreeRefusesUnowned == [][owned' = owned => nodes' = nodes]_vars

(* Address a is free, whatever nodes lie around it. *)
Open(a) == \E x \in nodes : x.free /\ x.start <= a /\ a <= x.end

(* Address a is a free node on its own. *)
Alone(a) == \E x \in nodes : x.free /\ x.start = a /\ x.end = a

(* The aligned starts from which size addresses are free. *)
Available(size, align) ==
  {a \in Addrs : a % align = 0 /\ \A b \in a..(a + size - 1) : Open(b)}

(* The searches of free look for a neighbour of two addresses or more, so a   *)
(* free node of one address stays by itself.  These slots cross none.         *)
Reachable(size, align) ==
  {a \in Available(size, align) : size = 1 \/ \A b \in a..(a + size - 1) : ~Alone(b)}

Grantable(size, align, policy) ==
  UNION {{s \in Slot(x, size, align, policy, Base) : Grants(x, s, size)} :
           x \in Found(size, align, policy, Base)}

(* Whatever was allocated and freed before, FirstMatch and LastMatch give     *)
(* only free, aligned addresses, and they give the lowest and the highest of  *)
(* them: a slot they pass over, or refuse, crosses a free node of one         *)
(* address, which free does not merge (allocate, find_candidate, free).       *)
PolicyRespected ==
  \A size \in Sizes, align \in Aligns, policy \in {"first", "last"} :
    LET reach == Reachable(size, align)
        given == Grantable(size, align, policy)
    IN /\ given \subseteq Available(size, align)
       /\ reach # {} => given # {}
       /\ \A s \in given, a \in reach : IF policy = "first" THEN s <= a ELSE s >= a

(* "we try to find range that are placed to its left so we can merge them     *)
(* together" (free): no two free nodes lie side by side.                      *)
NeighboursMerged == \A x, y \in nodes : x.free /\ y.free => x.end + 1 # y.start
================================================================================
