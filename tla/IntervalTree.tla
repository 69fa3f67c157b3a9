----------------------------- MODULE IntervalTree -----------------------------
(* IntervalTree of vm-allocator/src/allocation_engine/interval_tree.rs: the   *)
(* AVL tree behind AddressAllocator, node by node, with its cached heights,   *)
(* rotations and recursive searches.  The set nodes of AddressAllocator is    *)
(* what the tree contains after each call, and the tree is shown to change it *)
(* as that module says.                                                       *)
EXTENDS AddressAllocator

VARIABLE root      \* the tree, Nil for None; nodes are the nodes in it

treeVars == <<root, nodes, owned>>

MaxHeight == 50

Nil == [height |-> 0]

(* insert returned an error; the part of the tree it had taken is gone. *)
Failed == [height |-> -1]

Max(a, b) == IF a >= b THEN a ELSE b

(* A node with the key and the state of k over two subtrees, its cached       *)
(* height updated.                                                            *)
Mk(k, l, r) ==
  [start |-> k.start, end |-> k.end, free |-> k.free, left |-> l, right |-> r,
   height |-> Max(l.height, r.height) + 1]

RECURSIVE Contents(_)
Contents(t) ==
  IF t \in {Nil, Failed} THEN {}
  ELSE Contents(t.left) \union Contents(t.right)
         \union {[start |-> t.start, end |-> t.end, free |-> t.free]}

(* The derived order of RangeInclusive. *)
Same(a, b) == a.start = b.start /\ a.end = b.end

Before(a, b) == a.start < b.start \/ (a.start = b.start /\ a.end < b.end)

--------------------------------------------------------------------------------
RotateLeft(t) == Mk(t.right, Mk(t, t.left, t.right.left), t.right.right)

RotateRight(t) == Mk(t.left, t.left.left, Mk(t, t.left.right, t.right))

(* Mutant: never a double rotation. *)
RotateLeftSuccessor_Single(t) == RotateRight(t)

RotateLeftSuccessor(t) ==
  IF t.left.left.height < t.left.right.height
  THEN RotateRight(Mk(t, RotateLeft(t.left), t.right))
  ELSE RotateRight(t)

RotateRightSuccessor(t) ==
  IF t.right.left.height > t.right.right.height
  THEN RotateLeft(Mk(t, t.left, RotateRight(t.right)))
  ELSE RotateLeft(t)

(* InnerNode::rotate; a difference of more than two is unreachable!(). *)
Rotate(t) ==
  LET diff == t.left.height - t.right.height
  IN IF diff \in -1..1 THEN t
     ELSE IF diff = 2 THEN RotateLeftSuccessor(t)
     ELSE IF diff = -2 THEN RotateRightSuccessor(t)
     ELSE Failed

RECURSIVE Insert(_, _)
Insert(t, k) ==
  LET child == IF Before(t, k) THEN Insert(t.right, k) ELSE Insert(t.left, k)
  IN IF t = Failed THEN Failed
     ELSE IF t = Nil THEN Mk(k, Nil, Nil)
     ELSE IF t.height + 1 > MaxHeight \/ ~Disjoint(t, k) THEN Failed
     ELSE IF child = Failed THEN Failed
     ELSE IF Before(t, k) THEN Rotate(Mk(t, t.left, child))
     ELSE Rotate(Mk(t, child, t.right))

(* get_new_root: the least node of a tree, and the tree without it. *)
RECURSIVE GetNewRoot(_)
GetNewRoot(t) ==
  IF t.left = Nil THEN [min |-> t, rest |-> t.right]
  ELSE LET sub == GetNewRoot(t.left)
       IN [min |-> sub.min, rest |-> Rotate(Mk(t, sub.rest, t.right))]

(* Mutant: what is left of the right subtree is forgotten. *)
CombineSubtrees_NoRest(l, r) == Rotate(Mk(GetNewRoot(r).min, l, Nil))

CombineSubtrees(l, r) ==
  LET sub == GetNewRoot(r) IN Rotate(Mk(sub.min, l, sub.rest))

DeleteRoot(t) ==
  IF t.left = Nil THEN t.right
  ELSE IF t.right = Nil THEN t.left
  ELSE CombineSubtrees(t.left, t.right)

RECURSIVE Delete(_, _)
Delete(t, k) ==
  IF Same(t, k) THEN DeleteRoot(t)
  ELSE IF Before(t, k)
  THEN IF t.right = Nil THEN t ELSE Rotate(Mk(t, t.left, Delete(t.right, k)))
  ELSE IF t.left = Nil THEN t ELSE Rotate(Mk(t, Delete(t.left, k), t.right))

RECURSIVE MarkAsAllocated(_, _)
MarkAsAllocated(t, k) ==
  IF Same(t, k) THEN [t EXCEPT !.free = FALSE]
  ELSE IF Before(t, k) THEN [t EXCEPT !.right = MarkAsAllocated(t.right, k)]
  ELSE [t EXCEPT !.left = MarkAsAllocated(t.left, k)]

RECURSIVE Search(_, _)
Search(t, k) ==
  IF t = Nil THEN FALSE
  ELSE IF Same(t, k) THEN TRUE
  ELSE IF Before(t, k) THEN Search(t.right, k) ELSE Search(t.left, k)

RECURSIVE SearchSuperset(_, _, _)
SearchSuperset(t, s, e) ==
  IF t = Nil THEN Nil
  ELSE IF Contains(t, s, e) THEN t
  ELSE IF e < t.start THEN SearchSuperset(t.left, s, e)
  ELSE SearchSuperset(t.right, s, e)

RECURSIVE FirstMatch(_, _, _)
FirstMatch(t, size, align) ==
  IF t = Nil THEN Nil
  ELSE LET l == FirstMatch(t.left, size, align)
       IN IF l # Nil THEN l
          ELSE IF FirstSlot(t, size, align) # {} THEN t
          ELSE FirstMatch(t.right, size, align)

RECURSIVE LastMatch(_, _, _)
LastMatch(t, size, align) ==
  IF t = Nil THEN Nil
  ELSE LET r == LastMatch(t.right, size, align)
       IN IF r # Nil THEN r
          ELSE IF LastSlot(t, size, align) # {} THEN t
          ELSE LastMatch(t.left, size, align)

FindCandidate(size, align, policy, addr) ==
  IF policy = "first" THEN FirstMatch(root, size, align)
  ELSE IF policy = "last" THEN LastMatch(root, size, align)
  ELSE IF addr + 1 <= MaxAddr THEN SearchSuperset(root, addr, addr + 1)
  ELSE Nil

--------------------------------------------------------------------------------
TreeInit ==
  /\ Init
  /\ root = Mk(Node(Base, End, TRUE), Nil, Nil)

InsertIf(cond, t, k) == IF cond THEN Insert(t, k) ELSE t

(* Mutant: the rest of the node behind the slot is lost. *)
TreeAllocate_NoTail(size, align, policy, addr) ==
  LET x == FindCandidate(size, align, policy, addr)
  IN /\ x # Nil
     /\ \E s \in Slot(x, size, align, policy, addr) :
          LET e    == s + size - 1
              del  == Delete(root, x)
              head == InsertIf(s > x.start, del, Node(x.start, s - 1, TRUE))
              slot == Insert(head, Node(s, e, FALSE))
          IN /\ Grants(x, s, size)
             /\ root' = IF s = x.start /\ RangeLen(x) = size
                        THEN MarkAsAllocated(root, x)
                        ELSE slot
             /\ nodes' = Contents(root')
             /\ owned' = owned \union {Range(s, e)}

(* IntervalTree::allocate: mark the node, or delete it and insert its pieces. *)
TreeAllocate(size, align, policy, addr) ==
  LET x == FindCandidate(size, align, policy, addr)
  IN /\ x # Nil
     /\ \E s \in Slot(x, size, align, policy, addr) :
          LET e    == s + size - 1
              del  == Delete(root, x)
              head == InsertIf(s > x.start, del, Node(x.start, s - 1, TRUE))
              slot == Insert(head, Node(s, e, FALSE))
          IN /\ Grants(x, s, size)
             /\ root' = IF s = x.start /\ RangeLen(x) = size
                        THEN MarkAsAllocated(root, x)
                        ELSE InsertIf(e < x.end, slot, Node(e + 1, x.end, TRUE))
             /\ nodes' = Contents(root')
             /\ owned' = owned \union {Range(s, e)}

(* Mutant: the state of the neighbour is not looked at. *)
MergedStart_AnyState(t, k) ==
  LET l == SearchSuperset(t, k.start - 2, k.start - 1)
  IN IF k.start > 0 /\ l # Nil THEN l.start ELSE k.start

(* The start of the free node left of k in tree t, the end of the one on its  *)
(* right.                                                                     *)
MergedStart(t, k) ==
  LET l == SearchSuperset(t, k.start - 2, k.start - 1)
  IN IF k.start > 0 /\ l # Nil /\ l.free THEN l.start ELSE k.start

MergedEnd(t, k) ==
  LET r == SearchSuperset(t, k.end + 1, k.end + 2)
  IN IF k.end < MaxAddr /\ r # Nil /\ r.free THEN r.end ELSE k.end

(* IntervalTree::free. *)
TreeFree(k) ==
  /\ Search(root, k)
  /\ owned' = owned \ {Key(k)}
  /\ LET del == Delete(root, k)
         s   == MergedStart(del, k)
         e   == MergedEnd(del, k)
         noL == IF s < k.start THEN Delete(del, Range(s, k.start - 1)) ELSE del
         noR == IF e > k.end THEN Delete(noL, Range(k.end + 1, e)) ELSE noL
     IN root' = IF NeighboursExist(k)
                THEN Insert(noR, Node(s, e, TRUE))
                ELSE del
  /\ nodes' = Contents(root')

TreeNext ==
  \/ \E size \in Sizes, align \in Aligns, policy \in Policies, addr \in Addrs :
       /\ Asks(size, align, policy, addr)
       /\ TreeAllocate(size, align, policy, addr)
  \/ \E k \in nodes : (FreeUnowned \/ ~k.free) /\ TreeFree(k)

TreeSpec == TreeInit /\ [][TreeNext]_treeVars

--------------------------------------------------------------------------------
RECURSIVE Sound(_)
Sound(t) ==
  \/ t = Nil
  \/ /\ t # Failed
     /\ Sound(t.left) /\ Sound(t.right)
     /\ t.left.height - t.right.height \in -1..1
     /\ t.height = Max(t.left.height, t.right.height) + 1
     /\ \A k \in Contents(t.left) : k.end < t.start
     /\ \A k \in Contents(t.right) : t.end < k.start

(* The subtrees of every node differ in height by at most one, its cached     *)
(* height is right, and the keys of the tree are in order: rotate never       *)
(* meets its unreachable!() and insert never refuses a piece.                 *)
Balanced == root # Failed /\ Sound(root)

Nodes == INSTANCE AddressAllocator

(* Every call does to the tree what AddressAllocator says it does to the set  *)
(* of its nodes: searches find the node they should, and no rotation loses,   *)
(* doubles or reorders one.                                                   *)
ImplementsNodes == Nodes!Spec
================================================================================
