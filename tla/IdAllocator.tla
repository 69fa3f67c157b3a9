----------------------------- MODULE IdAllocator ------------------------------
(* IdAllocator of vm-allocator/src/id_allocator.rs: ids of a range are given  *)
(* out, taken back and given out again.                                       *)
EXTENDS Integers

CONSTANT MaxId      \* u32::MAX

ASSUME MaxIdAssumption == MaxId \in Nat

None == -1

U32 == 0..MaxId

VARIABLES
  range_base, range_end,
  next_id,     \* the first id that was never given out, None after u32::MAX
  freed_ids,   \* ids to give out again
  holders      \* history: how many clients hold an id

idVars == <<range_base, range_end, next_id, freed_ids, holders>>

IdInRange(id) == range_base <= id /\ id <= range_end

IdInit ==
  /\ range_base \in U32 /\ range_end \in U32 /\ range_base <= range_end
  /\ next_id = range_base
  /\ freed_ids = {}
  /\ holders = [id \in U32 |-> 0]

--------------------------------------------------------------------------------
GiveOut(id) == holders' = [holders EXCEPT ![id] = @ + 1]

(* Mutant: the other freed ids are dropped. *)
Reuse_Drop ==
  \E id \in freed_ids :
    /\ \A other \in freed_ids : id <= other
    /\ freed_ids' = {}
    /\ GiveOut(id)
    /\ UNCHANGED <<range_base, range_end, next_id>>

(* allocate_id with a freed id at hand: the least one. *)
Reuse ==
  \E id \in freed_ids :
    /\ \A other \in freed_ids : id <= other
    /\ freed_ids' = freed_ids \ {id}
    /\ GiveOut(id)
    /\ UNCHANGED <<range_base, range_end, next_id>>

(* allocate_id without one. *)
AllocateNext ==
  /\ freed_ids = {}
  /\ next_id # None
  /\ next_id <= range_end
  /\ next_id' = IF next_id = MaxId THEN None ELSE next_id + 1
  /\ GiveOut(next_id)
  /\ UNCHANGED <<range_base, range_end, freed_ids>>

(* Mutant: the next id counts as one given out. *)
FreeId_Next(id) ==
  /\ IdInRange(id)
  /\ next_id # None => id <= next_id
  /\ id \notin freed_ids
  /\ freed_ids' = freed_ids \union {id}
  /\ holders' = [holders EXCEPT ![id] = IF @ = 0 THEN 0 ELSE @ - 1]
  /\ UNCHANGED <<range_base, range_end, next_id>>

(* free_id that succeeds; the caller need not hold the id. *)
FreeId(id) ==
  /\ IdInRange(id)
  /\ next_id # None => id < next_id
  /\ id \notin freed_ids
  /\ freed_ids' = freed_ids \union {id}
  /\ holders' = [holders EXCEPT ![id] = IF @ = 0 THEN 0 ELSE @ - 1]
  /\ UNCHANGED <<range_base, range_end, next_id>>

IdNext ==
  \/ Reuse
  \/ AllocateNext
  \/ \E id \in U32 : FreeId(id)

IdSpec == IdInit /\ [][IdNext]_idVars

(* Mutant: None means that nothing was given out. *)
IsAllocated_None(id) ==
  /\ IdInRange(id)
  /\ id \notin freed_ids
  /\ id < next_id

(* is_allocated. *)
IsAllocated(id) ==
  /\ IdInRange(id)
  /\ id \notin freed_ids
  /\ next_id # None => id < next_id

--------------------------------------------------------------------------------
(* The range is one of u32 and the freed ids belong to it; a counter past     *)
(* u32::MAX is None.                                                          *)
IdTypeOK ==
  /\ range_base \in U32 /\ range_end \in U32 /\ range_base <= range_end
  /\ next_id \in U32 \union {None}
  /\ freed_ids \subseteq range_base..range_end
  /\ holders \in [U32 -> Nat]

(* Whatever clients free, in whatever order, free_id never lets an id that    *)
(* somebody holds be given to a second client.                                *)
NoIdTwice == \A id \in U32 : holders[id] <= 1

(* "An id is considered allocated if it has been handed out by allocate_id    *)
(* and not since released by free_id", at the end of u32 as well.             *)
IsAllocatedExact == \A id \in U32 : IsAllocated(id) <=> holders[id] >= 1

(* allocate_id fails only when every id of the range is held.                 *)
FailsOnlyWhenFull ==
  freed_ids = {} /\ (next_id = None \/ next_id > range_end) =>
    \A id \in range_base..range_end : holders[id] >= 1
================================================================================
