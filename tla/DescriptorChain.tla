---- MODULE DescriptorChain ----
(***************************************************************************)
(* DescriptorChain of virtio-queue: the iterator a device uses to walk the *)
(* descriptors of a request.  The descriptors are in guest memory, which   *)
(* the guest may change at any time and which may fail to be read, so the  *)
(* descriptor a step reads is any descriptor at all.                       *)
(***************************************************************************)
EXTENDS Integers, Sequences

CONSTANTS
    QueueSize, \* descriptors of the queue's table
    MaxTable,  \* most descriptors of an indirect table (u16::MAX in the code)
    MaxBytes,  \* most bytes of a chain (u32::MAX in the code)
    Lens       \* descriptor lengths the guest uses

ASSUME ChainAssumption ==
    /\ QueueSize \in Nat
    /\ MaxTable \in Nat
    /\ MaxBytes \in Nat
    /\ Lens \subseteq Nat

VARIABLES
    chain, \* the iterator: ttl, next, size, indirect, yielded
    seen   \* number of the descriptors it has yielded, and the bytes in them

chainVars == <<chain, seen>>

\* A descriptor as read from memory; next is -1 when the flag is not set.
\* It names a descriptor of the table it is in, or one past every table.
PastTables == IF QueueSize > MaxTable THEN QueueSize ELSE MaxTable
Descriptor == [len : Lens, write : BOOLEAN, next : -1 .. PastTables]
HasNext(d) == d.next >= 0

\* Bytes of the first i descriptors or slices, given their lengths, for each i.
PartSums(data) ==
    LET sum[i \in 0 .. Len(data)] == IF i = 0 THEN 0 ELSE sum[i - 1] + data[i] IN sum

\* with_ttl; the head index comes from the available ring, unchecked.
NewChain(head) ==
    [ttl |-> QueueSize, next |-> head, size |-> QueueSize, indirect |-> FALSE, yielded |-> 0]

NoneSeen == [count |-> 0, bytes |-> 0]

CanRead(c) == c.ttl > 0 /\ c.next < c.size

\* Mutant: the bytes are counted afresh in the indirect table.
SwitchToAfresh(c, n) == [c EXCEPT !.size = n, !.next = 0, !.ttl = n, !.indirect = TRUE, !.yielded = 0]

\* switch_to_indirect_table
SwitchTo(c, n) == [c EXCEPT !.size = n, !.next = 0, !.ttl = n, !.indirect = TRUE]

YieldFrom(c, d) ==
    [c EXCEPT !.yielded = @ + d.len,
              !.next = IF HasNext(d) THEN d.next ELSE @,
              !.ttl = IF HasNext(d) THEN @ - 1 ELSE 0]

StartChain(head) ==
    /\ chain' = NewChain(head)
    /\ seen' = NoneSeen

\* next() reads an indirect descriptor with a table of n entries and goes on
\* in that table; a second one, or a table of a wrong size, ends the call.
Switch(n) ==
    /\ CanRead(chain)
    /\ ~chain.indirect
    /\ chain' = SwitchTo(chain, n)
    /\ UNCHANGED seen

\* next() returns d.
Yield(d) ==
    /\ CanRead(chain)
    /\ chain.yielded + d.len <= MaxBytes
    /\ chain' = YieldFrom(chain, d)
    /\ seen' = [count |-> seen.count + 1, bytes |-> seen.bytes + d.len]

\* next() returns None: the end, or any failure; nothing changes, so a later
\* call may well return a descriptor.
NoMore == UNCHANGED chainVars

\* What a device, whichever it is, may do with its chains.
ChainInit ==
    /\ \E head \in Nat : chain = NewChain(head)
    /\ seen = NoneSeen

ChainNext ==
    \/ \E head \in Nat : StartChain(head)
    \/ \E n \in 0 .. MaxTable : Switch(n)
    \/ \E d \in Descriptor : Yield(d)

ChainSpec == ChainInit /\ [][ChainNext]_chainVars

-----------------------------------------------------------------------------
\* However the guest links and rewrites the descriptors, even in a loop, a
\* device sees at most one queue and one indirect table of them, and no more
\* bytes than the chain may hold (ttl, is_indirect and yielded_bytes).
ChainBounded ==
    /\ seen.count <= QueueSize + MaxTable
    /\ seen.bytes <= MaxBytes

====
