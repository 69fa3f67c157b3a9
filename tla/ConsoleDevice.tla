---- MODULE ConsoleDevice ----
(***************************************************************************)
(* virtio-console: the input buffer, which other threads fill and clear,   *)
(* and the two handlers of the device thread.  process_receiveq_chain      *)
(* holds the lock of the buffer until it returns.  The bytes of the input  *)
(* are numbered in the order in which they were accepted.                  *)
(***************************************************************************)
EXTENDS DescriptorChain, Functions

CONSTANTS
    Capacity, \* of the input buffer
    MaxInput  \* bound on the bytes ever accepted

ASSUME ConsoleAssumption == Capacity \in Nat /\ MaxInput \in Nat

VARIABLES
    input,     \* input_buffer
    accepted,  \* number of bytes accepted by enqueue_data
    given,     \* bytes of chains returned with Ok, in order
    lost,      \* bytes cleared, or taken by a chain returned with an error
    handler    \* the device thread: pc, the bytes put in this chain, bytes due and out

consoleVars == <<input, accepted, given, lost, handler>>

AtRest == [pc |-> "idle", put |-> <<>>, due |-> 0, out |-> 0]
LockFree == handler.pc # "receive"

ConsoleInit ==
    /\ input = <<>>
    /\ accepted = 0
    /\ given = <<>>
    /\ lost = {}
    /\ handler = AtRest

\* enqueue_data: all of it or, past the capacity, nothing.
EnqueueData(n) ==
    /\ LockFree
    /\ Len(input) + n <= Capacity
    /\ accepted + n <= MaxInput
    /\ input' = input \o [i \in 1 .. n |-> accepted + i]
    /\ accepted' = accepted + n
    /\ UNCHANGED <<given, lost, handler, chainVars>>

ClearInputBuffer ==
    /\ LockFree
    /\ input' = <<>>
    /\ lost' = lost \cup Range(input)
    /\ UNCHANGED <<accepted, given, handler, chainVars>>

\* process_receiveq_chain returns Ok(0) at once when there is no input.
StartReceive(head) ==
    /\ handler.pc = "idle"
    /\ StartChain(head)
    /\ handler' = IF input = <<>> THEN AtRest ELSE [AtRest EXCEPT !.pc = "receive"]
    /\ UNCHANGED <<input, accepted, given, lost>>

ReceiveOk(put) == given' = given \o put /\ UNCHANGED lost
ReceiveErr(put) == lost' = lost \cup Range(put) /\ UNCHANGED given

\* Mutant: a chunk that is all of the input is copied, not drained.
DrainKeepsLast(n) == IF n = Len(input) THEN input ELSE SubSeq(input, n + 1, Len(input))

\* What input_buffer.drain(..n) leaves.
Drain(n) == SubSeq(input, n + 1, Len(input))

\* One turn of the loop: bytes are drained, then written; when that fails
\* they are gone, with those already in the chain.
ReceiveDescriptor(d, written) ==
    LET n == IF ~d.write THEN 0 ELSE IF d.len < Len(input) THEN d.len ELSE Len(input)
        put == handler.put \o SubSeq(input, 1, n)
        rest == Drain(n)
    IN  /\ handler.pc = "receive"
        /\ Yield(d)
        /\ input' = rest
        /\ IF ~d.write \/ ~written THEN handler' = AtRest /\ ReceiveErr(put)
           ELSE IF rest = <<>> THEN handler' = AtRest /\ ReceiveOk(put)
           ELSE handler' = [handler EXCEPT !.put = put] /\ UNCHANGED <<given, lost>>
        /\ UNCHANGED accepted

\* The chain is over; the rest of the input waits for the next one.
ReceiveEnds ==
    /\ handler.pc = "receive"
    /\ NoMore
    /\ handler' = AtRest
    /\ ReceiveOk(handler.put)
    /\ UNCHANGED <<input, accepted>>

-----------------------------------------------------------------------------
(* process_transmitq_chain.                                                *)

StartTransmit(head) ==
    /\ handler.pc = "idle"
    /\ StartChain(head)
    /\ handler' = [AtRest EXCEPT !.pc = "transmit"]
    /\ UNCHANGED <<input, accepted, given, lost>>

\* k bytes of a descriptor go to the sink.  write_volatile_to hands it every
\* slice of the descriptor as a whole, and stops before the end only where the
\* descriptor runs into memory that is not there; the count it returns is not
\* looked at.  When the first byte is not there, or the sink fails a write or
\* the flush, the handler returns an error.
TransmitDescriptor(d, k, failed) ==
    /\ handler.pc = "transmit"
    /\ Yield(d)
    /\ k <= d.len
    /\ d.len > 0 /\ k = 0 => d.write \/ failed
    /\ handler' = IF d.write THEN [handler EXCEPT !.pc = "error"]
                  ELSE [handler EXCEPT !.pc = IF failed THEN "error" ELSE @,
                                       !.due = @ + d.len, !.out = @ + k]
    /\ UNCHANGED <<input, accepted, given, lost>>

\* The handler returns Ok at the end of the chain.
TransmitEnds ==
    /\ handler.pc = "transmit"
    /\ NoMore
    /\ handler' = [handler EXCEPT !.pc = "ok"]
    /\ UNCHANGED <<input, accepted, given, lost>>

Return ==
    /\ handler.pc \in {"ok", "error"}
    /\ handler' = AtRest
    /\ UNCHANGED <<input, accepted, given, lost, chainVars>>

ConsoleNext ==
    \/ \E n \in 1 .. Capacity : EnqueueData(n)
    \/ ClearInputBuffer
    \/ \E head \in 0 .. QueueSize : StartReceive(head) \/ StartTransmit(head)
    \/ \E d \in Descriptor, written \in BOOLEAN : ReceiveDescriptor(d, written)
    \/ ReceiveEnds
    \/ \E d \in Descriptor, k \in Lens, failed \in BOOLEAN : TransmitDescriptor(d, k, failed)
    \/ TransmitEnds
    \/ Return
    \/ \E n \in 0 .. MaxTable : handler.pc \in {"receive", "transmit"} /\ Switch(n) /\ UNCHANGED consoleVars

ConsoleSpec == ChainInit /\ ConsoleInit /\ [][ConsoleNext]_<<chainVars, consoleVars>>

-----------------------------------------------------------------------------
\* Whatever the other threads enqueue or clear between two chains, and
\* wherever a chain ends or fails, the guest is given the input in the order
\* in which it came, no byte twice; a byte that it will never be given was
\* cleared or was in a chain that failed; and the buffer keeps its capacity
\* (enqueue_data, clear_input_buffer and process_receiveq_chain).
InputInOrder ==
    LET kept == given \o handler.put \o input
    IN  /\ \A i \in 1 .. Len(kept) - 1 : kept[i] < kept[i + 1]
        /\ Range(kept) = (1 .. accepted) \ lost
        /\ Len(input) <= Capacity

\* process_transmitq_chain returns Ok only when the sink has the bytes of
\* every descriptor, one that lies partly outside of memory included: "Read
\* data from a `desc_chain` of the transmit queue and write it to the output
\* sink."
TransmitComplete == handler.pc = "ok" => handler.out = handler.due

====
