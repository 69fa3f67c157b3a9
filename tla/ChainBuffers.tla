---- MODULE ChainBuffers ----
(***************************************************************************)
(* Reader and Writer of virtio-queue: the buffers of the readable, or of   *)
(* the writable, descriptors of a chain as one stream of bytes.  A slice   *)
(* is an interval of positions of that stream.                             *)
(***************************************************************************)
EXTENDS DescriptorChain

CONSTANT MaxAsked \* most bytes asked for in one call

ASSUME BuffersAssumption == MaxAsked \in Nat

VARIABLES
    writer, \* whether this is a Writer
    bufs,   \* DescriptorChainConsumer::buffers of the reader, and of the one split off
    eaten,  \* bytes_consumed of each
    got,    \* positions each has handed out, in order
    stream, \* "building", "ready" or "failed"
    total,  \* bytes in the slices so far
    cut,    \* where the reader was split, or -1
    turned  \* while building: a writable descriptor has been met

bufferVars == <<writer, bufs, eaten, got, stream, total, cut, turned>>

Both == {"self", "other"}

BuffersInit ==
    /\ writer \in BOOLEAN
    /\ bufs = [x \in Both |-> <<>>]
    /\ eaten = [x \in Both |-> 0]
    /\ got = [x \in Both |-> <<>>]
    /\ stream = "building"
    /\ total = 0
    /\ cut = -1
    /\ turned = FALSE

\* Where each slice ends, in bytes from the front; Ends(slices)[0] is 0.
SliceLens(slices) == [i \in 1 .. Len(slices) |-> slices[i].len]
Ends(slices) == PartSums(SliceLens(slices))
Available(slices) == Ends(slices)[Len(slices)]

\* vs.offset(k) and vs.subslice(0, k)
DropBytes(s, k) == [from |-> s.from + k, len |-> s.len - k]
TakeBytes(s, k) == [from |-> s.from, len |-> k]

\* Whole slices at the front among the first k bytes: the next slice, if
\* there is one, is longer than the bytes that remain.
WholeSlices(slices, k) ==
    CHOOSE w \in 0 .. Len(slices) :
        /\ Ends(slices)[w] <= k
        /\ w < Len(slices) => k < Ends(slices)[w + 1]

\* The slices left when k bytes at the front are used, and those k bytes.
RestAfter(slices, k) ==
    LET w == WholeSlices(slices, k)
    IN  [i \in 1 .. Len(slices) - w |->
            IF i = 1 THEN DropBytes(slices[w + 1], k - Ends(slices)[w]) ELSE slices[w + i]]
FirstBytes(slices, k) ==
    LET w == WholeSlices(slices, k)
        rem == k - Ends(slices)[w]
    IN  [i \in 1 .. (IF rem > 0 THEN w + 1 ELSE w) |->
            IF i = w + 1 THEN TakeBytes(slices[w + 1], rem) ELSE slices[i]]

\* The positions of the bytes in the slices, byte by byte.
Positions(slices) ==
    [p \in 1 .. Available(slices) |->
        LET w == WholeSlices(slices, p - 1) IN slices[w + 1].from + (p - 1 - Ends(slices)[w])]

-----------------------------------------------------------------------------
\* Reader::new or Writer::new: a descriptor of the wanted kind adds its
\* slices (two, when it spans two regions), another one is passed over
\* wherever in the chain it is.
AddSlice(slices, from, len) ==
    IF len > 0 THEN Append(slices, [from |-> from, len |-> len]) ELSE slices

AddDescriptor(d, first) ==
    /\ stream = "building"
    /\ Yield(d)
    /\ IF d.write = writer
       THEN /\ bufs' = [bufs EXCEPT !["self"] = AddSlice(AddSlice(@, total, first), total + first, d.len - first)]
            /\ total' = total + d.len
       ELSE UNCHANGED <<bufs, total>>
    /\ turned' = (turned \/ d.write)
    /\ UNCHANGED <<writer, eaten, got, stream, cut>>

\* The chain is over, or the memory behind a descriptor is not there.
Built ==
    /\ stream = "building"
    /\ stream' \in {"ready", "failed"}
    /\ turned' = FALSE
    /\ NoMore
    /\ UNCHANGED <<writer, bufs, eaten, got, total, cut>>

\* read() and write(): consume() offers the slices that hold the n bytes
\* asked for, the copy uses what fits, and the slices used up are popped.
Consume(x, n) ==
    LET k == IF n < Available(bufs[x]) THEN n ELSE Available(bufs[x])
    IN  /\ stream = "ready"
        /\ k > 0
        /\ got' = [got EXCEPT ![x] = @ \o Positions(FirstBytes(bufs[x], k))]
        /\ bufs' = [bufs EXCEPT ![x] = RestAfter(@, k)]
        /\ eaten' = [eaten EXCEPT ![x] = @ + k]
        /\ UNCHANGED <<chainVars, writer, stream, total, cut, turned>>

\* Mutant: the slice the cut falls in goes to the other half whole.
SplitAtSlice(offset) ==
    /\ stream = "ready"
    /\ cut = -1
    /\ offset <= Available(bufs["self"])
    /\ bufs' = [self |-> FirstBytes(bufs["self"], offset),
                other |-> LET w == WholeSlices(bufs["self"], offset)
                         IN  SubSeq(bufs["self"], w + 1, Len(bufs["self"]))]
    /\ cut' = eaten["self"] + offset
    /\ UNCHANGED <<chainVars, writer, eaten, got, stream, total, turned>>

\* split_at: refused when offset is past the end.
SplitAt(offset) ==
    /\ stream = "ready"
    /\ cut = -1
    /\ offset <= Available(bufs["self"])
    /\ bufs' = [self |-> FirstBytes(bufs["self"], offset), other |-> RestAfter(bufs["self"], offset)]
    /\ cut' = eaten["self"] + offset
    /\ UNCHANGED <<chainVars, writer, eaten, got, stream, total, turned>>

\* Another reader or writer, on the next chain.
NextReader(head, w) ==
    /\ stream # "building"
    /\ writer' = w
    /\ bufs' = [x \in Both |-> <<>>]
    /\ eaten' = [x \in Both |-> 0]
    /\ got' = [x \in Both |-> <<>>]
    /\ stream' = "building" /\ total' = 0 /\ cut' = -1 /\ turned' = FALSE
    /\ StartChain(head)

BuffersNext ==
    \/ \E head \in 0 .. QueueSize, w \in BOOLEAN : NextReader(head, w)
    \/ \E d \in Descriptor : \E first \in 0 .. d.len : AddDescriptor(d, first)
    \/ \E n \in 0 .. MaxTable : stream = "building" /\ Switch(n) /\ UNCHANGED bufferVars
    \/ Built
    \/ \E x \in Both, n \in 1 .. MaxAsked : Consume(x, n)
    \/ \E offset \in 0 .. MaxBytes : SplitAt(offset)

BuffersSpec ==
    /\ ChainInit /\ BuffersInit
    /\ [][BuffersNext]_<<chainVars, bufferVars>>

-----------------------------------------------------------------------------
\* Every byte of the descriptors is handed out once and in order, by the half
\* it belongs to, whatever the sizes asked for and wherever the split falls in
\* a slice: what a half gave and what it still holds are its part of the
\* stream, and bytes_consumed counts the first (consume and split_at).
StreamExact ==
    LET end == IF cut = -1 THEN total ELSE cut
        half(lo, hi) == [i \in 1 .. hi - lo |-> lo + i - 1]
    IN  stream = "ready" =>
          /\ got["self"] \o Positions(bufs["self"]) = half(0, end)
          /\ got["other"] \o Positions(bufs["other"]) = half(end, total)
          /\ \A x \in Both : eaten[x] = Len(got[x])

\* "Reader will skip iterating over descriptor chain when first writable
\* descriptor is encountered" and "Writer will start iterating the descriptors
\* from the first writable one and will assume that all following descriptors
\* are writable" (descriptor_utils.rs): from the first writable descriptor on
\* a Reader takes nothing and a Writer everything.
FirstWritableDivides ==
    [][stream = "building" /\ stream' = "building" /\ turned =>
         total' - total = IF writer THEN seen'.bytes - seen.bytes ELSE 0]_<<chainVars, bufferVars>>

====
