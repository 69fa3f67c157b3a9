---- MODULE BlkDevice ----
(***************************************************************************)
(* virtio-blk: Request::parse on a descriptor chain and the execution of   *)
(* the request on the backing file by StdIoBackend.  Reads, writes, holes  *)
(* and zeroes may fail half way; the disk is a sequence of bytes whose     *)
(* length need not be a multiple of the sector.                            *)
(***************************************************************************)
EXTENDS DescriptorChain

CONSTANTS
    SectorSize,  \* bytes of a sector (512 in the code)
    SegmentLen,  \* bytes of a discard or write-zeroes segment (16 in the code)
    IdBytes,     \* length of the device id (20 in the code)
    DiskBytes,   \* length of the backing file
    Wide,        \* 2^64: offsets are kept modulo this
    Sectors,     \* sectors the guest asks for
    MaxSegment,  \* most sectors of a discard or write-zeroes segment
    FeatureSets  \* negotiated features: subsets of {"ro", "flush", "discard", "zeroes"}

\* The length of the file is a u64, and so is every offset.
ASSUME BlkAssumption ==
    /\ SectorSize \in Nat \ {0}
    /\ SegmentLen \in Nat \ {0}
    /\ IdBytes \in Nat
    /\ DiskBytes \in Nat /\ Wide \in Nat /\ DiskBytes < Wide
    /\ Sectors \subseteq Nat
    /\ MaxSegment \in Nat

VARIABLES
    blk,  \* the request under way
    disk  \* what each byte of the file is: Old, Zero or a byte of the request

blkVars == <<blk, disk>>

\* A byte as it was, a byte zeroed; n >= 0 is byte n of the data of the request.
Old == -2
Zero == -1

RequestTypes == {"In", "Out", "Flush", "GetDeviceID", "Discard", "WriteZeroes", "Unsupported"}
NumSectors == DiskBytes \div SectorSize

TotalLen(r) == PartSums(r.data)[Len(r.data)]

\* sector.checked_shl(9): only the size of the shift is checked.
ByteOffset(sector) == (sector * SectorSize) % Wide

\* The byte a sector starts at, whatever the width of an offset.
Place(sector) == sector * SectorSize

\* Mutant: the start alone is compared with the capacity.
CheckAccessStart(count, sector) == sector <= NumSectors

\* check_access: an addition that overflows is refused too.
CheckAccess(count, sector) == count + sector < Wide /\ count + sector <= NumSectors

\* check_request
CheckRequest(type, features) ==
    /\ "ro" \in features => type = "In"
    /\ type = "Flush" => "flush" \in features
    /\ type = "Discard" => "discard" \in features
    /\ type = "WriteZeroes" => "zeroes" \in features

Request(features, hasId) ==
    [pc |-> "head", features |-> features, hasId |-> hasId, type |-> "none", sector |-> 0,
     data |-> <<>>, at |-> 1, left |-> 0, pos |-> 0, count |-> 0, toMem |-> 0,
     read |-> <<>>, target |-> {}, status |-> "none", used |-> -1]

Untouched == [i \in 0 .. DiskBytes - 1 |-> Old]

BlkInit ==
    /\ \E features \in FeatureSets, hasId \in BOOLEAN : blk = Request(features, hasId)
    /\ disk = Untouched

-----------------------------------------------------------------------------
(* Request::parse.                                                         *)

Refused == [blk EXCEPT !.pc = "refused"]

\* The head of the chain holds the header: the type and the sector.
ParseHead(d, type, sector) ==
    /\ blk.pc = "head"
    /\ Yield(d)
    /\ blk' = IF d.write \/ (type = "Flush" /\ sector # 0) THEN Refused
              ELSE [blk EXCEPT !.pc = "data", !.type = type, !.sector = sector]
    /\ UNCHANGED disk

\* Descriptors with a successor are data, the last one is the status byte.
ParseNext(d) ==
    /\ blk.pc = "data"
    /\ Yield(d)
    /\ blk' = IF HasNext(d)
              THEN IF ~d.write /\ blk.type = "In" THEN Refused
                   ELSE [blk EXCEPT !.data = Append(@, d.len)]
              ELSE IF ~d.write \/ d.len < 1 THEN Refused
                   ELSE [blk EXCEPT !.pc = "execute"]
    /\ UNCHANGED disk

\* The chain is too short, or the header or the status is not in memory.
ParseFails ==
    /\ blk.pc \in {"head", "data"}
    /\ blk' = Refused
    /\ NoMore
    /\ UNCHANGED disk

-----------------------------------------------------------------------------
(* StdIoBackend::execute.                                                  *)

\* The end of execute: process_request adds the count to the status byte.
Ended(b, status, count) ==
    [b EXCEPT !.pc = "status", !.status = status, !.count = count]

\* Seek, then the checks that come before any byte is moved.
Execute ==
    LET total == TotalLen(blk)
        started == [blk EXCEPT !.pc = "move", !.pos = ByteOffset(blk.sector),
                               !.left = IF blk.data = <<>> THEN 0 ELSE Head(blk.data)]
        moving == blk.type \in {"In", "Out"}
    IN  /\ blk.pc = "execute"
        /\ blk' = CASE ~CheckRequest(blk.type, blk.features) ->
                         Ended(blk, IF "ro" \in blk.features THEN "ioerr" ELSE "unsupp", 0)
                    [] moving /\ total % SectorSize # 0 -> Ended(blk, "ioerr", 0)
                    [] moving /\ ~CheckAccess(total \div SectorSize, blk.sector) -> Ended(blk, "ioerr", 0)
                    [] blk.type = "In" /\ total > MaxBytes -> Ended(blk, "ioerr", 0)
                    [] blk.type = "GetDeviceID" /\ ~blk.hasId -> Ended(blk, "unsupp", 0)
                    [] blk.type = "GetDeviceID" /\ total # IdBytes -> Ended(blk, "ioerr", 0)
                    [] blk.type = "Unsupported" -> Ended(blk, "unsupp", 0)
                    [] blk.type = "Flush" -> Ended(blk, "ok", 0)
                    [] OTHER -> started
        /\ UNCHANGED <<chainVars, disk>>

\* The seek or the fsync fails.
ExecuteFails ==
    /\ blk.pc = "execute"
    /\ blk' = Ended(blk, "ioerr", 0)
    /\ UNCHANGED <<chainVars, disk>>

Moved(b, k) == [b EXCEPT !.at = @ + 1, !.pos = @ + k, !.count = @ + k, !.toMem = @ + k]

\* Data descriptor `at` is filled from the file, whose position moves, or
\* from the id, at the count of bytes so far.
ReadPart ==
    LET len == blk.data[blk.at]
        from == IF blk.type = "In" THEN blk.pos ELSE blk.count
    IN  /\ blk.pc = "move" /\ blk.at <= Len(blk.data)
        /\ blk.type \in {"In", "GetDeviceID"}
        /\ blk' = [Moved(blk, len) EXCEPT !.read = @ \o [i \in 1 .. len |-> from + i - 1]]
        /\ UNCHANGED <<chainVars, disk>>

\* Only k bytes of it are: a hole in the guest memory gives PartialBuffer,
\* whose bytes are counted; an error of the file hides them.
ReadPartFails(k, hole) ==
    /\ blk.pc = "move" /\ blk.at <= Len(blk.data)
    /\ blk.type \in {"In", "GetDeviceID"}
    /\ k < blk.data[blk.at]
    /\ blk.type = "GetDeviceID" => hole
    /\ blk' = [Ended(blk, "ioerr", blk.count + (IF hole THEN k ELSE 0)) EXCEPT !.toMem = @ + k]
    /\ UNCHANGED <<chainVars, disk>>

\* k bytes of the file from `from` on are zeroed, or hold the bytes of the
\* request from byte `first` on.
ZeroAt(from, k) ==
    [i \in DOMAIN disk |-> IF from <= i /\ i < from + k THEN Zero ELSE disk[i]]
StoreAt(from, k, first) ==
    [i \in DOMAIN disk |-> IF from <= i /\ i < from + k THEN first + (i - from) ELSE disk[i]]

\* A write request writes a data descriptor, or its first k bytes.
WritePart(k) ==
    LET len == blk.data[blk.at]
        first == PartSums(blk.data)[blk.at - 1]
    IN  /\ blk.pc = "move" /\ blk.at <= Len(blk.data)
        /\ blk.type = "Out"
        /\ k <= len
        /\ disk' = StoreAt(blk.pos, k, first)
        /\ blk' = [(IF k = len THEN [blk EXCEPT !.at = @ + 1] ELSE Ended(blk, "ioerr", 0))
                      EXCEPT !.pos = @ + k, !.target = @ \cup (blk.pos .. blk.pos + k - 1)]
        /\ UNCHANGED chainVars

\* One segment of a discard or write-zeroes request, read from guest memory:
\* n sectors at sector, with the unmap flag or with a reserved one.  hole tells
\* whether punch_hole works; zeroed is how far write_all_zeroes_at comes.
Segment(sector, n, flag, hole, zeroed) ==
    LET len == n * SectorSize
        at == ByteOffset(sector)
        next == [blk EXCEPT !.left = @ - SegmentLen]
        range == Place(sector) .. Place(sector) + len - 1
        allowed == flag = "none" \/ (flag = "unmap" /\ blk.type = "WriteZeroes")
        punch == blk.type = "Discard" \/ flag = "unmap"
    IN  /\ blk.pc = "move" /\ blk.at <= Len(blk.data)
        /\ blk.type \in {"Discard", "WriteZeroes"}
        /\ blk.data[blk.at] % SegmentLen = 0 /\ blk.left >= SegmentLen
        /\ UNCHANGED chainVars
        /\ IF ~allowed THEN blk' = Ended(blk, "unsupp", 0) /\ UNCHANGED disk
           ELSE IF ~CheckAccess(n, sector) THEN blk' = Ended(blk, "ioerr", 0) /\ UNCHANGED disk
           ELSE IF punch /\ hole
                THEN disk' = ZeroAt(at, len) /\ blk' = [next EXCEPT !.target = @ \cup range]
           ELSE IF blk.type = "Discard" THEN blk' = next /\ UNCHANGED disk
           ELSE /\ zeroed <= len
                /\ disk' = ZeroAt(at, zeroed)
                /\ blk' = [(IF zeroed = len THEN next ELSE Ended(blk, "ioerr", 0)) EXCEPT !.target = @ \cup range]

\* The next data descriptor of such a request, or one of a wrong length; or
\* a segment that is not in memory.
NextSegments ==
    /\ blk.pc = "move" /\ blk.at <= Len(blk.data)
    /\ blk.type \in {"Discard", "WriteZeroes"}
    /\ blk' \in IF blk.data[blk.at] % SegmentLen # 0 THEN {Ended(blk, "ioerr", 0)}
                ELSE IF blk.left >= SegmentLen THEN {Ended(blk, "ioerr", 0)}
                ELSE {[blk EXCEPT !.at = @ + 1,
                                  !.left = IF blk.at < Len(blk.data) THEN blk.data[blk.at + 1] ELSE 0]}
    /\ UNCHANGED <<chainVars, disk>>

AllMoved ==
    /\ blk.pc = "move" /\ blk.at > Len(blk.data)
    /\ blk' = Ended(blk, "ok", blk.count)
    /\ UNCHANGED <<chainVars, disk>>

\* process_request writes the status byte and reports the used length; when
\* the byte cannot be written it reports an error.
WriteStatus(ok) ==
    /\ blk.pc = "status"
    /\ blk' = IF ok THEN [blk EXCEPT !.pc = "done", !.toMem = @ + 1, !.used = blk.count + 1]
              ELSE Refused
    /\ UNCHANGED <<chainVars, disk>>

\* The device pops the next chain; what the disk holds by then is Old.
NextRequest(head) ==
    /\ blk.pc \in {"done", "refused"}
    /\ blk' = Request(blk.features, blk.hasId)
    /\ disk' = Untouched
    /\ StartChain(head)

BlkNext ==
    \/ \E head \in 0 .. QueueSize : NextRequest(head)
    \/ \E d \in Descriptor, type \in RequestTypes, sector \in Sectors : ParseHead(d, type, sector)
    \/ \E d \in Descriptor : ParseNext(d)
    \/ \E n \in 0 .. MaxTable : blk.pc \in {"head", "data"} /\ Switch(n) /\ UNCHANGED blkVars
    \/ ParseFails
    \/ Execute
    \/ ExecuteFails
    \/ ReadPart
    \/ \E k \in Lens, hole \in BOOLEAN : ReadPartFails(k, hole)
    \/ \E k \in Lens : WritePart(k)
    \/ \E sector \in Sectors, n \in 0 .. MaxSegment, flag \in {"none", "unmap", "reserved"},
          hole \in BOOLEAN, zeroed \in 0 .. MaxSegment * SectorSize : Segment(sector, n, flag, hole, zeroed)
    \/ NextSegments
    \/ AllMoved
    \/ \E ok \in BOOLEAN : WriteStatus(ok)

\* The block device on its own.
BlkSpec == ChainInit /\ BlkInit /\ [][BlkNext]_<<chainVars, blkVars>>

-----------------------------------------------------------------------------
\* The disk changes only where the request says, never past the sectors the
\* guest was told of and never when the device is read-only, even when the
\* request fails half way; a request that succeeds moved all of its bytes,
\* at its sector and in order, and is reported with the length it wrote to
\* memory.  The sector is the one the guest wrote, although the shift that
\* makes an offset of it may wrap (parse, check_access, execute and
\* handle_discard_write_zeroes).
DiskExact ==
    LET total == TotalLen(blk)
        start == Place(blk.sector)
        range == start .. start + total - 1
        ok == blk.pc = "done" /\ blk.status = "ok"
    IN  /\ \A i \in DOMAIN disk : disk[i] # Old =>
             /\ i \in blk.target /\ i < NumSectors * SectorSize
             /\ "ro" \notin blk.features
        /\ blk.target \subseteq 0 .. NumSectors * SectorSize - 1
        /\ blk.type = "Out" => blk.target \subseteq range
        /\ ok /\ blk.type = "Out" => \A i \in range : disk[i] = i - start
        /\ ok /\ blk.type = "WriteZeroes" => \A i \in blk.target : disk[i] = Zero
        /\ ok /\ blk.type = "In" => blk.read = [i \in 1 .. total |-> start + i - 1]
        /\ ok => blk.used = blk.toMem

\* "returns the used length (i.e. the total number of bytes written into the
\* memory buffer, including the status byte)" (process_request).
UsedLengthExact == blk.pc = "done" => blk.used = blk.toMem

====
