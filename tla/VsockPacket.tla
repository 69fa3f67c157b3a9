---- MODULE VsockPacket ----
(***************************************************************************)
(* VsockPacket of virtio-vsock: the wrapper over a TX or RX chain.  The    *)
(* header is in guest memory, which the guest may rewrite while the        *)
(* packet is being built and used; the packet keeps a copy.                *)
(***************************************************************************)
EXTENDS DescriptorChain

CONSTANTS
    HeaderSize,  \* PKT_HEADER_SIZE
    MaxData,     \* max_data_size
    HeaderLens   \* values of the len field of the header

ASSUME VsockAssumption ==
    /\ HeaderSize \in Nat
    /\ MaxData \in Nat
    /\ HeaderLens \subseteq Nat

VARIABLES
    pkt,    \* pc, the copied len, the data length (0: none), the bytes it may use;
            \* own: the device has set the len itself
    memLen  \* the len field of the header in guest memory

vsockVars == <<pkt, memLen>>

Packet(pc, len, data, room) ==
    [pc |-> pc, len |-> len, data |-> data, room |-> room, own |-> FALSE]
NoPacket == Packet("idle", 0, 0, 0)
PacketErr == Packet("failed", 0, 0, 0)

VsockInit == pkt = NoPacket /\ memLen \in HeaderLens

StartPacket(head, queue) ==
    /\ pkt.pc \in {"idle", "failed", "tx", "rx"}
    /\ pkt' = Packet(queue, 0, 0, 0)
    /\ StartChain(head)
    /\ UNCHANGED memLen

\* from_tx_virtq_chain up to the data: the header is copied once and its
\* length is checked; one descriptor may hold both header and data.
TxHead(d) ==
    LET room == d.len - HeaderSize
    IN  /\ pkt.pc = "txHead"
        /\ Yield(d)
        /\ pkt' = IF d.write \/ d.len < HeaderSize THEN PacketErr
                  ELSE IF memLen = 0 THEN Packet("tx", memLen, 0, room)
                  ELSE IF memLen > MaxData THEN PacketErr
                  ELSE IF HasNext(d) THEN Packet("txData", memLen, 0, 0)
                  ELSE IF room >= memLen THEN Packet("tx", memLen, memLen, room)
                  ELSE PacketErr
        /\ UNCHANGED memLen

\* Mutant: the length is fetched from the header once more.
TxDataRefetched(d) ==
    /\ pkt.pc = "txData"
    /\ Yield(d)
    /\ pkt' = IF d.write \/ d.len < memLen THEN PacketErr
              ELSE Packet("tx", pkt.len, memLen, d.len)
    /\ UNCHANGED memLen

TxData(d) ==
    /\ pkt.pc = "txData"
    /\ Yield(d)
    /\ pkt' = IF d.write \/ d.len < pkt.len THEN PacketErr
              ELSE Packet("tx", pkt.len, pkt.len, d.len)
    /\ UNCHANGED memLen

\* from_rx_virtq_chain: the length of the data is that of the descriptor.
RxHead(d) ==
    LET room == d.len - HeaderSize
    IN  /\ pkt.pc = "rxHead"
        /\ Yield(d)
        /\ pkt' = IF ~d.write \/ d.len < HeaderSize THEN PacketErr
                  ELSE IF HasNext(d) THEN Packet("rxData", pkt.len, 0, 0)
                  ELSE IF room > 0 THEN Packet("rx", pkt.len, room, room)
                  ELSE PacketErr
        /\ UNCHANGED memLen

RxData(d) ==
    /\ pkt.pc = "rxData"
    /\ Yield(d)
    /\ pkt' = IF ~d.write \/ d.len > MaxData THEN PacketErr
              ELSE Packet("rx", pkt.len, d.len, d.len)
    /\ UNCHANGED memLen

\* The chain is too short, or get_single_slice finds no memory or several
\* slices.
PacketFails ==
    /\ pkt.pc \in {"txHead", "txData", "rxHead", "rxData"}
    /\ NoMore
    /\ pkt' = PacketErr
    /\ UNCHANGED memLen

\* set_len: the copy and the memory.
SetLen(n) ==
    /\ pkt.pc \in {"tx", "rx"}
    /\ pkt' = [pkt EXCEPT !.len = n, !.own = TRUE]
    /\ memLen' = n
    /\ UNCHANGED chainVars

\* set_header_from_raw writes the memory and then reads the copy back from it.
SetHeaderFromRaw(n) ==
    /\ pkt.pc \in {"tx", "rx"}
    /\ memLen' = n
    /\ pkt' = [pkt EXCEPT !.pc = IF @ = "tx" THEN "txRaw" ELSE "rxRaw", !.own = TRUE]
    /\ UNCHANGED chainVars

ReadHeaderBack ==
    /\ pkt.pc \in {"txRaw", "rxRaw"}
    /\ pkt' = [pkt EXCEPT !.pc = IF @ = "txRaw" THEN "tx" ELSE "rx", !.len = memLen]
    /\ UNCHANGED <<memLen, chainVars>>

\* The guest rewrites the header.
GuestRewrites(n) ==
    /\ memLen' = n
    /\ UNCHANGED <<pkt, chainVars>>

VsockNext ==
    \/ \E head \in 0 .. QueueSize, queue \in {"txHead", "rxHead"} : StartPacket(head, queue)
    \/ \E d \in Descriptor : TxHead(d) \/ TxData(d) \/ RxHead(d) \/ RxData(d)
    \/ \E n \in 0 .. MaxTable :
         pkt.pc \in {"txHead", "txData", "rxHead", "rxData"} /\ Switch(n) /\ UNCHANGED vsockVars
    \/ PacketFails
    \/ \E n \in HeaderLens : SetLen(n) \/ SetHeaderFromRaw(n) \/ GuestRewrites(n)
    \/ ReadHeaderBack

VsockSpec == ChainInit /\ VsockInit /\ [][VsockNext]_<<chainVars, vsockVars>>

-----------------------------------------------------------------------------
\* However the guest rewrites the header meanwhile, the data of a TX packet
\* is within the limit and, until the device sets another length, as long as
\* the packet says; whatever the device sets, the data of a TX or RX packet
\* lies within its descriptor (from_tx_virtq_chain, from_rx_virtq_chain,
\* set_len and set_header_from_raw).
PacketFits ==
    /\ pkt.pc = "tx" /\ ~pkt.own => pkt.data = pkt.len
    /\ pkt.pc \in {"tx", "txRaw"} => pkt.data <= MaxData
    /\ pkt.pc \in {"tx", "txRaw", "rx", "rxRaw"} => pkt.data <= pkt.room

\* max_data_size is "the maximum size allowed for the packet payload"
\* (from_rx_virtq_chain).
RxWithinLimit == pkt.pc = "rx" => pkt.data <= MaxData

====
