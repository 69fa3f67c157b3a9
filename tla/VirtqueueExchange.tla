--------------------------- MODULE VirtqueueExchange ---------------------------
(* What the queue promises: Virtqueue as an implementation of ChainExchange.  *)
EXTENDS Virtqueue

(* The queue implements the exchange of chains: in order, no chain lost, none *)
(* given twice, none seen by the driver before the device wrote it.           *)
Exchange == INSTANCE ChainExchange WITH
  Chains   <- Heads,
  open     <- ready,
  idle     <- free,
  offered  <- [i \in 1..WSub(avail_idx, next_avail) |->
                 avail_ring[WAdd(next_avail, i - 1) % size]],
  held     <- inflight \union ({got} \ {None}),
  returned <- [i \in 1..WSub(next_used, last_used) |->
                 LatestElem(WAdd(last_used, i - 1) % size)]

ImplementsExchange == Exchange!Spec
================================================================================
