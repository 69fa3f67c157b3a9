------------------------------ MODULE MCVirtqueue ------------------------------
EXTENDS VirtqueueExchange

(* Ring slots between the reader's and the writer's index, and the one an     *)
(* undo would read again: the others are written before they are read.        *)
LiveAvail ==
  LET first == IF dpc = "got" THEN WSub(next_avail, 1) ELSE next_avail
  IN  {WAdd(first, i) % size : i \in 0..(WSub(avail_idx, first) - 1)}

LiveUsed == {WAdd(last_used, i) % size : i \in 0..(WSub(next_used, last_used) - 1)}

Blank(ring, live) == [s \in Heads |-> IF s \in live THEN ring[s] ELSE 0]

(* States that differ only in dead slots behave alike. *)
View ==
  <<queueVars, deviceVars, pend, avail_idx, Blank(avail_ring, LiveAvail),
    used_event, used_idx, Blank(used_ring, LiveUsed), used_flags, avail_event,
    kick, irq, driverVars, since>>
================================================================================
