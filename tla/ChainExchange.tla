----------------------------- MODULE ChainExchange -----------------------------
(* What a split virtqueue promises, without rings, indices or notifications:  *)
(* a driver offers buffer chains, the device takes them in the order they     *)
(* were offered, gives each one back once, in any order, and the driver       *)
(* collects what was given back.                                              *)
EXTENDS Sequences

CONSTANT Chains

VARIABLES
  open,      \* whether the queue is in use
  idle,      \* the chains the driver owns
  offered,   \* made available and not yet taken, oldest first
  held,      \* taken by the device
  returned   \* given back and not yet collected, oldest first

vars == <<open, idle, offered, held, returned>>

Init ==
  /\ open = FALSE
  /\ idle = Chains
  /\ offered = <<>>
  /\ held = {}
  /\ returned = <<>>

Offer(c) ==
  /\ c \in idle
  /\ idle' = idle \ {c}
  /\ offered' = Append(offered, c)
  /\ UNCHANGED <<open, held, returned>>

Take ==
  /\ offered # <<>>
  /\ held' = held \union {Head(offered)}
  /\ offered' = Tail(offered)
  /\ UNCHANGED <<open, idle, returned>>

(* The device changes its mind about the chain it took last. *)
PutBack(c) ==
  /\ c \in held
  /\ held' = held \ {c}
  /\ offered' = <<c>> \o offered
  /\ UNCHANGED <<open, idle, returned>>

Return(c) ==
  /\ c \in held
  /\ held' = held \ {c}
  /\ returned' = Append(returned, c)
  /\ UNCHANGED <<open, idle, offered>>

Collect ==
  /\ returned # <<>>
  /\ idle' = idle \union {Head(returned)}
  /\ returned' = Tail(returned)
  /\ UNCHANGED <<open, offered, held>>

(* The driver starts to use the queue, with some of the chains. *)
Open(S) ==
  /\ ~open
  /\ open' = TRUE
  /\ idle' = S
  /\ UNCHANGED <<offered, held, returned>>

(* A reset: every chain is the driver's again. *)
Close ==
  /\ open
  /\ open' = FALSE
  /\ idle' = Chains
  /\ offered' = <<>>
  /\ held' = {}
  /\ returned' = <<>>

Next ==
  \/ \E c \in Chains : Offer(c) \/ PutBack(c) \/ Return(c)
  \/ Take
  \/ Collect
  \/ \E S \in SUBSET Chains : Open(S)
  \/ Close

Spec == Init /\ [][Next]_vars
================================================================================
