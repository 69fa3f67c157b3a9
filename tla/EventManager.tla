----------------------------- MODULE EventManager -----------------------------
(* EventManager of event-manager/src/manager.rs with its Subscribers          *)
(* (subscribers.rs), EpollWrapper (epoll.rs) and EventOps (events.rs): who is *)
(* registered, which subscriber an fd belongs to, and one run of the loop     *)
(* over the events that one poll returned.                                    *)
(*                                                                            *)
(* The thread of the loop is always in one place.  "idle": its owner, between *)
(* two calls of run, uses SubscriberOps.  "dispatch": the for loop of         *)
(* dispatch_events.  "process" and "init": inside a callback of subscriber    *)
(* cur, which uses the EventOps it was given.  "drain" and "closure":         *)
(* handle_endpoint_calls, and inside a closure that a remote thread sent,     *)
(* which uses SubscriberOps.  What an fd is ready for is left to the kernel:  *)
(* a poll may report any fd of the interest list.                             *)
EXTENDS Integers

CONSTANTS
  Fds,            \* file descriptors subscribers register
  ChannelFd,      \* the eventfd of the channel
  Discarded,      \* EpollEvent::default()
  Capacity,       \* ready_events_capacity
  MaxId,          \* most subscribers ever added
  MaxWatch,       \* most times one fd stands in one watch list
  ForeignRemove   \* whether a subscriber may remove an fd that is not its own

ASSUME FdAssumption ==
  /\ ChannelFd \notin Fds
  /\ Discarded \notin Fds \union {ChannelFd}

ASSUME BoundAssumption ==
  /\ Capacity \in Nat \ {0}
  /\ MaxId \in Nat
  /\ MaxWatch \in Nat \ {0}
  /\ ForeignRemove \in BOOLEAN

Ids == 1..MaxId

NoId == 0

VARIABLES
  subscribers, next_id,
  fd_dispatch,    \* the subscriber of an fd, or NoId
  watch_list,     \* how often an fd stands in the list of a subscriber
  interest,       \* the fds of the epoll instance, the channel's aside
  ready_events, ev_index, endpoint_event,
  pc, cur, ret,   \* where the thread is; in whose callback; where that returns
  removed         \* history: fds whose registration ended since the poll

regVars  == <<subscribers, next_id, fd_dispatch, watch_list, interest>>
loopVars == <<ready_events, ev_index, endpoint_event>>
vars == <<regVars, loopVars, pc, cur, ret, removed>>

Init ==
  /\ subscribers = {} /\ next_id = 1
  /\ fd_dispatch = [fd \in Fds |-> NoId]
  /\ watch_list = [s \in Ids |-> [fd \in Fds |-> 0]]
  /\ interest = {}
  /\ ready_events = << >> /\ ev_index = 1 /\ endpoint_event = FALSE
  /\ pc = "idle" /\ cur = NoId /\ ret = "idle"
  /\ removed = {}

--------------------------------------------------------------------------------
(* Mutant: remove_event forgets the events that were already polled. *)
RemoveEvents_KeepReady(fds) ==
  /\ fd_dispatch' = [fd \in Fds |-> IF fd \in fds THEN NoId ELSE fd_dispatch[fd]]
  /\ interest' = interest \ fds
  /\ ready_events' = ready_events
  /\ removed' = removed \union fds

(* ctl(Delete) and remove_event, for each fd of a set. *)
RemoveEvents(fds) ==
  /\ fd_dispatch' = [fd \in Fds |-> IF fd \in fds THEN NoId ELSE fd_dispatch[fd]]
  /\ interest' = interest \ fds
  /\ ready_events' = [i \in DOMAIN ready_events |->
                        IF ready_events[i] \in fds THEN Discarded ELSE ready_events[i]]
  /\ removed' = removed \union fds

(* An EventOps of subscriber s is in hand: the callback's own, or one that    *)
(* event_ops gave out.                                                        *)
HasEventOps(s) ==
  \/ pc \in {"process", "init"} /\ s = cur
  \/ pc \in {"idle", "closure"} /\ s \in subscribers

(* EventOps::add; FdAlreadyRegistered and an error of epoll change nothing. *)
Add(s, fd) ==
  /\ HasEventOps(s)
  /\ fd_dispatch[fd] = NoId
  /\ fd \notin interest
  /\ watch_list[s][fd] < MaxWatch
  /\ interest' = interest \union {fd}
  /\ fd_dispatch' = [fd_dispatch EXCEPT ![fd] = s]
  /\ watch_list' = [watch_list EXCEPT ![s][fd] = @ + 1]
  /\ UNCHANGED <<subscribers, next_id, loopVars, pc, cur, ret, removed>>

(* EventOps::remove: nothing asks whether fd belongs to s, and only the list  *)
(* of s is searched for it.                                                   *)
Remove(s, fd) ==
  /\ HasEventOps(s)
  /\ fd \in interest
  /\ ForeignRemove \/ fd_dispatch[fd] = s
  /\ RemoveEvents({fd})
  /\ watch_list' = [watch_list EXCEPT ![s][fd] = IF @ > 0 THEN @ - 1 ELSE 0]
  /\ UNCHANGED <<subscribers, next_id, ev_index, endpoint_event, pc, cur, ret>>

--------------------------------------------------------------------------------
(* SubscriberOps, for the owner of the manager or a remote closure. *)

(* add_subscriber: Subscribers::add, then init with the EventOps of the new id. *)
AddSubscriber ==
  /\ pc \in {"idle", "closure"}
  /\ next_id \in Ids
  /\ subscribers' = subscribers \union {next_id}
  /\ next_id' = next_id + 1
  /\ pc' = "init" /\ cur' = next_id /\ ret' = pc
  /\ UNCHANGED <<fd_dispatch, watch_list, interest, loopVars, removed>>

(* Mutant: the watch list of the subscriber is not emptied. *)
RemoveSubscriber_KeepFds(s) ==
  /\ pc \in {"idle", "closure"}
  /\ s \in subscribers
  /\ subscribers' = subscribers \ {s}
  /\ UNCHANGED <<next_id, fd_dispatch, watch_list, interest, loopVars, pc, cur,
                 ret, removed>>

(* remove_subscriber, with EpollWrapper::remove for every fd of its list. *)
RemoveSubscriber(s) ==
  /\ pc \in {"idle", "closure"}
  /\ s \in subscribers
  /\ subscribers' = subscribers \ {s}
  /\ RemoveEvents({fd \in Fds : watch_list[s][fd] > 0})
  /\ watch_list' = [watch_list EXCEPT ![s] = [fd \in Fds |-> 0]]
  /\ UNCHANGED <<next_id, ev_index, endpoint_event, pc, cur, ret>>

(* The callback of cur returns. *)
Return ==
  /\ pc \in {"process", "init"}
  /\ pc' = ret /\ cur' = NoId /\ ret' = "idle"
  /\ UNCHANGED <<regVars, loopVars, removed>>

--------------------------------------------------------------------------------
(* EpollWrapper::poll: at most Capacity events, one for an fd.  A timeout and *)
(* EINTR leave the loop without events.                                       *)
Polled == {evs \in UNION {[1..k -> interest \union {ChannelFd}] : k \in 1..Capacity} :
             \A i, j \in DOMAIN evs : evs[i] = evs[j] => i = j}

Poll(evs) ==
  /\ pc = "idle"
  /\ ready_events' = evs
  /\ ev_index' = 1
  /\ pc' = "dispatch"
  /\ removed' = {}
  /\ UNCHANGED <<regVars, endpoint_event, cur, ret>>

(* EpollWrapper::subscriber_id. *)
SubscriberIdOf(event) == IF event \in Fds THEN fd_dispatch[event] ELSE NoId

(* One turn of the loop of dispatch_events. *)
Turn ==
  /\ pc = "dispatch"
  /\ ev_index \in DOMAIN ready_events
  /\ ev_index' = ev_index + 1
  /\ UNCHANGED <<regVars, ready_events, removed>>

SkipDiscarded ==
  /\ Turn
  /\ ready_events[ev_index] = Discarded
  /\ UNCHANGED <<pc, cur, ret, endpoint_event>>

(* The event has a subscriber: get_mut_unchecked unwraps it, process begins. *)
Process ==
  /\ Turn
  /\ LET id == SubscriberIdOf(ready_events[ev_index])
     IN /\ id # NoId
        /\ pc' = IF id \in subscribers THEN "process" ELSE "panic"
        /\ cur' = id
  /\ ret' = "dispatch"
  /\ UNCHANGED endpoint_event

(* It has none: it is the channel's, kept for later, or unreachable!(). *)
DeferEndpoint ==
  /\ Turn
  /\ ready_events[ev_index] # Discarded
  /\ SubscriberIdOf(ready_events[ev_index]) = NoId
  /\ pc' = IF ready_events[ev_index] = ChannelFd THEN "dispatch" ELSE "panic"
  /\ endpoint_event' = TRUE
  /\ UNCHANGED <<cur, ret>>

(* The loop is over: dispatch_endpoint_event. *)
EndDispatch ==
  /\ pc = "dispatch"
  /\ ev_index \notin DOMAIN ready_events
  /\ pc' = IF endpoint_event THEN "drain" ELSE "idle"
  /\ endpoint_event' = FALSE
  /\ ready_events' = << >> /\ ev_index' = 1 /\ removed' = {}
  /\ UNCHANGED <<regVars, cur, ret>>

(* handle_endpoint_calls: a closure is received, returns, or none is left. *)
ReceiveCall ==
  /\ pc = "drain"
  /\ pc' = "closure"
  /\ UNCHANGED <<regVars, loopVars, cur, ret, removed>>

EndCall ==
  /\ pc = "closure"
  /\ pc' = "drain"
  /\ UNCHANGED <<regVars, loopVars, cur, ret, removed>>

EndDrain ==
  /\ pc = "drain"
  /\ pc' = "idle"
  /\ UNCHANGED <<regVars, loopVars, cur, ret, removed>>

Next ==
  \/ \E s \in Ids, fd \in Fds : Add(s, fd) \/ Remove(s, fd)
  \/ AddSubscriber
  \/ \E s \in Ids : RemoveSubscriber(s)
  \/ Return
  \/ \E evs \in Polled : Poll(evs)
  \/ SkipDiscarded \/ Process \/ DeferEndpoint \/ EndDispatch
  \/ ReceiveCall \/ EndCall \/ EndDrain

Spec == Init /\ [][Next]_vars

--------------------------------------------------------------------------------
Places == {"idle", "dispatch", "process", "init", "drain", "closure"}

(* The maps of EpollWrapper relate fds and ids that Subscribers gave out, and *)
(* inside a callback there is a subscriber whose callback it is.              *)
TypeOK ==
  /\ next_id \in 1..(MaxId + 1)
  /\ subscribers \in SUBSET (1..(next_id - 1))
  /\ fd_dispatch \in [Fds -> Ids \union {NoId}]
  /\ watch_list \in [Ids -> [Fds -> 0..MaxWatch]]
  /\ interest \in SUBSET Fds
  /\ ready_events \in UNION {[1..k -> Fds \union {ChannelFd, Discarded}] : k \in 0..Capacity}
  /\ ev_index \in Nat \ {0}
  /\ endpoint_event \in BOOLEAN
  /\ pc \in Places \union {"panic"}
  /\ cur \in Ids \union {NoId}
  /\ pc \in {"process", "init"} => cur \in subscribers
  /\ ret \in {"idle", "dispatch", "closure"}
  /\ removed \in SUBSET Fds

(* dispatch_events never reaches its unreachable!(), and get_mut_unchecked    *)
(* always finds the subscriber: whatever callbacks and remote closures add    *)
(* and remove, an event that is dispatched has a live subscriber.             *)
NoPanic == pc # "panic"

(* An event is never handed to a registration younger than the poll that      *)
(* returned it: once an fd is removed, by anyone, its polled events are gone, *)
(* also when the fd is registered again before its turn comes.                *)
NoStaleEvent ==
  \A i \in DOMAIN ready_events : ready_events[i] \notin removed

(* subscriber_watch_list "records the set of fds that are associated with the *)
(* subscriber": an fd is in one list, once, and in the list of the subscriber *)
(* that fd_dispatch names and epoll watches it for.                           *)
WatchListExact ==
  \A fd \in Fds :
    /\ (fd \in interest) <=> (fd_dispatch[fd] # NoId)
    /\ \A s \in Ids : watch_list[s][fd] = IF fd_dispatch[fd] = s THEN 1 ELSE 0
================================================================================
