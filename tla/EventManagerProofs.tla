-------------------------- MODULE EventManagerProofs --------------------------
(* Proofs about the event-manager crate: EventManager, for any number of fds, *)
(* subscribers and events, and RemoteEndpoint, for any number of threads and  *)
(* requests.                                                                  *)
EXTENDS EventManager, RemoteEndpoint, TLAPS

Slots == Fds \union {ChannelFd, Discarded}

--------------------------------------------------------------------------------
(* What the polled events are after RemoveEvents. *)
LEMMA ScrubType ==
  ASSUME NEW evs \in UNION {[1..k -> Slots] : k \in 0..Capacity}, NEW fds
  PROVE  [i \in DOMAIN evs |-> IF evs[i] \in fds THEN Discarded ELSE evs[i]]
           \in UNION {[1..k -> Slots] : k \in 0..Capacity}
<1>1. PICK k \in 0..Capacity : evs \in [1..k -> Slots]
  BY Zenon
<1>2. [i \in DOMAIN evs |-> IF evs[i] \in fds THEN Discarded ELSE evs[i]]
        \in [1..k -> Slots]
  BY <1>1, Zenon DEF Slots
<1> QED
  BY <1>2, Zenon

(* A poll returns events of fds in the interest list, and the empty list of   *)
(* events is one, too.                                                        *)
LEMMA PolledType ==
  ASSUME interest \in SUBSET Fds, NEW evs \in Polled
  PROVE  /\ evs \in UNION {[1..k -> Slots] : k \in 0..Capacity}
         /\ \A i \in DOMAIN evs : evs[i] \in interest \union {ChannelFd}
<1>1. PICK k \in 1..Capacity : evs \in [1..k -> interest \union {ChannelFd}]
  BY Zenon DEF Polled
<1>2. evs \in [1..k -> Slots] /\ k \in 0..Capacity
  BY <1>1, BoundAssumption DEF Slots
<1> QED
  BY <1>1, <1>2, Zenon

(* The empty list of events is one. *)
LEMMA EmptyType ==
  << >> \in UNION {[1..k -> Slots] : k \in 0..Capacity}
<1>1. << >> \in [1..0 -> Slots] /\ 0 \in 0..Capacity
  BY BoundAssumption
<1> QED
  BY <1>1, Zenon

--------------------------------------------------------------------------------
(* Type correctness. *)
LEMMA InitType == Init => TypeOK
<1> SUFFICES ASSUME Init PROVE TypeOK
  BY Zenon
<1>1. endpoint_event \in BOOLEAN
  BY Zenon DEF Init
<1>2. ready_events \in UNION {[1..k -> Slots] : k \in 0..Capacity}
  BY EmptyType, Zenon DEF Init
<1>3. /\ next_id = 1 /\ subscribers = {} /\ interest = {} /\ removed = {}
      /\ ev_index = 1 /\ pc = "idle" /\ cur = NoId /\ ret = "idle"
      /\ fd_dispatch = [fd \in Fds |-> NoId]
      /\ watch_list = [s \in Ids |-> [fd \in Fds |-> 0]]
  BY Zenon DEF Init
<1> QED
  BY <1>1, <1>2, <1>3, BoundAssumption DEF TypeOK, Slots, Places, Ids, NoId

(* Every step keeps the types. *)
LEMMA TypeStep == TypeOK /\ [Next]_vars => TypeOK'
<1> SUFFICES ASSUME TypeOK, [Next]_vars PROVE TypeOK'
  BY Zenon
<1> USE DEF TypeOK, regVars, loopVars, Ids, NoId, Places
<1>1. ASSUME NEW s \in Ids, NEW fd \in Fds, Add(s, fd) PROVE TypeOK'
  <2>1. watch_list[s][fd] + 1 \in 0..MaxWatch
    <3>1. watch_list[s][fd] \in 0..MaxWatch
      BY Zenon
    <3>2. watch_list[s][fd] < MaxWatch
      BY <1>1, Zenon DEF Add
    <3> HIDE DEF TypeOK
    <3> QED
      BY <3>1, <3>2, BoundAssumption
  <2>2. watch_list' \in [Ids -> [Fds -> 0..MaxWatch]]
    BY <1>1, <2>1, Zenon DEF Add
  <2>3. fd_dispatch' \in [Fds -> Ids \union {NoId}] /\ interest' \in SUBSET Fds
    BY <1>1, Zenon DEF Add
  <2>4. UNCHANGED <<subscribers, next_id, loopVars, pc, cur, ret, removed>>
    BY <1>1, Zenon DEF Add
  <2> QED
    BY <2>2, <2>3, <2>4, Zenon
<1>2. ASSUME NEW s \in Ids, NEW fd \in Fds, Remove(s, fd) PROVE TypeOK'
  <2>1. ready_events' \in UNION {[1..k -> Slots] : k \in 0..Capacity}
    BY <1>2, ScrubType, Zenon DEF Remove, RemoveEvents, Slots
  <2>2. watch_list' \in [Ids -> [Fds -> 0..MaxWatch]]
    BY <1>2, BoundAssumption DEF Remove
  <2> QED
    BY <1>2, <2>1, <2>2, Zenon DEF Remove, RemoveEvents, Slots
<1>3. CASE AddSubscriber
  BY <1>3, BoundAssumption DEF AddSubscriber
<1>4. ASSUME NEW s \in Ids, RemoveSubscriber(s) PROVE TypeOK'
  <2>1. ready_events' \in UNION {[1..k -> Slots] : k \in 0..Capacity}
    BY <1>4, ScrubType, Zenon DEF RemoveSubscriber, RemoveEvents, Slots
  <2>2. watch_list' \in [Ids -> [Fds -> 0..MaxWatch]]
    BY <1>4, BoundAssumption DEF RemoveSubscriber
  <2> QED
    BY <1>4, <2>1, <2>2, Zenon DEF RemoveSubscriber, RemoveEvents, Slots
<1>5. CASE Return
  BY <1>5, Zenon DEF Return
<1>6. ASSUME NEW evs \in Polled, Poll(evs) PROVE TypeOK'
  BY <1>6, PolledType DEF Poll, Slots
<1>7. CASE SkipDiscarded \/ DeferEndpoint
  <2>1. CASE SkipDiscarded
    BY <2>1 DEF SkipDiscarded, Turn
  <2>2. CASE DeferEndpoint
    <3>1. pc' \in {"dispatch", "panic"} /\ UNCHANGED <<regVars, ready_events, cur, ret, removed>>
      BY <2>2, Zenon DEF DeferEndpoint, Turn
    <3>2. endpoint_event' \in BOOLEAN /\ ev_index' \in Nat \ {0}
      BY <2>2 DEF DeferEndpoint, Turn
    <3> QED
      BY <3>1, <3>2, Zenon
  <2> QED
    BY <1>7, <2>1, <2>2, Zenon
<1>11. CASE Process
  <2>1. SubscriberIdOf(ready_events[ev_index]) \in Ids \union {NoId}
    BY Zenon DEF SubscriberIdOf
  <2> QED
    BY <1>11, <2>1 DEF Process, Turn
<1>8. CASE EndDispatch
  <2>1. ready_events' \in UNION {[1..k -> Slots] : k \in 0..Capacity}
    BY <1>8, EmptyType, Zenon DEF EndDispatch
  <2>2. pc' \in {"drain", "idle"}
    BY <1>8, Zenon DEF EndDispatch
  <2>3. UNCHANGED <<regVars, cur, ret>> /\ removed' = {}
    BY <1>8, Zenon DEF EndDispatch
  <2>4. ev_index' \in Nat \ {0}
    BY <1>8 DEF EndDispatch
  <2>5. endpoint_event' \in BOOLEAN
    BY <1>8, Zenon DEF EndDispatch
  <2> QED
    BY <2>1, <2>2, <2>3, <2>4, <2>5, Zenon DEF Slots
<1>9. CASE ReceiveCall \/ EndCall \/ EndDrain
  BY <1>9, Zenon DEF ReceiveCall, EndCall, EndDrain
<1>10. CASE UNCHANGED vars
  BY <1>10, Zenon DEF vars
<1> QED
  BY <1>1, <1>2, <1>3, <1>4, <1>5, <1>6, <1>7, <1>8, <1>9, <1>10, <1>11, Zenon DEF Next

(* Spec keeps the maps of EpollWrapper and the place of the loop well typed.  *)
THEOREM TypeCorrect == Spec => []TypeOK
BY InitType, TypeStep, PTL DEF Spec

--------------------------------------------------------------------------------
(* Why dispatch_events cannot panic.  An fd that has a subscriber has a live  *)
(* one, whose list names the fd, so remove_subscriber finds it; epoll watches *)
(* exactly the fds that have a subscriber; and so has every polled fd, for as *)
(* long as its event has not been discarded.                                  *)
DispatchLive ==
  \A fd \in Fds : fd_dispatch[fd] # NoId => fd_dispatch[fd] \in subscribers

ListsCover ==
  \A fd \in Fds, s \in Ids : fd_dispatch[fd] = s => watch_list[s][fd] > 0

InterestIsDispatch ==
  \A fd \in Fds : (fd \in interest) <=> (fd_dispatch[fd] # NoId)

ReadyKnown ==
  \A i \in DOMAIN ready_events :
    ready_events[i] \in Fds => fd_dispatch[ready_events[i]] # NoId

LiveInv ==
  TypeOK /\ DispatchLive /\ ListsCover /\ InterestIsDispatch /\ ReadyKnown /\ NoPanic

(* No subscriber is named before one is added. *)
LEMMA InitLive == Init => LiveInv
<1> SUFFICES ASSUME Init PROVE LiveInv
  BY Zenon
<1>1. TypeOK
  BY InitType, Zenon
<1> QED
  BY <1>1 DEF Init, LiveInv, DispatchLive, ListsCover, InterestIsDispatch,
              ReadyKnown, NoPanic, Ids, NoId

(* Taking the registration away from a set of fds keeps what is known of the  *)
(* other fds and of the polled events.                                        *)
LEMMA RemoveEventsLive ==
  ASSUME TypeOK, InterestIsDispatch, ReadyKnown, NEW fds \in SUBSET Fds,
         RemoveEvents(fds)
  PROVE  /\ InterestIsDispatch' /\ ReadyKnown'
         /\ \A fd \in Fds : fd_dispatch'[fd] # NoId =>
              fd \notin fds /\ fd_dispatch'[fd] = fd_dispatch[fd]
<1>1. \A fd \in Fds : fd_dispatch'[fd] # NoId =>
        fd \notin fds /\ fd_dispatch'[fd] = fd_dispatch[fd]
  BY Zenon DEF RemoveEvents
<1>2. InterestIsDispatch'
  BY Zenon DEF RemoveEvents, InterestIsDispatch
<1>3. ReadyKnown'
  <2> SUFFICES ASSUME NEW i \in DOMAIN ready_events', ready_events'[i] \in Fds
               PROVE  fd_dispatch'[ready_events'[i]] # NoId
    BY Zenon DEF ReadyKnown
  <2>1. i \in DOMAIN ready_events /\ ready_events[i] \notin fds
        /\ ready_events'[i] = ready_events[i]
    BY FdAssumption, Zenon DEF RemoveEvents
  <2> QED
    BY <2>1, Zenon DEF RemoveEvents, ReadyKnown
<1> QED
  BY <1>1, <1>2, <1>3, Zenon

(* The fds stay those of subscribers that are there. *)
LEMMA LiveStep == LiveInv /\ [Next]_vars => LiveInv'
<1> SUFFICES ASSUME LiveInv, [Next]_vars PROVE LiveInv'
  BY Zenon
<1>0. TypeOK /\ TypeOK'
  BY TypeStep, Zenon DEF LiveInv
<1> USE DEF LiveInv, NoPanic, regVars, loopVars
<1>1. ASSUME NEW s \in Ids, NEW fd \in Fds, Add(s, fd) PROVE LiveInv'
  <2>1. s \in subscribers /\ s # NoId
    BY <1>0, <1>1 DEF Add, HasEventOps, TypeOK, Ids, NoId
  <2>2. /\ fd_dispatch' = [fd_dispatch EXCEPT ![fd] = s]
        /\ interest' = interest \union {fd}
        /\ UNCHANGED <<subscribers, ready_events, pc>>
    BY <1>1, Zenon DEF Add
  <2>3. DispatchLive' /\ InterestIsDispatch' /\ ReadyKnown'
    BY <1>0, <2>1, <2>2, Zenon DEF TypeOK, DispatchLive, InterestIsDispatch, ReadyKnown
  <2>4. ListsCover'
    BY <1>0, <1>1 DEF Add, TypeOK, ListsCover, Ids
  <2> QED
    BY <1>0, <2>2, <2>3, <2>4, Zenon
<1>2. ASSUME NEW s \in Ids, NEW fd \in Fds, Remove(s, fd) PROVE LiveInv'
  <2>1. RemoveEvents({fd}) /\ UNCHANGED <<subscribers, pc>>
    BY <1>2, Zenon DEF Remove
  <2>2. /\ InterestIsDispatch' /\ ReadyKnown'
        /\ \A f \in Fds : fd_dispatch'[f] # NoId =>
             f # fd /\ fd_dispatch'[f] = fd_dispatch[f]
    BY <1>0, <2>1, RemoveEventsLive, Zenon
  <2>3. DispatchLive'
    BY <2>1, <2>2, Zenon DEF DispatchLive
  <2>4. \A f \in Fds, t \in Ids : f # fd => watch_list'[t][f] = watch_list[t][f]
    BY <1>0, <1>2, Zenon DEF Remove, TypeOK
  <2>5. ListsCover'
    BY <2>2, <2>4 DEF ListsCover, Ids, NoId
  <2> QED
    BY <1>0, <2>1, <2>2, <2>3, <2>5, Zenon
<1>3. CASE AddSubscriber
  BY <1>0, <1>3, Zenon DEF AddSubscriber, DispatchLive, ListsCover, InterestIsDispatch,
                    ReadyKnown
<1>4. ASSUME NEW s \in Ids, RemoveSubscriber(s) PROVE LiveInv'
  <2> DEFINE fds == {f \in Fds : watch_list[s][f] > 0}
  <2>1. RemoveEvents(fds) /\ subscribers' = subscribers \ {s} /\ pc' = pc
    BY <1>4, Zenon DEF RemoveSubscriber
  <2>2. /\ InterestIsDispatch' /\ ReadyKnown'
        /\ \A f \in Fds : fd_dispatch'[f] # NoId =>
             f \notin fds /\ fd_dispatch'[f] = fd_dispatch[f]
    BY <1>0, <2>1, RemoveEventsLive, Zenon
  <2>3. \A f \in Fds : fd_dispatch'[f] # NoId => fd_dispatch'[f] # s
    BY <2>2, Zenon DEF ListsCover
  <2>4. DispatchLive'
    BY <2>1, <2>2, <2>3, Zenon DEF DispatchLive
  <2>5. \A f \in Fds, t \in Ids : t # s => watch_list'[t][f] = watch_list[t][f]
    BY <1>0, <1>4, Zenon DEF RemoveSubscriber, TypeOK
  <2>6. ListsCover'
    BY <2>2, <2>3, <2>5 DEF ListsCover, Ids, NoId
  <2> QED
    BY <1>0, <2>1, <2>2, <2>4, <2>6, Zenon
<1>5. CASE Return
  BY <1>0, <1>5, Zenon DEF Return, TypeOK, DispatchLive, ListsCover, InterestIsDispatch,
                    ReadyKnown
<1>6. ASSUME NEW evs \in Polled, Poll(evs) PROVE LiveInv'
  <2>1. \A i \in DOMAIN evs : evs[i] \in interest \union {ChannelFd}
    BY <1>0, PolledType, Zenon DEF TypeOK
  <2>2. ready_events' = evs /\ pc' = "dispatch" /\ UNCHANGED regVars
    BY <1>6, Zenon DEF Poll
  <2>3. ReadyKnown'
    BY <2>1, <2>2, FdAssumption, Zenon DEF ReadyKnown, InterestIsDispatch
  <2> QED
    BY <1>0, <2>2, <2>3, Zenon DEF DispatchLive, ListsCover, InterestIsDispatch
<1>7. CASE SkipDiscarded \/ Process \/ DeferEndpoint
  <2>1. UNCHANGED <<regVars, ready_events>>
    BY <1>7, Zenon DEF SkipDiscarded, Process, DeferEndpoint, Turn
  <2>2. DispatchLive' /\ ListsCover' /\ InterestIsDispatch' /\ ReadyKnown'
    BY <2>1, Zenon DEF DispatchLive, ListsCover, InterestIsDispatch, ReadyKnown
  <2>3. pc' # "panic"
    <3>1. CASE SkipDiscarded
      BY <3>1, Zenon DEF SkipDiscarded
    <3>2. CASE Process
      BY <3>2, Zenon DEF Process, Turn, SubscriberIdOf, DispatchLive
    <3>3. CASE DeferEndpoint
      <4>1. ready_events[ev_index] \in Slots
        BY <1>0, <3>3 DEF DeferEndpoint, Turn, TypeOK, Slots
      <4> QED
        BY <3>3, <4>1, Zenon DEF DeferEndpoint, Turn, SubscriberIdOf, ReadyKnown, Slots
    <3> QED
      BY <1>7, <3>1, <3>2, <3>3, Zenon
  <2> QED
    BY <1>0, <2>2, <2>3, Zenon
<1>8. CASE EndDispatch
  <2>1. ready_events' = << >> /\ pc' # "panic" /\ UNCHANGED regVars
    BY <1>8, Zenon DEF EndDispatch
  <2> QED
    BY <1>0, <2>1 DEF DispatchLive, ListsCover, InterestIsDispatch, ReadyKnown
<1>9. CASE ReceiveCall \/ EndCall \/ EndDrain
  BY <1>0, <1>9, Zenon DEF ReceiveCall, EndCall, EndDrain, DispatchLive, ListsCover,
                    InterestIsDispatch, ReadyKnown
<1>10. CASE UNCHANGED vars
  BY <1>0, <1>10, Zenon DEF vars, DispatchLive, ListsCover, InterestIsDispatch, ReadyKnown
<1> QED
  BY <1>1, <1>2, <1>3, <1>4, <1>5, <1>6, <1>7, <1>8, <1>9, <1>10, Zenon DEF Next

(* dispatch_events never panics, for any number of subscribers, fds and       *)
(* events, and even if subscribers remove fds that are not their own.         *)
THEOREM NoPanicHolds == Spec => []NoPanic
<1>1. LiveInv => NoPanic
  BY Zenon DEF LiveInv
<1> QED
  BY <1>1, InitLive, LiveStep, PTL DEF Spec

--------------------------------------------------------------------------------
(* Stale events. *)
LEMMA StaleStep ==
  ASSUME TypeOK, NoStaleEvent, [Next]_vars
  PROVE  NoStaleEvent'
<1>1. ASSUME NEW fds, RemoveEvents(fds) PROVE NoStaleEvent'
  <2> SUFFICES ASSUME NEW i \in DOMAIN ready_events'
               PROVE  ready_events'[i] \notin removed'
    BY Zenon DEF NoStaleEvent
  <2>1. i \in DOMAIN ready_events /\ ready_events[i] \notin removed
    BY <1>1, Zenon DEF RemoveEvents, NoStaleEvent
  <2>2. CASE ready_events[i] \in fds
    <3>1. ready_events'[i] = Discarded
      BY <1>1, <2>1, <2>2, Zenon DEF RemoveEvents
    <3>2. removed' \subseteq Fds
      BY TypeStep, Zenon DEF TypeOK
    <3> QED
      BY <3>1, <3>2, FdAssumption, Zenon
  <2>3. CASE ready_events[i] \notin fds
    BY <1>1, <2>1, <2>3, Zenon DEF RemoveEvents
  <2> QED
    BY <2>2, <2>3, Zenon
<1>2. CASE \E evs \in Polled : Poll(evs)
  BY <1>2, Zenon DEF Poll, NoStaleEvent
<1>3. CASE EndDispatch
  BY <1>3, Zenon DEF EndDispatch, NoStaleEvent
<1>4. CASE UNCHANGED <<ready_events, removed>>
  BY <1>4, Zenon DEF NoStaleEvent
<1> QED
  BY <1>1, <1>2, <1>3, <1>4, Zenon
     DEF Next, vars, loopVars, Add, Remove, AddSubscriber, RemoveSubscriber,
         Return, SkipDiscarded, Process, DeferEndpoint, Turn, ReceiveCall,
         EndCall, EndDrain

(* An event never reaches a registration that is younger than its poll. *)
THEOREM NoStaleEventHolds == Spec => []NoStaleEvent
<1>1. Init => NoStaleEvent
  BY Zenon DEF Init, NoStaleEvent
<1> QED
  BY <1>1, InitType, TypeStep, StaleStep, PTL DEF Spec

--------------------------------------------------------------------------------
(* The watch lists, for subscribers that only remove fds of their own. *)
LEMMA WatchStep ==
  ASSUME ~ForeignRemove, TypeOK, WatchListExact, [Next]_vars
  PROVE  WatchListExact'
<1> USE DEF TypeOK, Ids, NoId
<1>1. ASSUME NEW s \in Ids, NEW fd \in Fds, Add(s, fd) PROVE WatchListExact'
  <2>1. \A t \in Ids : watch_list[t][fd] = 0
    <3>1. fd_dispatch[fd] = 0
      BY <1>1, Zenon DEF Add
    <3>2. \A t \in Ids : t # 0
      BY BoundAssumption
    <3> QED
      BY <3>1, <3>2, Zenon DEF WatchListExact
  <2>2. \A t \in Ids, f \in Fds :
          watch_list'[t][f] = IF t = s /\ f = fd THEN 1 ELSE watch_list[t][f]
    BY <1>1, <2>1 DEF Add
  <2>3. \A f \in Fds : /\ fd_dispatch'[f] = IF f = fd THEN s ELSE fd_dispatch[f]
                       /\ f \in interest' <=> f \in interest \/ f = fd
    BY <1>1, Zenon DEF Add
  <2>4. ASSUME NEW f \in Fds
        PROVE  /\ (f \in interest') <=> (fd_dispatch'[f] # 0)
               /\ \A t \in Ids : watch_list'[t][f] = IF fd_dispatch'[f] = t THEN 1 ELSE 0
    <3>1. CASE f = fd
      <4>1. fd_dispatch'[f] = s /\ f \in interest' /\ s # 0
        BY <2>3, <3>1, BoundAssumption
      <4>2. \A t \in Ids : watch_list'[t][f] = IF t = s THEN 1 ELSE 0
        BY <2>1, <2>2, <3>1, Zenon
      <4> QED
        BY <4>1, <4>2, Zenon
    <3>2. CASE f # fd
      <4>1. fd_dispatch'[f] = fd_dispatch[f] /\ (f \in interest' <=> f \in interest)
        BY <2>3, <3>2, Zenon
      <4>2. \A t \in Ids : watch_list'[t][f] = watch_list[t][f]
        BY <2>2, <3>2, Zenon
      <4> QED
        BY <4>1, <4>2, Zenon DEF WatchListExact
    <3> QED
      BY <3>1, <3>2, Zenon
  <2> QED
    BY <2>4, Zenon DEF WatchListExact
<1>2. ASSUME NEW s \in Ids, NEW fd \in Fds, Remove(s, fd) PROVE WatchListExact'
  <2>1. fd_dispatch[fd] = s
    BY <1>2, Zenon DEF Remove
  <2>2. \A t \in Ids, f \in Fds :
          watch_list'[t][f] = IF t = s /\ f = fd THEN 0 ELSE watch_list[t][f]
    BY <1>2, <2>1 DEF Remove, WatchListExact
  <2> QED
    BY <1>2, <2>1, <2>2 DEF Remove, RemoveEvents, WatchListExact
<1>3. ASSUME NEW s \in Ids, RemoveSubscriber(s) PROVE WatchListExact'
  <2>1. \A f \in Fds : watch_list[s][f] > 0 <=> fd_dispatch[f] = s
    BY DEF WatchListExact
  <2>2. \A t \in Ids, f \in Fds :
          watch_list'[t][f] = IF t = s THEN 0 ELSE watch_list[t][f]
    BY <1>3, Zenon DEF RemoveSubscriber
  <2>3. \A f \in Fds :
          /\ fd_dispatch'[f] = IF fd_dispatch[f] = s THEN NoId ELSE fd_dispatch[f]
          /\ f \in interest' <=> f \in interest /\ fd_dispatch[f] # s
    BY <1>3, <2>1, Zenon DEF RemoveSubscriber, RemoveEvents
  <2> QED
    BY <2>2, <2>3 DEF WatchListExact
<1>4. CASE UNCHANGED <<fd_dispatch, watch_list, interest>>
  BY <1>4, Zenon DEF WatchListExact
<1> QED
  BY <1>1, <1>2, <1>3, <1>4, Zenon
     DEF Next, vars, regVars, AddSubscriber, Return, Poll, SkipDiscarded, Process,
         DeferEndpoint, Turn, EndDispatch, ReceiveCall, EndCall, EndDrain

(* As long as every subscriber removes its own fds only, the watch lists, the *)
(* dispatch map and the epoll instance agree at all times.                    *)
THEOREM WatchListHolds ==
  ASSUME ~ForeignRemove
  PROVE  Spec => []WatchListExact
<1>1. Init => WatchListExact
  <2> SUFFICES ASSUME Init PROVE WatchListExact
    BY Zenon
  <2>1. \A fd \in Fds : fd_dispatch[fd] = 0 /\ fd \notin interest
    BY Zenon DEF Init, NoId
  <2>2. \A s \in Ids, fd \in Fds : watch_list[s][fd] = 0
    BY Zenon DEF Init
  <2>3. \A s \in Ids : s # 0
    BY BoundAssumption DEF Ids
  <2> QED
    BY <2>1, <2>2, <2>3, Zenon DEF WatchListExact, NoId
<1>2. TypeOK /\ WatchListExact /\ [Next]_vars => WatchListExact'
  BY WatchStep, Zenon
<1> QED
  BY <1>1, <1>2, InitType, TypeStep, PTL DEF Spec

--------------------------------------------------------------------------------
(* The remote endpoint. *)

(* The endpoint starts with the types of its state. *)
LEMMA EndpointInitType == EndpointInit => EndpointTypeOK
<1> SUFFICES ASSUME EndpointInit PROVE EndpointTypeOK
  BY Zenon
<1>1. alive \in BOOLEAN
  BY Zenon DEF EndpointInit
<1> QED
  BY <1>1, RequestAssumption DEF EndpointInit, EndpointTypeOK

(* Every step of a remote caller or of the manager keeps them. *)
LEMMA EndpointTypeStep == EndpointTypeOK /\ [EndpointNext]_endpointVars => EndpointTypeOK'
<1> SUFFICES ASSUME EndpointTypeOK, [EndpointNext]_endpointVars PROVE EndpointTypeOK'
  BY Zenon
<1> USE DEF EndpointTypeOK
<1>1. ASSUME NEW t \in Threads, NEW b \in BOOLEAN, Send(t, b) PROVE EndpointTypeOK'
  <2> DEFINE m == [thread |-> t, n |-> n[t] + 1, blocking |-> b]
  <2>1. n[t] + 1 \in 1..MaxRequests
    BY <1>1, RequestAssumption DEF Send
  <2>2. m \in Message
    BY <2>1, Zenon DEF Message
  <2>3. Append(channel, m) \in Seq(Message)
    BY <2>2
  <2>4. channel' \in Seq(Message) /\ tpc' \in [Threads -> {"idle", "write", "kick", "recv"}]
    BY <1>1, <2>3, Zenon DEF Send
  <2>5. n' \in [Threads -> 0..MaxRequests] /\ reply' \in [Threads -> {"none", "result", "dropped"}]
    BY <1>1, <2>1, RequestAssumption DEF Send
  <2>6. UNCHANGED <<efd, alive, lpc, executed>>
    BY <1>1, Zenon DEF Send
  <2> QED
    BY <2>4, <2>5, <2>6, Zenon
<1>2. ASSUME NEW t \in Threads, Write(t) PROVE EndpointTypeOK'
  BY <1>2, RequestAssumption DEF Write
<1>3. ASSUME NEW t \in Threads, Kick(t) \/ Receive(t) PROVE EndpointTypeOK'
  BY <1>3, Zenon DEF Kick, Receive
<1>4. CASE PollChannel \/ ServeChannel \/ ChannelEmpty
  BY <1>4, Zenon DEF PollChannel, ServeChannel, ChannelEmpty
<1>5. CASE ReadEventFd
  BY <1>5, RequestAssumption DEF ReadEventFd
<1>6. CASE TryRecv
  <2>1. Head(channel) \in Message /\ Tail(channel) \in Seq(Message)
    BY <1>6 DEF TryRecv
  <2> QED
    BY <1>6, <2>1, Zenon DEF TryRecv, Answer
<1>7. CASE Drop
  <2>1. alive' \in BOOLEAN
    BY <1>7, Zenon DEF Drop
  <2>2. channel' \in Seq(Message)
    BY <1>7 DEF Drop
  <2>3. reply' \in [Threads -> {"none", "result", "dropped"}]
    BY <1>7, Zenon DEF Drop, Answer
  <2> QED
    BY <1>7, <2>1, <2>2, <2>3, Zenon DEF Drop
<1>8. CASE UNCHANGED endpointVars
  BY <1>8, Zenon DEF endpointVars
<1> QED
  BY <1>1, <1>2, <1>3, <1>4, <1>5, <1>6, <1>7, <1>8, Zenon DEF EndpointNext, Loop

(* The eventfd and the channels keep their types. *)
THEOREM EndpointTypeCorrect == EndpointSpec => []EndpointTypeOK
BY EndpointInitType, EndpointTypeStep, PTL DEF EndpointSpec

--------------------------------------------------------------------------------
(* invoke(), kick() and the manager lose no request. *)
LEMMA RequestStep ==
  ASSUME EndpointTypeOK, NoLostRequest, [EndpointNext]_endpointVars
  PROVE  NoLostRequest'
<1> USE DEF NoLostRequest
<1>1. ASSUME NEW t \in Threads, NEW b \in BOOLEAN, Send(t, b) PROVE NoLostRequest'
  <2>1. CASE alive
    <3>1. tpc'[t] \in {"write", "kick"}
      BY <1>1, <2>1, Zenon DEF Send, EndpointTypeOK
    <3> QED
      BY <3>1, Zenon
  <2>2. CASE ~alive
    BY <1>1, <2>2, Zenon DEF Send
  <2> QED
    BY <2>1, <2>2, Zenon
<1>2. ASSUME NEW t \in Threads, Write(t) PROVE NoLostRequest'
  <2>1. efd' > 0
    BY <1>2, RequestAssumption DEF Write, EndpointTypeOK
  <2> QED
    BY <2>1, Zenon
<1>3. ASSUME NEW t \in Threads, Kick(t) \/ Receive(t) PROVE NoLostRequest'
  <2>1. \A u \in Threads : tpc[u] \in {"write", "kick"} => tpc'[u] = tpc[u]
    BY <1>3, Zenon DEF Kick, Receive, EndpointTypeOK
  <2>2. UNCHANGED <<channel, efd, lpc>>
    BY <1>3, Zenon DEF Kick, Receive
  <2> QED
    BY <2>1, <2>2, Zenon
<1>4. CASE PollChannel \/ ServeChannel \/ ReadEventFd \/ TryRecv
  <2>1. lpc' # "poll"
    BY <1>4, Zenon DEF PollChannel, ServeChannel, ReadEventFd, TryRecv
  <2> QED
    BY <2>1, Zenon
<1>5. CASE ChannelEmpty \/ Drop
  <2>1. channel' = << >>
    BY <1>5, Zenon DEF ChannelEmpty, Drop
  <2> QED
    BY <2>1, Zenon
<1>6. CASE UNCHANGED endpointVars
  BY <1>6, Zenon DEF endpointVars
<1> QED
  BY <1>1, <1>2, <1>3, <1>4, <1>5, <1>6, Zenon DEF EndpointNext, Loop

(* A request is never left in the channel with the loop asleep and nobody     *)
(* about to wake it, for any number of threads.                               *)
THEOREM NoLostRequestHolds == EndpointSpec => []NoLostRequest
<1>1. EndpointInit => NoLostRequest
  BY Zenon DEF EndpointInit, NoLostRequest
<1> QED
  BY <1>1, EndpointInitType, EndpointTypeStep, RequestStep, PTL DEF EndpointSpec

--------------------------------------------------------------------------------
(* AnswerIsOwn holds whether or not the caller waits already. *)
AnswerInv ==
  \A t \in Threads : reply[t] = "result" =>
    [thread |-> t, n |-> n[t], blocking |-> TRUE] \in executed

(* A caller gets the answer to its own request. *)
LEMMA AnswerStep ==
  ASSUME EndpointTypeOK, AnswerInv, [EndpointNext]_endpointVars
  PROVE  AnswerInv'
<1>1. ASSUME NEW t \in Threads, NEW b \in BOOLEAN, Send(t, b) PROVE AnswerInv'
  BY <1>1, Zenon DEF Send, AnswerInv, EndpointTypeOK
<1>2. ASSUME NEW ms, NEW what, Answer(ms, what), UNCHANGED n,
             executed \subseteq executed',
             \A x \in ms : x \in Message /\ (what = "result" => x \in executed')
      PROVE  AnswerInv'
  <2> SUFFICES ASSUME NEW t \in Threads, reply'[t] = "result"
               PROVE  [thread |-> t, n |-> n[t], blocking |-> TRUE] \in executed'
    BY <1>2, Zenon DEF AnswerInv
  <2>1. CASE \E x \in ms : x.blocking /\ x.thread = t /\ x.n = n[t]
    <3>1. PICK x \in ms : x.blocking /\ x.thread = t /\ x.n = n[t]
      BY <2>1, Zenon
    <3>2. what = "result"
      BY <1>2, <2>1, Zenon DEF Answer
    <3>3. x \in Message /\ x \in executed' /\ x.blocking = TRUE
      BY <1>2, <3>1, <3>2, Zenon DEF Message
    <3>4. x = [thread |-> t, n |-> n[t], blocking |-> TRUE]
      BY <3>1, <3>3, Zenon DEF Message
    <3> QED
      BY <3>3, <3>4, Zenon
  <2>2. CASE ~\E x \in ms : x.blocking /\ x.thread = t /\ x.n = n[t]
    BY <1>2, <2>2, Zenon DEF Answer, AnswerInv
  <2> QED
    BY <2>1, <2>2, Zenon
<1>3. CASE TryRecv
  <2>1. Head(channel) \in Message
    BY <1>3 DEF TryRecv, EndpointTypeOK
  <2> QED
    BY <1>2, <1>3, <2>1, Zenon DEF TryRecv
<1>4. CASE Drop
  <2>1. \A x \in {channel[i] : i \in DOMAIN channel} : x \in Message
    BY DEF EndpointTypeOK
  <2> QED
    BY <1>2, <1>4, <2>1 DEF Drop
<1>5. CASE UNCHANGED <<reply, n, executed>>
  BY <1>5, Zenon DEF AnswerInv
<1> QED
  BY <1>1, <1>3, <1>4, <1>5, Zenon
     DEF EndpointNext, Loop, endpointVars, Write, Kick, Receive, PollChannel, ServeChannel,
         ReadEventFd, ChannelEmpty

(* A caller never gets the answer to another call. *)
THEOREM AnswerIsOwnHolds == EndpointSpec => []AnswerIsOwn
<1>1. EndpointInit => AnswerInv
  BY Zenon DEF EndpointInit, AnswerInv
<1>2. AnswerInv => AnswerIsOwn
  BY Zenon DEF AnswerInv, AnswerIsOwn
<1> QED
  BY <1>1, <1>2, EndpointInitType, EndpointTypeStep, AnswerStep, PTL DEF EndpointSpec
================================================================================
