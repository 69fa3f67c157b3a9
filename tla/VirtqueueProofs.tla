--------------------------- MODULE VirtqueueProofs ---------------------------
(* Proofs about Virtqueue, for every queue size, index width and number of    *)
(* completers.                                                                *)
EXTENDS Virtqueue, TLAPS

(* Wrapping arithmetic stays in range, and on ring indices it is ordinary     *)
(* arithmetic with one correction.                                            *)
LEMMA WrapRange ==
  ASSUME NEW a \in Int, NEW b \in Int
  PROVE  WAdd(a, b) \in Idx /\ WSub(a, b) \in Idx
BY SizeAssumption DEF WAdd, WSub, Idx

(* Wrapping subtraction of indices is subtraction, with one correction. *)
LEMMA WSubLinear ==
  ASSUME NEW a \in Idx, NEW b \in Idx
  PROVE  WSub(a, b) = IF a >= b THEN a - b ELSE a - b + IdxMod
<1>1. CASE a >= b
  BY <1>1, SizeAssumption DEF WSub, Idx
<1>2. CASE a < b
  BY <1>2, SizeAssumption DEF WSub, Idx
<1> QED
  BY <1>1, <1>2 DEF Idx

(* The distance of two indices is less than the modulus. *)
LEMMA WSubNat ==
  ASSUME NEW a \in Idx, NEW b \in Idx
  PROVE  WSub(a, b) \in Nat /\ WSub(a, b) < IdxMod
<1>1. WSub(a, b) \in Idx
  BY WrapRange DEF Idx
<1> QED
  BY <1>1, SizeAssumption DEF Idx

(* An index is at no distance from itself. *)
LEMMA WSubSelf ==
  ASSUME NEW a \in Idx
  PROVE  WSub(a, a) = 0
BY WSubLinear DEF Idx

(* The index after the last is 0. *)
LEMMA WAddLinear ==
  ASSUME NEW a \in Idx
  PROVE  WAdd(a, 1) = IF a = IdxMod - 1 THEN 0 ELSE a + 1
BY SizeAssumption DEF WAdd, Idx

(* One more element: the distance grows by one, or wraps to nothing. *)
LEMMA WSubStep ==
  ASSUME NEW a \in Idx, NEW b \in Idx
  PROVE  WSub(WAdd(a, 1), b) = IF WSub(a, b) = IdxMod - 1 THEN 0 ELSE WSub(a, b) + 1
<1>1. WAdd(a, 1) \in Idx
  BY WrapRange DEF Idx
<1>2. WSub(WAdd(a, 1), b) = IF WAdd(a, 1) >= b THEN WAdd(a, 1) - b
                            ELSE WAdd(a, 1) - b + IdxMod
  BY <1>1, WSubLinear, Zenon
<1>3. WSub(a, b) = IF a >= b THEN a - b ELSE a - b + IdxMod
  BY WSubLinear, Zenon
<1> QED
  BY <1>1, <1>2, <1>3, WAddLinear, SizeAssumption DEF Idx

(* The test of needs_notification: an event at most n entries behind new is   *)
(* noticed by whoever looks at the last n entries.                            *)
LEMMA EventInWindow ==
  ASSUME NEW new \in Idx, NEW event \in Idx, NEW n \in Idx,
         event # new, WSub(new, event) <= n
  PROVE  n > 0 /\ EventPassed(event, new, WSub(new, n))
<1> DEFINE d == WSub(new, event)
           o == WSub(new, n)
<1>1. d \in Idx /\ o \in Idx /\ 1 \in Idx
  BY WrapRange, SizeAssumption DEF Idx
<1>2. d > 0
  BY WSubLinear, SizeAssumption DEF Idx
<1>3. o = IF new >= n THEN new - n ELSE new - n + IdxMod
  BY WSubLinear, Zenon
<1> HIDE DEF d, o
<1>4. WSub(d, 1) = d - 1
  BY <1>1, <1>2, WSubLinear DEF Idx
<1>5. WSub(new, o) = IF new >= o THEN new - o ELSE new - o + IdxMod
  BY <1>1, WSubLinear, Zenon
<1>6. WSub(new, o) = n
  BY <1>1, <1>3, <1>5, SizeAssumption DEF Idx
<1> QED
  BY <1>1, <1>2, <1>4, <1>6 DEF d, o, EventPassed, Idx

(* An index has a slot of the ring. *)
LEMMA SlotRange ==
  ASSUME NEW i \in Idx, NEW sz \in Sizes
  PROVE  i % sz \in Heads
BY SizeAssumption DEF Sizes, Idx, Heads

(* What a queue starts with. *)
LEMMA ZeroIdx == 0 \in Idx /\ 0 \in Heads /\ None \notin Heads /\ MaxSize \in Sizes
BY SizeAssumption DEF Idx, Heads, None

(* With no store pending, every field is. *)
LEMMA NoPendFields ==
  /\ NoPend.used_idx = None /\ NoPend.used_flags = None /\ NoPend.avail_event = None
  /\ \A s \in Heads : NoPend.used_elem[s] = None
BY Zenon DEF NoPend

(* No store pending is a state of the store buffer. *)
LEMMA NoPendType == NoPend \in Stores
BY Zenon DEF NoPend, Stores, Events

(* A queue starts with the types of its state. *)
LEMMA InitType == Init => TypeOK
BY ZeroIdx, NoPendType, Zenon DEF Init, TypeOK

(* Every step of driver, device and completers keeps the types. *)
LEMMA TypeStep ==
  ASSUME TypeOK, [Next]_vars
  PROVE  TypeOK'
<1> USE DEF TypeOK
<1>1. ASSUME NEW sz \in Sizes, NEW ei \in EventIdx, Setup(sz, ei) PROVE TypeOK'
  <2>1. 0..(sz - 1) \subseteq Heads
    BY SizeAssumption DEF Sizes, Heads
  <2>2. ei \in BOOLEAN
    BY FlagAssumption, Zenon
  <2> QED
    BY <1>1, <2>1, <2>2 DEF Setup, driverMem, deviceMem
<1>2. CASE Reset
  BY <1>2, ZeroIdx, Zenon DEF Reset
<1>3. CASE SaveRestore
  BY <1>3, ZeroIdx, Zenon DEF SaveRestore, deviceVars, driverMem, deviceMem, driverVars
<1>4. CASE DisableNotification
  BY <1>4 DEF DisableNotification, Stores, Events, queueVars, driverMem, deviceMem, driverVars
<1>5. CASE Iter
  BY <1>5, ZeroIdx, Zenon DEF Iter, queueVars, driverMem, deviceMem, driverVars
<1>6. CASE IterEnd
  BY <1>6, ZeroIdx, Zenon DEF IterEnd, queueVars, driverMem, deviceMem, driverVars
<1>7. CASE IterNext
  <2>1. next_avail % size \in Heads
    BY SlotRange, Zenon
  <2>2. WAdd(next_avail, 1) \in Idx
    BY WrapRange DEF Idx
  <2> QED
    BY <1>7, <2>1, <2>2, ZeroIdx, Zenon DEF IterNext, driverMem, deviceMem, driverVars
<1>8. ASSUME NEW keep \in BOOLEAN, Dispatch(keep) PROVE TypeOK'
  BY <1>8, ZeroIdx, Zenon DEF Dispatch, queueVars, driverMem, deviceMem, driverVars
<1>9. ASSUME NEW keep \in BOOLEAN, GoToPreviousPosition(keep) PROVE TypeOK'
  <2>1. WSub(next_avail, 1) \in Idx
    BY WrapRange DEF Idx
  <2> QED
    BY <1>9, <2>1, ZeroIdx, Zenon DEF GoToPreviousPosition, driverMem, deviceMem, driverVars
<1>10. CASE EnableNotification
  BY <1>10 DEF EnableNotification, Stores, Events, queueVars, driverMem, deviceMem, driverVars
<1>11. CASE RecheckAvail
  BY <1>11, Zenon DEF RecheckAvail, queueVars, driverMem, deviceMem, driverVars
<1>12. CASE WakeUp
  BY <1>12, Zenon DEF WakeUp, queueVars, driverMem, deviceMem, driverVars
<1>13. ASSUME NEW t \in Completers, NEW h \in Heads, AddUsed(t, h) PROVE TypeOK'
  <2>1. next_used % size \in Heads
    BY SlotRange, Zenon
  <2>2. /\ WAdd(next_used, 1) \in Idx
        /\ WAdd(num_added, 1) \in Idx
        /\ WAdd(since, 1) \in Idx
    BY WrapRange DEF Idx
  <2>3. pend' \in Stores
    BY <1>13, <2>1, <2>2, Zenon DEF AddUsed, Stores, Events
  <2> QED
    BY <1>13, <2>2, <2>3, ZeroIdx DEF AddUsed, LockFree, driverMem, deviceMem, driverVars
<1>14. ASSUME NEW t \in Completers, NeedsNotification(t) PROVE TypeOK'
  BY <1>14, ZeroIdx DEF NeedsNotification, driverMem, deviceMem, driverVars
<1>15. ASSUME NEW s \in Heads, FlushElem(s) PROVE TypeOK'
  BY <1>15 DEF FlushElem, Stores, Events, queueVars, deviceVars, driverMem, driverVars
<1>16. CASE FlushUsedIdx
  BY <1>16 DEF FlushUsedIdx, Stores, Events, queueVars, deviceVars, driverMem, driverVars
<1>17. CASE FlushUsedFlags
  BY <1>17 DEF FlushUsedFlags, Stores, Events, queueVars, deviceVars, driverMem, driverVars
<1>18. CASE FlushAvailEvent
  BY <1>18 DEF FlushAvailEvent, Stores, Events, queueVars, deviceVars, driverMem, driverVars
<1>19. ASSUME NEW h \in Heads, DriverAdd(h) PROVE TypeOK'
  <2>1. avail_idx % size \in Heads
    BY SlotRange, Zenon
  <2>2. WAdd(avail_idx, 1) \in Idx
    BY WrapRange DEF Idx
  <2>3. drv_added + 1 \in Idx
    BY <1>19, SizeAssumption, BatchAssumption DEF DriverAdd, Idx
  <2> QED
    BY <1>19, <2>1, <2>2, <2>3 DEF DriverAdd, queueVars, deviceVars, deviceMem
<1>20. CASE DriverKick
  BY <1>20, ZeroIdx DEF DriverKick, queueVars, deviceVars, driverMem, deviceMem
<1>21. CASE DriverInterrupt
  BY <1>21, ZenonT(30) DEF DriverInterrupt, queueVars, deviceVars, driverMem, deviceMem
<1>22. CASE DriverCollect
  <2>1. last_used % size \in Heads
    BY SlotRange, Zenon
  <2>2. WAdd(last_used, 1) \in Idx
    BY WrapRange DEF Idx
  <2> QED
    BY <1>22, <2>1, <2>2 DEF DriverCollect, queueVars, deviceVars, driverMem, deviceMem
<1>23. CASE DriverEnableInterrupt
  BY <1>23 DEF DriverEnableInterrupt, queueVars, deviceVars, deviceMem
<1>24. CASE DriverRecheck
  BY <1>24 DEF DriverRecheck, queueVars, deviceVars, driverMem, deviceMem
<1>25. CASE UNCHANGED vars
  BY <1>25 DEF vars, queueVars, deviceVars, driverMem, deviceMem, driverVars
<1> QED
  BY <1>1, <1>2, <1>3, <1>4, <1>5, <1>6, <1>7, <1>8, <1>9, <1>10, <1>11,
     <1>12, <1>13, <1>14, <1>15, <1>16, <1>17, <1>18, <1>19, <1>20, <1>21,
     <1>22, <1>23, <1>24, <1>25, Zenon
  DEF Next, Config, Poller, Flush, DriverCallback

(* Every variable keeps its type: no index leaves the range of a u16, and no  *)
(* ring is read or written outside its slots.                                 *)
THEOREM TypeCorrect == Spec => []TypeOK
<1>1. TypeOK /\ [Next]_vars => TypeOK'
  BY TypeStep, Zenon
<1> QED
  BY <1>1, InitType, PTL DEF Spec

--------------------------------------------------------------------------------
(* A queue that was reset and not set up again is in its initial state, and   *)
(* the poller has stopped or is about to find out.                            *)
ResetState ==
  /\ dpc \in {"off", "iter"}
  /\ pend = NoPend
  /\ inflight = {}
  /\ event_idx_enabled = FALSE
  /\ next_avail = 0 /\ next_used = 0 /\ num_added = 0
  /\ avail_idx = 0 /\ avail_event = 0 /\ used_flags = 0
  /\ used_idx = 0 /\ used_event = 0
  /\ drv_added = 0 /\ last_used = 0

CleanReset == ~ready => ResetState

(* The value the device stored last: pending, or visible. *)
LatestAvailEvent == IF pend.avail_event # None THEN pend.avail_event ELSE avail_event

LatestUsedFlags == IF pend.used_flags # None THEN pend.used_flags ELSE used_flags

(* From the first half of enable_notification until the poller wakes up, the  *)
(* device asks to be told about the chain at next_avail.                      *)
AskedForKick ==
  dpc \in {"recheck", "sleep"} =>
    IF event_idx_enabled THEN LatestAvailEvent = next_avail ELSE LatestUsedFlags = 0

(* A sleeping poller's request is visible. *)
AskedVisibly ==
  dpc = "sleep" => pend.avail_event = None /\ pend.used_flags = None

(* The chains a sleeping poller has not seen were added since the driver last *)
(* decided whether to kick.                                                   *)
UnseenAreNew ==
  dpc = "sleep" => kick \/ drv_added >= WSub(avail_idx, next_avail)

KickInv == TypeOK /\ CleanReset /\ AskedForKick /\ AskedVisibly /\ UnseenAreNew

(* The invariant says that no kick is lost. *)
LEMMA KickInvImplies == KickInv => NoLostKick
<1> SUFFICES ASSUME KickInv, dpc = "sleep", avail_idx # next_avail, ~kick
             PROVE  drv_added > 0 /\ DriverWantsKick
  BY Zenon DEF NoLostKick
<1>1. /\ drv_added \in Idx /\ avail_idx \in Idx /\ next_avail \in Idx
      /\ WSub(avail_idx, next_avail) <= drv_added
  BY WrapRange, Zenon DEF KickInv, TypeOK, UnseenAreNew, Idx
<1>2. drv_added > 0 /\ EventPassed(next_avail, avail_idx, WSub(avail_idx, drv_added))
  BY <1>1, EventInWindow, Zenon
<1>3. IF event_idx_enabled THEN avail_event = next_avail ELSE used_flags = 0
  BY Zenon DEF KickInv, AskedForKick, AskedVisibly, LatestAvailEvent, LatestUsedFlags
<1> QED
  BY <1>2, <1>3, Zenon DEF DriverWantsKick

(* A reset queue stays as Reset left it until it is set up again. *)
LEMMA CleanResetStep ==
  ASSUME TypeOK, CleanReset, [Next]_vars
  PROVE  CleanReset'
<1> USE DEF CleanReset, ResetState
<1>1. ASSUME NEW sz \in Sizes, NEW ei \in EventIdx, Setup(sz, ei) PROVE CleanReset'
  BY <1>1, Zenon DEF Setup, driverMem, deviceMem
<1>2. CASE Reset
  BY <1>2, Zenon DEF Reset, Fenced
<1>3. CASE SaveRestore
  BY <1>3, Zenon DEF SaveRestore, deviceVars, driverMem, deviceMem, driverVars
<1>4. CASE DisableNotification
  BY <1>4, Zenon DEF DisableNotification, queueVars, driverMem, deviceMem, driverVars
<1>5. CASE Iter
  BY <1>5, Zenon DEF Iter, queueVars, driverMem, deviceMem, driverVars
<1>6. CASE IterEnd
  BY <1>6, Zenon DEF IterEnd, queueVars, driverMem, deviceMem, driverVars
<1>7. CASE IterNext
  BY <1>7, Zenon DEF IterNext, driverMem, deviceMem, driverVars
<1>8. ASSUME NEW keep \in BOOLEAN, Dispatch(keep) PROVE CleanReset'
  BY <1>8, Zenon DEF Dispatch, queueVars, driverMem, deviceMem, driverVars
<1>9. ASSUME NEW keep \in BOOLEAN, GoToPreviousPosition(keep) PROVE CleanReset'
  BY <1>9, Zenon DEF GoToPreviousPosition, driverMem, deviceMem, driverVars
<1>10. CASE EnableNotification
  BY <1>10, Zenon DEF EnableNotification, queueVars, driverMem, deviceMem, driverVars
<1>11. CASE RecheckAvail
  BY <1>11, Zenon DEF RecheckAvail, queueVars, driverMem, deviceMem, driverVars
<1>12. CASE WakeUp
  BY <1>12, Zenon DEF WakeUp, queueVars, driverMem, deviceMem, driverVars
<1>13. ASSUME NEW t \in Completers, NEW h \in Heads, AddUsed(t, h) PROVE CleanReset'
  BY <1>13, Zenon DEF AddUsed, driverMem, deviceMem, driverVars
<1>14. ASSUME NEW t \in Completers, NeedsNotification(t) PROVE CleanReset'
  BY <1>14, Zenon DEF NeedsNotification, driverMem, deviceMem, driverVars
<1>15. ASSUME NEW s \in Heads, FlushElem(s) PROVE CleanReset'
  BY <1>15, NoPendFields, Zenon DEF FlushElem, queueVars, deviceVars, driverMem, driverVars
<1>16. CASE FlushUsedIdx
  BY <1>16, NoPendFields, Zenon DEF FlushUsedIdx, queueVars, deviceVars, driverMem, driverVars
<1>17. CASE FlushUsedFlags
  BY <1>17, NoPendFields, Zenon DEF FlushUsedFlags, queueVars, deviceVars, driverMem, driverVars
<1>18. CASE FlushAvailEvent
  BY <1>18, NoPendFields, Zenon DEF FlushAvailEvent, queueVars, deviceVars, driverMem, driverVars
<1>19. ASSUME NEW h \in Heads, DriverAdd(h) PROVE CleanReset'
  BY <1>19, Zenon DEF DriverAdd, queueVars, deviceVars, deviceMem
<1>20. CASE DriverKick
  BY <1>20, Zenon DEF DriverKick, queueVars, deviceVars, driverMem, deviceMem
<1>21. CASE DriverInterrupt
  BY <1>21, Zenon DEF DriverInterrupt, queueVars, deviceVars, driverMem, deviceMem
<1>22. CASE DriverCollect
  BY <1>22, Zenon DEF DriverCollect, queueVars, deviceVars, driverMem, deviceMem
<1>23. CASE DriverEnableInterrupt
  BY <1>23, Zenon DEF DriverEnableInterrupt, queueVars, deviceVars, deviceMem
<1>24. CASE DriverRecheck
  BY <1>24, Zenon DEF DriverRecheck, queueVars, deviceVars, driverMem, deviceMem
<1>25. CASE UNCHANGED vars
  BY <1>25, Zenon DEF vars, queueVars, deviceVars, driverMem, deviceMem, driverVars
<1> QED
  BY <1>1, <1>2, <1>3, <1>4, <1>5, <1>6, <1>7, <1>8, <1>9, <1>10, <1>11,
     <1>12, <1>13, <1>14, <1>15, <1>16, <1>17, <1>18, <1>19, <1>20, <1>21,
     <1>22, <1>23, <1>24, <1>25, Zenon
  DEF Next, Config, Poller, Flush, DriverCallback

(* What the notification protocol towards the device adds to the types. *)
KickPart == AskedForKick /\ AskedVisibly /\ UnseenAreNew

(* Every step keeps the part of the invariant about kicks. *)
LEMMA KickStep ==
  ASSUME KickInv, [Next]_vars
  PROVE  KickPart'
<1> USE DEF KickInv, KickPart, UnseenAreNew, AskedForKick, AskedVisibly,
            LatestAvailEvent, LatestUsedFlags
<1>1. ASSUME NEW sz \in Sizes, NEW ei \in EventIdx, Setup(sz, ei) PROVE KickPart'
  <2>1. AskedForKick' /\ AskedVisibly'
    BY <1>1, NoPendFields, Zenon DEF Setup, driverMem, deviceMem, CleanReset, ResetState
  <2>2. UnseenAreNew'
    BY <1>1, WSubSelf, ZeroIdx DEF Setup, driverMem, CleanReset, ResetState
  <2> QED
    BY <2>1, <2>2, Zenon
<1>2. CASE Reset
  BY <1>2, Zenon DEF Reset
<1>3. CASE SaveRestore
  BY <1>3, Zenon DEF SaveRestore, deviceVars, driverMem, deviceMem, driverVars
<1>4. CASE DisableNotification
  BY <1>4, Zenon DEF DisableNotification, queueVars, driverMem, deviceMem, driverVars
<1>5. CASE Iter
  BY <1>5, Zenon DEF Iter, queueVars, driverMem, deviceMem, driverVars
<1>6. CASE IterEnd
  BY <1>6, Zenon DEF IterEnd, queueVars, driverMem, deviceMem, driverVars
<1>7. CASE IterNext
  BY <1>7, Zenon DEF IterNext, driverMem, deviceMem, driverVars
<1>8. ASSUME NEW keep \in BOOLEAN, Dispatch(keep) PROVE KickPart'
  BY <1>8, Zenon DEF Dispatch, queueVars, driverMem, deviceMem, driverVars
<1>9. ASSUME NEW keep \in BOOLEAN, GoToPreviousPosition(keep) PROVE KickPart'
  BY <1>9, Zenon DEF GoToPreviousPosition, driverMem, deviceMem, driverVars
<1>10. CASE EnableNotification
  BY <1>10 DEF EnableNotification, queueVars, deviceMem, 
     TypeOK, Stores, None, Idx
<1>11. CASE RecheckAvail
  <2>1. AskedForKick' /\ AskedVisibly'
    BY <1>11, NoPendFields, Zenon DEF RecheckAvail, Fenced, queueVars, deviceMem
  <2>2. UnseenAreNew'
    BY <1>11, WSubSelf DEF RecheckAvail, queueVars, driverMem, driverVars, TypeOK, Idx
  <2> QED
    BY <2>1, <2>2, Zenon
<1>12. CASE WakeUp
  BY <1>12, Zenon DEF WakeUp, queueVars, driverMem, deviceMem, driverVars
<1>13. ASSUME NEW t \in Completers, NEW h \in Heads, AddUsed(t, h) PROVE KickPart'
  BY <1>13 DEF AddUsed, driverMem, deviceMem, driverVars
<1>14. ASSUME NEW t \in Completers, NeedsNotification(t) PROVE KickPart'
  BY <1>14, Zenon DEF NeedsNotification, driverMem, deviceMem, driverVars
<1>15. ASSUME NEW s \in Heads, FlushElem(s) PROVE KickPart'
  BY <1>15 DEF FlushElem, queueVars, deviceVars, driverMem, driverVars
<1>16. CASE FlushUsedIdx
  BY <1>16 DEF FlushUsedIdx, queueVars, deviceVars, driverMem, driverVars
<1>17. CASE FlushUsedFlags
  BY <1>17 DEF FlushUsedFlags, queueVars, deviceVars, driverMem, driverVars
<1>18. CASE FlushAvailEvent
  BY <1>18 DEF FlushAvailEvent, queueVars, deviceVars, driverMem, driverVars
<1>19. ASSUME NEW h \in Heads, DriverAdd(h) PROVE KickPart'
  <2>1. AskedForKick' /\ AskedVisibly'
    BY <1>19, Zenon DEF DriverAdd, queueVars, deviceVars, deviceMem
  <2>2. ASSUME dpc = "sleep", ~kick PROVE drv_added + 1 >= WSub(WAdd(avail_idx, 1), next_avail)
    <3>1. drv_added >= WSub(avail_idx, next_avail)
      BY <2>2, Zenon
    <3>2. WAdd(avail_idx, 1) \in Idx /\ avail_idx \in Idx /\ next_avail \in Idx /\ drv_added \in Idx
      BY WrapRange DEF TypeOK, Idx
    <3>3. WSub(avail_idx, next_avail) \in Idx
      BY <3>2, WrapRange DEF Idx
    <3> QED
      BY <3>1, <3>2, <3>3, WSubStep, SizeAssumption DEF Idx
  <2>3. UnseenAreNew'
    BY <1>19, <2>2, Zenon DEF DriverAdd, queueVars, deviceVars
  <2> QED
    BY <2>1, <2>3, Zenon
<1>20. CASE DriverKick
  <2>1. AskedForKick' /\ AskedVisibly'
    BY <1>20, Zenon DEF DriverKick, queueVars, deviceVars, deviceMem
  <2>2. UnseenAreNew'
    <3>1. NoLostKick
      BY KickInvImplies, Zenon DEF KickInv
    <3>2. CASE avail_idx = next_avail
      BY <1>20, <3>2, WSubSelf DEF DriverKick, queueVars, deviceVars, driverMem, TypeOK
    <3>3. CASE avail_idx # next_avail
      BY <1>20, <3>1, <3>3, Zenon DEF DriverKick, queueVars, deviceVars, driverMem, NoLostKick
    <3> QED
      BY <3>2, <3>3, Zenon
  <2> QED
    BY <2>1, <2>2, Zenon
<1>21. CASE DriverInterrupt
  BY <1>21, Zenon DEF DriverInterrupt, queueVars, deviceVars, driverMem, deviceMem
<1>22. CASE DriverCollect
  BY <1>22, Zenon DEF DriverCollect, queueVars, deviceVars, driverMem, deviceMem
<1>23. CASE DriverEnableInterrupt
  BY <1>23, Zenon DEF DriverEnableInterrupt, queueVars, deviceVars, deviceMem
<1>24. CASE DriverRecheck
  BY <1>24, Zenon DEF DriverRecheck, queueVars, deviceVars, driverMem, deviceMem
<1>25. CASE UNCHANGED vars
  BY <1>25, Zenon DEF vars, queueVars, deviceVars, driverMem, deviceMem, driverVars
<1> QED
  BY <1>1, <1>2, <1>3, <1>4, <1>5, <1>6, <1>7, <1>8, <1>9, <1>10, <1>11,
     <1>12, <1>13, <1>14, <1>15, <1>16, <1>17, <1>18, <1>19, <1>20, <1>21,
     <1>22, <1>23, <1>24, <1>25, Zenon
  DEF Next, Config, Poller, Flush, DriverCallback

(* enable_notification loses no notification, for every queue size and index  *)
(* width: a sleeping device with work to do has been or will be kicked.       *)
THEOREM NoLostKickHolds == Spec => []NoLostKick
<1>1. Init => KickInv
  <2> SUFFICES ASSUME Init PROVE KickInv
    BY Zenon
  <2>1. TypeOK
    BY InitType, Zenon
  <2> QED
    BY <2>1, Zenon DEF Init, KickInv, CleanReset, ResetState, AskedForKick, AskedVisibly, UnseenAreNew
<1>2. KickInv /\ [Next]_vars => KickInv'
  BY TypeStep, CleanResetStep, KickStep, Zenon DEF KickInv, KickPart
<1> QED
  BY <1>1, <1>2, KickInvImplies, PTL DEF Spec

--------------------------------------------------------------------------------
(* The interrupt side. *)

(* The used index is stored as soon as add_used returns, visible or not; if   *)
(* it is not visible, its completer has not passed the fence of               *)
(* needs_notification yet.                                                    *)
IndexStored ==
  IF pend.used_idx = None THEN used_idx = next_used
  ELSE pend.used_idx = next_used /\ dirty # {}

(* A driver that is about to sleep, or sleeps, asks for the next element. *)
EventAsked ==
  event_idx_enabled /\ cb \in {"idle", "recheck"} => used_event = last_used

(* num_added covers what is not visible, and someone will look at it. *)
Window ==
  event_idx_enabled =>
    /\ num_added <= MaxBatch
    /\ WSub(next_used, used_idx) <= num_added
    /\ num_added > 0 => dirty # {}

(* What a sleeping driver was not told of is within the window. *)
Uncollected ==
  cb = "idle" /\ ~irq /\ last_used # next_used =>
    /\ dirty # {}
    /\ event_idx_enabled => WSub(next_used, last_used) <= num_added

InterruptPart == IndexStored /\ EventAsked /\ Window /\ Uncollected

InterruptInv == TypeOK /\ CleanReset /\ InterruptPart

(* The invariant says that no interrupt is lost. *)
LEMMA InterruptInvImplies == InterruptInv => NoLostInterrupt
<1> SUFFICES ASSUME InterruptInv, cb = "idle", ~irq, last_used # next_used,
                    event_idx_enabled
             PROVE  EventPassed(used_event, next_used, WSub(next_used, num_added))
  BY Zenon DEF NoLostInterrupt, InterruptInv, InterruptPart, Uncollected
<1>1. /\ next_used \in Idx /\ last_used \in Idx /\ num_added \in Idx
      /\ used_event = last_used
      /\ WSub(next_used, last_used) <= num_added
  BY Zenon DEF InterruptInv, InterruptPart, TypeOK, EventAsked, Uncollected
<1> QED
  BY <1>1, EventInWindow, Zenon

(* A step keeps the window, unless it is a save that comes between add_used   *)
(* and needs_notification.                                                    *)
LEMMA InterruptStep ==
  ASSUME InterruptInv, [Next]_vars, ~DirtySave
  PROVE  InterruptPart'
<1> USE DEF InterruptInv, InterruptPart, IndexStored, EventAsked, Window, Uncollected
<1>1. ASSUME NEW sz \in Sizes, NEW ei \in EventIdx, Setup(sz, ei) PROVE InterruptPart'
  <2>1. next_used \in Idx /\ WSub(next_used, next_used) = 0 /\ 0 <= MaxBatch
    BY WSubSelf, BatchAssumption DEF TypeOK
  <2> QED
    BY <1>1, <2>1, NoPendFields DEF Setup, driverMem, deviceMem, CleanReset, ResetState
<1>2. CASE Reset
  BY <1>2, NoPendFields, Zenon DEF Reset, Fenced
<1>3. CASE SaveRestore
  <2>1. dirty = {}
    BY <1>3, Zenon DEF SaveRestore
  <2>2. event_idx_enabled => num_added = 0
    BY <2>1 DEF TypeOK, Idx
  <2> QED
    BY <1>3, <2>1, <2>2, NoPendFields, Zenon
    DEF SaveRestore, Fenced, deviceVars, driverMem, deviceMem, driverVars
<1>4. CASE DisableNotification
  BY <1>4 DEF DisableNotification, queueVars, driverMem, deviceMem, driverVars
<1>5. CASE Iter
  BY <1>5, Zenon DEF Iter, queueVars, driverMem, deviceMem, driverVars
<1>6. CASE IterEnd
  BY <1>6, Zenon DEF IterEnd, queueVars, driverMem, deviceMem, driverVars
<1>7. CASE IterNext
  BY <1>7, Zenon DEF IterNext, driverMem, deviceMem, driverVars
<1>8. ASSUME NEW keep \in BOOLEAN, Dispatch(keep) PROVE InterruptPart'
  BY <1>8, Zenon DEF Dispatch, queueVars, driverMem, deviceMem, driverVars
<1>9. ASSUME NEW keep \in BOOLEAN, GoToPreviousPosition(keep) PROVE InterruptPart'
  BY <1>9, Zenon DEF GoToPreviousPosition, driverMem, deviceMem, driverVars
<1>10. CASE EnableNotification
  BY <1>10 DEF EnableNotification, queueVars, driverMem, deviceMem, driverVars
<1>11. CASE RecheckAvail
  BY <1>11, Zenon DEF RecheckAvail, queueVars, driverMem, deviceMem, driverVars
<1>12. CASE WakeUp
  BY <1>12, Zenon DEF WakeUp, queueVars, driverMem, deviceMem, driverVars
<1>13. ASSUME NEW t \in Completers, NEW h \in Heads, AddUsed(t, h) PROVE InterruptPart'
  <2>1. /\ next_used \in Idx /\ used_idx \in Idx /\ last_used \in Idx
        /\ num_added \in Idx /\ WAdd(next_used, 1) \in Idx
        /\ WSub(next_used, used_idx) \in Idx /\ WSub(next_used, last_used) \in Idx
    BY WrapRange DEF TypeOK, Idx
  <2>2. /\ dirty' # {} /\ next_used' = WAdd(next_used, 1)
        /\ pend'.used_idx = WAdd(next_used, 1)
        /\ UNCHANGED <<used_idx, last_used, cb, irq, event_idx_enabled, used_event>>
    BY <1>13, Zenon DEF AddUsed, driverMem, deviceMem, driverVars, TypeOK, Stores
  <2>3. IndexStored' /\ EventAsked'
    BY <2>1, <2>2 DEF None, Idx
  <2>4. ASSUME event_idx_enabled
        PROVE  num_added' = num_added + 1 /\ num_added' <= MaxBatch
    BY <1>13, <2>1, <2>4, WAddLinear, BatchAssumption, SizeAssumption DEF AddUsed, Idx
  <2>5. Window'
    BY <2>1, <2>2, <2>4, WSubStep, SizeAssumption DEF Idx
  <2>6. ASSUME event_idx_enabled, cb = "idle", ~irq
        PROVE  WSub(next_used', last_used) <= num_added'
    <3>1. WSub(next_used, last_used) <= num_added
      BY <2>1, <2>6, WSubSelf DEF Idx
    <3> QED
      BY <2>1, <2>2, <2>4, <2>6, <3>1, WSubStep, SizeAssumption DEF Idx
  <2>7. Uncollected'
    BY <2>2, <2>6, Zenon
  <2> QED
    BY <2>3, <2>5, <2>7, Zenon
<1>14. ASSUME NEW t \in Completers, NeedsNotification(t) PROVE InterruptPart'
  <2>1. pend.used_idx = None /\ used_idx = next_used
    BY <1>14, NoPendFields, Zenon DEF NeedsNotification, Fenced
  <2>2. WSub(next_used, used_idx) = 0 /\ 0 <= MaxBatch
    BY <2>1, WSubSelf, BatchAssumption DEF TypeOK
  <2>3. IndexStored' /\ EventAsked' /\ Window'
    BY <1>14, <2>1, <2>2 DEF NeedsNotification, driverMem, deviceMem, driverVars
  <2>4. Uncollected'
    BY <1>14, InterruptInvImplies, Zenon
    DEF NeedsNotification, NoLostInterrupt, driverMem, deviceMem, driverVars
  <2> QED
    BY <2>3, <2>4, Zenon
<1>15. ASSUME NEW s \in Heads, FlushElem(s) PROVE InterruptPart'
  BY <1>15 DEF FlushElem, queueVars, deviceVars, driverMem, driverVars
<1>16. CASE FlushUsedIdx
  <2>1. used_idx' = next_used /\ pend'.used_idx = None
    BY <1>16, Zenon DEF FlushUsedIdx, TypeOK, Stores
  <2>2. WSub(next_used, next_used) = 0 /\ num_added \in Idx
    BY WSubSelf, Zenon DEF TypeOK
  <2> QED
    BY <1>16, <2>1, <2>2 DEF FlushUsedIdx, queueVars, deviceVars, driverMem, driverVars, Idx
<1>17. CASE FlushUsedFlags
  BY <1>17 DEF FlushUsedFlags, queueVars, deviceVars, driverMem, driverVars
<1>18. CASE FlushAvailEvent
  BY <1>18 DEF FlushAvailEvent, queueVars, deviceVars, driverMem, driverVars
<1>19. ASSUME NEW h \in Heads, DriverAdd(h) PROVE InterruptPart'
  BY <1>19, Zenon DEF DriverAdd, queueVars, deviceVars, deviceMem
<1>20. CASE DriverKick
  BY <1>20, Zenon DEF DriverKick, queueVars, deviceVars, driverMem, deviceMem
<1>21. CASE DriverInterrupt
  BY <1>21, Zenon DEF DriverInterrupt, queueVars, deviceVars, driverMem, deviceMem
<1>22. CASE DriverCollect
  BY <1>22, Zenon DEF DriverCollect, queueVars, deviceVars, driverMem, deviceMem
<1>23. CASE DriverEnableInterrupt
  BY <1>23, Zenon DEF DriverEnableInterrupt, queueVars, deviceVars, deviceMem
<1>24. CASE DriverRecheck
  BY <1>24, Zenon DEF DriverRecheck, queueVars, deviceVars, driverMem, deviceMem
<1>25. CASE UNCHANGED vars
  BY <1>25, Zenon DEF vars, queueVars, deviceVars, driverMem, deviceMem, driverVars
<1> QED
  BY <1>1, <1>2, <1>3, <1>4, <1>5, <1>6, <1>7, <1>8, <1>9, <1>10, <1>11,
     <1>12, <1>13, <1>14, <1>15, <1>16, <1>17, <1>18, <1>19, <1>20, <1>21,
     <1>22, <1>23, <1>24, <1>25, Zenon
  DEF Next, Config, Poller, Flush, DriverCallback

(* The interrupt invariant holds throughout, without saves in between. *)
LEMMA InterruptInvHolds ==
  ASSUME ~DirtySave
  PROVE  Spec => []InterruptInv
<1>1. Init => InterruptInv
  <2> SUFFICES ASSUME Init PROVE InterruptInv
    BY Zenon
  <2>1. TypeOK
    BY InitType, Zenon
  <2>2. InterruptPart
    BY NoPendFields, Zenon DEF Init, InterruptPart, IndexStored, EventAsked, Window, Uncollected
  <2> QED
    BY <2>1, <2>2, Zenon DEF Init, InterruptInv, CleanReset, ResetState
<1>2. InterruptInv /\ [Next]_vars => InterruptInv'
  BY TypeStep, CleanResetStep, InterruptStep, Zenon DEF InterruptInv
<1> QED
  BY <1>1, <1>2, PTL DEF Spec

(* needs_notification loses no interrupt, however many completers share the   *)
(* queue and however they interleave, as long as no queue is saved between    *)
(* add_used and needs_notification.                                           *)
THEOREM NoLostInterruptHolds ==
  ASSUME ~DirtySave
  PROVE  Spec => []NoLostInterrupt
<1> QED
  BY InterruptInvHolds, InterruptInvImplies, PTL

--------------------------------------------------------------------------------
(* num_added and the history of add_used calls agree, and neither outlives a  *)
(* reset.                                                                     *)
CountInv == NumAddedCounts /\ (~ready => since = 0)

(* The steps that touch neither count, nor when they are compared. *)
LEMMA CountKept ==
  ASSUME CountInv, UNCHANGED <<ready, event_idx_enabled, num_added, since>>
  PROVE  CountInv'
BY Zenon DEF CountInv, NumAddedCounts

(* Every step keeps the two counts equal. *)
LEMMA CountStep ==
  ASSUME InterruptInv, CountInv, [Next]_vars, ~DirtySave
  PROVE  CountInv'
<1>1. ASSUME NEW sz \in Sizes, NEW ei \in EventIdx, Setup(sz, ei) PROVE CountInv'
  <2>1. num_added = 0 /\ since = 0
    BY <1>1, Zenon DEF Setup, InterruptInv, CleanReset, ResetState, CountInv
  <2> QED
    BY <1>1, <2>1, Zenon DEF Setup, CountInv, NumAddedCounts
<1>2. CASE Reset
  BY <1>2, Zenon DEF Reset, CountInv, NumAddedCounts
<1>3. CASE SaveRestore
  <2>1. event_idx_enabled => num_added = 0
    BY <1>3 DEF SaveRestore, InterruptInv, InterruptPart, Window, TypeOK, Idx
  <2> QED
    BY <1>3, <2>1, Zenon DEF SaveRestore, CountInv, NumAddedCounts
<1>4. ASSUME NEW t \in Completers, NEW h \in Heads, AddUsed(t, h) PROVE CountInv'
  <2>1. ready
    BY <1>4, Zenon DEF AddUsed, InterruptInv, CleanReset, ResetState
  <2> QED
    BY <1>4, <2>1, Zenon DEF AddUsed, CountInv, NumAddedCounts
<1>5. ASSUME NEW t \in Completers, NeedsNotification(t) PROVE CountInv'
  BY <1>5, Zenon DEF NeedsNotification, CountInv, NumAddedCounts
<1>6. CASE Poller \/ \E keep \in BOOLEAN : GoToPreviousPosition(keep)
  BY <1>6, CountKept, Zenon
  DEF Poller, DisableNotification, Iter, IterEnd, IterNext, Dispatch, GoToPreviousPosition,
      EnableNotification, RecheckAvail, WakeUp, queueVars
<1>7. CASE Flush
  BY <1>7, CountKept, Zenon
  DEF Flush, FlushElem, FlushUsedIdx, FlushUsedFlags, FlushAvailEvent, queueVars
<1>8. CASE (\E h \in Heads : DriverAdd(h)) \/ DriverKick \/ DriverCallback
  BY <1>8, CountKept, Zenon
  DEF DriverAdd, DriverKick, DriverCallback, DriverInterrupt, DriverCollect,
      DriverEnableInterrupt, DriverRecheck, queueVars
<1>9. CASE UNCHANGED vars
  BY <1>9, CountKept, Zenon DEF vars, queueVars
<1> QED
  BY <1>1, <1>2, <1>3, <1>4, <1>5, <1>6, <1>7, <1>8, <1>9, Zenon DEF Next, Config

(* num_added counts the add_used calls since the last needs_notification,     *)
(* across resets, saves and wrap-around, as long as no queue is saved between *)
(* the two.                                                                   *)
THEOREM NumAddedCountsHolds ==
  ASSUME ~DirtySave
  PROVE  Spec => []NumAddedCounts
<1>1. Init => CountInv
  BY Zenon DEF Init, CountInv, NumAddedCounts
<1>2. InterruptInv /\ CountInv /\ [Next]_vars => CountInv'
  BY CountStep, Zenon
<1>3. CountInv => NumAddedCounts
  BY Zenon DEF CountInv
<1> QED
  BY <1>1, <1>2, <1>3, InterruptInvHolds, PTL DEF Spec

--------------------------------------------------------------------------------
(* The rings: where a chain is, and which slots its entries take. *)

(* Division with remainder, as the provers know it; products that vary stay   *)
(* inside these lemmas.                                                       *)
LEMMA Division ==
  ASSUME NEW a \in Int, NEW s \in Nat \ {0}
  PROVE  \E q \in Int : \E r \in 0..(s - 1) : a = s * q + r /\ r = a % s
OBVIOUS

(* Multiplication over a difference. *)
LEMMA Distributes ==
  ASSUME NEW s \in Int, NEW p \in Int, NEW q \in Int
  PROVE  s * (p - q) = s * p - s * q
OBVIOUS

(* A multiple is no smaller. *)
LEMMA PositiveProduct ==
  ASSUME NEW s \in Nat \ {0}, NEW d \in Int, d >= 1
  PROVE  s * d >= s
OBVIOUS

(* The negative of a multiple. *)
LEMMA NegatedProduct ==
  ASSUME NEW s \in Int, NEW d \in Int
  PROVE  s * (-d) = -(s * d)
OBVIOUS

(* A multiple of s that is nearer to 0 than s is 0. *)
LEMMA SmallMultiple ==
  ASSUME NEW s \in Nat \ {0}, NEW d \in Int
  PROVE  s * d < s /\ -s < s * d => d = 0
<1>1. CASE d >= 1
  BY <1>1, PositiveProduct
<1>2. CASE d <= -1
  <2>1. s * (-d) >= s
    BY <1>2, PositiveProduct
  <2> QED
    BY <2>1, NegatedProduct
<1> QED
  BY <1>1, <1>2

(* Less than s apart, two numbers with the same remainder are the same. *)
LEMMA SameRemainder ==
  ASSUME NEW s \in Nat \ {0}, NEW a \in Int, NEW b \in Int
  PROVE  a % s = b % s /\ a - b < s /\ b - a < s => a = b
<1>1. PICK q \in Int, r \in 0..(s - 1) : a = s * q + r /\ r = a % s
  BY Division, Zenon
<1>2. PICK p \in Int, t \in 0..(s - 1) : b = s * p + t /\ t = b % s
  BY Division, Zenon
<1>3. s * (p - q) = s * p - s * q
  BY Distributes
<1>4. s * (p - q) < s /\ -s < s * (p - q) => p - q = 0
  BY SmallMultiple
<1>5. PICK x \in Int, y \in Int, z \in Int : x = s * q /\ y = s * p /\ z = s * (p - q)
  OBVIOUS
<1>6. /\ z = y - x /\ (z < s /\ -s < z => p - q = 0)
      /\ a = x + r /\ b = y + t /\ (p = q => x = y)
  BY <1>1, <1>2, <1>3, <1>4, <1>5, Zenon
<1>7. r = a % s /\ t = b % s
  BY <1>1, <1>2, Zenon
<1> QED
  BY <1>6, <1>7

(* Adding a multiple does not change the remainder. *)
LEMMA ShiftedRemainder ==
  ASSUME NEW s \in Nat \ {0}, NEW a \in Int, NEW k \in Int
  PROVE  (a + s * k) % s = a % s
<1>1. PICK w \in Int : w = s * k
  OBVIOUS
<1>2. PICK b \in Int : b = a + w
  OBVIOUS
<1>3. PICK q \in Int, r \in 0..(s - 1) : a = s * q + r /\ r = a % s
  BY Division, Zenon
<1>4. PICK p \in Int, t \in 0..(s - 1) : b = s * p + t /\ t = b % s
  BY Division, Zenon
<1>5. s * ((p - q) - k) = s * p - s * q - s * k
  BY Distributes
<1>6. PICK d \in Int : d = (p - q) - k
  OBVIOUS
<1>7. PICK x \in Int, y \in Int, z \in Int : x = s * q /\ y = s * p /\ z = s * d
  OBVIOUS
<1>8. z < s /\ -s < z => d = 0
  BY <1>7, SmallMultiple, Zenon
<1>9. z = y - x - w /\ a = x + r /\ b = y + t /\ (d = 0 => z = 0)
  BY <1>1, <1>3, <1>4, <1>5, <1>6, <1>7
<1>10. r = t
  BY <1>2, <1>8, <1>9
<1> QED
  BY <1>1, <1>2, <1>3, <1>4, <1>10, Zenon

(* A number without remainder is a multiple. *)
LEMMA NoRemainder ==
  ASSUME NEW a \in Int, NEW s \in Nat \ {0}, a % s = 0
  PROVE  \E k \in Int : a = s * k
<1>1. PICK q \in Int, r \in 0..(s - 1) : a = s * q + r /\ r = a % s
  BY Division, Zenon
<1>2. PICK w \in Int : w = s * q
  OBVIOUS
<1>3. a = w
  <2>1. a = w + r /\ r = 0
    BY <1>1, <1>2, Zenon
  <2> QED
    BY <2>1
<1> QED
  BY <1>2, <1>3, Zenon

(* The queue size divides the range of a ring index, so that a wrapped index  *)
(* falls into the slot of the index that did not wrap.                        *)
LEMMA WrappedSlot ==
  ASSUME NEW x \in Idx, NEW i \in Nat, i <= MaxSize, NEW sz \in Sizes
  PROVE  WAdd(x, i) % sz = (x + i) % sz
<1>1. sz \in Nat \ {0} /\ IdxMod % sz = 0 /\ IdxMod \in Nat \ {0}
  BY SizeAssumption DEF Sizes
<1>2. PICK k \in Int : IdxMod = sz * k
  BY <1>1, NoRemainder
<1>3. PICK a \in Nat : a = x + i
  BY DEF Idx
<1>4. a < 2 * IdxMod
  BY <1>3, SizeAssumption DEF Idx
<1>5. CASE a < IdxMod
  BY <1>1, <1>3, <1>5 DEF WAdd
<1>6. CASE a >= IdxMod
  <2>1. PICK b \in Int : b = a - IdxMod
    BY <1>1
  <2>2. a % IdxMod = b
    BY <1>1, <1>4, <1>6, <2>1
  <2>3. a = b + sz * k
    BY <1>1, <1>2, <2>1
  <2>4. (b + sz * k) % sz = b % sz
    BY <1>1, ShiftedRemainder, Zenon
  <2> QED
    BY <1>3, <2>2, <2>3, <2>4, Zenon DEF WAdd
<1> QED
  BY <1>1, <1>5, <1>6

(* The slots of size neighbouring entries are all different. *)
LEMMA SlotsApart ==
  ASSUME NEW x \in Idx, NEW sz \in Sizes, NEW i \in Nat, NEW j \in Nat,
         i <= sz, j <= sz, i # j, i - j < sz, j - i < sz
  PROVE  WAdd(x, i) % sz # WAdd(x, j) % sz
<1>1. sz \in Nat \ {0} /\ sz <= MaxSize /\ MaxSize \in Nat
  BY SizeAssumption DEF Sizes
<1>2. WAdd(x, i) % sz = (x + i) % sz /\ WAdd(x, j) % sz = (x + j) % sz
  BY <1>1, WrappedSlot
<1>3. PICK a \in Int, b \in Int : a = x + i /\ b = x + j
  BY DEF Idx
<1>4. a - b < sz /\ b - a < sz /\ a # b
  BY <1>1, <1>3 DEF Idx
<1> QED
  BY <1>1, <1>2, <1>3, <1>4, SameRemainder, Zenon

(* Moving along a ring. *)
LEMMA WAddZero ==
  ASSUME NEW x \in Idx
  PROVE  WAdd(x, 0) = x
BY SizeAssumption DEF WAdd, Idx

(* Counting on from the next index. *)
LEMMA WAddNext ==
  ASSUME NEW x \in Idx, NEW i \in Nat, i < IdxMod
  PROVE  WAdd(WAdd(x, 1), i) = WAdd(x, i + 1)
<1>1. IdxMod \in Nat \ {0} /\ IdxMod > 1
  BY SizeAssumption
<1>2. WAdd(x, 1) = IF x = IdxMod - 1 THEN 0 ELSE x + 1
  BY WAddLinear, Zenon
<1>3. CASE x = IdxMod - 1
  <2>1. WAdd(WAdd(x, 1), i) = i
    BY <1>1, <1>2, <1>3 DEF WAdd
  <2>2. x + (i + 1) = IdxMod + i
    BY <1>1, <1>3
  <2>3. (IdxMod + i) % IdxMod = i
    BY <1>1
  <2> QED
    BY <2>1, <2>2, <2>3, Zenon DEF WAdd
<1>4. CASE x # IdxMod - 1
  BY <1>1, <1>2, <1>4 DEF WAdd, Idx
<1> QED
  BY <1>3, <1>4, Zenon

(* An index is reached from another by going their distance. *)
LEMMA WAddReach ==
  ASSUME NEW x \in Idx, NEW y \in Idx
  PROVE  WAdd(x, WSub(y, x)) = y
<1>1. IdxMod \in Nat \ {0}
  BY SizeAssumption
<1>2. CASE y >= x
  <2>1. x + WSub(y, x) = y
    BY <1>2, WSubLinear DEF Idx
  <2>2. y % IdxMod = y
    BY <1>1 DEF Idx
  <2> QED
    BY <2>1, <2>2, Zenon DEF WAdd
<1>3. CASE y < x
  <2>1. x + WSub(y, x) = y + IdxMod
    BY <1>1, <1>3, WSubLinear DEF Idx
  <2>2. (y + IdxMod) % IdxMod = y
    BY <1>1 DEF Idx
  <2> QED
    BY <2>1, <2>2, Zenon DEF WAdd
<1> QED
  BY <1>2, <1>3 DEF Idx

(* Advancing the near end of a stretch that is not empty shortens it by one. *)
LEMMA WSubAdvance ==
  ASSUME NEW x \in Idx, NEW y \in Idx, x # y
  PROVE  /\ WSub(y, x) \in Nat /\ WSub(y, x) > 0
         /\ WSub(y, WAdd(x, 1)) = WSub(y, x) - 1
<1>1. IdxMod \in Nat /\ IdxMod > 1
  BY SizeAssumption
<1>2. WAdd(x, 1) \in Idx /\ WAdd(x, 1) = IF x = IdxMod - 1 THEN 0 ELSE x + 1
  BY WAddLinear, WrapRange DEF Idx
<1>3. WSub(y, x) = IF y >= x THEN y - x ELSE y - x + IdxMod
  BY WSubLinear, Zenon
<1>4. WSub(y, WAdd(x, 1)) = IF y >= WAdd(x, 1) THEN y - WAdd(x, 1) ELSE y - WAdd(x, 1) + IdxMod
  BY <1>2, WSubLinear, Zenon
<1> QED
  BY <1>1, <1>2, <1>3, <1>4 DEF Idx

(* Going forth and back (go_to_previous_position) ends where it began. *)
LEMMA WSubUndo ==
  ASSUME NEW x \in Idx
  PROVE  WSub(WAdd(x, 1), 1) = x /\ WAdd(WSub(x, 1), 1) = x /\ WSub(x, 1) \in Idx
<1>1. IdxMod \in Nat /\ IdxMod > 1 /\ 1 \in Idx
  BY SizeAssumption DEF Idx
<1>2. WAdd(x, 1) \in Idx /\ WSub(x, 1) \in Idx
  BY WrapRange DEF Idx
<1>3. WAdd(x, 1) = IF x = IdxMod - 1 THEN 0 ELSE x + 1
  BY WAddLinear, Zenon
<1>4. WSub(x, 1) = IF x >= 1 THEN x - 1 ELSE x - 1 + IdxMod
  BY <1>1, WSubLinear, Zenon
<1>5. WSub(WAdd(x, 1), 1) = IF WAdd(x, 1) >= 1 THEN WAdd(x, 1) - 1 ELSE WAdd(x, 1) - 1 + IdxMod
  BY <1>1, <1>2, WSubLinear, Zenon
<1>6. WAdd(WSub(x, 1), 1) = IF WSub(x, 1) = IdxMod - 1 THEN 0 ELSE WSub(x, 1) + 1
  BY <1>2, WAddLinear, Zenon
<1> QED
  BY <1>1, <1>2, <1>3, <1>4, <1>5, <1>6 DEF Idx

(* Lists of n different chains of a queue with sz entries. *)
Lists(n, sz) ==
  {f \in [0..(n - 1) -> 0..(sz - 1)] : \A i, j \in 0..(n - 1) : i # j => f[i] # f[j]}

(* There is room for one more: a chain that is not in the list fits behind    *)
(* it.  What follows assumes this principle where it needs it;                *)
(* VirtqueueExchangeProofs proves it from the theorems on finite sets.        *)
RoomForOne ==
  \A n, sz \in Nat : \A f \in Lists(n, sz) : \A h \in 0..(sz - 1) :
    (\A i \in 0..(n - 1) : f[i] # h) => n < sz

--------------------------------------------------------------------------------
(* The rings hold each chain once. *)

(* The first entry of the available ring that is not dispatched: an undo may  *)
(* go back to the chain the poller looks at.                                  *)
FirstKept == IF dpc = "got" THEN WSub(next_avail, 1) ELSE next_avail

Kept == WSub(avail_idx, FirstKept)

Returned == WSub(next_used, last_used)

(* How many elements of the used ring the driver can see. *)
Visible == WSub(used_idx, last_used)

Entry(x, i) == WAdd(x, i) % size

AvailAt(i) == avail_ring[Entry(FirstKept, i)]

UsedAt(i) == LatestElem(Entry(last_used, i))

(* Every chain is in one place at a time: free, offered, with a completer or  *)
(* returned; so neither ring holds more chains than the queue has.            *)
ChainsApart ==
  /\ Kept <= size /\ Returned <= size
  /\ free \subseteq 0..(size - 1) /\ inflight \subseteq 0..(size - 1)
  /\ free \cap inflight = {}
  /\ \A i \in 0..(Kept - 1) :
       /\ AvailAt(i) \in 0..(size - 1)
       /\ AvailAt(i) \notin free \union inflight
       /\ \A j \in 0..(Kept - 1) : i # j => AvailAt(i) # AvailAt(j)
       /\ \A j \in 0..(Returned - 1) : AvailAt(i) # UsedAt(j)
  /\ \A i \in 0..(Returned - 1) :
       /\ UsedAt(i) \in 0..(size - 1)
       /\ UsedAt(i) \notin free \union inflight
       /\ \A j \in 0..(Returned - 1) : i # j => UsedAt(i) # UsedAt(j)

(* The iterator stays inside what the driver has offered. *)
IterInside ==
  /\ dpc = "got" => /\ Kept > 0 /\ got = AvailAt(0)
                    /\ WSub(last_index, FirstKept) > 0
  /\ dpc # "got" => got = None
  /\ dpc \in {"next", "got"} => WSub(last_index, FirstKept) <= Kept

(* The driver sees the used index only after the elements in front of it. *)
SeenInOrder ==
  /\ pend.used_idx \in {None, next_used}
  /\ pend.used_idx = None => used_idx = next_used
  /\ Visible <= Returned
  /\ \A i \in 0..(Visible - 1) : pend.used_elem[Entry(last_used, i)] = None

RingPart == ChainsApart /\ IterInside /\ SeenInOrder /\ dpc # "broken"

RingInv == TypeOK /\ CleanReset /\ RingPart

(* The types of what the ring is read through. *)
LEMMA RingTypes ==
  ASSUME TypeOK
  PROVE  /\ size \in Sizes /\ size \in Nat \ {0} /\ size <= MaxSize /\ MaxSize \in Nat
         /\ size < IdxMod /\ IdxMod \in Nat
         /\ 0..(size - 1) \subseteq Heads
         /\ FirstKept \in Idx /\ last_used \in Idx /\ next_used \in Idx /\ used_idx \in Idx
         /\ avail_idx \in Idx /\ next_avail \in Idx /\ last_index \in Idx
         /\ Kept \in Nat /\ Returned \in Nat /\ Visible \in Nat
         /\ avail_ring \in [Heads -> Heads] /\ used_ring \in [Heads -> Heads]
         /\ pend.used_elem \in [Heads -> Heads \union {None}]
<1>1. size \in Sizes /\ size \in Nat \ {0} /\ size <= MaxSize /\ MaxSize \in Nat
  BY SizeAssumption DEF TypeOK, Sizes
<1>2. size < IdxMod /\ IdxMod \in Nat
  BY <1>1, SizeAssumption
<1>3. /\ avail_idx \in Idx /\ next_avail \in Idx /\ last_index \in Idx /\ last_used \in Idx
      /\ next_used \in Idx /\ used_idx \in Idx
      /\ avail_ring \in [Heads -> Heads] /\ used_ring \in [Heads -> Heads]
      /\ pend.used_elem \in [Heads -> Heads \union {None}]
  BY Zenon DEF TypeOK, Stores
<1>4. FirstKept \in Idx
  <2>1. next_avail \in Int
    BY <1>3 DEF Idx
  <2>2. WSub(next_avail, 1) \in Idx
    BY <2>1, WrapRange
  <2> QED
    BY <1>3, <2>2, Zenon DEF FirstKept
<1>5. Kept \in Nat /\ Returned \in Nat /\ Visible \in Nat
  BY <1>3, <1>4, WrapRange DEF Kept, Returned, Visible, Idx
<1>6. 0..(size - 1) \subseteq Heads
  BY <1>1 DEF Heads
<1> QED
  BY <1>1, <1>2, <1>3, <1>4, <1>5, <1>6, Zenon

(* Entries of a ring that holds no more than size are in different slots. *)
LEMMA EntriesApart ==
  ASSUME TypeOK, NEW x \in Idx, NEW i \in Nat, NEW j \in Nat,
         i < size, j < size
  PROVE  /\ Entry(x, i) \in Heads
         /\ Entry(x, i) = Entry(x, j) => i = j
<1>1. size \in Sizes /\ size \in Nat
  BY RingTypes, Zenon
<1>2. WAdd(x, i) \in Idx
  BY WrapRange DEF Idx
<1>3. Entry(x, i) \in Heads
  BY <1>1, <1>2, SlotRange, Zenon DEF Entry
<1>4. i # j => Entry(x, i) # Entry(x, j)
  BY <1>1, SlotsApart DEF Entry
<1> QED
  BY <1>3, <1>4, Zenon

(* The slot behind a stretch of entries is the one its end points to. *)
LEMMA EntryAtEnd ==
  ASSUME NEW x \in Idx, NEW y \in Idx
  PROVE  Entry(x, WSub(y, x)) = y % size
BY WAddReach, Zenon DEF Entry

(* The first entry from an index is in its slot. *)
LEMMA EntryZero ==
  ASSUME NEW x \in Idx
  PROVE  Entry(x, 0) = x % size
BY WAddZero, Zenon DEF Entry

(* Steps that leave the chains where they are. *)
LEMMA ChainsKept ==
  ASSUME TypeOK, ChainsApart, FirstKept' = FirstKept,
         UNCHANGED <<size, avail_idx, avail_ring, inflight, free, next_used, last_used>>,
         \A s \in Heads : LatestElem(s)' = LatestElem(s)
  PROVE  /\ ChainsApart' /\ Kept' = Kept
         /\ \A i \in 0..(Kept - 1) : AvailAt(i)' = AvailAt(i)
<1>1. Kept' = Kept /\ Returned' = Returned
  BY Zenon DEF Kept, Returned
<1>2. \A i : AvailAt(i)' = AvailAt(i)
  BY Zenon DEF AvailAt, Entry
<1>3. ASSUME NEW i \in 0..(Returned - 1) PROVE UsedAt(i)' = UsedAt(i)
  <2>1. i \in Nat /\ i < size
    BY RingTypes DEF ChainsApart
  <2>2. Entry(last_used, i) \in Heads
    BY <2>1, RingTypes, EntriesApart, Zenon
  <2> QED
    BY <2>2, Zenon DEF UsedAt, Entry
<1>4. ChainsApart'
  BY <1>1, <1>2, <1>3 DEF ChainsApart
<1> QED
  BY <1>1, <1>2, <1>4, Zenon

(* A step that leaves the used ring alone leaves what the driver sees. *)
LEMMA SeenKept ==
  ASSUME SeenInOrder, UNCHANGED <<size, next_used, last_used, used_idx>>,
         pend'.used_idx = pend.used_idx, pend'.used_elem = pend.used_elem
  PROVE  SeenInOrder'
BY Zenon DEF SeenInOrder, Visible, Returned, Entry

(* Unfolding of the invariant for the step lemmas. *)
LEMMA RingFacts ==
  ASSUME RingInv
  PROVE  /\ TypeOK /\ CleanReset /\ ChainsApart /\ IterInside /\ SeenInOrder /\ dpc # "broken"
         /\ Kept <= size /\ Returned <= size /\ Visible <= Returned
BY Zenon DEF RingInv, RingPart, ChainsApart, SeenInOrder

(* A ring that was reset, or has just been set up, is empty. *)
EmptyRing ==
  /\ TypeOK /\ dpc \in {"off", "sleep", "iter"} /\ got = None
  /\ next_avail = avail_idx /\ next_used = last_used /\ used_idx = next_used
  /\ inflight = {} /\ free \subseteq 0..(size - 1) /\ pend = NoPend

(* An empty ring is in order. *)
LEMMA RingEmpty == EmptyRing => RingPart
<1> SUFFICES ASSUME EmptyRing PROVE RingPart
  BY Zenon
<1> USE DEF EmptyRing
<1>1. next_avail \in Idx /\ next_used \in Idx /\ size \in Nat
  BY RingTypes, Zenon
<1>2. Kept = 0 /\ Returned = 0 /\ Visible = 0
  BY <1>1, WSubSelf, Zenon DEF Kept, FirstKept, Returned, Visible
<1>3. ChainsApart
  BY <1>1, <1>2 DEF ChainsApart
<1>4. IterInside
  BY Zenon DEF IterInside
<1>5. SeenInOrder
  BY <1>2, NoPendFields DEF SeenInOrder
<1> QED
  BY <1>3, <1>4, <1>5, Zenon DEF RingPart

(* A driver sets up an empty ring. *)
LEMMA RingSetup ==
  ASSUME RingInv, TypeOK', NEW sz \in Sizes, NEW ei \in EventIdx, Setup(sz, ei)
  PROVE  RingPart'
<1>1. ResetState /\ got = None
  BY RingFacts, Zenon DEF Setup, CleanReset, ResetState, IterInside
<1>2. /\ dpc' \in {"sleep", "iter"} /\ got' = None
      /\ next_avail' = avail_idx' /\ next_used' = last_used' /\ used_idx' = next_used'
      /\ inflight' = {} /\ free' = 0..(size' - 1) /\ pend' = NoPend
  BY <1>1, Zenon DEF Setup, ResetState, driverMem, deviceMem
<1>3. EmptyRing' => RingPart'
  BY RingEmpty, PTL
<1> QED
  BY <1>2, <1>3, Zenon DEF EmptyRing

(* Queue::reset leaves an empty ring. *)
LEMMA RingReset ==
  ASSUME RingInv, TypeOK', Reset
  PROVE  RingPart'
<1>1. got = None
  BY RingFacts, Zenon DEF Reset, IterInside
<1>2. free' \subseteq 0..(size' - 1)
  BY Zenon DEF Reset, Heads
<1>3. /\ dpc' \in {"off", "iter"} /\ got' = None
      /\ next_avail' = avail_idx' /\ next_used' = last_used' /\ used_idx' = next_used'
      /\ inflight' = {} /\ pend' = NoPend
  BY <1>1, Zenon DEF Reset, Fenced
<1>4. EmptyRing' => RingPart'
  BY RingEmpty, PTL
<1> QED
  BY <1>2, <1>3, <1>4, Zenon DEF EmptyRing

--------------------------------------------------------------------------------
(* The rings of a queue hold each chain once, whatever the device, the        *)
(* completing threads and the driver do next: RingInv step by step.           *)

(* The driver offers a chain: there is a slot for it, and no entry that the   *)
(* device may still read is in that slot.                                     *)
LEMMA RingOffer ==
  ASSUME RoomForOne, RingInv, NEW h \in Heads, DriverAdd(h), NEW n \in Nat, n = Kept
  PROVE  /\ RingPart'
         /\ n < size /\ Kept' = n + 1 /\ FirstKept' = FirstKept
         /\ AvailAt(n)' = h
         /\ \A i \in 0..(n - 1) : AvailAt(i)' = AvailAt(i)
<1>1. /\ h \in free /\ free' = free \ {h}
      /\ avail_ring' = [avail_ring EXCEPT ![avail_idx % size] = h]
      /\ avail_idx' = WAdd(avail_idx, 1)
      /\ UNCHANGED <<ready, size, next_avail, next_used, dpc, last_index, got, inflight, pend,
                     used_idx, used_ring, last_used>>
  BY Zenon DEF DriverAdd, queueVars, deviceVars, deviceMem
<1>2. /\ TypeOK /\ ChainsApart /\ IterInside /\ SeenInOrder /\ dpc # "broken"
      /\ Returned \in Nat /\ size \in Nat \ {0} /\ size < IdxMod /\ IdxMod \in Nat
      /\ FirstKept \in Idx /\ avail_idx \in Idx /\ avail_ring \in [Heads -> Heads]
      /\ n <= size /\ Returned <= size
  BY RingFacts, RingTypes, Zenon
<1>3. n < size
  <2>1. PICK sz \in Nat : sz = size
    BY <1>2, Zenon
  <2>2. /\ \A i \in 0..(n - 1) : AvailAt(i) \in 0..(sz - 1) /\ AvailAt(i) # h
        /\ \A i, j \in 0..(n - 1) : i # j => AvailAt(i) # AvailAt(j)
        /\ h \in 0..(sz - 1)
    BY <1>1, <1>2, <2>1, Zenon DEF ChainsApart
  <2>3. PICK f \in Lists(n, sz) : \A i \in 0..(n - 1) : f[i] # h
    <3>1. [i \in 0..(n - 1) |-> AvailAt(i)] \in Lists(n, sz)
      BY <2>2, Zenon DEF Lists
    <3> QED
      BY <2>2, <3>1, Zenon
  <2>4. n < sz
    BY <2>2, <2>3 DEF RoomForOne
  <2> QED
    BY <2>1, <2>4, Zenon
<1>4. FirstKept' = FirstKept
  BY <1>1, Zenon DEF FirstKept
<1>5. Kept' = n + 1
  <2>1. Kept' = WSub(WAdd(avail_idx, 1), FirstKept)
    BY <1>1, <1>4, Zenon DEF Kept
  <2>2. n = WSub(avail_idx, FirstKept) /\ n # IdxMod - 1
    BY <1>2, <1>3 DEF Kept
  <2> QED
    BY <1>2, <2>1, <2>2, WSubStep, Zenon
<1>6. Entry(FirstKept, n) = avail_idx % size
  BY <1>2, EntryAtEnd, Zenon DEF Kept
<1>7. AvailAt(n)' = h
  <2>1. Entry(FirstKept, n) \in Heads
    BY <1>2, <1>3, EntriesApart, Zenon
  <2>2. avail_ring'[Entry(FirstKept, n)] = h
    BY <1>1, <1>2, <1>6, <2>1, Zenon
  <2> QED
    BY <1>1, <1>4, <2>2, Zenon DEF AvailAt, Entry
<1>8. ASSUME NEW i \in 0..(n - 1) PROVE AvailAt(i)' = AvailAt(i)
  <2>1. i \in Nat /\ i < size /\ i # n
    BY <1>2
  <2>2. Entry(FirstKept, i) \in Heads /\ Entry(FirstKept, i) # Entry(FirstKept, n)
    BY <1>2, <1>3, <2>1, EntriesApart, Zenon
  <2>3. avail_ring'[Entry(FirstKept, i)] = avail_ring[Entry(FirstKept, i)]
    BY <1>1, <1>2, <1>6, <2>2, Zenon
  <2> QED
    BY <1>1, <1>4, <2>3, Zenon DEF AvailAt, Entry
<1>9. Returned' = Returned /\ \A i : UsedAt(i)' = UsedAt(i)
  BY <1>1, Zenon DEF Returned, UsedAt, Entry, LatestElem
<1>10. ChainsApart'
  <2>1. AvailAt(n)' \in 0..(size - 1) /\ AvailAt(n)' \notin free' \union inflight
    BY <1>1, <1>2, <1>7, Zenon DEF ChainsApart
  <2>2. \A i \in 0..(n - 1) : AvailAt(i)' # h
    BY <1>1, <1>2, <1>8, Zenon DEF ChainsApart
  <2>3. \A i \in 0..(Returned - 1) : UsedAt(i) # h
    BY <1>1, <1>2, Zenon DEF ChainsApart
  <2>4. \A i \in 0..n : i # n => i \in 0..(n - 1)
    OBVIOUS
  <2>5. ASSUME NEW i \in 0..n
        PROVE  /\ AvailAt(i)' \in 0..(size - 1)
               /\ AvailAt(i)' \notin free' \union inflight
               /\ \A j \in 0..n : i # j => AvailAt(i)' # AvailAt(j)'
               /\ \A j \in 0..(Returned - 1) : AvailAt(i)' # UsedAt(j)
    <3>1. CASE i = n
      BY <1>7, <2>1, <2>2, <2>3, <2>4, <3>1, Zenon
    <3>2. CASE i # n
      <4>1. i \in 0..(n - 1) /\ AvailAt(i)' = AvailAt(i)
        BY <1>8, <2>4, <3>2, Zenon
      <4>2. AvailAt(i) \in 0..(size - 1) /\ AvailAt(i) \notin free' \union inflight
        BY <1>1, <1>2, <4>1, Zenon DEF ChainsApart
      <4>3. \A j \in 0..(Returned - 1) : AvailAt(i) # UsedAt(j)
        BY <1>2, <4>1, Zenon DEF ChainsApart
      <4>4. \A j \in 0..(n - 1) : i # j => AvailAt(i) # AvailAt(j)'
        BY <1>2, <1>8, <4>1, Zenon DEF ChainsApart
      <4>5. AvailAt(i) # AvailAt(n)'
        BY <1>7, <2>2, <4>1, Zenon
      <4> QED
        BY <2>4, <4>1, <4>2, <4>3, <4>4, <4>5, Zenon
    <3> QED
      BY <3>1, <3>2, Zenon
  <2>6. Kept' <= size' /\ Returned' <= size'
    BY <1>1, <1>2, <1>3, <1>5, <1>9
  <2>7. free' \subseteq 0..(size - 1) /\ inflight \subseteq 0..(size - 1) /\ free' \cap inflight = {}
    BY <1>1, <1>2, Zenon DEF ChainsApart
  <2>8. \A i \in 0..(Returned - 1) :
          /\ UsedAt(i) \in 0..(size - 1) /\ UsedAt(i) \notin free' \union inflight
          /\ \A j \in 0..(Returned - 1) : i # j => UsedAt(i) # UsedAt(j)
    BY <1>1, <1>2, Zenon DEF ChainsApart
  <2>9. Kept' - 1 = n
    BY <1>5
  <2> QED
    BY <1>1, <1>9, <2>5, <2>6, <2>7, <2>8, <2>9, Zenon DEF ChainsApart
<1>11. IterInside'
  <2>1. dpc = "got" => n > 0 /\ AvailAt(0)' = AvailAt(0)
    BY <1>2, <1>8 DEF IterInside
  <2>2. WSub(last_index, FirstKept)' = WSub(last_index, FirstKept)
    BY <1>1, <1>4, Zenon DEF WSub
  <2>3. WSub(last_index, FirstKept) \in Nat
    BY <1>2, RingTypes, WSubNat, Zenon
  <2> QED
    BY <1>1, <1>2, <1>5, <2>1, <2>2, <2>3 DEF IterInside
<1>12. SeenInOrder'
  BY <1>1, <1>2, SeenKept, Zenon
<1> QED
  BY <1>1, <1>2, <1>3, <1>4, <1>5, <1>7, <1>8, <1>10, <1>11, <1>12, Zenon DEF RingPart

(* AvailIter::next takes a chain that the driver has offered, and             *)
(* go_to_previous_position puts it back: the entry is still there.            *)
LEMMA RingTake ==
  ASSUME RingInv, IterNext
  PROVE  RingPart' /\ FirstKept' = FirstKept /\ Kept > 0 /\ got' = AvailAt(0)
<1>1. /\ dpc = "next" /\ dpc' = "got" /\ next_avail # last_index
      /\ got' = avail_ring[next_avail % size]
      /\ next_avail' = WAdd(next_avail, 1)
      /\ UNCHANGED <<size, avail_idx, avail_ring, inflight, free, next_used, last_used, used_idx,
                     used_ring, pend, last_index>>
  BY Zenon DEF IterNext, driverMem, deviceMem, driverVars
<1>2. /\ TypeOK /\ ChainsApart /\ IterInside /\ SeenInOrder
      /\ next_avail \in Idx /\ last_index \in Idx /\ Kept \in Nat
  BY RingFacts, RingTypes, Zenon
<1>3. FirstKept' = FirstKept /\ FirstKept = next_avail
  BY <1>1, <1>2, WSubUndo, Zenon DEF FirstKept
<1>4. /\ WSub(last_index, FirstKept) \in Nat /\ WSub(last_index, FirstKept) > 0
      /\ WSub(last_index, FirstKept) <= Kept
  BY <1>1, <1>2, <1>3, WSubAdvance, Zenon DEF IterInside
<1>5. got' = AvailAt(0)
  BY <1>1, <1>2, <1>3, EntryZero, Zenon DEF AvailAt
<1>6. ChainsApart' /\ Kept' = Kept /\ \A i \in 0..(Kept - 1) : AvailAt(i)' = AvailAt(i)
  BY <1>1, <1>2, <1>3, ChainsKept, Zenon DEF LatestElem
<1>7. AvailAt(0)' = AvailAt(0)
  BY <1>1, <1>3, Zenon DEF AvailAt, Entry
<1>8. WSub(last_index, FirstKept)' = WSub(last_index, FirstKept)
  BY <1>1, <1>3, Zenon DEF WSub
<1>9. IterInside'
  BY <1>1, <1>2, <1>4, <1>5, <1>6, <1>7, <1>8 DEF IterInside
<1>10. SeenInOrder'
  BY <1>1, <1>2, SeenKept, Zenon
<1> QED
  BY <1>1, <1>2, <1>3, <1>4, <1>5, <1>6, <1>9, <1>10 DEF RingPart

(* go_to_previous_position puts the chain taken last back in front. *)
LEMMA RingPutBack ==
  ASSUME RingInv, NEW keep \in BOOLEAN, GoToPreviousPosition(keep)
  PROVE  RingPart' /\ FirstKept' = FirstKept
<1>1. /\ dpc = "got" /\ dpc' \in {"next", "poll"} /\ got' = None
      /\ next_avail' = WSub(next_avail, 1)
      /\ dpc' = "next" => last_index' = last_index
      /\ UNCHANGED <<size, avail_idx, avail_ring, inflight, free, next_used, last_used, used_idx,
                     used_ring, pend>>
  BY Zenon DEF GoToPreviousPosition, driverMem, deviceMem, driverVars
<1>2. /\ TypeOK /\ ChainsApart /\ IterInside /\ SeenInOrder /\ Kept \in Nat
  BY RingFacts, RingTypes, Zenon
<1>3. FirstKept' = FirstKept
  BY <1>1, Zenon DEF FirstKept
<1>4. ChainsApart' /\ Kept' = Kept
  BY <1>1, <1>2, <1>3, ChainsKept, Zenon DEF LatestElem
<1>5. dpc' = "next" => WSub(last_index, FirstKept)' = WSub(last_index, FirstKept)
  BY <1>1, <1>3, Zenon DEF WSub
<1>6. IterInside'
  BY <1>1, <1>2, <1>4, <1>5, Zenon DEF IterInside
<1>7. SeenInOrder'
  BY <1>1, <1>2, SeenKept, Zenon
<1> QED
  BY <1>1, <1>3, <1>4, <1>6, <1>7, Zenon DEF RingPart

(* The chain in hand goes to the completers: the entries move up by one. *)
LEMMA RingDispatch ==
  ASSUME RingInv, NEW keep \in BOOLEAN, Dispatch(keep)
  PROVE  RingPart'
<1>1. /\ dpc = "got" /\ dpc' \in {"next", "iter"} /\ got' = None
      /\ inflight' = inflight \union {got}
      /\ dpc' = "next" => last_index' = last_index
      /\ UNCHANGED <<size, next_avail, avail_idx, avail_ring, free, next_used, last_used, used_idx,
                     used_ring, pend>>
  BY Zenon DEF Dispatch, queueVars, driverMem, deviceMem, driverVars
<1>2. /\ TypeOK /\ ChainsApart /\ IterInside /\ SeenInOrder
      /\ Returned \in Nat /\ size \in Nat /\ size < IdxMod /\ IdxMod \in Nat
      /\ FirstKept \in Idx /\ next_avail \in Idx /\ avail_idx \in Idx /\ last_index \in Idx
  BY RingFacts, RingTypes, Zenon
<1>3. PICK n \in Nat : n = Kept
  BY RingTypes, RingFacts, Zenon
<1>4. n <= size /\ n > 0 /\ got = AvailAt(0)
  BY <1>1, <1>2, <1>3, RingFacts, Zenon DEF IterInside
<1>5. FirstKept' = WAdd(FirstKept, 1)
  BY <1>1, <1>2, WSubUndo, Zenon DEF FirstKept
<1>6. Kept' = n - 1
  <2>1. FirstKept # avail_idx
    BY <1>2, <1>3, <1>4, WSubSelf DEF Kept
  <2> QED
    BY <1>1, <1>2, <1>3, <1>5, <2>1, WSubAdvance, Zenon DEF Kept
<1>7. ASSUME NEW i \in 0..(n - 2) PROVE AvailAt(i)' = AvailAt(i + 1)
  <2>1. i \in Nat /\ i < IdxMod
    BY <1>2, <1>4
  <2>2. WAdd(WAdd(FirstKept, 1), i) = WAdd(FirstKept, i + 1)
    BY <1>2, <2>1, WAddNext, Zenon
  <2> QED
    BY <1>1, <1>5, <2>2, Zenon DEF AvailAt, Entry
<1>8. Returned' = Returned /\ \A i : UsedAt(i)' = UsedAt(i)
  BY <1>1, Zenon DEF Returned, UsedAt, Entry, LatestElem
<1>9. ChainsApart'
  <2>1. /\ got \in 0..(size - 1) /\ got \notin free \union inflight
        /\ \A i \in 1..(n - 1) : AvailAt(i) # got
        /\ \A i \in 0..(Returned - 1) : UsedAt(i) # got
    BY <1>2, <1>3, <1>4 DEF ChainsApart
  <2>2. Kept' - 1 = n - 2
    BY <1>6
  <2>3. ASSUME NEW i \in 0..(n - 2)
        PROVE  /\ AvailAt(i)' \in 0..(size - 1)
               /\ AvailAt(i)' \notin free \union inflight'
               /\ \A j \in 0..(n - 2) : i # j => AvailAt(i)' # AvailAt(j)'
               /\ \A j \in 0..(Returned - 1) : AvailAt(i)' # UsedAt(j)
    <3>1. PICK k \in 1..(n - 1) : k = i + 1
      BY <1>4
    <3>2. k \in 0..(n - 1) /\ AvailAt(i)' = AvailAt(k)
      BY <1>4, <1>7, <3>1
    <3>3. AvailAt(k) \in 0..(size - 1) /\ AvailAt(k) \notin free \union inflight'
      BY <1>1, <1>2, <1>3, <2>1, <3>2, Zenon DEF ChainsApart
    <3>4. ASSUME NEW j \in 0..(n - 2), i # j PROVE AvailAt(k) # AvailAt(j)'
      <4>1. PICK m \in 0..(n - 1) : m = j + 1
        BY <1>4
      <4>2. k # m /\ AvailAt(j)' = AvailAt(m)
        BY <1>7, <3>1, <3>4, <4>1
      <4> QED
        BY <1>2, <1>3, <3>2, <4>2, Zenon DEF ChainsApart
    <3>5. \A j \in 0..(Returned - 1) : AvailAt(k) # UsedAt(j)
      BY <1>2, <1>3, <3>2, Zenon DEF ChainsApart
    <3> QED
      BY <3>2, <3>3, <3>4, <3>5, Zenon
  <2>4. Kept' <= size' /\ Returned' <= size'
    BY <1>1, <1>2, <1>4, <1>6, <1>8, RingFacts
  <2>5. free \subseteq 0..(size - 1) /\ inflight' \subseteq 0..(size - 1) /\ free \cap inflight' = {}
    BY <1>1, <1>2, <2>1, Zenon DEF ChainsApart
  <2>6. \A i \in 0..(Returned - 1) :
          /\ UsedAt(i) \in 0..(size - 1) /\ UsedAt(i) \notin free \union inflight'
          /\ \A j \in 0..(Returned - 1) : i # j => UsedAt(i) # UsedAt(j)
    BY <1>1, <1>2, <2>1, Zenon DEF ChainsApart
  <2> QED
    BY <1>1, <1>8, <2>2, <2>3, <2>4, <2>5, <2>6, Zenon DEF ChainsApart
<1>10. IterInside'
  <2>1. dpc' = "next" => WSub(last_index, FirstKept)' = WSub(last_index, FirstKept) - 1
    <3>1. last_index # FirstKept
      BY <1>1, <1>2, WSubSelf DEF IterInside
    <3>2. WSub(last_index, WAdd(FirstKept, 1)) = WSub(last_index, FirstKept) - 1
      BY <1>2, <3>1, WSubAdvance, Zenon
    <3> QED
      BY <1>1, <1>5, <3>2, Zenon DEF WSub
  <2>2. WSub(last_index, FirstKept) \in Nat
    BY <1>2, WSubNat, Zenon
  <2> QED
    BY <1>1, <1>2, <1>3, <1>6, <2>1, <2>2 DEF IterInside
<1>11. SeenInOrder'
  BY <1>1, <1>2, SeenKept, Zenon
<1> QED
  BY <1>1, <1>9, <1>10, <1>11, Zenon DEF RingPart

(* add_used gives a chain back: the used ring has a slot for it, and the      *)
(* driver has read whatever was in that slot.                                 *)
LEMMA RingReturn ==
  ASSUME RoomForOne, RingInv, NEW t \in Completers, NEW h \in Heads,
         AddUsed(t, h), NEW n \in Nat, n = Returned
  PROVE  /\ RingPart'
         /\ n < size /\ Returned' = n + 1
         /\ UsedAt(n)' = h
         /\ \A i \in 0..(n - 1) : UsedAt(i)' = UsedAt(i)
<1>1. /\ h \in inflight /\ inflight' = inflight \ {h}
      /\ dpc \notin {"next", "got"}
      /\ next_used' = WAdd(next_used, 1)
      /\ pend'.used_elem = [pend.used_elem EXCEPT ![next_used % size] = h]
      /\ pend'.used_idx = WAdd(next_used, 1)
      /\ UNCHANGED <<size, next_avail, dpc, last_index, got, avail_idx, avail_ring,
                     used_idx, used_ring, last_used, free>>
  <2>1. pend \in Stores
    BY RingFacts, Zenon DEF TypeOK
  <2> QED
    BY <2>1, Zenon DEF AddUsed, LockFree, driverMem, deviceMem, driverVars, Stores
<1>2. /\ TypeOK /\ ChainsApart /\ IterInside /\ SeenInOrder /\ dpc # "broken"
      /\ Kept \in Nat /\ Visible \in Nat
      /\ size \in Nat \ {0} /\ size < IdxMod /\ IdxMod \in Nat
      /\ last_used \in Idx /\ next_used \in Idx /\ used_ring \in [Heads -> Heads]
      /\ pend.used_elem \in [Heads -> Heads \union {None}]
      /\ Kept <= size /\ n <= size /\ Visible <= n
  BY RingFacts, RingTypes, Zenon
<1>3. n < size
  <2>1. PICK sz \in Nat : sz = size
    BY <1>2, Zenon
  <2>2. /\ \A i \in 0..(n - 1) : UsedAt(i) \in 0..(sz - 1) /\ UsedAt(i) # h
        /\ \A i, j \in 0..(n - 1) : i # j => UsedAt(i) # UsedAt(j)
        /\ h \in 0..(sz - 1)
    BY <1>1, <1>2, <2>1 DEF ChainsApart
  <2>3. PICK f \in Lists(n, sz) : \A i \in 0..(n - 1) : f[i] # h
    <3>1. [i \in 0..(n - 1) |-> UsedAt(i)] \in Lists(n, sz)
      BY <2>2, Zenon DEF Lists
    <3> QED
      BY <2>2, <3>1, Zenon
  <2>4. n < sz
    BY <2>2, <2>3 DEF RoomForOne
  <2> QED
    BY <2>1, <2>4, Zenon
<1>4. Returned' = n + 1
  <2>1. Returned' = WSub(WAdd(next_used, 1), last_used)
    BY <1>1, Zenon DEF Returned
  <2>2. n = WSub(next_used, last_used) /\ n # IdxMod - 1
    BY <1>2, <1>3 DEF Returned
  <2> QED
    BY <1>2, <2>1, <2>2, WSubStep, Zenon
<1>5. Entry(last_used, n) = next_used % size /\ Entry(last_used, n) \in Heads
  BY <1>2, <1>3, EntryAtEnd, EntriesApart, Zenon DEF Returned
<1>6. h # None
  BY ZeroIdx, Zenon
<1>7. UsedAt(n)' = h
  <2>1. pend'.used_elem[Entry(last_used, n)] = h
    BY <1>1, <1>2, <1>5, Zenon
  <2> QED
    BY <1>1, <1>6, <2>1, Zenon DEF UsedAt, LatestElem, Entry
<1>8. ASSUME NEW i \in 0..(n - 1)
      PROVE  /\ UsedAt(i)' = UsedAt(i)
             /\ pend'.used_elem[Entry(last_used, i)] = pend.used_elem[Entry(last_used, i)]
  <2>1. i \in Nat /\ i < size /\ i # n
    BY <1>2
  <2>2. Entry(last_used, i) \in Heads /\ Entry(last_used, i) # Entry(last_used, n)
    BY <1>2, <1>3, <2>1, EntriesApart, Zenon
  <2>3. pend'.used_elem[Entry(last_used, i)] = pend.used_elem[Entry(last_used, i)]
    BY <1>1, <1>2, <1>5, <2>2, Zenon
  <2> QED
    BY <1>1, <2>3, Zenon DEF UsedAt, LatestElem, Entry
<1>9. FirstKept' = FirstKept /\ Kept' = Kept /\ \A i : AvailAt(i)' = AvailAt(i)
  BY <1>1, Zenon DEF Kept, FirstKept, AvailAt, Entry
<1>10. ChainsApart'
  <2>0. ChainsApart /\ h \in inflight /\ inflight' = inflight \ {h}
    BY <1>1, <1>2, Zenon
  <2>1. h \in 0..(size - 1) /\ h \notin free \union inflight'
    BY <2>0, Zenon DEF ChainsApart
  <2>2. \A i \in 0..(n - 1) : UsedAt(i) # h
    BY <2>0, Zenon DEF ChainsApart
  <2>3. \A i \in 0..(Kept - 1) : AvailAt(i) # h
    BY <2>0, Zenon DEF ChainsApart
  <2>4. \A i \in 0..n : i # n => i \in 0..(n - 1)
    OBVIOUS
  <2>5. ASSUME NEW i \in 0..n
        PROVE  /\ UsedAt(i)' \in 0..(size - 1)
               /\ UsedAt(i)' \notin free \union inflight'
               /\ \A j \in 0..n : i # j => UsedAt(i)' # UsedAt(j)'
               /\ \A j \in 0..(Kept - 1) : AvailAt(j) # UsedAt(i)'
    <3>1. CASE i = n
      BY <1>7, <1>8, <2>1, <2>2, <2>3, <2>4, <3>1, Zenon
    <3>2. CASE i # n
      <4>1. i \in 0..(n - 1) /\ UsedAt(i)' = UsedAt(i)
        BY <1>8, <2>4, <3>2, Zenon
      <4>2. UsedAt(i) \in 0..(size - 1) /\ UsedAt(i) \notin free \union inflight'
        BY <2>0, <4>1, Zenon DEF ChainsApart
      <4>3. \A j \in 0..(Kept - 1) : AvailAt(j) # UsedAt(i)
        BY <2>0, <4>1, Zenon DEF ChainsApart
      <4>4. \A j \in 0..(n - 1) : i # j => UsedAt(i) # UsedAt(j)'
        BY <2>0, <1>8, <4>1, Zenon DEF ChainsApart
      <4>5. UsedAt(i) # UsedAt(n)'
        BY <1>7, <2>2, <4>1, Zenon
      <4> QED
        BY <2>4, <4>1, <4>2, <4>3, <4>4, <4>5, Zenon
    <3> QED
      BY <3>1, <3>2, Zenon
  <2>6. Kept' <= size' /\ Returned' <= size'
    BY <1>1, <1>2, <1>3, <1>4, <1>9
  <2>7. free \subseteq 0..(size - 1) /\ inflight' \subseteq 0..(size - 1) /\ free \cap inflight' = {}
    BY <2>0, Zenon DEF ChainsApart
  <2>8. \A i \in 0..(Kept - 1) :
          /\ AvailAt(i) \in 0..(size - 1) /\ AvailAt(i) \notin free \union inflight'
          /\ \A j \in 0..(Kept - 1) : i # j => AvailAt(i) # AvailAt(j)
    BY <2>0, Zenon DEF ChainsApart
  <2>9. Returned' - 1 = n
    BY <1>4
  <2>10. size' = size /\ free' = free
    BY <1>1, Zenon
  <2> QED
    BY <1>9, <2>10, <2>5, <2>6, <2>7, <2>8, <2>9, Zenon DEF ChainsApart
<1>11. IterInside'
  BY <1>1, <1>2, Zenon DEF IterInside
<1>12. SeenInOrder'
  <2>1. Visible' = Visible
    BY <1>1, Zenon DEF Visible
  <2>2. WAdd(next_used, 1) # None
    <3>1. next_used \in Int /\ WAdd(next_used, 1) \in 0..(IdxMod - 1)
      BY <1>2, WrapRange DEF Idx
    <3> QED
      BY <1>2, <3>1 DEF None
  <2>3. ASSUME NEW i \in 0..(Visible - 1)
        PROVE  pend'.used_elem[Entry(last_used, i)] = None
    BY <1>2, <1>8 DEF SeenInOrder
  <2>4. \A i \in 0..(Visible' - 1) : (pend.used_elem[Entry(last_used, i)])' = None
    BY <1>1, <2>1, <2>3, Zenon DEF Entry
  <2>5. Visible' <= Returned'
    BY <1>2, <1>4, <2>1
  <2> QED
    BY <1>1, <2>2, <2>4, <2>5, Zenon DEF SeenInOrder
<1> QED
  BY <1>1, <1>2, <1>3, <1>4, <1>7, <1>8, <1>10, <1>11, <1>12, Zenon DEF RingPart

(* Stores reach the memory: the newest value of every element stays the same, *)
(* and the used index comes after the elements it publishes.                  *)
LEMMA RingFlushElem ==
  ASSUME RingInv, NEW s \in Heads, FlushElem(s)
  PROVE  /\ ChainsApart' /\ IterInside' /\ SeenInOrder' /\ dpc' # "broken"
         /\ FirstKept' = FirstKept /\ \A r \in Heads : LatestElem(r)' = LatestElem(r)
<1>1. /\ pend.used_elem[s] # None
      /\ used_ring' = [used_ring EXCEPT ![s] = pend.used_elem[s]]
      /\ pend'.used_elem = [pend.used_elem EXCEPT ![s] = None]
      /\ pend'.used_idx = pend.used_idx
      /\ UNCHANGED <<size, next_avail, next_used, dpc, last_index, got, inflight, avail_idx,
                     avail_ring, used_idx, free, last_used>>
  <2>1. pend \in Stores
    BY RingFacts, Zenon DEF TypeOK
  <2> QED
    BY <2>1, Zenon DEF FlushElem, queueVars, deviceVars, driverMem, driverVars, Stores
<1>2. /\ TypeOK /\ ChainsApart /\ IterInside /\ SeenInOrder /\ dpc # "broken"
      /\ used_ring \in [Heads -> Heads]
      /\ pend.used_elem \in [Heads -> Heads \union {None}]
      /\ Visible \in Nat /\ size \in Nat /\ last_used \in Idx /\ Returned \in Nat
      /\ Visible <= Returned /\ Returned <= size
  BY RingFacts, RingTypes, Zenon
<1>3. \A r \in Heads : LatestElem(r)' = LatestElem(r)
  BY <1>1, <1>2, Zenon DEF LatestElem
<1>4. FirstKept' = FirstKept /\ Kept' = Kept /\ \A i : AvailAt(i)' = AvailAt(i)
  BY <1>1, Zenon DEF FirstKept, Kept, AvailAt, Entry
<1>5. ChainsApart'
  BY <1>1, <1>2, <1>3, <1>4, ChainsKept, Zenon
<1>6. IterInside'
  <2>1. WSub(last_index, FirstKept)' = WSub(last_index, FirstKept)
    BY <1>1, <1>4, Zenon DEF WSub
  <2> QED
    BY <1>1, <1>2, <1>4, <2>1, Zenon DEF IterInside
<1>7. SeenInOrder'
  <2>1. Visible' = Visible /\ Returned' = Returned
    BY <1>1, Zenon DEF Visible, Returned
  <2>2. ASSUME NEW i \in 0..(Visible - 1)
        PROVE  pend'.used_elem[Entry(last_used, i)] = None
    <3>1. i \in Nat /\ i < size
      BY <1>2
    <3>2. Entry(last_used, i) \in Heads
      BY <1>2, <3>1, EntriesApart, Zenon
    <3> QED
      BY <1>1, <1>2, <3>2, Zenon DEF SeenInOrder
  <2>3. \A i \in 0..(Visible' - 1) : (pend.used_elem[Entry(last_used, i)])' = None
    BY <1>1, <2>1, <2>2, Zenon DEF Entry
  <2> QED
    BY <1>1, <1>2, <2>1, <2>3, Zenon DEF SeenInOrder
<1> QED
  BY <1>1, <1>2, <1>3, <1>4, <1>5, <1>6, <1>7, Zenon

(* The used index becomes visible after the elements before it. *)
LEMMA RingFlushUsedIdx ==
  ASSUME RingInv, FlushUsedIdx
  PROVE  RingPart'
<1>1. /\ used_idx' = pend.used_idx /\ pend.used_idx # None
      /\ pend.used_elem = NoPend.used_elem
      /\ pend'.used_elem = pend.used_elem /\ pend'.used_idx = None
      /\ UNCHANGED <<size, next_avail, next_used, dpc, last_index, got, inflight, avail_idx,
                     avail_ring, used_ring, free, last_used>>
  <2>1. pend \in Stores
    BY RingFacts, Zenon DEF TypeOK
  <2> QED
    BY <2>1, Zenon DEF FlushUsedIdx, queueVars, deviceVars, driverMem, driverVars, Stores
<1>2. /\ TypeOK /\ ChainsApart /\ IterInside /\ SeenInOrder /\ dpc # "broken"
      /\ size \in Nat /\ last_used \in Idx /\ Returned \in Nat /\ Returned <= size
  BY RingFacts, RingTypes, Zenon
<1>3. FirstKept' = FirstKept /\ Kept' = Kept /\ \A i : AvailAt(i)' = AvailAt(i)
  BY <1>1, Zenon DEF FirstKept, Kept, AvailAt, Entry
<1>4. ChainsApart'
  BY <1>1, <1>2, <1>3, ChainsKept, Zenon DEF LatestElem
<1>5. IterInside'
  BY <1>1, <1>2, <1>3, Zenon DEF IterInside
<1>6. SeenInOrder'
  <2>1. used_idx' = next_used
    BY <1>1, <1>2, Zenon DEF SeenInOrder
  <2>2. Returned' = Returned /\ Visible' = Returned
    BY <1>1, <2>1, Zenon DEF Visible, Returned
  <2>3. ASSUME NEW i \in 0..(Returned - 1)
        PROVE  pend.used_elem[Entry(last_used, i)] = None
    <3>1. i \in Nat /\ i < size
      BY <1>2
    <3>2. Entry(last_used, i) \in Heads
      BY <1>2, <3>1, EntriesApart, Zenon
    <3> QED
      BY <1>1, <3>2, NoPendFields, Zenon
  <2>4. \A i \in 0..(Visible' - 1) : (pend.used_elem[Entry(last_used, i)])' = None
    BY <1>1, <2>2, <2>3, Zenon DEF Entry
  <2> QED
    BY <1>1, <1>2, <2>1, <2>2, <2>4 DEF SeenInOrder
<1> QED
  BY <1>1, <1>2, <1>4, <1>5, <1>6, Zenon DEF RingPart

(* The driver collects: it reads the element that add_used wrote, not an      *)
(* older one in the same slot.                                                *)
LEMMA RingCollect ==
  ASSUME RingInv, DriverCollect, NEW n \in Nat, n = Returned
  PROVE  /\ RingPart'
         /\ n > 0 /\ Returned' = n - 1
         /\ used_ring[last_used % size] = UsedAt(0)
         /\ \A i \in 0..(n - 2) : UsedAt(i)' = UsedAt(i + 1)
<1>1. /\ last_used # used_idx
      /\ free' = free \union {used_ring[last_used % size]}
      /\ last_used' = WAdd(last_used, 1)
      /\ UNCHANGED <<size, next_avail, next_used, dpc, last_index, got, inflight, pend, avail_idx,
                     avail_ring, used_idx, used_ring>>
  BY Zenon DEF DriverCollect, queueVars, deviceVars, driverMem, deviceMem
<1>2. /\ TypeOK /\ ChainsApart /\ IterInside /\ SeenInOrder /\ dpc # "broken"
      /\ Kept \in Nat /\ size \in Nat \ {0} /\ size < IdxMod /\ IdxMod \in Nat
      /\ last_used \in Idx /\ next_used \in Idx /\ used_idx \in Idx
      /\ Kept <= size /\ n <= size /\ Visible <= n
  BY RingFacts, RingTypes, Zenon
<1>3. PICK v \in Nat : v = Visible
  BY <1>2, RingTypes, Zenon
<1>4. v > 0 /\ n > 0 /\ v <= n /\ Visible' = v - 1
  <2>1. v > 0 /\ Visible' = v - 1
    BY <1>1, <1>2, <1>3, WSubAdvance, Zenon DEF Visible
  <2> QED
    BY <1>2, <1>3, <2>1
<1>5. Returned' = n - 1
  <2>1. last_used # next_used
    BY <1>2, <1>4, WSubSelf DEF Returned
  <2> QED
    BY <1>1, <1>2, <2>1, WSubAdvance, Zenon DEF Returned
<1>6. Entry(last_used, 0) = last_used % size /\ Entry(last_used, 0) \in Heads
  BY <1>2, EntryZero, EntriesApart
<1>7. used_ring[last_used % size] = UsedAt(0)
  <2>1. pend.used_elem[Entry(last_used, 0)] = None
    BY <1>2, <1>3, <1>4 DEF SeenInOrder
  <2> QED
    BY <1>6, <2>1, Zenon DEF UsedAt, LatestElem
<1>8. ASSUME NEW i \in 0..(n - 2)
      PROVE  Entry(last_used, i)' = Entry(last_used, i + 1) /\ UsedAt(i)' = UsedAt(i + 1)
  <2>1. i \in Nat /\ i < IdxMod
    BY <1>2, <1>4
  <2>2. WAdd(WAdd(last_used, 1), i) = WAdd(last_used, i + 1)
    BY <1>2, <2>1, WAddNext, Zenon
  <2> QED
    BY <1>1, <2>2, Zenon DEF UsedAt, Entry, LatestElem
<1>9. FirstKept' = FirstKept /\ Kept' = Kept /\ \A i : AvailAt(i)' = AvailAt(i)
  BY <1>1, Zenon DEF FirstKept, Kept, AvailAt, Entry
<1>10. PICK h : h = UsedAt(0)
  BY Zenon
<1>11. ChainsApart'
  <2>1. /\ h \in 0..(size - 1) /\ h \notin free \union inflight
        /\ \A i \in 1..(n - 1) : UsedAt(i) # h
        /\ \A i \in 0..(Kept - 1) : AvailAt(i) # h
        /\ free' = free \union {h}
    BY <1>1, <1>2, <1>4, <1>7, <1>10 DEF ChainsApart
  <2>2. Returned' - 1 = n - 2
    BY <1>5
  <2>3. ASSUME NEW i \in 0..(n - 2)
        PROVE  /\ UsedAt(i)' \in 0..(size - 1)
               /\ UsedAt(i)' \notin free' \union inflight
               /\ \A j \in 0..(n - 2) : i # j => UsedAt(i)' # UsedAt(j)'
               /\ \A j \in 0..(Kept - 1) : AvailAt(j) # UsedAt(i)'
    <3>1. PICK k \in 1..(n - 1) : k = i + 1
      BY <1>4
    <3>2. k \in 0..(n - 1) /\ UsedAt(i)' = UsedAt(k)
      BY <1>4, <1>8, <3>1
    <3>3. UsedAt(k) \in 0..(size - 1) /\ UsedAt(k) \notin free' \union inflight
      BY <1>2, <2>1, <3>2, Zenon DEF ChainsApart
    <3>4. ASSUME NEW j \in 0..(n - 2), i # j PROVE UsedAt(k) # UsedAt(j)'
      <4>1. PICK m \in 0..(n - 1) : m = j + 1
        BY <1>4
      <4>2. k # m /\ UsedAt(j)' = UsedAt(m)
        BY <1>8, <3>1, <3>4, <4>1
      <4> QED
        BY <1>2, <3>2, <4>2, Zenon DEF ChainsApart
    <3>5. \A j \in 0..(Kept - 1) : AvailAt(j) # UsedAt(k)
      BY <1>2, <3>2, Zenon DEF ChainsApart
    <3> QED
      BY <3>2, <3>3, <3>4, <3>5, Zenon
  <2>4. Kept' <= size' /\ Returned' <= size'
    BY <1>1, <1>2, <1>5, <1>9
  <2>5. free' \subseteq 0..(size - 1) /\ inflight \subseteq 0..(size - 1) /\ free' \cap inflight = {}
    BY <1>2, <2>1, Zenon DEF ChainsApart
  <2>6. \A i \in 0..(Kept - 1) :
          /\ AvailAt(i) \in 0..(size - 1) /\ AvailAt(i) \notin free' \union inflight
          /\ \A j \in 0..(Kept - 1) : i # j => AvailAt(i) # AvailAt(j)
    BY <1>2, <2>1, Zenon DEF ChainsApart
  <2> QED
    BY <1>1, <1>9, <2>2, <2>3, <2>4, <2>5, <2>6, Zenon DEF ChainsApart
<1>12. IterInside'
  <2>1. WSub(last_index, FirstKept)' = WSub(last_index, FirstKept)
    BY <1>1, <1>9, Zenon DEF WSub
  <2> QED
    BY <1>1, <1>2, <1>9, <2>1, Zenon DEF IterInside
<1>13. SeenInOrder'
  <2>1. Visible' <= Returned'
    BY <1>3, <1>4, <1>5
  <2>2. ASSUME NEW i \in 0..(v - 2)
        PROVE  pend.used_elem[Entry(last_used, i)'] = None
    <3>1. PICK k \in 0..(v - 1) : k = i + 1
      BY <1>4
    <3>2. Entry(last_used, i)' = Entry(last_used, k)
      BY <1>4, <1>8, <3>1
    <3> QED
      BY <1>2, <1>3, <3>2, Zenon DEF SeenInOrder
  <2>3. \A i \in 0..(Visible' - 1) : (pend.used_elem[Entry(last_used, i)])' = None
    BY <1>1, <1>4, <2>2
  <2> QED
    BY <1>1, <1>2, <2>1, <2>3, Zenon DEF SeenInOrder
<1> QED
  BY <1>1, <1>2, <1>4, <1>5, <1>7, <1>8, <1>11, <1>12, <1>13, Zenon DEF RingPart

(* What the other steps leave alone. *)
RingSame ==
  /\ UNCHANGED <<size, next_avail, avail_idx, avail_ring, inflight, got, free, next_used,
                 last_used, used_idx, used_ring>>
  /\ pend'.used_idx = pend.used_idx /\ pend'.used_elem = pend.used_elem

(* A step that leaves rings and indices alone. *)
LEMMA RingSteady ==
  ASSUME RingInv, RingSame, dpc' # "broken",
         \/ dpc' = dpc /\ last_index' = last_index
         \/ dpc # "got" /\ dpc' \notin {"next", "got"}
  PROVE  RingPart'
<1>1. /\ TypeOK /\ ChainsApart /\ IterInside /\ SeenInOrder
  BY RingFacts, Zenon
<1>2. FirstKept' = FirstKept
  BY Zenon DEF FirstKept, RingSame
<1>3. ChainsApart' /\ Kept' = Kept /\ \A i : AvailAt(i)' = AvailAt(i)
  <2>1. ChainsApart' /\ Kept' = Kept
    BY <1>1, <1>2, ChainsKept, Zenon DEF LatestElem, RingSame
  <2>2. \A i : AvailAt(i)' = AvailAt(i)
    BY <1>2, Zenon DEF AvailAt, Entry, RingSame
  <2> QED
    BY <2>1, <2>2, Zenon
<1>4. IterInside'
  BY <1>1, <1>2, <1>3, Zenon DEF IterInside, RingSame
<1>5. SeenInOrder'
  BY <1>1, SeenKept, Zenon DEF RingSame
<1> QED
  BY <1>3, <1>4, <1>5, Zenon DEF RingPart

(* AvailIter::new: the index is never too far ahead. *)
LEMMA RingIter ==
  ASSUME RingInv, Iter
  PROVE  RingPart'
<1>1. RingSame /\ dpc = "iter" /\ dpc' \in {"off", "broken", "next"}
  BY Zenon DEF Iter, RingSame, queueVars, driverMem, deviceMem, driverVars
<1>2. /\ TypeOK /\ ChainsApart /\ IterInside /\ SeenInOrder
      /\ Kept \in Nat /\ size \in Nat /\ Kept <= size
  BY RingFacts, RingTypes, Zenon
<1>3. Kept = WSub(avail_idx, next_avail)
  BY <1>1, Zenon DEF Kept, FirstKept
<1>4. dpc' # "broken"
  BY <1>2, <1>3 DEF Iter
<1>5. CASE dpc' = "off"
  BY <1>1, <1>5, RingSteady, Zenon
<1>6. CASE dpc' = "next"
  <2>1. last_index' = avail_idx
    BY <1>6, Zenon DEF Iter
  <2>2. FirstKept' = FirstKept /\ FirstKept = next_avail
    BY <1>1, <1>6, Zenon DEF FirstKept, RingSame
  <2>3. ChainsApart' /\ Kept' = Kept
    BY <1>1, <1>2, <2>2, ChainsKept, Zenon DEF LatestElem, RingSame
  <2>4. WSub(last_index, FirstKept)' = Kept
    BY <1>3, <2>1, <2>2, Zenon DEF WSub
  <2>5. IterInside'
    <3>1. got = None /\ got' = got
      BY <1>1, <1>2, Zenon DEF IterInside, RingSame
    <3> QED
      BY <1>2, <1>6, <2>3, <2>4, <3>1 DEF IterInside
  <2>6. SeenInOrder'
    BY <1>1, <1>2, SeenKept, Zenon DEF RingSame
  <2> QED
    BY <1>4, <2>3, <2>5, <2>6, Zenon DEF RingPart
<1> QED
  BY <1>1, <1>4, <1>5, <1>6, Zenon

(* Every step keeps the rings in order. *)
LEMMA RingStep ==
  ASSUME RoomForOne, RingInv, TypeOK', [Next]_vars
  PROVE  RingPart'
<1>0. pend \in Stores /\ dpc # "broken"
  BY RingFacts, Zenon DEF TypeOK
<1>1. ASSUME NEW sz \in Sizes, NEW ei \in EventIdx, Setup(sz, ei) PROVE RingPart'
  BY <1>1, RingSetup, Zenon
<1>2. CASE Reset
  BY <1>2, RingReset, Zenon
<1>3. CASE SaveRestore
  BY <1>0, <1>3, RingSteady, Zenon
  DEF SaveRestore, RingSame, deviceVars, driverMem, deviceMem, driverVars
<1>4. CASE DisableNotification
  BY <1>0, <1>4, RingSteady, Zenon
  DEF DisableNotification, RingSame, queueVars, driverMem, deviceMem, driverVars, Stores
<1>5. CASE Iter
  BY <1>5, RingIter, Zenon
<1>6. CASE IterEnd
  BY <1>6, RingSteady, Zenon DEF IterEnd, RingSame, queueVars, driverMem, deviceMem, driverVars
<1>7. CASE IterNext
  BY <1>7, RingTake, Zenon
<1>8. ASSUME NEW keep \in BOOLEAN, Dispatch(keep) PROVE RingPart'
  BY <1>8, RingDispatch, Zenon
<1>9. ASSUME NEW keep \in BOOLEAN, GoToPreviousPosition(keep) PROVE RingPart'
  BY <1>9, RingPutBack, Zenon
<1>10. CASE EnableNotification
  BY <1>0, <1>10, RingSteady, Zenon
  DEF EnableNotification, RingSame, queueVars, driverMem, deviceMem, driverVars, Stores
<1>11. CASE RecheckAvail
  BY <1>11, RingSteady, Zenon DEF RecheckAvail, RingSame, queueVars, driverMem, deviceMem, driverVars
<1>12. CASE WakeUp
  BY <1>12, RingSteady, Zenon DEF WakeUp, RingSame, queueVars, driverMem, deviceMem, driverVars
<1>13. ASSUME NEW t \in Completers, NEW h \in Heads, AddUsed(t, h) PROVE RingPart'
  <2>1. PICK n \in Nat : n = Returned
    BY RingFacts, RingTypes, Zenon
  <2> QED
    BY <1>13, <2>1, RingReturn, Zenon
<1>14. ASSUME NEW t \in Completers, NeedsNotification(t) PROVE RingPart'
  BY <1>0, <1>14, RingSteady, Zenon
  DEF NeedsNotification, RingSame, driverMem, deviceMem, driverVars
<1>15. ASSUME NEW s \in Heads, FlushElem(s) PROVE RingPart'
  BY <1>15, RingFlushElem, Zenon DEF RingPart
<1>16. CASE FlushUsedIdx
  BY <1>16, RingFlushUsedIdx, Zenon
<1>17. CASE FlushUsedFlags
  BY <1>0, <1>17, RingSteady, Zenon
  DEF FlushUsedFlags, RingSame, queueVars, deviceVars, driverMem, driverVars, Stores
<1>18. CASE FlushAvailEvent
  BY <1>0, <1>18, RingSteady, Zenon
  DEF FlushAvailEvent, RingSame, queueVars, deviceVars, driverMem, driverVars, Stores
<1>19. ASSUME NEW h \in Heads, DriverAdd(h) PROVE RingPart'
  <2>1. PICK n \in Nat : n = Kept
    BY RingFacts, RingTypes, Zenon
  <2> QED
    BY <1>19, <2>1, RingOffer, Zenon
<1>20. CASE DriverKick
  BY <1>0, <1>20, RingSteady, Zenon DEF DriverKick, RingSame, queueVars, deviceVars, driverMem, deviceMem
<1>21. CASE DriverInterrupt
  BY <1>0, <1>21, RingSteady, Zenon
  DEF DriverInterrupt, RingSame, queueVars, deviceVars, driverMem, deviceMem
<1>22. CASE DriverCollect
  <2>1. PICK n \in Nat : n = Returned
    BY RingFacts, RingTypes, Zenon
  <2> QED
    BY <1>22, <2>1, RingCollect, Zenon
<1>23. CASE DriverEnableInterrupt
  BY <1>0, <1>23, RingSteady, Zenon
  DEF DriverEnableInterrupt, RingSame, queueVars, deviceVars, deviceMem
<1>24. CASE DriverRecheck
  BY <1>0, <1>24, RingSteady, Zenon
  DEF DriverRecheck, RingSame, queueVars, deviceVars, driverMem, deviceMem
<1>25. CASE UNCHANGED vars
  BY <1>0, <1>25, RingSteady, Zenon
  DEF vars, RingSame, queueVars, deviceVars, driverMem, deviceMem, driverVars
<1> QED
  BY <1>1, <1>2, <1>3, <1>4, <1>5, <1>6, <1>7, <1>8, <1>9, <1>10, <1>11,
     <1>12, <1>13, <1>14, <1>15, <1>16, <1>17, <1>18, <1>19, <1>20, <1>21,
     <1>22, <1>23, <1>24, <1>25, Zenon
  DEF Next, Config, Poller, Flush, DriverCallback
================================================================================
