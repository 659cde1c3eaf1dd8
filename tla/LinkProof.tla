----------------------------- MODULE LinkProof -----------------------------
(***************************************************************************)
(* Theorems about Link, for every set of packets, every transfer time,     *)
(* delay and loss, and any number of calls of RunUntil.                    *)
(***************************************************************************)
EXTENDS Link, CommonFacts, TLAPS

\* The callbacks of different kinds, and of different directions, differ.
LEMMA CallsDiffer ==
  /\ \A c, d : Transfer(c) = Transfer(d) => c = d
  /\ \A c, d, p : Transfer(c) # Deliver(d, p) /\ Transfer(c) # Subtract(d, p)
  /\ \A c, d, p, q : Deliver(c, p) = Deliver(d, q) => c = d /\ p = q
  /\ \A c, d, p, q : Subtract(c, p) = Subtract(d, q) => c = d /\ p = q
  /\ \A c, d, p, q : Deliver(c, p) # Subtract(d, q)
  BY DEF Transfer, Deliver, Subtract

LEMMA CallTypes ==
  ASSUME NEW d \in Dirs
  PROVE  /\ Transfer(d) \in Calls
         /\ \A p \in Packets : Deliver(d, p) \in Calls /\ Subtract(d, p) \in Calls
  BY DEF Calls

LEMMA NewEventTypes ==
  ASSUME eventId \in Nat, NEW k \in Nat, NEW t \in Int, NEW c \in Calls
  PROVE  Event(k, t, c) \in [id : Nat, at : Int, call : Calls]
  BY DEF Event

\* What EnqueuePacket does to the types, whoever calls it.
LEMMA EnqueueTypes ==
  ASSUME TypeOK, NEW d \in Dirs, NEW p \in Packets, NEW t \in Int, EnqueuePacket(d, p, t)
  PROVE  /\ events' \subseteq [id : Nat, at : Int, call : Calls] /\ eventId' \in Nat
         /\ queue' \in [Dirs -> SUBSET [packet : Packets, dequeTime : Int]]
         /\ queueTime' \in [Dirs -> Int]
         /\ received' = received /\ lost' = lost
         /\ creationTime' \in [Packets -> Int]
<1> DEFINE at == t + queueTime[d]
<1>1. at \in Int /\ TransferTime[p] \in Nat
  BY TransferTimeAssumption DEF TypeOK
<1>2. [packet |-> p, dequeTime |-> at] \in [packet : Packets, dequeTime : Int]
  BY <1>1
<1>3. queue' \in [Dirs -> SUBSET [packet : Packets, dequeTime : Int]]
  BY <1>2 DEF EnqueuePacket, TypeOK
<1>4. queueTime' \in [Dirs -> Int]
  BY <1>1 DEF EnqueuePacket, TypeOK
<1>5. Event(0, at, Transfer(d)) \in [id : Nat, at : Int, call : Calls]
  BY <1>1, NewEventTypes, CallTypes DEF TypeOK
<1>6. StartTransfer(d, at)
  BY DEF EnqueuePacket
<1>7. events' \subseteq [id : Nat, at : Int, call : Calls] /\ eventId' \in Nat
  BY <1>5, <1>6 DEF StartTransfer, ScheduleEvents, TypeOK
<1>8. creationTime' \in [Packets -> Int]
  BY DEF EnqueuePacket, TypeOK
<1>9. QED BY <1>3, <1>4, <1>7, <1>8 DEF EnqueuePacket

\* What transferPacket does to the types.
LEMMA TransferTypes ==
  ASSUME TypeOK, NEW e \in events, NEW d \in Dirs, TransferPacket(e, d)
  PROVE  TypeOK'
<1>1. e.at \in Int /\ CurrentTime' = e.at
  BY DEF TypeOK, TransferPacket, TakeEvent
<1>2. CASE queue[d] = {}
  <2>1. events' = events \ {e} /\ eventId' = eventId
    BY <1>2 DEF TransferPacket, ScheduleEvents, TypeOK
  <2>2. QED BY <1>1, <1>2, <2>1 DEF TransferPacket, TakeEvent, TypeOK, linkVars
<1>3. CASE queue[d] # {}
  <2>1. PICK item \in Heads(queue[d]), drawn \in LossDraws : TransferItem(e, d, item, drawn)
    BY <1>3 DEF TransferPacket
  <2> DEFINE rest == Remaining(d, item)
             p == item.packet
             deliver == Event(0, DeliveryTime(e, item), Deliver(d, p))
             writeOff == Event(1, item.dequeTime + TransferTime[p], Subtract(d, p))
  <2>2. item \in queue[d] /\ p \in Packets /\ item.dequeTime \in Int /\ TransferTime[p] \in Nat
    BY TransferTimeAssumption DEF Heads, TypeOK
  <2>3. rest \subseteq queue[d] /\ rest \subseteq [packet : Packets, dequeTime : Int]
    BY DEF Remaining, TypeOK
  <2>4. deliver \in [id : Nat, at : Int, call : Calls]
    BY <1>1, <2>2, NewEventTypes, CallTypes, DelayAssumption DEF TypeOK, DeliveryTime
  <2>5. writeOff \in [id : Nat, at : Int, call : Calls]
    BY <2>2, NewEventTypes, CallTypes DEF TypeOK
  <2>6. \A i \in Heads(rest) : Event(2, i.dequeTime, Transfer(d)) \in [id : Nat, at : Int, call : Calls]
    <3>1. \A i \in Heads(rest) : i.dequeTime \in Int
      BY <2>3 DEF Heads
    <3>2. QED BY <3>1, NewEventTypes, CallTypes DEF TypeOK
  <2>7. /\ ScheduleNext(e, d, rest, {deliver, writeOff})
        /\ queue' = [queue EXCEPT ![d] = rest]
        /\ lost' = IF drawn THEN lost \cup {p} ELSE lost
        /\ queueTime' = queueTime /\ received' = received /\ creationTime' = creationTime
    BY <2>1 DEF TransferItem
  <2>8. events' \subseteq [id : Nat, at : Int, call : Calls] /\ eventId' \in Nat
    BY <2>4, <2>5, <2>6, <2>7 DEF ScheduleNext, ScheduleEvents, TypeOK
  <2>9. queue' \in [Dirs -> SUBSET [packet : Packets, dequeTime : Int]] /\ lost' \subseteq Packets
    BY <2>2, <2>3, <2>7 DEF TypeOK
  <2>10. QED
    BY <1>1, <2>7, <2>8, <2>9 DEF TypeOK, TransferPacket, TakeEvent
<1>4. QED BY <1>2, <1>3

LEMMA TypeStep == TypeOK /\ [Next]_vars => TypeOK'
<1> SUFFICES ASSUME TypeOK, [Next]_vars PROVE TypeOK'
  OBVIOUS
<1>1. ASSUME NEW e \in events, NEW d \in Dirs, TransferPacket(e, d) PROVE TypeOK'
  BY <1>1, TransferTypes
<1>2. ASSUME NEW e \in events, NEW d \in Dirs, NEW p \in Packets, DeliverPacket(e, d, p)
      PROVE  TypeOK'
  BY <1>2 DEF DeliverPacket, TakeEvent, ScheduleEvents, TypeOK
<1>3. ASSUME NEW e \in events, NEW d \in Dirs, NEW p \in Packets, SubtractFromQueueTime(e, d, p)
      PROVE  TypeOK'
  <2>1. TransferTime[p] \in Nat
    BY TransferTimeAssumption
  <2>2. QED BY <1>3, <2>1 DEF SubtractFromQueueTime, TakeEvent, ScheduleEvents, TypeOK
<1>4. ASSUME NEW d \in Dirs, NEW p \in Packets, MainSends(d, p) PROVE TypeOK'
  <2>1. CurrentTime \in Int
    BY DEF TypeOK
  <2>2. QED BY <1>4, <2>1, EnqueueTypes DEF MainSends, TypeOK
<1>5. ASSUME NEW d \in Dirs, NEW p \in Packets, NEW t \in CurrentTime .. MaxTime, NodeSends(d, p, t)
      PROVE  TypeOK'
  <2>1. t \in Int
    BY BoundsAssumption DEF TypeOK
  <2>2. QED BY <1>5, <2>1, EnqueueTypes DEF NodeSends, TakeNodeEvent, TypeOK
<1>6. CASE SchedStep
  <2>1. ASSUME NEW until \in EndTimes, CallRunUntil(until) PROVE TypeOK'
    BY <1>6, <2>1 DEF CallRunUntil, SchedStep, linkVars, TypeOK
  <2>2. ASSUME NEW e \in events, DropAndReturn(e) PROVE TypeOK'
    BY <1>6, <2>2 DEF DropAndReturn, SchedStep, linkVars, TypeOK
  <2>3. ASSUME NEW t \in CurrentTime .. MaxTime, DropNodeEventAndReturn(t) PROVE TypeOK'
    <3>1. t \in Int
      BY BoundsAssumption DEF TypeOK
    <3>2. QED BY <1>6, <2>3, <3>1 DEF DropNodeEventAndReturn, SchedStep, linkVars, TypeOK
  <2>4. CASE EmptyAndReturn
    BY <1>6, <2>4 DEF EmptyAndReturn, SchedStep, linkVars, TypeOK
  <2>5. QED BY <1>6, <2>1, <2>2, <2>3, <2>4 DEF SchedStep, SchedNext
<1>7. CASE UNCHANGED vars
  BY <1>7 DEF vars, schedVars, linkVars, TypeOK
<1>8. QED BY <1>1, <1>2, <1>3, <1>4, <1>5, <1>6, <1>7 DEF Next, RunCallback, Send

-----------------------------------------------------------------------------
\* Event numbers are fresh, so an event thrown away is not in the heap as well.
FreshIds == /\ \A e \in Scheduled : e.id < eventId
            /\ events \cap dropped = {}

\* A step that runs a callback: the events it takes out, and puts in with
\* numbers that were not used before.
LEMMA FreshCallback ==
  ASSUME TypeOK, FreshIds, NEW old, NEW new, NEW n \in Nat,
         events' = (events \ old) \cup new, dropped' = dropped, eventId' = eventId + n,
         \A e \in new : e.id \in eventId .. (eventId + n - 1)
  PROVE  FreshIds'
  BY DEF FreshIds, Scheduled, TypeOK

LEMMA FreshEnqueue ==
  ASSUME TypeOK, FreshIds, NEW d \in Dirs, NEW p \in Packets, NEW t \in Int,
         EnqueuePacket(d, p, t), dropped' = dropped
  PROVE  FreshIds'
<1> DEFINE new == {Event(0, t + queueTime[d], Transfer(d))}
<1>1. CASE queue[d] = {}
  <2>1. events' = (events \ {}) \cup new /\ eventId' = eventId + 1
    BY <1>1 DEF EnqueuePacket, StartTransfer, ScheduleEvents
  <2>2. \A e \in new : e.id \in eventId .. (eventId + 1 - 1)
    BY DEF Event, TypeOK
  <2> HIDE DEF new
  <2>3. QED BY <2>1, <2>2, FreshCallback
<1>2. CASE queue[d] # {}
  BY <1>2 DEF EnqueuePacket, StartTransfer, FreshIds, Scheduled
<1>3. QED BY <1>1, <1>2

LEMMA FreshTransfer ==
  ASSUME TypeOK, FreshIds, NEW e \in events, NEW d \in Dirs, TransferPacket(e, d)
  PROVE  FreshIds'
<1>0. dropped' = dropped
  BY DEF TransferPacket, TakeEvent
<1>1. CASE queue[d] = {}
  <2>1. events' = events \ {e} /\ eventId' = eventId
    BY <1>1 DEF TransferPacket, ScheduleEvents, TypeOK
  <2>2. QED BY <1>0, <2>1 DEF FreshIds, Scheduled
<1>2. CASE queue[d] # {}
  <2>1. PICK item \in Heads(queue[d]), drawn \in LossDraws : TransferItem(e, d, item, drawn)
    BY <1>2 DEF TransferPacket
  <2> DEFINE rest == Remaining(d, item)
             p == item.packet
             first == {Event(0, DeliveryTime(e, item), Deliver(d, p)),
                       Event(1, item.dequeTime + TransferTime[p], Subtract(d, p))}
             both(i) == first \cup {Event(2, i.dequeTime, Transfer(d))}
  <2>2. ScheduleNext(e, d, rest, first)
    BY <2>1 DEF TransferItem
  <2>3. \A f \in first : f.id \in eventId .. (eventId + 2 - 1)
    BY DEF Event, TypeOK
  <2>4. \A i : \A f \in both(i) : f.id \in eventId .. (eventId + 3 - 1)
    BY DEF Event, TypeOK
  <2> HIDE DEF first, both
  <2>5. CASE rest = {}
    <3>1. events' = (events \ {e}) \cup first /\ eventId' = eventId + 2
      BY <2>2, <2>5 DEF ScheduleNext, ScheduleEvents
    <3>2. QED BY <1>0, <2>3, <3>1, FreshCallback
  <2>6. CASE rest # {}
    <3>1. PICK i : events' = (events \ {e}) \cup both(i) /\ eventId' = eventId + 3
      BY <2>2, <2>6 DEF ScheduleNext, ScheduleEvents, both
    <3>2. QED BY <1>0, <2>4, <3>1, FreshCallback
  <2>7. QED BY <2>5, <2>6
<1>3. QED BY <1>1, <1>2

LEMMA FreshStep == TypeOK /\ FreshIds /\ [Next]_vars => FreshIds'
<1> SUFFICES ASSUME TypeOK, FreshIds, [Next]_vars PROVE FreshIds'
  OBVIOUS
<1>1. ASSUME NEW e \in events, NEW d \in Dirs, TransferPacket(e, d) PROVE FreshIds'
  BY <1>1, FreshTransfer
<1>2. ASSUME NEW e \in events, NEW d \in Dirs, NEW p \in Packets,
             DeliverPacket(e, d, p) \/ SubtractFromQueueTime(e, d, p)
      PROVE  FreshIds'
  BY <1>2 DEF DeliverPacket, SubtractFromQueueTime, TakeEvent, ScheduleEvents,
              FreshIds, Scheduled, TypeOK
<1>3. ASSUME NEW d \in Dirs, NEW p \in Packets, MainSends(d, p) PROVE FreshIds'
  BY <1>3, FreshEnqueue DEF MainSends, TypeOK
<1>4. ASSUME NEW d \in Dirs, NEW p \in Packets, NEW t \in CurrentTime .. MaxTime, NodeSends(d, p, t)
      PROVE  FreshIds'
  <2>1. t \in Int
    BY BoundsAssumption DEF TypeOK
  <2>2. QED BY <1>4, <2>1, FreshEnqueue DEF NodeSends, TakeNodeEvent
<1>5. CASE SchedStep
  BY <1>5 DEF SchedStep, SchedNext, CallRunUntil, DropAndReturn, DropNodeEventAndReturn,
              EmptyAndReturn, FreshIds, Scheduled, TypeOK
<1>6. CASE UNCHANGED vars
  BY <1>6 DEF vars, schedVars, FreshIds, Scheduled
<1>7. QED BY <1>1, <1>2, <1>3, <1>4, <1>5, <1>6 DEF Next, RunCallback, Send

-----------------------------------------------------------------------------
\* The pending transfer event is not earlier than the head of its heap.
HeadDue == \A d \in Dirs : \A e \in Transfers(d) :
             \E i \in queue[d] : i.dequeTime <= e.at

Wakeup == OneWakeup /\ HeadDue

\* What EnqueuePacket does to the transfer events of its direction.
LEMMA WakeupEnqueue ==
  ASSUME TypeOK, Wakeup, NEW d \in Dirs, NEW p \in Packets, NEW t \in Int,
         EnqueuePacket(d, p, t), dropped' = dropped
  PROVE  Wakeup'
<1> DEFINE at == t + queueTime[d]
           item == [packet |-> p, dequeTime |-> at]
<1>1. /\ queue' = [queue EXCEPT ![d] = @ \cup {item}]
      /\ queue'[d] = queue[d] \cup {item}
      /\ \A c \in Dirs \ {d} : queue'[c] = queue[c]
  BY DEF EnqueuePacket, TypeOK
<1>2. at \in Int
  BY DEF TypeOK
<1>3. CASE queue[d] = {}
  <2>1. events' = events \cup {Event(0, at, Transfer(d))}
    BY <1>3 DEF EnqueuePacket, StartTransfer, ScheduleEvents
  <2>2. \A c \in Dirs \ {d} : Transfers(c)' = Transfers(c)
    BY <2>1, CallsDiffer DEF Transfers, Scheduled, Event
  <2>3. Transfers(d) = {}
    BY <1>3 DEF Wakeup, OneWakeup
  <2>4. Transfers(d)' = {Event(0, at, Transfer(d))}
    BY <2>1, <2>3 DEF Transfers, Scheduled, Event
  <2>5. item.dequeTime <= Event(0, at, Transfer(d)).at /\ item \in queue'[d]
    BY <1>1, <1>2 DEF Event
  <2> HIDE DEF at, item
  <2>6. QED BY <1>1, <2>2, <2>4, <2>5 DEF Wakeup, OneWakeup, HeadDue
<1>4. CASE queue[d] # {}
  <2>1. \A c \in Dirs : Transfers(c)' = Transfers(c)
    BY <1>4 DEF EnqueuePacket, StartTransfer, Transfers, Scheduled
  <2>2. QED BY <1>1, <1>4, <2>1 DEF Wakeup, OneWakeup, HeadDue
<1>5. QED BY <1>3, <1>4

\* What transferPacket does to the transfer events of its direction.
LEMMA WakeupTransfer ==
  ASSUME TypeOK, FreshIds, Wakeup, NEW e \in events, NEW d \in Dirs, TransferPacket(e, d)
  PROVE  Wakeup'
<1>1. e \in Transfers(d) /\ Transfers(d) = {e} /\ queue[d] # {} /\ e \notin dropped
  BY DEF TransferPacket, Transfers, Scheduled, Wakeup, OneWakeup, FreshIds
<1>2. PICK item \in Heads(queue[d]), drawn \in LossDraws : TransferItem(e, d, item, drawn)
  BY <1>1 DEF TransferPacket
<1> DEFINE rest == Remaining(d, item)
           p == item.packet
           deliver == Event(0, DeliveryTime(e, item), Deliver(d, p))
           writeOff == Event(1, item.dequeTime + TransferTime[p], Subtract(d, p))
<1>3. /\ ScheduleNext(e, d, rest, {deliver, writeOff})
      /\ dropped' = dropped
      /\ queue'[d] = rest
      /\ \A c \in Dirs \ {d} : queue'[c] = queue[c]
  BY <1>2 DEF TransferItem, TransferPacket, TakeEvent, TypeOK
<1>4. /\ \A c \in Dirs : deliver.call # Transfer(c) /\ writeOff.call # Transfer(c)
      /\ e.call = Transfer(d)
      /\ \A c \in Dirs \ {d} : Transfer(c) # Transfer(d)
  BY CallsDiffer DEF Event, TransferPacket
<1>5. CASE rest = {}
  <2>1. events' = (events \ {e}) \cup {deliver, writeOff}
    BY <1>3, <1>5 DEF ScheduleNext, ScheduleEvents
  <2>2. \A c \in Dirs \ {d} : Transfers(c)' = Transfers(c)
    BY <1>3, <1>4, <2>1 DEF Transfers, Scheduled
  <2>3. Transfers(d)' = {}
    BY <1>1, <1>3, <1>4, <2>1 DEF Transfers, Scheduled
  <2>4. QED BY <1>3, <1>5, <2>2, <2>3 DEF Wakeup, OneWakeup, HeadDue
<1>6. CASE rest # {}
  <2> DEFINE wake(i) == Event(2, i.dequeTime, Transfer(d))
  <2>1. PICK i \in Heads(rest) : events' = (events \ {e}) \cup ({deliver, writeOff} \cup {wake(i)})
    BY <1>3, <1>6 DEF ScheduleNext, ScheduleEvents
  <2>2. wake(i).call = Transfer(d) /\ wake(i).at = i.dequeTime
    BY DEF Event
  <2>3. i \in rest /\ i.dequeTime \in Int
    BY DEF Heads, Remaining, TypeOK
  <2> HIDE DEF wake, deliver, writeOff, rest
  <2>4. \A c \in Dirs \ {d} : Transfers(c)' = Transfers(c)
    BY <1>3, <1>4, <2>1, <2>2 DEF Transfers, Scheduled
  <2>5. Transfers(d)' = {wake(i)}
    BY <1>1, <1>3, <1>4, <2>1, <2>2 DEF Transfers, Scheduled
  <2>6. i.dequeTime <= wake(i).at
    BY <2>2, <2>3
  <2>7. QED BY <1>3, <1>6, <2>3, <2>4, <2>5, <2>6 DEF Wakeup, OneWakeup, HeadDue
<1>7. QED BY <1>5, <1>6
LEMMA WakeupStep == TypeOK /\ FreshIds /\ Wakeup /\ [Next]_vars => Wakeup'
<1> SUFFICES ASSUME TypeOK, FreshIds, Wakeup, [Next]_vars PROVE Wakeup'
  OBVIOUS
<1>1. ASSUME NEW e \in events, NEW d \in Dirs, TransferPacket(e, d) PROVE Wakeup'
  BY <1>1, WakeupTransfer
<1>2. ASSUME NEW e \in events, NEW d \in Dirs, NEW p \in Packets,
             DeliverPacket(e, d, p) \/ SubtractFromQueueTime(e, d, p)
      PROVE  Wakeup'
  <2>1. events' = events \ {e} /\ dropped' = dropped /\ queue' = queue
    BY <1>2 DEF DeliverPacket, SubtractFromQueueTime, TakeEvent, ScheduleEvents
  <2>2. \A c \in Dirs : e.call # Transfer(c)
    BY <1>2, CallsDiffer DEF DeliverPacket, SubtractFromQueueTime
  <2>3. \A c \in Dirs : Transfers(c)' = Transfers(c)
    BY <2>1, <2>2 DEF Transfers, Scheduled
  <2>4. QED BY <2>1, <2>3 DEF Wakeup, OneWakeup, HeadDue
<1>3. ASSUME NEW d \in Dirs, NEW p \in Packets, MainSends(d, p) PROVE Wakeup'
  BY <1>3, WakeupEnqueue DEF MainSends, TypeOK
<1>4. ASSUME NEW d \in Dirs, NEW p \in Packets, NEW t \in CurrentTime .. MaxTime, NodeSends(d, p, t)
      PROVE  Wakeup'
  <2>1. t \in Int
    BY BoundsAssumption DEF TypeOK
  <2>2. QED BY <1>4, <2>1, WakeupEnqueue DEF NodeSends, TakeNodeEvent
<1>5. CASE SchedStep \/ UNCHANGED vars
  <2>1. Scheduled' = Scheduled /\ queue' = queue
    BY <1>5 DEF SchedStep, SchedNext, CallRunUntil, DropAndReturn, DropNodeEventAndReturn,
                EmptyAndReturn, Scheduled, linkVars, vars, schedVars
  <2>2. \A c \in Dirs : Transfers(c)' = Transfers(c)
    BY <2>1 DEF Transfers
  <2>3. QED BY <2>1, <2>2 DEF Wakeup, OneWakeup, HeadDue
<1>6. QED BY <1>1, <1>2, <1>3, <1>4, <1>5 DEF Next, RunCallback, Send

LEMMA InitInv == Init => TypeOK /\ FreshIds /\ Wakeup
<1> SUFFICES ASSUME Init PROVE TypeOK /\ FreshIds /\ Wakeup
  OBVIOUS
<1>1. events = {} /\ dropped = {} /\ lost = {} /\ calls = 0 /\ eventId = 0
      /\ CurrentTime = 0 /\ running = FALSE /\ endTime = Forever
  BY DEF Init, SchedInit
<1>2. TypeOK
  <2>1. queue \in [Dirs -> SUBSET [packet : Packets, dequeTime : Int]]
    BY Zenon DEF Init
  <2>2. queueTime \in [Dirs -> Int] /\ received \in [Dirs -> SUBSET Packets]
    BY DEF Init
  <2>4. events \subseteq [id : Nat, at : Int, call : Calls] /\ dropped \subseteq [id : Nat, at : Int, call : Calls]
    BY <1>1
  <2>5. CurrentTime \in Int /\ eventId \in Nat /\ calls \in Nat
    BY <1>1
  <2>6. running \in BOOLEAN /\ endTime \in EndTimes \cup {Forever} /\ lost \subseteq Packets
    BY <1>1
  <2>7. creationTime \in [Packets -> Int]
    BY DEF Init
  <2>8. QED BY <2>1, <2>2, <2>4, <2>5, <2>6, <2>7 DEF TypeOK
<1>3. FreshIds
  BY <1>1 DEF FreshIds, Scheduled
<1>4. Wakeup
  BY <1>1 DEF Init, Wakeup, OneWakeup, HeadDue, Transfers, Scheduled
<1>5. QED BY <1>2, <1>3, <1>4

LEMMA Invariants == Spec => [](TypeOK /\ FreshIds /\ Wakeup)
<1>1. TypeOK /\ FreshIds /\ Wakeup /\ [Next]_vars => (TypeOK /\ FreshIds /\ Wakeup)'
  BY TypeStep, FreshStep, WakeupStep
<1>2. QED BY InitInv, <1>1, PTL DEF Spec

-----------------------------------------------------------------------------
\* The variables keep their types.
THEOREM TypeInvariant == Spec => []TypeOK
  BY Invariants, PTL

\* EnqueuePacket and transferPacket keep exactly one transfer event for a
\* direction with waiting packets and none for an idle one; RunUntil may hold
\* that event back for good.
THEOREM OneWakeupInvariant == Spec => []OneWakeup
<1>1. Wakeup => OneWakeup
  BY DEF Wakeup
<1>2. QED BY Invariants, <1>1, PTL

\* The head of a heap is due when the transfer event of its direction is taken.
LEMMA HeadIsDue ==
  ASSUME TypeOK, Wakeup, NEW e \in events, NEW d \in Dirs, TransferPacket(e, d),
         NEW item \in Heads(queue[d])
  PROVE  item.dequeTime <= e.at
<1>1. e \in Transfers(d)
  BY DEF TransferPacket, Transfers, Scheduled
<1>2. PICK j \in queue[d] : j.dequeTime <= e.at
  BY <1>1 DEF Wakeup, HeadDue
<1>3. item.dequeTime <= j.dequeTime /\ item \in queue[d]
  BY DEF Heads
<1>4. item.dequeTime \in Int /\ j.dequeTime \in Int /\ e.at \in Int
  BY <1>3 DEF TypeOK
<1>5. QED BY <1>2, <1>3, <1>4

\* transferPacket never takes a packet from its heap before its dequeTime.
THEOREM NeverEarly == Spec => NeverTransmittedEarly
<1> DEFINE Early == \A d \in Dirs : \A i \in queue[d] \ queue'[d] : i.dequeTime <= CurrentTime'
<1>1. ASSUME TypeOK, FreshIds, Wakeup, [Next]_vars PROVE Early
  <2> SUFFICES ASSUME NEW c \in Dirs, NEW i \in queue[c] \ queue'[c]
               PROVE  i.dequeTime <= CurrentTime'
    OBVIOUS
  <2>1. ASSUME NEW d \in Dirs, NEW p \in Packets, NEW t, EnqueuePacket(d, p, t) PROVE FALSE
    BY <2>1 DEF EnqueuePacket, TypeOK
  <2>2. PICK e \in events, d \in Dirs : TransferPacket(e, d)
    BY <1>1, <2>1 DEF Next, RunCallback, Send, MainSends, NodeSends, DeliverPacket,
                      SubtractFromQueueTime, SchedStep, linkVars, vars
  <2>3. PICK item \in Heads(queue[d]), drawn \in LossDraws : TransferItem(e, d, item, drawn)
    BY <2>2 DEF TransferPacket, linkVars
  <2>4. c = d /\ i = item
    BY <2>3, <1>1 DEF TransferItem, Remaining, TypeOK
  <2>5. CurrentTime' = e.at
    BY <2>2 DEF TransferPacket, TakeEvent
  <2>6. QED BY <1>1, <2>2, <2>4, <2>5, HeadIsDue
<1>2. TypeOK /\ FreshIds /\ Wakeup /\ [Next]_vars => [Early]_vars
  BY <1>1
<1>3. QED BY Invariants, <1>2, PTL DEF Spec, NeverTransmittedEarly
\* A step that runs no transferPacket leaves every heap at least as it was.
LEMMA OnlyTransferPops ==
  ASSUME TypeOK, [Next]_vars, NEW c \in Dirs,
         ~ \E e \in events : TransferPacket(e, c)
  PROVE  queue[c] \subseteq queue'[c]
<1>1. ASSUME NEW d \in Dirs, NEW p \in Packets, NEW t, EnqueuePacket(d, p, t)
      PROVE  queue[c] \subseteq queue'[c]
  BY <1>1 DEF EnqueuePacket, TypeOK
<1>2. ASSUME NEW e \in events, NEW d \in Dirs, TransferPacket(e, d)
      PROVE  queue[c] \subseteq queue'[c]
  <2>1. d # c
    BY <1>2
  <2>2. CASE queue[d] = {}
    BY <1>2, <2>2 DEF TransferPacket, linkVars
  <2>3. CASE queue[d] # {}
    BY <1>2, <2>1, <2>3 DEF TransferPacket, TransferItem, TypeOK
  <2>4. QED BY <2>2, <2>3
<1>3. QED BY <1>1, <1>2 DEF Next, RunCallback, Send, MainSends, NodeSends, DeliverPacket,
                            SubtractFromQueueTime, SchedStep, linkVars, vars

\* Once RunUntil has thrown away a direction's transfer event (nteventsched.go:58),
\* no packet ever leaves that direction's heap again (link.go:108).
THEOREM DroppedIsFatal == Spec => DroppedTransferIsFatal
<1> DEFINE Stuck == \A d \in Dirs : (\E e \in dropped : e.call = Transfer(d)) =>
                      queue[d] # {} /\ queue[d] \subseteq queue'[d]
<1>1. ASSUME TypeOK, FreshIds, Wakeup, [Next]_vars PROVE Stuck
  <2> SUFFICES ASSUME NEW d \in Dirs, NEW e \in dropped, e.call = Transfer(d)
               PROVE  queue[d] # {} /\ queue[d] \subseteq queue'[d]
    OBVIOUS
  <2>1. Transfers(d) = {e} /\ e \notin events
    BY <1>1 DEF Wakeup, OneWakeup, Transfers, Scheduled, FreshIds
  <2>2. ~ \E f \in events : TransferPacket(f, d)
    BY <2>1 DEF TransferPacket, Transfers, Scheduled
  <2>3. QED BY <1>1, <2>1, <2>2, OnlyTransferPops DEF Wakeup, OneWakeup
<1>2. TypeOK /\ FreshIds /\ Wakeup /\ [Next]_vars => [Stuck]_vars
  BY <1>1
<1>3. QED BY Invariants, <1>2, PTL DEF Spec, DroppedTransferIsFatal

-----------------------------------------------------------------------------
(***************************************************************************)
(* A link implements Channel: every packet is in one place at a time (in a *)
(* heap, on its way, or received), and each action moves it to the next.   *)
(***************************************************************************)
DeliveryOf(e, p) == \E d \in Dirs : e.call = Deliver(d, p)

\* A packet is in one heap at most, has one delivery at most, and is not in a
\* heap, on its way and received at once.
OnePlace ==
  /\ \A c, d \in Dirs : \A i \in queue[c], j \in queue[d] :
       i.packet = j.packet => c = d /\ i = j
  /\ \A e, f \in Scheduled, p \in Packets : DeliveryOf(e, p) /\ DeliveryOf(f, p) => e = f
  /\ \A c, d \in Dirs : /\ Waiting(c) \cap (OnTheWay(d) \cup received[d]) = {}
                        /\ OnTheWay(c) \cap received[d] = {}

\* Where the packets are after EnqueuePacket.
LEMMA EnqueueEffect ==
  ASSUME TypeOK, OnePlace, NEW d \in Dirs, NEW p \in Packets, NEW t,
         EnqueuePacket(d, p, t), dropped' = dropped
  PROVE  /\ OnePlace'
         /\ Waiting(d)' = Waiting(d) \cup {p}
         /\ \A c \in Dirs \ {d} : Waiting(c)' = Waiting(c)
         /\ \A c \in Dirs : OnTheWay(c)' = OnTheWay(c)
         /\ received' = received /\ lost' = lost
<1> DEFINE item == [packet |-> p, dequeTime |-> t + queueTime[d]]
<1>1. /\ queue'[d] = queue[d] \cup {item}
      /\ \A c \in Dirs \ {d} : queue'[c] = queue[c]
      /\ received' = received /\ lost' = lost
  BY DEF EnqueuePacket, TypeOK
<1>2. item.packet = p
  OBVIOUS
<1>3. PICK new : Scheduled' = Scheduled \cup new /\ \A e \in new, q \in Packets : ~DeliveryOf(e, q)
  <2>1. CASE queue[d] = {}
    <3> DEFINE new == {Event(0, t + queueTime[d], Transfer(d))}
    <3>1. Scheduled' = Scheduled \cup new
      BY <2>1 DEF EnqueuePacket, StartTransfer, ScheduleEvents, Scheduled
    <3>2. \A e \in new, q \in Packets : ~DeliveryOf(e, q)
      BY CallsDiffer DEF Event, DeliveryOf
    <3> HIDE DEF new
    <3>3. QED BY <3>1, <3>2
  <2>2. CASE queue[d] # {}
    <3> DEFINE new == {}
    <3>1. Scheduled' = Scheduled \cup new
      BY <2>2 DEF EnqueuePacket, StartTransfer, Scheduled
    <3>2. \A e \in new, q \in Packets : ~DeliveryOf(e, q)
      OBVIOUS
    <3> HIDE DEF new
    <3>3. QED BY <3>1, <3>2
  <2>3. QED BY <2>1, <2>2
<1>4. \A c \in Dirs : OnTheWay(c)' = OnTheWay(c)
  BY <1>3 DEF OnTheWay, DeliveryOf, Scheduled
<1> HIDE DEF item
<1>5. Waiting(d)' = Waiting(d) \cup {p} /\ \A c \in Dirs \ {d} : Waiting(c)' = Waiting(c)
  BY <1>1, <1>2 DEF Waiting
<1>6. \A c \in Dirs : p \notin Waiting(c) /\ p \notin OnTheWay(c) /\ p \notin received[c]
  BY DEF EnqueuePacket, Fresh, Accepted
<1>7. \A c, b \in Dirs : \A i \in queue'[c], j \in queue'[b] : i.packet = j.packet => c = b /\ i = j
  <2>1. \A c \in Dirs : \A i \in queue[c] : i.packet # p
    BY <1>6 DEF Waiting
  <2>2. QED BY <1>1, <1>2, <2>1 DEF OnePlace
<1>8. \A e, f \in Scheduled', q \in Packets : DeliveryOf(e, q) /\ DeliveryOf(f, q) => e = f
  BY <1>3 DEF OnePlace
<1>9. \A c, b \in Dirs : /\ Waiting(c)' \cap (OnTheWay(b)' \cup received'[b]) = {}
                         /\ OnTheWay(c)' \cap received'[b] = {}
  BY <1>1, <1>4, <1>5, <1>6 DEF OnePlace
<1>10. OnePlace'
  BY <1>7, <1>8, <1>9 DEF OnePlace, DeliveryOf
<1>11. QED BY <1>1, <1>4, <1>5, <1>10

\* The one change to the write-offs to come is w, that of packet p.
WriteOffScheduled(w, d, p) ==
  \A c \in Dirs, q \in Packets, f \in Scheduled \cup Scheduled' :
    f \in Scheduled' /\ f.call = Subtract(c, q) <=>
      \/ f \in Scheduled /\ f.call = Subtract(c, q)
      \/ f = w /\ c = d /\ q = p

\* Where the packets are after transferPacket took one from its heap.
LEMMA TransferEffect ==
  ASSUME TypeOK, FreshIds, OnePlace, NEW e \in events, NEW d \in Dirs, TransferPacket(e, d),
         queue[d] # {}
  PROVE  /\ OnePlace'
         /\ \E p \in Waiting(d) :
              /\ Waiting(d)' = Waiting(d) \ {p} /\ OnTheWay(d)' = OnTheWay(d) \cup {p}
              /\ lost' \in {lost, lost \cup {p}}
              /\ \E w \in Scheduled' : WriteOffScheduled(w, d, p)
         /\ \A c \in Dirs \ {d} : Waiting(c)' = Waiting(c) /\ OnTheWay(c)' = OnTheWay(c)
         /\ received' = received
<1>1. PICK item \in Heads(queue[d]), drawn \in LossDraws : TransferItem(e, d, item, drawn)
  BY DEF TransferPacket
<1> DEFINE p == item.packet
           deliver == Event(0, DeliveryTime(e, item), Deliver(d, p))
           writeOff == Event(1, item.dequeTime + TransferTime[p], Subtract(d, p))
<1>2. /\ queue'[d] = queue[d] \ {item}
      /\ \A c \in Dirs \ {d} : queue'[c] = queue[c]
      /\ received' = received
      /\ lost' \in {lost, lost \cup {p}}
      /\ dropped' = dropped
  BY <1>1 DEF TransferItem, Remaining, TransferPacket, TakeEvent, TypeOK
<1>3. item \in queue[d] /\ p \in Packets /\ p \in Waiting(d)
  BY DEF Heads, Waiting, TypeOK
<1>4. deliver.call = Deliver(d, p) /\ writeOff.call = Subtract(d, p) /\ e.call = Transfer(d)
  BY DEF Event, TransferPacket
<1>5. PICK wakes : /\ events' = (events \ {e}) \cup ({deliver, writeOff} \cup wakes)
                   /\ \A w \in wakes : w.call = Transfer(d)
  <2>1. ScheduleNext(e, d, Remaining(d, item), {deliver, writeOff})
    BY <1>1 DEF TransferItem
  <2>2. CASE Remaining(d, item) = {}
    <3> DEFINE wakes == {}
    <3>1. events' = (events \ {e}) \cup ({deliver, writeOff} \cup wakes)
      BY <2>1, <2>2 DEF ScheduleNext, ScheduleEvents
    <3>2. \A w \in wakes : w.call = Transfer(d)
      OBVIOUS
    <3> HIDE DEF wakes
    <3>3. QED BY <3>1, <3>2
  <2>3. CASE Remaining(d, item) # {}
    <3>1. PICK i : events' = (events \ {e}) \cup ({deliver, writeOff} \cup {Event(2, i.dequeTime, Transfer(d))})
      BY <2>1, <2>3 DEF ScheduleNext, ScheduleEvents
    <3> DEFINE wakes == {Event(2, i.dequeTime, Transfer(d))}
    <3>2. \A w \in wakes : w.call = Transfer(d)
      BY DEF Event
    <3>3. events' = (events \ {e}) \cup ({deliver, writeOff} \cup wakes)
      BY <3>1
    <3> HIDE DEF wakes
    <3>4. QED BY <3>2, <3>3
  <2>4. QED BY <2>2, <2>3
<1> HIDE DEF deliver, writeOff
<1>6. \A q \in Packets, c \in Dirs, f \in Scheduled' :
        f.call = Deliver(c, q) <=> \/ f \in Scheduled \ {e} /\ f.call = Deliver(c, q)
                                   \/ f = deliver /\ c = d /\ q = p
  BY <1>2, <1>4, <1>5, CallsDiffer DEF Scheduled
<1>7. deliver \in Scheduled'
  BY <1>5 DEF Scheduled
<1>8. \A q \in Packets, c \in Dirs : e.call # Deliver(c, q)
  BY <1>4, CallsDiffer
<1>9. \A f \in Scheduled : f # e => f \in Scheduled'
  BY <1>2, <1>5 DEF Scheduled
<1>10. OnTheWay(d)' = OnTheWay(d) \cup {p} /\ \A c \in Dirs \ {d} : OnTheWay(c)' = OnTheWay(c)
  BY <1>3, <1>4, <1>6, <1>7, <1>8, <1>9 DEF OnTheWay, Scheduled
<1>11. \A c, b \in Dirs : \A i \in queue'[c], j \in queue'[b] : i.packet = j.packet => c = b /\ i = j
  BY <1>2 DEF OnePlace
<1>12. Waiting(d)' = Waiting(d) \ {p} /\ \A c \in Dirs \ {d} : Waiting(c)' = Waiting(c)
  <2>1. \A i \in queue[d] : i.packet = p => i = item
    BY <1>3 DEF OnePlace
  <2>2. QED BY <1>2, <2>1 DEF Waiting
<1>13. \A c \in Dirs : p \notin OnTheWay(c) /\ p \notin received[c] /\ (c # d => p \notin Waiting(c))
  BY <1>3 DEF OnePlace, Waiting
<1>14. \A f, g \in Scheduled', q \in Packets : DeliveryOf(f, q) /\ DeliveryOf(g, q) => f = g
  <2>1. \A f \in Scheduled : ~DeliveryOf(f, p)
    BY <1>3, <1>13 DEF OnTheWay, DeliveryOf, Scheduled
  <2>2. QED BY <1>3, <1>6, <2>1 DEF OnePlace, DeliveryOf
<1>15. \A c, b \in Dirs : /\ Waiting(c)' \cap (OnTheWay(b)' \cup received'[b]) = {}
                          /\ OnTheWay(c)' \cap received'[b] = {}
  BY <1>2, <1>10, <1>12, <1>13 DEF OnePlace
<1>16. OnePlace'
  BY <1>11, <1>14, <1>15 DEF OnePlace, DeliveryOf
<1>17. writeOff \in Scheduled' /\ WriteOffScheduled(writeOff, d, p)
  BY <1>2, <1>4, <1>5, CallsDiffer DEF Scheduled, WriteOffScheduled
<1>18. QED BY <1>2, <1>3, <1>10, <1>12, <1>16, <1>17

\* Where the packets are after a delivery.
LEMMA DeliverEffect ==
  ASSUME TypeOK, FreshIds, OnePlace, NEW e \in events, NEW d \in Dirs, NEW p \in Packets,
         DeliverPacket(e, d, p)
  PROVE  /\ OnePlace'
         /\ p \in OnTheWay(d)
         /\ OnTheWay(d)' = OnTheWay(d) \ {p}
         /\ \A c \in Dirs \ {d} : OnTheWay(c)' = OnTheWay(c)
         /\ \A c \in Dirs : Waiting(c)' = Waiting(c)
         /\ received' = [received EXCEPT ![d] = @ \cup {p}] /\ lost' = lost
<1>1. /\ events' = events \ {e} /\ dropped' = dropped /\ e.call = Deliver(d, p)
      /\ received' = [received EXCEPT ![d] = @ \cup {p}] /\ queue' = queue /\ lost' = lost
      /\ e \notin dropped
  BY DEF DeliverPacket, TakeEvent, ScheduleEvents, FreshIds
<1>2. Scheduled' = Scheduled \ {e} /\ e \in Scheduled
  BY <1>1 DEF Scheduled
<1>3. \A c \in Dirs : Waiting(c)' = Waiting(c)
  BY <1>1 DEF Waiting
<1>4. \A f \in Scheduled \ {e}, c \in Dirs : f.call # Deliver(c, p)
  BY <1>1, <1>2 DEF OnePlace, DeliveryOf
<1>5. \A c \in Dirs, q \in Packets : e.call = Deliver(c, q) => c = d /\ q = p
  BY <1>1, CallsDiffer
<1>6. /\ p \in OnTheWay(d) /\ OnTheWay(d)' = OnTheWay(d) \ {p}
      /\ \A c \in Dirs \ {d} : OnTheWay(c)' = OnTheWay(c)
  BY <1>1, <1>2, <1>4, <1>5 DEF OnTheWay, Scheduled
<1>7. \A c \in Dirs : p \notin OnTheWay(c)' /\ p \notin Waiting(c)
  BY <1>6, <1>4, <1>2 DEF OnePlace, OnTheWay, Scheduled
<1>8. /\ received'[d] = received[d] \cup {p}
      /\ \A c \in Dirs \ {d} : received'[c] = received[c]
  BY <1>1 DEF TypeOK
<1>9. \A f, g \in Scheduled', q \in Packets : DeliveryOf(f, q) /\ DeliveryOf(g, q) => f = g
  BY <1>2 DEF OnePlace
<1>10. \A c, b \in Dirs : /\ Waiting(c)' \cap (OnTheWay(b)' \cup received'[b]) = {}
                          /\ OnTheWay(c)' \cap received'[b] = {}
  BY <1>3, <1>6, <1>7, <1>8 DEF OnePlace
<1>11. OnePlace'
  BY <1>1, <1>9, <1>10 DEF OnePlace, DeliveryOf
<1>12. QED BY <1>1, <1>3, <1>6, <1>11

\* The other steps leave every packet where it is.
LEMMA OtherEffect ==
  ASSUME TypeOK, FreshIds, OnePlace,
         \/ SchedStep \/ UNCHANGED vars
         \/ \E e \in events, d \in Dirs, p \in Packets : SubtractFromQueueTime(e, d, p)
         \/ \E e \in events, d \in Dirs : TransferPacket(e, d) /\ queue[d] = {}
  PROVE  /\ OnePlace'
         /\ \A c \in Dirs : Waiting(c)' = Waiting(c) /\ OnTheWay(c)' = OnTheWay(c)
         /\ received' = received /\ lost' = lost
<1>1. queue' = queue /\ received' = received /\ lost' = lost
  BY DEF SchedStep, vars, linkVars, SubtractFromQueueTime, TransferPacket
<1>2. PICK gone : Scheduled' = Scheduled \ gone /\ \A e \in gone, p \in Packets : ~DeliveryOf(e, p)
  <2>1. CASE SchedStep \/ UNCHANGED vars
    <3>1. Scheduled' = Scheduled \ {}
      BY <2>1 DEF SchedStep, SchedNext, CallRunUntil, DropAndReturn, DropNodeEventAndReturn,
                  EmptyAndReturn, Scheduled, vars, schedVars
    <3>2. QED BY <3>1
  <2>2. ASSUME NEW e \in events, NEW d \in Dirs, NEW p \in Packets,
               SubtractFromQueueTime(e, d, p) \/ (TransferPacket(e, d) /\ queue[d] = {})
        PROVE  Scheduled' = Scheduled \ {e} /\ \A q \in Packets : ~DeliveryOf(e, q)
    <3>1. events' = events \ {e} /\ dropped' = dropped
      BY <2>2 DEF SubtractFromQueueTime, TransferPacket, TakeEvent, ScheduleEvents
    <3>2. \A q \in Packets : ~DeliveryOf(e, q)
      BY <2>2, CallsDiffer DEF SubtractFromQueueTime, TransferPacket, DeliveryOf
    <3>3. QED BY <3>1, <3>2 DEF Scheduled, FreshIds
  <2>3. ASSUME NEW e \in events, NEW d \in Dirs, TransferPacket(e, d), queue[d] = {}
        PROVE  Scheduled' = Scheduled \ {e} /\ \A q \in Packets : ~DeliveryOf(e, q)
    <3>1. events' = events \ {e} /\ dropped' = dropped
      BY <2>3 DEF TransferPacket, TakeEvent, ScheduleEvents
    <3>2. \A q \in Packets : ~DeliveryOf(e, q)
      BY <2>3, CallsDiffer DEF TransferPacket, DeliveryOf
    <3>3. QED BY <3>1, <3>2 DEF Scheduled, FreshIds
  <2>4. CASE \E e \in events, d \in Dirs, p \in Packets : SubtractFromQueueTime(e, d, p)
    <3>1. PICK e \in events : Scheduled' = Scheduled \ {e} /\ \A q \in Packets : ~DeliveryOf(e, q)
      BY <2>2, <2>4
    <3>2. QED BY <3>1
  <2>5. CASE \E e \in events, d \in Dirs : TransferPacket(e, d) /\ queue[d] = {}
    <3>1. PICK e \in events : Scheduled' = Scheduled \ {e} /\ \A q \in Packets : ~DeliveryOf(e, q)
      BY <2>3, <2>5
    <3>2. QED BY <3>1
  <2>6. QED BY <2>1, <2>4, <2>5
<1>3. \A c \in Dirs : Waiting(c)' = Waiting(c) /\ OnTheWay(c)' = OnTheWay(c)
  BY <1>1, <1>2 DEF Waiting, OnTheWay, Scheduled, DeliveryOf
<1>4. \A f, g \in Scheduled', q \in Packets : DeliveryOf(f, q) /\ DeliveryOf(g, q) => f = g
  BY <1>2 DEF OnePlace
<1>5. OnePlace'
  BY <1>1, <1>3, <1>4 DEF OnePlace, DeliveryOf
<1>6. QED BY <1>1, <1>3, <1>5
LEMMA OnePlaceStep == TypeOK /\ FreshIds /\ OnePlace /\ [Next]_vars => OnePlace'
<1> SUFFICES ASSUME TypeOK, FreshIds, OnePlace, [Next]_vars PROVE OnePlace'
  OBVIOUS
<1>1. ASSUME NEW e \in events, NEW d \in Dirs, TransferPacket(e, d) PROVE OnePlace'
  BY <1>1, TransferEffect, OtherEffect
<1>2. ASSUME NEW e \in events, NEW d \in Dirs, NEW p \in Packets, DeliverPacket(e, d, p)
      PROVE  OnePlace'
  BY <1>2, DeliverEffect
<1>3. ASSUME NEW d \in Dirs, NEW p \in Packets, NEW t, MainSends(d, p) \/ NodeSends(d, p, t)
      PROVE  OnePlace'
  BY <1>3, EnqueueEffect DEF MainSends, NodeSends, TakeNodeEvent
<1>4. QED BY <1>1, <1>2, <1>3, OtherEffect DEF Next, RunCallback, Send

LEMMA ContractInvariant == Spec => [](TypeOK /\ FreshIds /\ OnePlace)
<1>1. Init => OnePlace
  BY DEF Init, SchedInit, OnePlace, Waiting, OnTheWay, Scheduled
<1>2. QED BY Invariants, OnePlaceStep, <1>1, PTL DEF Spec

\* The channel's view of the link.
held == [d \in Dirs |-> Waiting(d) \cup OnTheWay(d)]

LEMMA ContractInit == Init => Contract!Init
<1> SUFFICES ASSUME Init PROVE Contract!Init
  OBVIOUS
<1>1. \A d \in Dirs : Waiting(d) = {} /\ OnTheWay(d) = {}
  BY DEF Init, SchedInit, Waiting, OnTheWay
<1>2. QED BY <1>1 DEF Init, Contract!Init

LEMMA ContractStep == TypeOK /\ FreshIds /\ OnePlace /\ [Next]_vars => [Contract!Next]_Contract!vars
<1> SUFFICES ASSUME TypeOK, FreshIds, OnePlace, [Next]_vars
             PROVE  Contract!Next \/ UNCHANGED Contract!vars
  OBVIOUS
<1>1. ASSUME NEW e \in events, NEW d \in Dirs, TransferPacket(e, d), queue[d] # {}
      PROVE  Contract!Next \/ UNCHANGED Contract!vars
  <2>1. PICK p \in Waiting(d) : /\ Waiting(d)' = Waiting(d) \ {p}
                                /\ OnTheWay(d)' = OnTheWay(d) \cup {p}
                                /\ lost' \in {lost, lost \cup {p}}
    BY <1>1, TransferEffect
  <2>2. /\ \A c \in Dirs \ {d} : Waiting(c)' = Waiting(c) /\ OnTheWay(c)' = OnTheWay(c)
        /\ received' = received
    BY <1>1, TransferEffect
  <2>3. held' = held
    BY <2>1, <2>2 DEF held
  <2>4. p \in held[d] /\ p \in Packets
    BY DEF held, Waiting, TypeOK
  <2>5. CASE lost' = lost \/ p \in lost
    BY <2>1, <2>2, <2>3, <2>5 DEF Contract!vars, held
  <2>6. CASE p \notin lost /\ lost' = lost \cup {p}
    <3>1. Contract!Lose(d, p)
      BY <2>2, <2>3, <2>4, <2>6 DEF Contract!Lose, held
    <3>2. QED BY <2>4, <3>1 DEF Contract!Next
  <2>7. QED BY <2>1, <2>5, <2>6
<1>2. ASSUME NEW e \in events, NEW d \in Dirs, NEW p \in Packets, DeliverPacket(e, d, p)
      PROVE  Contract!Next
  <2>1. /\ p \in held[d] /\ p \notin Waiting(d)
        /\ \A c \in Dirs \ {d} : held'[c] = held[c]
        /\ held'[d] = held[d] \ {p}
    BY <1>2, DeliverEffect DEF held, OnePlace
  <2>2. held' = [held EXCEPT ![d] = @ \ {p}]
    BY <2>1 DEF held
  <2>3. Contract!Receive(d, p)
    BY <1>2, <2>1, <2>2, DeliverEffect DEF Contract!Receive, held
  <2>4. QED BY <2>3 DEF Contract!Next
<1>3. ASSUME NEW d \in Dirs, NEW p \in Packets, NEW t, MainSends(d, p) \/ NodeSends(d, p, t)
      PROVE  Contract!Next
  <2>1. PICK u : EnqueuePacket(d, p, u) /\ dropped' = dropped
    BY <1>3 DEF MainSends, NodeSends, TakeNodeEvent
  <2>2. \A c \in Dirs : p \notin held[c] \cup received[c]
    BY <2>1 DEF EnqueuePacket, Fresh, Accepted, held
  <2>3. /\ Waiting(d)' = Waiting(d) \cup {p}
        /\ \A c \in Dirs \ {d} : Waiting(c)' = Waiting(c)
        /\ \A c \in Dirs : OnTheWay(c)' = OnTheWay(c)
        /\ received' = received /\ lost' = lost
    BY <2>1, EnqueueEffect
  <2>4. held'[d] = held[d] \cup {p} /\ \A c \in Dirs \ {d} : held'[c] = held[c]
    BY <2>3 DEF held
  <2>5. held' = [held EXCEPT ![d] = @ \cup {p}]
    BY <2>4 DEF held
  <2>6. Contract!Send(d, p)
    BY <2>2, <2>3, <2>5 DEF Contract!Send, held
  <2>7. QED BY <2>6 DEF Contract!Next
<1>4. ASSUME \/ SchedStep \/ UNCHANGED vars
             \/ \E e \in events, d \in Dirs, p \in Packets : SubtractFromQueueTime(e, d, p)
             \/ \E e \in events, d \in Dirs : TransferPacket(e, d) /\ queue[d] = {}
      PROVE  UNCHANGED Contract!vars
  <2>1. held' = held /\ received' = received /\ lost' = lost
    BY <1>4, OtherEffect DEF held
  <2>2. QED BY <2>1 DEF Contract!vars, held
<1>5. QED BY <1>1, <1>2, <1>3, <1>4 DEF Next, RunCallback, Send

\* A link hands over every packet it accepts at most once, in the direction it
\* was sent, and marks it lost only on the way: EnqueuePacket, transferPacket
\* and the delivery they schedule, in any order RunUntil runs them.
THEOREM LinkIsAChannel == Spec => ChannelSafety
  BY ContractInvariant, ContractInit, ContractStep, PTL DEF Spec, ChannelSafety, Contract!SafetySpec

-----------------------------------------------------------------------------
(***************************************************************************)
(* currentQueueTime.  A write-off is scheduled when a packet leaves its    *)
(* heap and there is one for each packet at most, so a packet counts once. *)
(***************************************************************************)
Backlog(d) == Waiting(d) \cup WrittenOffLater(d)

\* Only packets that left their heap are written off, each once, and what waits
\* or is still to be written off is finite and adds up to currentQueueTime.
WrittenOffOnce ==
  /\ \A d \in Dirs, p \in Packets, e, f \in Scheduled :
       e.call = Subtract(d, p) /\ f.call = Subtract(d, p) => e = f
  /\ \A d \in Dirs : WrittenOffLater(d) \subseteq OnTheWay(d) \cup received[d]
  /\ \A d \in Dirs : IsFiniteSet(Backlog(d))

\* The transfer times of a backlog are numbers, so their sum is one.
LEMMA BacklogSum ==
  ASSUME TypeOK, NEW d \in Dirs
  PROVE  /\ Backlog(d) \subseteq Packets
         /\ \A p \in Backlog(d) : TransferTime[p] \in Int
  BY TransferTimeAssumption DEF TypeOK, Backlog, Waiting, WrittenOffLater

\* A step that changes no backlog and no currentQueueTime.
LEMMA SameBacklog ==
  ASSUME QueueTimeIsBacklog, queueTime' = queueTime, \A d \in Dirs : Backlog(d)' = Backlog(d)
  PROVE  QueueTimeIsBacklog'
  BY DEF QueueTimeIsBacklog, Backlog

LEMMA BacklogEnqueue ==
  ASSUME TypeOK, OnePlace, WrittenOffOnce, QueueTimeIsBacklog,
         NEW d \in Dirs, NEW p \in Packets, NEW t,
         EnqueuePacket(d, p, t), dropped' = dropped
  PROVE  WrittenOffOnce' /\ QueueTimeIsBacklog'
<1>1. /\ Waiting(d)' = Waiting(d) \cup {p}
      /\ \A c \in Dirs \ {d} : Waiting(c)' = Waiting(c)
      /\ \A c \in Dirs : OnTheWay(c)' = OnTheWay(c)
      /\ received' = received
  BY EnqueueEffect
<1>2. \A e \in Scheduled \cup Scheduled', c \in Dirs, q \in Packets :
        e.call = Subtract(c, q) => (e \in Scheduled <=> e \in Scheduled')
  BY CallsDiffer DEF EnqueuePacket, StartTransfer, ScheduleEvents, Scheduled, Event
<1>3. \A c \in Dirs : WrittenOffLater(c)' = WrittenOffLater(c)
  BY <1>2 DEF WrittenOffLater
<1>4. /\ Backlog(d)' = Backlog(d) \cup {p}
      /\ \A c \in Dirs \ {d} : Backlog(c)' = Backlog(c)
  BY <1>1, <1>3 DEF Backlog
<1>5. p \notin Backlog(d)
  BY DEF EnqueuePacket, Fresh, Accepted, Backlog, WrittenOffOnce
<1>6. \A c \in Dirs : IsFiniteSet(Backlog(c)')
  BY <1>4, FiniteParts DEF WrittenOffOnce
<1>7. WrittenOffOnce'
  BY <1>1, <1>2, <1>3, <1>6 DEF WrittenOffOnce
<1>8. /\ queueTime'[d] = queueTime[d] + TransferTime[p]
      /\ \A c \in Dirs \ {d} : queueTime'[c] = queueTime[c]
  BY DEF EnqueuePacket, TypeOK
<1>9. SumFunctionOnSet(TransferTime, Backlog(d)') = SumFunctionOnSet(TransferTime, Backlog(d)) + TransferTime[p]
  BY <1>4, <1>5, BacklogSum, TransferTimeAssumption, SumAdd DEF WrittenOffOnce
<1>10. QueueTimeIsBacklog'
  BY <1>4, <1>8, <1>9 DEF QueueTimeIsBacklog, Backlog
<1>11. QED BY <1>7, <1>10

LEMMA BacklogTransfer ==
  ASSUME TypeOK, FreshIds, OnePlace, WrittenOffOnce, QueueTimeIsBacklog,
         NEW e \in events, NEW d \in Dirs, TransferPacket(e, d), queue[d] # {}
  PROVE  WrittenOffOnce' /\ QueueTimeIsBacklog'
<1>1. PICK p \in Waiting(d) : /\ Waiting(d)' = Waiting(d) \ {p}
                              /\ OnTheWay(d)' = OnTheWay(d) \cup {p}
                              /\ \E w \in Scheduled' : WriteOffScheduled(w, d, p)
  BY TransferEffect
<1>2. /\ \A c \in Dirs \ {d} : Waiting(c)' = Waiting(c) /\ OnTheWay(c)' = OnTheWay(c)
      /\ received' = received
  BY TransferEffect
<1>3. PICK w \in Scheduled' : WriteOffScheduled(w, d, p)
  BY <1>1
<1>4. p \in Packets /\ p \notin WrittenOffLater(d)
  BY <1>1 DEF TypeOK, Waiting, OnePlace, WrittenOffOnce
<1>5. /\ WrittenOffLater(d)' = WrittenOffLater(d) \cup {p}
      /\ \A c \in Dirs \ {d} : WrittenOffLater(c)' = WrittenOffLater(c)
  BY <1>3, <1>4 DEF WriteOffScheduled, WrittenOffLater
<1>6. \A c \in Dirs : Backlog(c)' = Backlog(c)
  BY <1>1, <1>2, <1>5 DEF Backlog
<1>7. \A f \in Scheduled : f.call # Subtract(d, p)
  BY <1>4 DEF WrittenOffLater
<1>8. \A c \in Dirs, q \in Packets, f, g \in Scheduled' :
        f.call = Subtract(c, q) /\ g.call = Subtract(c, q) => f = g
  BY <1>3, <1>7 DEF WriteOffScheduled, WrittenOffOnce
<1>9. WrittenOffOnce'
  BY <1>1, <1>2, <1>5, <1>6, <1>8 DEF WrittenOffOnce
<1>10. queueTime' = queueTime
  BY DEF TransferPacket, TransferItem
<1>11. QED BY <1>6, <1>9, <1>10, SameBacklog

LEMMA BacklogWriteOff ==
  ASSUME TypeOK, FreshIds, OnePlace, WrittenOffOnce, QueueTimeIsBacklog,
         NEW e \in events, NEW d \in Dirs, NEW p \in Packets, SubtractFromQueueTime(e, d, p)
  PROVE  WrittenOffOnce' /\ QueueTimeIsBacklog'
<1>1. /\ \A c \in Dirs : Waiting(c)' = Waiting(c) /\ OnTheWay(c)' = OnTheWay(c)
      /\ received' = received
  BY OtherEffect
<1>2. Scheduled' = Scheduled \ {e} /\ e \in Scheduled /\ e.call = Subtract(d, p)
  BY DEF SubtractFromQueueTime, TakeEvent, ScheduleEvents, FreshIds, Scheduled
<1>3. \A f \in Scheduled : f.call = Subtract(d, p) => f = e
  BY <1>2 DEF WrittenOffOnce
<1>4. \A c \in Dirs, q \in Packets : e.call = Subtract(c, q) => c = d /\ q = p
  BY <1>2, CallsDiffer
<1>5. /\ p \in WrittenOffLater(d) /\ WrittenOffLater(d)' = WrittenOffLater(d) \ {p}
      /\ \A c \in Dirs \ {d} : WrittenOffLater(c)' = WrittenOffLater(c)
  BY <1>2, <1>3, <1>4 DEF WrittenOffLater
<1>6. p \notin Waiting(d)
  BY <1>5 DEF WrittenOffOnce, OnePlace
<1>7. /\ p \in Backlog(d) /\ Backlog(d)' = Backlog(d) \ {p}
      /\ \A c \in Dirs \ {d} : Backlog(c)' = Backlog(c)
  BY <1>1, <1>5, <1>6 DEF Backlog
<1>8. \A c \in Dirs : IsFiniteSet(Backlog(c)')
  BY <1>7, FiniteParts DEF WrittenOffOnce
<1>9. WrittenOffOnce'
  BY <1>1, <1>2, <1>5, <1>8 DEF WrittenOffOnce
<1>10. /\ queueTime'[d] = queueTime[d] - TransferTime[p]
       /\ \A c \in Dirs \ {d} : queueTime'[c] = queueTime[c]
  BY DEF SubtractFromQueueTime, TypeOK
<1>11. SumFunctionOnSet(TransferTime, Backlog(d))
         = TransferTime[p] + SumFunctionOnSet(TransferTime, Backlog(d)')
  BY <1>7, BacklogSum, SumTake DEF WrittenOffOnce
<1>12. /\ SumFunctionOnSet(TransferTime, Backlog(d)') \in Int /\ TransferTime[p] \in Int
       /\ queueTime[d] = SumFunctionOnSet(TransferTime, Backlog(d))
  <2>1. \A q \in Backlog(d)' : TransferTime[q] \in Int
    BY <1>7, BacklogSum
  <2>2. QED BY <1>8, <2>1, SumType, TransferTimeAssumption DEF QueueTimeIsBacklog, Backlog
<1>13. queueTime'[d] = SumFunctionOnSet(TransferTime, Backlog(d)')
  BY <1>10, <1>11, <1>12
<1>14. QueueTimeIsBacklog'
  BY <1>7, <1>10, <1>13 DEF QueueTimeIsBacklog, Backlog
<1>15. QED BY <1>9, <1>14

LEMMA BacklogStep ==
  ASSUME TypeOK, FreshIds, OnePlace, WrittenOffOnce, QueueTimeIsBacklog, [Next]_vars
  PROVE  WrittenOffOnce' /\ QueueTimeIsBacklog'
<1>1. ASSUME NEW e \in events, NEW d \in Dirs, NEW p \in Packets, DeliverPacket(e, d, p)
      PROVE  WrittenOffOnce' /\ QueueTimeIsBacklog'
  <2>1. /\ \A c \in Dirs : Waiting(c)' = Waiting(c)
        /\ \A c \in Dirs : OnTheWay(c) \cup received[c] \subseteq OnTheWay(c)' \cup received'[c]
    BY <1>1, DeliverEffect DEF TypeOK
  <2>2. /\ Scheduled' = Scheduled \ {e} /\ queueTime' = queueTime
        /\ \A c \in Dirs, q \in Packets : e.call # Subtract(c, q)
    BY <1>1, CallsDiffer DEF DeliverPacket, TakeEvent, ScheduleEvents, FreshIds, Scheduled
  <2>3. \A c \in Dirs : WrittenOffLater(c)' = WrittenOffLater(c)
    BY <2>2 DEF WrittenOffLater
  <2>4. \A c \in Dirs : Backlog(c)' = Backlog(c)
    BY <2>1, <2>3 DEF Backlog
  <2>5. WrittenOffOnce'
    BY <2>1, <2>2, <2>3, <2>4 DEF WrittenOffOnce
  <2>6. QED BY <2>2, <2>4, <2>5, SameBacklog
<1>2. ASSUME NEW d \in Dirs, NEW p \in Packets, NEW t, MainSends(d, p) \/ NodeSends(d, p, t)
      PROVE  WrittenOffOnce' /\ QueueTimeIsBacklog'
  <2>1. PICK u : EnqueuePacket(d, p, u) /\ dropped' = dropped
    BY <1>2 DEF MainSends, NodeSends, TakeNodeEvent
  <2>2. QED BY <2>1, BacklogEnqueue
<1>3. ASSUME \/ SchedStep \/ UNCHANGED vars
             \/ \E e \in events, d \in Dirs : TransferPacket(e, d) /\ queue[d] = {}
      PROVE  WrittenOffOnce' /\ QueueTimeIsBacklog'
  <2>1. /\ \A c \in Dirs : Waiting(c)' = Waiting(c) /\ OnTheWay(c)' = OnTheWay(c)
        /\ received' = received
    BY <1>3, OtherEffect
  <2>2. /\ Scheduled' \subseteq Scheduled /\ queueTime' = queueTime
        /\ \A f \in Scheduled \ Scheduled', c \in Dirs, q \in Packets : f.call # Subtract(c, q)
    <3>1. CASE SchedStep \/ UNCHANGED vars
      BY <3>1 DEF SchedStep, SchedNext, CallRunUntil, DropAndReturn, DropNodeEventAndReturn,
                  EmptyAndReturn, Scheduled, linkVars, vars, schedVars
    <3>2. ASSUME NEW e \in events, NEW d \in Dirs, TransferPacket(e, d) /\ queue[d] = {}
          PROVE  /\ Scheduled' = Scheduled \ {e} /\ queueTime' = queueTime
                 /\ \A c \in Dirs, q \in Packets : e.call # Subtract(c, q)
      BY <3>2, CallsDiffer DEF TransferPacket, TakeEvent, ScheduleEvents, FreshIds, Scheduled, linkVars
    <3>3. QED BY <1>3, <3>1, <3>2
  <2>3. \A c \in Dirs : WrittenOffLater(c)' = WrittenOffLater(c)
    BY <2>2 DEF WrittenOffLater
  <2>4. \A c \in Dirs : Backlog(c)' = Backlog(c)
    BY <2>1, <2>3 DEF Backlog
  <2>5. WrittenOffOnce'
    BY <2>1, <2>2, <2>3, <2>4 DEF WrittenOffOnce
  <2>6. QED BY <2>2, <2>4, <2>5, SameBacklog
<1>4. QED BY <1>1, <1>2, <1>3, BacklogTransfer, BacklogWriteOff DEF Next, RunCallback, Send

LEMMA BacklogInvariant == Spec => [](WrittenOffOnce /\ QueueTimeIsBacklog)
<1>1. Init => WrittenOffOnce /\ QueueTimeIsBacklog
  <2> SUFFICES ASSUME Init PROVE WrittenOffOnce /\ QueueTimeIsBacklog
    OBVIOUS
  <2>1. \A d \in Dirs : Waiting(d) = {} /\ WrittenOffLater(d) = {} /\ queueTime[d] = 0
    BY DEF Init, SchedInit, Waiting, WrittenOffLater, Scheduled
  <2>2. WrittenOffOnce
    BY <2>1, FiniteParts DEF Init, SchedInit, Scheduled, WrittenOffOnce, Backlog
  <2>3. QueueTimeIsBacklog
    BY <2>1, SumEmpty DEF QueueTimeIsBacklog
  <2>4. QED BY <2>2, <2>3
<1>2. TypeOK /\ FreshIds /\ OnePlace /\ WrittenOffOnce /\ QueueTimeIsBacklog /\ [Next]_vars
        => (WrittenOffOnce /\ QueueTimeIsBacklog)'
  BY BacklogStep
<1>3. QED BY ContractInvariant, <1>1, <1>2, PTL DEF Spec

\* EnqueuePacket, transferPacket and subtractFromQueueTime of both directions
\* keep currentQueueTime equal to the transfer time of what waits and of what is
\* still to be written off, in any order and whatever RunUntil throws away.
THEOREM QueueTime == Spec => []QueueTimeIsBacklog
  BY BacklogInvariant, PTL
-----------------------------------------------------------------------------
(***************************************************************************)
(* Delays.  A transfer may run late, and after the time of the transfer    *)
(* that follows it, but no packet is taken before its dequeTime, which is  *)
(* its creation time plus a backlog, and a backlog is never negative.      *)
(***************************************************************************)
Timely ==
  /\ \A d \in Dirs : \A i \in queue[d] : creationTime[i.packet] <= i.dequeTime
  /\ \A e \in Scheduled, d \in Dirs, p \in Packets :
       e.call = Deliver(d, p) => creationTime[p] + Delay <= e.at

LEMMA BacklogIsNoDebt ==
  ASSUME TypeOK, WrittenOffOnce, QueueTimeIsBacklog, NEW d \in Dirs
  PROVE  queueTime[d] \in Nat
<1>1. \A p \in Backlog(d) : TransferTime[p] \in Nat
  BY BacklogSum, TransferTimeAssumption
<1>2. SumFunctionOnSet(TransferTime, Backlog(d)) \in Nat
  BY <1>1, SumType DEF WrittenOffOnce
<1>3. QED BY <1>2 DEF QueueTimeIsBacklog, Backlog

LEMMA TimelyEnqueue ==
  ASSUME TypeOK, WrittenOffOnce, QueueTimeIsBacklog, Timely,
         NEW d \in Dirs, NEW p \in Packets, NEW t \in Int,
         EnqueuePacket(d, p, t), dropped' = dropped
  PROVE  Timely'
<1> DEFINE item == [packet |-> p, dequeTime |-> t + queueTime[d]]
<1>1. t <= item.dequeTime
  BY BacklogIsNoDebt
<1>2. /\ queue'[d] = queue[d] \cup {item}
      /\ \A c \in Dirs \ {d} : queue'[c] = queue[c]
      /\ creationTime'[p] = t /\ \A q \in Packets \ {p} : creationTime'[q] = creationTime[q]
  BY DEF EnqueuePacket, TypeOK
<1>3. \A c \in Dirs : /\ \A i \in queue[c] : i.packet \in Packets \ {p}
                      /\ \A e \in Scheduled : e.call # Deliver(c, p)
  BY DEF EnqueuePacket, Fresh, Accepted, Waiting, OnTheWay, Scheduled, TypeOK
<1>4. \A e \in Scheduled', c \in Dirs, q \in Packets : e.call = Deliver(c, q) => e \in Scheduled
  BY CallsDiffer DEF EnqueuePacket, StartTransfer, ScheduleEvents, Scheduled, Event
<1>5. item.packet = p
  OBVIOUS
<1> HIDE DEF item
<1>6. \A c \in Dirs : \A i \in queue'[c] : creationTime'[i.packet] <= i.dequeTime
  BY <1>1, <1>2, <1>3, <1>5 DEF Timely
<1>7. \A e \in Scheduled', c \in Dirs, q \in Packets :
        e.call = Deliver(c, q) => creationTime'[q] + Delay <= e.at
  BY <1>2, <1>3, <1>4 DEF Timely
<1>8. QED BY <1>6, <1>7 DEF Timely

LEMMA TimelyTransfer ==
  ASSUME TypeOK, Wakeup, Timely, NEW e \in events, NEW d \in Dirs, TransferPacket(e, d),
         queue[d] # {}
  PROVE  Timely'
<1>1. PICK item \in Heads(queue[d]), drawn \in LossDraws : TransferItem(e, d, item, drawn)
  BY DEF TransferPacket
<1> DEFINE p == item.packet
           deliver == Event(0, DeliveryTime(e, item), Deliver(d, p))
           writeOff == Event(1, item.dequeTime + TransferTime[p], Subtract(d, p))
           wakes == {Event(2, i.dequeTime, Transfer(d)) : i \in Heads(Remaining(d, item))}
<1>2. /\ \A c \in Dirs : queue'[c] \subseteq queue[c]
      /\ creationTime' = creationTime /\ dropped' = dropped
  BY <1>1 DEF TransferItem, Remaining, TransferPacket, TakeEvent, TypeOK
<1>3. events' \subseteq events \cup {deliver, writeOff} \cup wakes
  BY <1>1 DEF TransferItem, ScheduleNext, ScheduleEvents
<1>4. item \in queue[d] /\ p \in Packets /\ item.dequeTime <= e.at
  BY HeadIsDue DEF Heads, TypeOK
<1>5. creationTime[p] <= item.dequeTime
  BY <1>4 DEF Timely
<1>6. deliver.at = e.at + Delay /\ deliver.call = Deliver(d, p)
  BY DEF Event, DeliveryTime
<1>7. creationTime[p] \in Int /\ item.dequeTime \in Int /\ e.at \in Int
  BY <1>4 DEF TypeOK
<1>8. creationTime[p] + Delay <= deliver.at
  BY <1>4, <1>5, <1>6, <1>7, DelayAssumption
<1>9. \A f \in {writeOff} \cup wakes, c \in Dirs, q \in Packets : f.call # Deliver(c, q)
  BY CallsDiffer DEF Event
<1> HIDE DEF deliver, writeOff, wakes
<1>10. \A f \in Scheduled', c \in Dirs, q \in Packets :
         f.call = Deliver(c, q) => f \in Scheduled \/ (f = deliver /\ q = p)
  BY <1>2, <1>3, <1>6, <1>9, CallsDiffer DEF Scheduled
<1>11. \A f \in Scheduled', c \in Dirs, q \in Packets :
         f.call = Deliver(c, q) => creationTime'[q] + Delay <= f.at
  BY <1>2, <1>8, <1>10 DEF Timely
<1>12. \A c \in Dirs : \A i \in queue'[c] : creationTime'[i.packet] <= i.dequeTime
  BY <1>2 DEF Timely
<1>13. QED BY <1>11, <1>12 DEF Timely

LEMMA TimelyStep ==
  ASSUME TypeOK, Wakeup, WrittenOffOnce, QueueTimeIsBacklog, Timely, [Next]_vars
  PROVE  Timely'
<1>1. ASSUME NEW d \in Dirs, NEW p \in Packets, MainSends(d, p) PROVE Timely'
  BY <1>1, TimelyEnqueue DEF MainSends, TypeOK
<1>2. ASSUME NEW d \in Dirs, NEW p \in Packets, NEW t \in CurrentTime .. MaxTime, NodeSends(d, p, t)
      PROVE  Timely'
  <2>1. t \in Int
    BY BoundsAssumption DEF TypeOK
  <2>2. QED BY <1>2, <2>1, TimelyEnqueue DEF NodeSends, TakeNodeEvent
<1>3. ASSUME \/ SchedStep \/ UNCHANGED vars
             \/ \E e \in events, d \in Dirs, p \in Packets :
                  DeliverPacket(e, d, p) \/ SubtractFromQueueTime(e, d, p)
             \/ \E e \in events, d \in Dirs : TransferPacket(e, d) /\ queue[d] = {}
      PROVE  Timely'
  <2>1. Scheduled' \subseteq Scheduled /\ queue' = queue /\ creationTime' = creationTime
    BY <1>3 DEF SchedStep, SchedNext, CallRunUntil, DropAndReturn, DropNodeEventAndReturn,
                EmptyAndReturn, DeliverPacket, SubtractFromQueueTime, TransferPacket, TakeEvent,
                ScheduleEvents, Scheduled, linkVars, vars, schedVars
  <2>2. QED BY <2>1 DEF Timely
<1>4. QED BY <1>1, <1>2, <1>3, TimelyTransfer DEF Next, RunCallback, Send

\* A packet arrives no earlier than a delay after it was made: the transfer and
\* delivery events of transferPacket, though they may be set into the past.
THEOREM DelaysAreTrue == Spec => ArrivesAfterDelay
<1> DEFINE AfterDelay == \A d \in Dirs : \A p \in received'[d] \ received[d] :
                           CurrentTime' >= creationTime[p] + Delay
<1>1. Init => Timely
  BY DEF Init, SchedInit, Timely, Scheduled
<1>2. TypeOK /\ Wakeup /\ WrittenOffOnce /\ QueueTimeIsBacklog /\ Timely /\ [Next]_vars => Timely'
  BY TimelyStep
<1>3. ASSUME TypeOK, Timely, [Next]_vars PROVE AfterDelay
  <2> SUFFICES ASSUME NEW c \in Dirs, NEW p \in received'[c] \ received[c]
               PROVE  CurrentTime' >= creationTime[p] + Delay
    OBVIOUS
  <2>1. PICK e \in events, d \in Dirs, q \in Packets : DeliverPacket(e, d, q)
    BY <1>3 DEF Next, RunCallback, Send, MainSends, NodeSends, EnqueuePacket, TransferPacket,
                TransferItem, SubtractFromQueueTime, SchedStep, linkVars, vars
  <2>2. p = q /\ e.call = Deliver(d, q) /\ CurrentTime' = e.at
    BY <1>3, <2>1 DEF DeliverPacket, TakeEvent, TypeOK
  <2>3. creationTime[p] + Delay <= e.at
    BY <1>3, <2>2 DEF Timely, Scheduled
  <2>4. creationTime[p] \in Int /\ e.at \in Int
    BY <1>3, <2>2 DEF TypeOK
  <2>5. QED BY <2>2, <2>3, <2>4, DelayAssumption
<1>4. TypeOK /\ Timely /\ [Next]_vars => [AfterDelay]_vars
  BY <1>3
<1>5. QED BY Invariants, BacklogInvariant, <1>1, <1>2, <1>4, PTL DEF Spec, ArrivesAfterDelay
=============================================================================
