-------------------------------- MODULE Link --------------------------------
(***************************************************************************)
(* One link of src/link/link.go, driven by the event scheduler.  Each      *)
(* direction has a heap of waiting packets ordered by dequeTime, and       *)
(* currentQueueTime, the transfer time of everything accepted and not yet  *)
(* written off.  At most one transfer event per direction should be in the *)
(* scheduler; it is scheduled when a packet enters an empty heap and by a  *)
(* transfer that leaves the heap non-empty.                                *)
(***************************************************************************)
EXTENDS EventSched, Functions

CONSTANTS Packets,        \* one element per call of EnqueuePacket
          Dirs,           \* {"XY", "YX"}: from nodeX, from nodeY
          TransferTime,   \* TransferTime[p]: size * 8 / bandwidth, in ticks
          Delay,          \* the link's delay, in ticks
          LossPercent     \* int(packetLoss * 100)

ASSUME TransferTimeAssumption == TransferTime \in [Packets -> Nat]
ASSUME DelayAssumption == Delay \in Nat
ASSUME LossAssumption == LossPercent \in Int

VARIABLES queue,          \* packetQueueXY, packetQueueYX
          queueTime,      \* currentQueueTimeXY, currentQueueTimeYX
          received,       \* received[d]: given to ReceivePacket of the far node
          lost,           \* packets whose arrived field is -1
          creationTime    \* of each packet: NewPacket is called when it is sent

linkVars == <<queue, queueTime, received, lost, creationTime>>
vars == <<schedVars, linkVars>>

\* The callbacks a link schedules.
Transfer(d) == <<"transfer", d>>
Deliver(d, p) == <<"deliver", d, p>>
Subtract(d, p) == <<"subtract", d, p>>

Init ==
  /\ SchedInit
  /\ queue = [d \in Dirs |-> {}]
  /\ queueTime = [d \in Dirs |-> 0]
  /\ received = [d \in Dirs |-> {}]
  /\ lost = {}
  /\ creationTime = [p \in Packets |-> 0]

\* Packets still in a heap, and packets on their way (their delivery may have
\* been dropped by RunUntil: they then stay on their way for good).
Waiting(d) == {i.packet : i \in queue[d]}
OnTheWay(d) == {p \in Packets : \E e \in events \cup dropped : e.call = Deliver(d, p)}
Accepted(d) == Waiting(d) \cup OnTheWay(d) \cup received[d]
Fresh(p) == \A d \in Dirs : p \notin Accepted(d)

\* rand.Intn(100) < int(packetLoss*100), for each value that Intn can return.
LossDraws == {r < LossPercent : r \in 0 .. 99}

-----------------------------------------------------------------------------
\* A push into an empty heap schedules the direction's transfer event.
StartTransfer_always(d, at) ==
  ScheduleEvents(events, {Event(0, at, Transfer(d))}, 1)

StartTransfer(d, at) ==
  IF queue[d] = {}
  THEN ScheduleEvents(events, {Event(0, at, Transfer(d))}, 1)
  ELSE UNCHANGED <<events, eventId>>

\* EnqueuePacket at time t, of a packet that was made then.
EnqueuePacket(d, p, t) ==
  LET dequeTime == t + queueTime[d]
  IN /\ Fresh(p)
     /\ queue' = [queue EXCEPT ![d] = @ \cup {[packet |-> p, dequeTime |-> dequeTime]}]
     /\ queueTime' = [queueTime EXCEPT ![d] = @ + TransferTime[p]]
     /\ creationTime' = [creationTime EXCEPT ![p] = t]
     /\ StartTransfer(d, dequeTime)
     /\ UNCHANGED <<received, lost>>

\* A node sends from one of its own events, or the main program sends before
\* and between the calls of Run and RunUntil.
NodeSends(d, p, t) == TakeNodeEvent(t) /\ EnqueuePacket(d, p, t)

MainSends(d, p) ==
  /\ ~running /\ calls < MaxCalls
  /\ EnqueuePacket(d, p, CurrentTime)
  /\ UNCHANGED <<CurrentTime, running, endTime, calls, dropped>>

\* The items heap.Pop may return: dequeTime alone orders the heap.
Heads(q) == {i \in q : \A j \in q : i.dequeTime <= j.dequeTime}

\* The far node gets the packet a delay after the transfer started.
DeliveryTime(e, item) == e.at + Delay

\* The last thing transferPacket schedules, with the events it already has, is
\* the next transfer: for the head of what is left in the heap, if anything is.
ScheduleNext_never(e, d, rest, scheduled) ==
  ScheduleEvents(events \ {e}, scheduled, 2)

ScheduleNext_at_once(e, d, rest, scheduled) ==
  IF rest = {}
  THEN ScheduleEvents(events \ {e}, scheduled, 2)
  ELSE ScheduleEvents(events \ {e}, scheduled \cup {Event(2, e.at, Transfer(d))}, 3)

ScheduleNext(e, d, rest, scheduled) ==
  IF rest = {}
  THEN ScheduleEvents(events \ {e}, scheduled, 2)
  ELSE \E head \in Heads(rest) :
         ScheduleEvents(events \ {e},
                        scheduled \cup {Event(2, head.dequeTime, Transfer(d))}, 3)

Remaining_dueDropped(d, item) == {i \in queue[d] : i.dequeTime > item.dequeTime}

Remaining(d, item) == queue[d] \ {item}

\* transferPacket takes `item` at the time of event e: it draws the loss,
\* schedules the delivery and the write-off, and the next transfer if the
\* heap is not empty.
TransferItem(e, d, item, drawn) ==
  LET p == item.packet
      rest == Remaining(d, item)
      deliver == Event(0, DeliveryTime(e, item), Deliver(d, p))
      writeOff == Event(1, item.dequeTime + TransferTime[p], Subtract(d, p))
  IN /\ queue' = [queue EXCEPT ![d] = rest]
     /\ lost' = IF drawn THEN lost \cup {p} ELSE lost
     /\ ScheduleNext(e, d, rest, {deliver, writeOff})
     /\ UNCHANGED <<queueTime, received, creationTime>>

TransferPacket(e, d) ==
  /\ e.call = Transfer(d)
  /\ TakeEvent(e)
  /\ IF queue[d] = {}
     THEN ScheduleEvents(events \ {e}, {}, 0) /\ UNCHANGED linkVars
     ELSE \E item \in Heads(queue[d]), drawn \in LossDraws :
            TransferItem(e, d, item, drawn)

\* The delivery event calls ReceivePacket of the far node, marked or not.
DeliverPacket(e, d, p) ==
  /\ e.call = Deliver(d, p)
  /\ TakeEvent(e)
  /\ ScheduleEvents(events \ {e}, {}, 0)
  /\ received' = [received EXCEPT ![d] = @ \cup {p}]
  /\ UNCHANGED <<queue, queueTime, lost, creationTime>>

SubtractFromQueueTime_reset(e, d, p) ==
  /\ e.call = Subtract(d, p)
  /\ TakeEvent(e)
  /\ ScheduleEvents(events \ {e}, {}, 0)
  /\ queueTime' = [queueTime EXCEPT ![d] = 0]
  /\ UNCHANGED <<queue, received, lost, creationTime>>

SubtractFromQueueTime_andDelay(e, d, p) ==
  /\ e.call = Subtract(d, p)
  /\ TakeEvent(e)
  /\ ScheduleEvents(events \ {e}, {}, 0)
  /\ queueTime' = [queueTime EXCEPT ![d] = @ - TransferTime[p] - Delay]
  /\ UNCHANGED <<queue, received, lost, creationTime>>

SubtractFromQueueTime(e, d, p) ==
  /\ e.call = Subtract(d, p)
  /\ TakeEvent(e)
  /\ ScheduleEvents(events \ {e}, {}, 0)
  /\ queueTime' = [queueTime EXCEPT ![d] = @ - TransferTime[p]]
  /\ UNCHANGED <<queue, received, lost, creationTime>>

-----------------------------------------------------------------------------
RunCallback ==
  \E e \in events, d \in Dirs :
    \/ TransferPacket(e, d)
    \/ \E p \in Packets : DeliverPacket(e, d, p)
    \/ \E p \in Packets : SubtractFromQueueTime(e, d, p)

Send ==
  \E d \in Dirs, p \in Packets :
    \/ MainSends(d, p)
    \/ \E t \in CurrentTime .. MaxTime : NodeSends(d, p, t)

SchedStep == SchedNext /\ UNCHANGED linkVars

Next == RunCallback \/ Send \/ SchedStep

Spec == Init /\ [][Next]_vars

\* The loop keeps taking events while it is running and there are some, and
\* the main program does call Run.
FairSpec == Spec /\ WF_vars(RunCallback)
                 /\ WF_vars(\E until \in EndTimes : CallRunUntil(until)
                                                    /\ UNCHANGED linkVars)
-----------------------------------------------------------------------------
\* Every event that exists: in the heap, or lost to a return of RunUntil.
Scheduled == events \cup dropped
Transfers(d) == {e \in Scheduled : e.call = Transfer(d)}
WrittenOffLater(d) == {p \in Packets : \E e \in Scheduled : e.call = Subtract(d, p)}

Calls == {Transfer(d) : d \in Dirs}
         \cup {Deliver(d, p) : d \in Dirs, p \in Packets}
         \cup {Subtract(d, p) : d \in Dirs, p \in Packets}

\* The variables keep their types.
TypeOK ==
  /\ events \subseteq [id : Nat, at : Int, call : Calls]
  /\ dropped \subseteq [id : Nat, at : Int, call : Calls]
  /\ CurrentTime \in Int /\ eventId \in Nat /\ calls \in Nat
  /\ running \in BOOLEAN /\ endTime \in EndTimes \cup {Forever}
  /\ queue \in [Dirs -> SUBSET [packet : Packets, dequeTime : Int]]
  /\ queueTime \in [Dirs -> Int]
  /\ received \in [Dirs -> SUBSET Packets] /\ lost \subseteq Packets
  /\ creationTime \in [Packets -> Int]

\* A direction has exactly one transfer event when packets wait in it and none
\* when none does, although EnqueuePacket schedules one only into an empty heap
\* (link.go:108) and transferPacket only out of a non-empty one (link.go:153).
\* The one event may be the one that RunUntil threw away.
OneWakeup ==
  \A d \in Dirs :
    /\ queue[d] = {} <=> Transfers(d) = {}
    /\ \A e, f \in Transfers(d) : e = f

\* currentQueueTime is the transfer time of the packets that wait and of those
\* whose write-off is still to come: nothing is counted twice or forgotten,
\* whatever the order in which EnqueuePacket, transferPacket and
\* subtractFromQueueTime of both directions run.
QueueTimeIsBacklog ==
  \A d \in Dirs :
    queueTime[d] = SumFunctionOnSet(TransferTime, Waiting(d) \cup WrittenOffLater(d))

\* A packet never leaves its heap before the dequeTime EnqueuePacket gave it,
\* although a later packet can be given an earlier dequeTime than the one the
\* pending transfer event was scheduled for.
NeverTransmittedEarly ==
  [][\A d \in Dirs : \A i \in queue[d] \ queue'[d] : i.dequeTime <= CurrentTime']_vars

\* The clock goes backwards, as link.go:149 and :155 schedule into the past, but
\* nothing arrives before it has been on the link for the delay: however late a
\* transfer runs and however far the next one is set back, the delays that the
\* packet log calculates from creation and arrival time are true.
ArrivesAfterDelay ==
  [][\A d \in Dirs : \A p \in received'[d] \ received[d] :
       CurrentTime' >= creationTime[p] + Delay]_vars

\* Once RunUntil has thrown away the transfer event of a direction, nothing that
\* waits there, or is enqueued there later, ever leaves: the heap never has
\* length 1 again after a push, so no new event is scheduled (link.go:108).
DroppedTransferIsFatal ==
  [][\A d \in Dirs :
       (\E e \in dropped : e.call = Transfer(d)) =>
          queue[d] # {} /\ queue[d] \subseteq queue'[d]]_vars

\* A link is a channel that hands over each packet exactly once, in any order,
\* with the loss mark made on the way; under Run() it hands over every packet.
Contract ==
  INSTANCE Channel WITH inTransit <- [d \in Dirs |-> Waiting(d) \cup OnTheWay(d)]
ChannelSafety == Contract!SafetySpec
ChannelContract == Contract!Spec
=============================================================================
