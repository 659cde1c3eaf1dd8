----------------------------- MODULE EventSched -----------------------------
(***************************************************************************)
(* The discrete-event scheduler of src/nteventsched/nteventsched.go.  The  *)
(* heap `events` is ordered by eventTime alone, so events of equal time    *)
(* are taken in an arbitrary order.  Time is counted in whole ticks.       *)
(*                                                                         *)
(* An event is [id, at, call]: its number, its time, and the callback with *)
(* its arguments.  The module that EXTENDS this one says what each callback*)
(* does; here are the loop around it and the two ways the loop ends.       *)
(***************************************************************************)
EXTENDS Integers

CONSTANTS Forever,     \* the end time of Run(), later than every time
          EndTimes,    \* the arguments RunUntil is called with, or Forever
          MaxCalls,    \* bound: how often the main program starts the loop
          MaxTime      \* bound: no node schedules an event after this time

ASSUME ForeverAssumption == Forever \notin Nat
ASSUME EndTimesAssumption == EndTimes \subseteq Nat \cup {Forever}
ASSUME BoundsAssumption == MaxCalls \in Nat /\ MaxTime \in Nat

VARIABLES events,      \* the priority queue
          CurrentTime,
          eventId,     \* number of the next event
          running,     \* is control inside Run or RunUntil?
          endTime,     \* the argument of the current, or last, call
          calls,       \* calls of Run and RunUntil so far
          dropped      \* history: events RunUntil popped but never ran

schedVars == <<events, CurrentTime, eventId, running, endTime, calls, dropped>>

SchedInit ==
  /\ events = {}
  /\ CurrentTime = 0
  /\ eventId = 0
  /\ running = FALSE
  /\ endTime = Forever
  /\ calls = 0
  /\ dropped = {}

\* The k-th event that the running callback schedules.
Event(k, t, c) == [id |-> eventId + k, at |-> t, call |-> c]

\* ScheduleEvent, for the events one callback schedules.
ScheduleEvents(rest, new, count) ==
  /\ events' = rest \cup new
  /\ eventId' = eventId + count

PastEnd(t) == endTime # Forever /\ t > endTime

\* Nothing in the heap is earlier than t.
Earliest(t) == \A f \in events : t <= f.at

\* The main program calls RunUntil(until), or Run() when until is Forever.
CallRunUntil(until) ==
  /\ ~running /\ calls < MaxCalls
  /\ running' = TRUE
  /\ endTime' = until
  /\ calls' = calls + 1
  /\ UNCHANGED <<events, CurrentTime, eventId, dropped>>

\* The loop takes the earliest event and is about to run its callback.
TakeEvent(e) ==
  /\ running
  /\ e \in events /\ Earliest(e.at) /\ ~PastEnd(e.at)
  /\ CurrentTime' = e.at
  /\ UNCHANGED <<running, endTime, calls, dropped>>

\* The loop takes an event of a node (traffic, a timer, an arrival from
\* another link), which the node had scheduled for time t.
TakeNodeEvent(t) ==
  /\ running
  /\ t \in CurrentTime .. MaxTime /\ Earliest(t) /\ ~PastEnd(t)
  /\ CurrentTime' = t
  /\ UNCHANGED <<running, endTime, calls, dropped>>

\* RunUntil has popped the event before it compares times: the event is gone.
DropAndReturn(e) ==
  /\ running
  /\ e \in events /\ Earliest(e.at) /\ PastEnd(e.at)
  /\ CurrentTime' = e.at
  /\ events' = events \ {e}
  /\ dropped' = dropped \cup {e}
  /\ running' = FALSE
  /\ UNCHANGED <<eventId, endTime, calls>>

\* The same, when the earliest event is a node's.
DropNodeEventAndReturn(t) ==
  /\ running
  /\ t \in CurrentTime .. MaxTime /\ Earliest(t) /\ PastEnd(t)
  /\ CurrentTime' = t
  /\ running' = FALSE
  /\ UNCHANGED <<events, eventId, endTime, calls, dropped>>

\* The heap is empty.
EmptyAndReturn ==
  /\ running /\ events = {}
  /\ running' = FALSE
  /\ UNCHANGED <<events, CurrentTime, eventId, endTime, calls, dropped>>

\* The steps of the loop that run no callback.
SchedNext ==
  \/ \E until \in EndTimes : CallRunUntil(until)
  \/ \E e \in events : DropAndReturn(e)
  \/ \E t \in CurrentTime .. MaxTime : DropNodeEventAndReturn(t)
  \/ EmptyAndReturn
=============================================================================
