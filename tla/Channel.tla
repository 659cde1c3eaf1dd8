------------------------------ MODULE Channel ------------------------------
(***************************************************************************)
(* What a link promises to the nodes at its two ends: a packet put on the  *)
(* link in one direction is handed to the other node exactly once, some    *)
(* time later, with or without a loss mark on it.  Nothing is said of the  *)
(* order: src/link/link.go does not keep it.  Link.tla implements this.    *)
(***************************************************************************)
CONSTANTS Packets,      \* one element per call of EnqueuePacket
          Dirs          \* the two directions of the link

VARIABLES inTransit,    \* inTransit[d]: accepted and not yet handed over
          received,     \* received[d]: handed over to the far node
          lost          \* packets whose arrived field was set to -1

vars == <<inTransit, received, lost>>

Init == /\ inTransit = [d \in Dirs |-> {}]
        /\ received = [d \in Dirs |-> {}]
        /\ lost = {}

Send(d, p) ==
  /\ \A c \in Dirs : p \notin inTransit[c] \cup received[c]
  /\ inTransit' = [inTransit EXCEPT ![d] = @ \cup {p}]
  /\ UNCHANGED <<received, lost>>

\* The mark is made while the packet is on the link, never after it arrived.
Lose(d, p) ==
  /\ p \in inTransit[d] \ lost
  /\ lost' = lost \cup {p}
  /\ UNCHANGED <<inTransit, received>>

Receive(d, p) ==
  /\ p \in inTransit[d]
  /\ inTransit' = [inTransit EXCEPT ![d] = @ \ {p}]
  /\ received' = [received EXCEPT ![d] = @ \cup {p}]
  /\ UNCHANGED lost

Next == \E d \in Dirs, p \in Packets : Send(d, p) \/ Lose(d, p) \/ Receive(d, p)

SafetySpec == Init /\ [][Next]_vars

\* Every accepted packet is eventually handed over, marked or not.
Spec == SafetySpec /\ \A d \in Dirs, p \in Packets : WF_vars(Receive(d, p))
=============================================================================
