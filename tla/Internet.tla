------------------------------ MODULE Internet ------------------------------
(***************************************************************************)
(* What hosts may expect of the nodes between them: a packet arrives once  *)
(* at most, at a host that its address stands for.  It may be dropped, and *)
(* packets may overtake each other.  Forwarding.tla implements this.       *)
(***************************************************************************)
EXTENDS Sequences

CONSTANTS Hosts,
          Packets,
          Home       \* Home[p]: the hosts that p's address stands for

VARIABLES sent, inTransit,
          arrived    \* arrived[h]: the packets that h has counted, in their order

vars == <<sent, inTransit, arrived>>

Init == sent = {} /\ inTransit = {} /\ arrived = [h \in Hosts |-> <<>>]

\* A host sends all the fragments of what waited for an address at once.
Send(P) ==
  /\ P \cap sent = {}
  /\ sent' = sent \cup P /\ inTransit' = inTransit \cup P
  /\ UNCHANGED arrived

Drop(P) ==
  /\ P \subseteq inTransit
  /\ inTransit' = inTransit \ P
  /\ UNCHANGED <<sent, arrived>>

Arrive(h, p) ==
  /\ p \in inTransit /\ h \in Home[p]
  /\ inTransit' = inTransit \ {p}
  /\ arrived' = [arrived EXCEPT ![h] = Append(@, p)]
  /\ UNCHANGED sent

Next == \/ \E P \in SUBSET Packets : Send(P) \/ Drop(P)
        \/ \E h \in Hosts, p \in Packets : Arrive(h, p)

Spec == Init /\ [][Next]_vars
=============================================================================
