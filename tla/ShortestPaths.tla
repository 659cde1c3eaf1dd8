---------------------------- MODULE ShortestPaths ----------------------------
(***************************************************************************)
(* One call of updateRoutingTableWithDijkstra in                           *)
(* src/node/router/handleLsaP.go, step by step: calculateShortestPaths     *)
(* takes entries off its queue and relaxes links, and findInitialHop walks *)
(* back from each destination.  The queue is not a heap: its Pop takes the *)
(* entry that was pushed last, so costs are put right again and again.     *)
(* LinkState takes the result of this call (ShortestPathTrees) as one step.*)
(***************************************************************************)
EXTENDS Integers, Sequences

CONSTANTS startRouterId,
          Databases    \* the contents that topologyDatabase may have

Inf == -1              \* math.Inf, larger than any cost
NoNode == -1           \* a missing map key

\* An entry lists the router's links: the node at the other end, which need not
\* be a router in the database, and the cost.
ASSUME DatabasesAssumption ==
  \A db \in Databases :
    /\ startRouterId \in DOMAIN db /\ DOMAIN db \subseteq Nat
    /\ \A r \in DOMAIN db : db[r] \subseteq [neighbor : Nat, cost : Nat \ {0}]

VARIABLES topologyDatabase,
          shortestPaths, previousNodes,
          queue,
          currentNode, linkStateInfos,   \* the entry in hand and its links that are still to do
          hops,                          \* nextHopRouterId of each destination that is done
          destination, currentRouterId,  \* the walk of findInitialHop, if there is one
          panicked

vars == <<topologyDatabase, shortestPaths, previousNodes, queue, currentNode, linkStateInfos,
          hops, destination, currentRouterId, panicked>>
walkVars == <<hops, destination, currentRouterId, panicked>>

known == DOMAIN topologyDatabase
Entry == [cost : Nat, nodeId : known]

Init ==
  /\ topologyDatabase \in Databases
  /\ shortestPaths = [r \in known |-> IF r = startRouterId THEN 0 ELSE Inf]
  /\ previousNodes = [r \in known |-> NoNode]
  /\ queue = <<[cost |-> 0, nodeId |-> startRouterId]>>
  /\ currentNode = [cost |-> 0, nodeId |-> startRouterId]
  /\ linkStateInfos = {}
  /\ hops = [r \in known |-> NoNode]
  /\ destination = NoNode /\ currentRouterId = NoNode
  /\ panicked = FALSE

-----------------------------------------------------------------------------
\* heapq.Pop: the last entry of the slice, not the cheapest.
Rest_peek == queue

Rest == SubSeq(queue, 1, Len(queue) - 1)

Pop ==
  /\ linkStateInfos = {} /\ queue # <<>>
  /\ currentNode' = queue[Len(queue)]
  /\ queue' = Rest
  /\ linkStateInfos' = topologyDatabase[queue[Len(queue)].nodeId]
  /\ UNCHANGED <<topologyDatabase, shortestPaths, previousNodes, walkVars>>

\* Nodes that are not routers in the database are passed over.
Improves_visitedOnce(newCost, q) == q \in known /\ shortestPaths[q] = Inf
Improves(newCost, q) ==
  q \in known /\ (shortestPaths[q] = Inf \/ newCost < shortestPaths[q])

CameFrom_notFromStart(q) ==
  IF currentNode.nodeId = startRouterId THEN previousNodes
  ELSE [previousNodes EXCEPT ![q] = currentNode.nodeId]

CameFrom(q) == [previousNodes EXCEPT ![q] = currentNode.nodeId]

\* One link of the entry in hand.  The cost is the entry's, which may be out of date.
Relax(i) ==
  LET newCost == currentNode.cost + i.cost
      q == i.neighbor
  IN /\ linkStateInfos' = linkStateInfos \ {i}
     /\ \/ /\ Improves(newCost, q)
           /\ shortestPaths' = [shortestPaths EXCEPT ![q] = newCost]
           /\ previousNodes' = CameFrom(q)
           /\ queue' = Append(queue, [cost |-> newCost, nodeId |-> q])
        \/ ~Improves(newCost, q) /\ UNCHANGED <<shortestPaths, previousNodes, queue>>
     /\ UNCHANGED <<topologyDatabase, currentNode, walkVars>>

Calculated == linkStateInfos = {} /\ queue = <<>>
pathVars == <<topologyDatabase, shortestPaths, previousNodes, queue, currentNode, linkStateInfos>>

\* The loop over shortestPaths: any destination that has been reached.
NextDestination(d) ==
  /\ Calculated /\ destination = NoNode /\ ~panicked
  /\ d # startRouterId /\ shortestPaths[d] # Inf /\ hops[d] = NoNode
  /\ destination' = d /\ currentRouterId' = d
  /\ UNCHANGED <<pathVars, hops, panicked>>

InitialHop == currentRouterId

\* One step back; no way back is a panic.
findInitialHop ==
  LET p == previousNodes[currentRouterId]
      found == p = startRouterId
  IN /\ destination # NoNode /\ ~panicked
     /\ panicked' = (p = NoNode)
     /\ hops' = IF found THEN [hops EXCEPT ![destination] = InitialHop] ELSE hops
     /\ destination' = IF found THEN NoNode ELSE destination
     /\ currentRouterId' = IF found THEN NoNode ELSE p
     /\ UNCHANGED pathVars

Next == \/ Pop
        \/ \E i \in linkStateInfos : Relax(i)
        \/ \E d \in known : NextDestination(d)
        \/ findInitialHop

Spec == Init /\ [][Next]_vars
\* The loops run until they are done.
FairSpec == Spec /\ WF_vars(Next)

-----------------------------------------------------------------------------
\* The maps, the queue and the walk are well formed.
TypeOK ==
  /\ startRouterId \in known /\ known \subseteq Nat
  /\ \A r \in known : topologyDatabase[r] \subseteq [neighbor : Nat, cost : Nat \ {0}]
  /\ shortestPaths \in [known -> Nat \cup {Inf}]
  /\ previousNodes \in [known -> known \cup {NoNode}]
  /\ queue \in Seq(Entry) /\ currentNode \in Entry
  /\ linkStateInfos \subseteq topologyDatabase[currentNode.nodeId]
  /\ hops \in [known -> known \cup {NoNode}]
  /\ destination \in known \cup {NoNode} /\ currentRouterId \in known \cup {NoNode}
  /\ panicked \in BOOLEAN

\* When the queue is empty, shortestPaths has the least costs, although entries
\* are not taken by cost and are relaxed with costs that are out of date: no
\* link improves on them, and previousNodes is a link over which each is reached.
LeastCosts ==
  Calculated =>
    /\ shortestPaths[startRouterId] = 0
    /\ \A q \in known : \A i \in topologyDatabase[q] :
         shortestPaths[q] # Inf /\ i.neighbor \in known =>
           /\ shortestPaths[i.neighbor] # Inf
           /\ shortestPaths[i.neighbor] <= shortestPaths[q] + i.cost
    /\ \A r \in known \ {startRouterId} :
         shortestPaths[r] # Inf =>
           LET p == previousNodes[r]
           IN /\ p \in known /\ shortestPaths[p] # Inf
              /\ \E i \in topologyDatabase[p] :
                   i.neighbor = r /\ shortestPaths[r] = shortestPaths[p] + i.cost

\* The panic at the end of findInitialHop (handleLsaP.go:301) is never reached:
\* there is a way back to the start from every destination with a finite cost.
AlwaysAWayBack == ~panicked

\* Destinations that lie behind one another have the same first hop, so a packet
\* is sent on the way that the costs were calculated for.
HopsAgree ==
  \A d \in known : hops[d] # NoNode =>
    /\ previousNodes[hops[d]] = startRouterId
    /\ previousNodes[d] # startRouterId /\ hops[previousNodes[d]] # NoNode =>
         hops[d] = hops[previousNodes[d]]

\* Both loops end: each destination that can be reached gets its hop.
Terminates ==
  <>(Calculated /\ \A d \in known \ {startRouterId} : shortestPaths[d] # Inf => hops[d] # NoNode)
=============================================================================
