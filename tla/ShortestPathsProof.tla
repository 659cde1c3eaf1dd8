-------------------------- MODULE ShortestPathsProof --------------------------
(***************************************************************************)
(* Whatever entry is taken, least costs come out, and each destination gets *)
(* the first hop of a shortest path.  The loop's invariant is Relaxed: a   *)
(* link that still improves on a cost belongs to an entry that is queued   *)
(* or in hand with the latest cost of its node.                            *)
(***************************************************************************)
EXTENDS ShortestPaths, SequenceTheorems, TLAPS

Queued == {queue[k] : k \in DOMAIN queue}
EntryOf(r, c) == [cost |-> c, nodeId |-> r]

\* An entry's cost was its node's cost once, and costs only fall.
NotTooCheap(e) == shortestPaths[e.nodeId] # Inf /\ shortestPaths[e.nodeId] <= e.cost
EntriesOld == NotTooCheap(currentNode) /\ \A e \in Queued : NotTooCheap(e)

NoBetter(q, i) ==
  shortestPaths[i.neighbor] # Inf /\ shortestPaths[i.neighbor] <= shortestPaths[q] + i.cost

Relaxed ==
  \A q \in known : \A i \in topologyDatabase[q] :
    shortestPaths[q] # Inf /\ i.neighbor \in known =>
      \/ NoBetter(q, i)
      \/ EntryOf(q, shortestPaths[q]) \in Queued
      \/ currentNode = EntryOf(q, shortestPaths[q]) /\ i \in linkStateInfos

\* Each cost is at least that of the link before it.
Reached(r) ==
  /\ previousNodes[r] \in known /\ shortestPaths[previousNodes[r]] # Inf
  /\ \E i \in topologyDatabase[previousNodes[r]] :
       i.neighbor = r /\ shortestPaths[previousNodes[r]] + i.cost <= shortestPaths[r]

Supported ==
  /\ shortestPaths[startRouterId] = 0
  /\ \A r \in known \ {startRouterId} : shortestPaths[r] # Inf => Reached(r)

\* n is on the way back from d to the start: every set that contains d and with
\* a node also the one before it contains n.
Closed(S) == \A n \in S : previousNodes[n] \in known \ {startRouterId} => previousNodes[n] \in S
OnTheWayBack(n, d) == \A S \in SUBSET known : d \in S /\ Closed(S) => n \in S

Walking ==
  /\ destination # NoNode =>
       /\ Calculated
       /\ currentRouterId \in known \ {startRouterId}
       /\ shortestPaths[currentRouterId] # Inf
       /\ OnTheWayBack(currentRouterId, destination)
  /\ \A d \in known : hops[d] # NoNode =>
       Calculated /\ previousNodes[hops[d]] = startRouterId /\ OnTheWayBack(hops[d], d)

IInv == TypeOK /\ EntriesOld /\ Relaxed /\ Supported /\ Walking /\ panicked = FALSE

-----------------------------------------------------------------------------
LEMMA InitOK == Init => IInv
<1> SUFFICES ASSUME Init PROVE IInv
  OBVIOUS
<1>1. /\ startRouterId \in known /\ known \subseteq Nat
      /\ \A r \in known : topologyDatabase[r] \subseteq [neighbor : Nat, cost : Nat \ {0}]
  BY DatabasesAssumption DEF Init, known
<1>2. EntryOf(startRouterId, 0) \in Entry /\ queue = <<EntryOf(startRouterId, 0)>>
  BY <1>1 DEF Init, Entry, EntryOf
<1>3. queue \in Seq(Entry) /\ Queued = {EntryOf(startRouterId, 0)}
  BY <1>2 DEF Queued
<1>4. TypeOK
  <2>1. /\ shortestPaths \in [known -> Nat \cup {Inf}]
        /\ previousNodes \in [known -> known \cup {NoNode}]
        /\ hops \in [known -> known \cup {NoNode}]
    BY <1>1 DEF Init
  <2>2. currentNode \in Entry /\ linkStateInfos \subseteq topologyDatabase[currentNode.nodeId]
    BY <1>2 DEF Init, EntryOf
  <2>3. destination \in known \cup {NoNode} /\ currentRouterId \in known \cup {NoNode}
    BY DEF Init
  <2>4. queue \in Seq(Entry) /\ panicked \in BOOLEAN
    BY <1>3 DEF Init
  <2>5. QED BY <1>1, <2>1, <2>2, <2>3, <2>4 DEF TypeOK
<1>5. EntriesOld
  BY <1>1, <1>3 DEF Init, EntriesOld, NotTooCheap, EntryOf, Inf
<1>6. Relaxed
  BY <1>1, <1>3 DEF Init, Relaxed, EntryOf, Inf
<1>7. Supported
  BY <1>1 DEF Init, Supported, Inf
<1>8. Walking
  BY DEF Init, Walking
<1>9. QED BY <1>4, <1>5, <1>6, <1>7, <1>8 DEF Init, IInv

LEMMA OffTheEnd ==
  ASSUME NEW n \in Nat \ {0}
  PROVE  /\ n - 1 - 1 + 1 = n - 1
         /\ \A k \in 1 .. n - 1 : 1 + k - 1 = k
         /\ 1 <= n - 1 \/ n - 1 = 0
OBVIOUS

LEMMA PopKeeps == ASSUME IInv, Pop PROVE IInv'
<1> DEFINE e == queue[Len(queue)]
<1>1. /\ queue \in Seq(Entry) /\ Len(queue) \in Nat \ {0} /\ e \in Entry
      /\ currentNode' = e /\ queue' = Rest
      /\ linkStateInfos = {} /\ linkStateInfos' = topologyDatabase[e.nodeId]
      /\ UNCHANGED <<topologyDatabase, shortestPaths, previousNodes, walkVars>>
  BY DEF IInv, TypeOK, Pop
<1>2. known' = known /\ Entry' = Entry
  BY <1>1 DEF known, Entry
<1>3. queue' \in Seq(Entry) /\ Queued = Queued' \cup {e}
  <2>1. /\ queue' \in Seq(Entry) /\ Len(queue') = Len(queue) - 1
        /\ \A k \in 1 .. Len(queue) - 1 : queue'[k] = queue[k]
    <3>1. 1 \in Int /\ Len(queue) - 1 \in Int /\ \A k \in 1 .. Len(queue) - 1 : queue[k] \in Entry
      BY <1>1
    <3> DEFINE r == SubSeq(queue, 1, Len(queue) - 1)
    <3>2. /\ r \in Seq(Entry)
          /\ Len(r) = IF 1 <= Len(queue) - 1 THEN Len(queue) - 1 - 1 + 1 ELSE 0
          /\ \A k \in 1 .. Len(queue) - 1 - 1 + 1 : r[k] = queue[1 + k - 1]
      BY <3>1, SubSeqProperties
    <3>3. queue' = r
      BY <1>1 DEF Rest
    <3> HIDE DEF r
    <3>4. /\ Len(queue) - 1 - 1 + 1 = Len(queue) - 1
          /\ \A k \in 1 .. Len(queue) - 1 : 1 + k - 1 = k
          /\ 1 <= Len(queue) - 1 \/ Len(queue) - 1 = 0
      BY <1>1, OffTheEnd
    <3>5. QED BY <3>2, <3>3, <3>4
  <2>2. DOMAIN queue = 1 .. Len(queue) /\ DOMAIN queue' = 1 .. Len(queue) - 1
    BY <1>1, <2>1
  <2>3. \A k \in 1 .. Len(queue) : k = Len(queue) \/ k \in 1 .. Len(queue) - 1
    BY <1>1
  <2>4. QED BY <1>1, <2>1, <2>2, <2>3 DEF Queued
<1>4. TypeOK'
  BY <1>1, <1>2, <1>3 DEF IInv, TypeOK, walkVars, Entry
<1>5. EntriesOld'
  BY <1>1, <1>3 DEF IInv, EntriesOld, NotTooCheap
<1>6. Relaxed'
  <2> SUFFICES ASSUME NEW q \in known, NEW i \in topologyDatabase[q],
                      shortestPaths[q] # Inf, i.neighbor \in known
               PROVE  \/ NoBetter(q, i)
                      \/ EntryOf(q, shortestPaths[q]) \in Queued'
                      \/ e = EntryOf(q, shortestPaths[q]) /\ i \in topologyDatabase[e.nodeId]
    BY <1>1, <1>2 DEF Relaxed, NoBetter
  <2>1. NoBetter(q, i) \/ EntryOf(q, shortestPaths[q]) \in Queued
    BY <1>1 DEF IInv, Relaxed
  <2>2. EntryOf(q, shortestPaths[q]).nodeId = q
    BY DEF EntryOf
  <2>3. QED BY <1>3, <2>1, <2>2
<1>7. Supported'
  BY <1>1, <1>2 DEF IInv, Supported, Reached
<1>8. destination = NoNode /\ \A d \in known : hops[d] = NoNode
  BY <1>1 DEF IInv, Walking, Calculated, Pop
<1>9. Walking'
  BY <1>1, <1>2, <1>8 DEF Walking, walkVars
<1>10. QED BY <1>1, <1>4, <1>5, <1>6, <1>7, <1>9 DEF IInv, walkVars

LEMMA RelaxKeeps == ASSUME IInv, NEW i \in linkStateInfos, Relax(i) PROVE IInv'
<1> DEFINE q == i.neighbor
           c == currentNode.cost + i.cost
           at == currentNode.nodeId
           e == EntryOf(q, c)
<1>1. /\ known \subseteq Nat /\ startRouterId \in known
      /\ currentNode \in Entry /\ at \in known /\ currentNode.cost \in Nat
      /\ i \in topologyDatabase[at] /\ q \in Nat /\ i.cost \in Nat \ {0}
      /\ linkStateInfos' = linkStateInfos \ {i}
      /\ UNCHANGED <<topologyDatabase, currentNode, walkVars>>
  BY DEF IInv, TypeOK, Relax, Entry
<1>2. known' = known /\ Entry' = Entry
  BY <1>1 DEF known, Entry
<1>3. destination = NoNode /\ \A d \in known : hops[d] = NoNode
  BY DEF IInv, Walking, Calculated
<1>4. Walking' /\ panicked' = FALSE
  BY <1>1, <1>2, <1>3 DEF Walking, walkVars, IInv
<1>5. CASE ~ Improves(c, q)
  <2>1. UNCHANGED <<shortestPaths, previousNodes, queue>>
    BY <1>5 DEF Relax
  <2>2. TypeOK'
    BY <1>1, <1>2, <2>1 DEF IInv, TypeOK, walkVars
  <2>3. EntriesOld' /\ Supported'
    BY <1>1, <1>2, <2>1 DEF IInv, EntriesOld, NotTooCheap, Queued, Supported, Reached
  <2>4. ASSUME currentNode = EntryOf(at, shortestPaths[at]), q \in known
        PROVE  NoBetter(at, i)
    <3>1. currentNode.cost = shortestPaths[at]
      BY <2>4 DEF EntryOf
    <3>2. shortestPaths[q] # Inf /\ ~ (c < shortestPaths[q])
      BY <1>5, <2>4 DEF Improves
    <3>3. shortestPaths[q] \in Nat
      BY <2>4, <3>2 DEF IInv, TypeOK
    <3>4. QED BY <1>1, <3>1, <3>2, <3>3 DEF NoBetter
  <2>5. Relaxed'
    <3> SUFFICES ASSUME NEW o \in known, NEW j \in topologyDatabase[o],
                        shortestPaths[o] # Inf, j.neighbor \in known
                 PROVE  \/ NoBetter(o, j)
                        \/ EntryOf(o, shortestPaths[o]) \in Queued
                        \/ currentNode = EntryOf(o, shortestPaths[o]) /\ j \in linkStateInfos \ {i}
      BY <1>1, <1>2, <2>1 DEF Relaxed, NoBetter, Queued
    <3>1. \/ NoBetter(o, j)
          \/ EntryOf(o, shortestPaths[o]) \in Queued
          \/ currentNode = EntryOf(o, shortestPaths[o]) /\ j \in linkStateInfos
      BY DEF IInv, Relaxed
    <3>2. ASSUME currentNode = EntryOf(o, shortestPaths[o]) PROVE o = at
      BY <3>2 DEF EntryOf
    <3>3. QED BY <2>4, <3>1, <3>2
  <2>6. QED BY <1>4, <2>2, <2>3, <2>5 DEF IInv
<1>6. CASE Improves(c, q)
  <2>1. /\ q \in known /\ (shortestPaths[q] = Inf \/ c < shortestPaths[q])
        /\ shortestPaths' = [shortestPaths EXCEPT ![q] = c]
        /\ previousNodes' = [previousNodes EXCEPT ![q] = at]
        /\ queue' = Append(queue, e)
    BY <1>6 DEF Relax, Improves, CameFrom, EntryOf
  <2>2. /\ c \in Nat /\ e \in Entry /\ q \in known
        /\ shortestPaths'[q] = c /\ previousNodes'[q] = at
        /\ \A o \in known \ {q} : /\ shortestPaths'[o] = shortestPaths[o]
                                  /\ previousNodes'[o] = previousNodes[o]
    BY <1>1, <1>6, <2>1 DEF Entry, EntryOf, IInv, TypeOK, Improves
  <2>3. queue' \in Seq(Entry) /\ Queued' = Queued \cup {e}
    <3>1. queue \in Seq(Entry)
      BY DEF IInv, TypeOK
    <3>2. /\ queue' \in Seq(Entry) /\ Len(queue') = Len(queue) + 1
          /\ queue'[Len(queue) + 1] = e
          /\ \A k \in 1 .. Len(queue) : queue'[k] = queue[k]
      BY <2>1, <2>2, <3>1
    <3>3. DOMAIN queue = 1 .. Len(queue) /\ DOMAIN queue' = 1 .. Len(queue) + 1
      BY <3>1, <3>2
    <3>4. \A k \in 1 .. Len(queue) + 1 : k = Len(queue) + 1 \/ k \in 1 .. Len(queue)
      BY <3>1
    <3>5. Len(queue) + 1 \in 1 .. Len(queue) + 1 /\ 1 .. Len(queue) \subseteq 1 .. Len(queue) + 1
      BY <3>1
    <3>6. QED BY <3>2, <3>3, <3>4, <3>5 DEF Queued
  <2>4. TypeOK'
    <3>1. shortestPaths' \in [known -> Nat \cup {Inf}]
      BY <2>1, <2>2 DEF IInv, TypeOK
    <3>2. previousNodes' \in [known -> known \cup {NoNode}]
      BY <1>1, <2>1 DEF IInv, TypeOK
    <3>3. linkStateInfos' \subseteq topologyDatabase[at]
      BY <1>1 DEF IInv, TypeOK
    <3>4. QED BY <1>1, <1>2, <2>3, <3>1, <3>2, <3>3 DEF IInv, TypeOK, walkVars
  <2>5. \A o \in known : shortestPaths[o] # Inf =>
          /\ shortestPaths[o] \in Nat /\ shortestPaths'[o] \in Nat
          /\ shortestPaths'[o] # Inf /\ shortestPaths'[o] <= shortestPaths[o]
    BY <2>1, <2>2 DEF IInv, TypeOK, Inf
  <2>6. shortestPaths[at] # Inf /\ shortestPaths[at] <= currentNode.cost
    BY DEF IInv, EntriesOld, NotTooCheap
  <2>7. q # at /\ q # startRouterId
    <3>1. shortestPaths[at] \in Nat /\ shortestPaths[startRouterId] = 0
      BY <1>1, <2>5, <2>6 DEF IInv, Supported
    <3>2. shortestPaths[at] < c /\ 0 <= c
      BY <1>1, <2>6, <3>1
    <3>3. q # at
      BY <2>1, <2>2, <2>6, <3>1, <3>2
    <3>4. q # startRouterId
      BY <2>1, <2>2, <3>1, <3>2 DEF Inf
    <3>5. QED BY <3>3, <3>4
  <2>8. EntriesOld'
    <3>1. ASSUME NEW f \in Entry, NotTooCheap(f) PROVE NotTooCheap(f)'
      BY <2>5, <3>1 DEF NotTooCheap, Entry
    <3>2. \A f \in Queued : f \in Entry
      BY DEF IInv, TypeOK, Queued
    <3>3. shortestPaths'[e.nodeId] # Inf /\ shortestPaths'[e.nodeId] <= e.cost
      BY <2>2 DEF EntryOf, Inf
    <3>4. \A f \in Queued' : NotTooCheap(f)'
      <4>1. \A f \in Queued : NotTooCheap(f)'
        BY <3>1, <3>2 DEF IInv, EntriesOld
      <4>2. QED BY <2>3, <3>3, <4>1 DEF NotTooCheap
    <3>5. QED BY <1>1, <3>1, <3>4 DEF IInv, EntriesOld
  <2>9. Relaxed'
    <3> SUFFICES ASSUME NEW o \in known, NEW j \in topologyDatabase[o],
                        shortestPaths'[o] # Inf, j.neighbor \in known
                 PROVE  \/ NoBetter(o, j)'
                        \/ EntryOf(o, shortestPaths'[o]) \in Queued'
                        \/ /\ currentNode = EntryOf(o, shortestPaths'[o])
                           /\ j \in linkStateInfos \ {i}
      BY <1>1, <1>2 DEF Relaxed, NoBetter
    <3>1. CASE o = q
      BY <2>2, <2>3, <3>1
    <3>2. CASE o # q
      <4>1. shortestPaths'[o] = shortestPaths[o] /\ shortestPaths[o] # Inf
        BY <2>2, <3>2
      <4>2. \/ NoBetter(o, j)
            \/ EntryOf(o, shortestPaths[o]) \in Queued
            \/ currentNode = EntryOf(o, shortestPaths[o]) /\ j \in linkStateInfos
        BY <4>1 DEF IInv, Relaxed
      <4>3. ASSUME NoBetter(o, j) PROVE NoBetter(o, j)'
        <5>1. j.cost \in Nat
          BY DEF IInv, TypeOK
        <5>2. QED BY <2>5, <4>1, <4>3, <5>1 DEF NoBetter
      <4>4. ASSUME currentNode = EntryOf(o, shortestPaths[o]), j = i PROVE NoBetter(o, j)'
        <5>1. o = at /\ shortestPaths[o] = currentNode.cost
          BY <4>4 DEF EntryOf
        <5>2. QED BY <2>2, <4>1, <4>4, <5>1 DEF NoBetter, Inf
      <4>5. QED BY <2>3, <4>1, <4>2, <4>3, <4>4
    <3>3. QED BY <3>1, <3>2
  <2>10. Supported'
    <3> SUFFICES ASSUME NEW r \in known \ {startRouterId}, shortestPaths'[r] # Inf
                 PROVE  Reached(r)'
      BY <1>1, <1>2, <2>2, <2>7 DEF IInv, Supported
    <3>1. CASE r = q
      <4>1. /\ shortestPaths'[at] = shortestPaths[at] /\ shortestPaths[at] \in Nat
            /\ previousNodes'[r] = at /\ shortestPaths'[r] = c
        BY <1>1, <2>2, <2>5, <2>6, <2>7, <3>1
      <4>2. shortestPaths[at] + i.cost <= c
        BY <1>1, <2>6, <4>1
      <4>3. QED BY <1>1, <1>2, <2>6, <3>1, <4>1, <4>2 DEF Reached
    <3>2. CASE r # q
      <4>1. shortestPaths'[r] = shortestPaths[r] /\ previousNodes'[r] = previousNodes[r]
        BY <2>2, <3>2
      <4> DEFINE p == previousNodes[r]
      <4>2. Reached(r)
        BY <4>1 DEF IInv, Supported
      <4>3. PICK j \in topologyDatabase[p] : j.neighbor = r /\ shortestPaths[p] + j.cost <= shortestPaths[r]
        BY <4>2 DEF Reached
      <4>4. /\ p \in known /\ shortestPaths[p] # Inf /\ j.cost \in Nat
            /\ shortestPaths[r] \in Nat
        BY <2>5, <4>1, <4>2 DEF Reached, IInv, TypeOK
      <4>5. shortestPaths'[p] # Inf /\ shortestPaths'[p] + j.cost <= shortestPaths'[r]
        BY <2>5, <4>1, <4>3, <4>4
      <4>6. QED BY <1>1, <1>2, <4>1, <4>3, <4>4, <4>5 DEF Reached
    <3>3. QED BY <3>1, <3>2
  <2>11. QED BY <1>4, <2>4, <2>8, <2>9, <2>10 DEF IInv
<1>7. QED BY <1>5, <1>6

LEMMA NextDestinationKeeps == ASSUME IInv, NEW d \in known, NextDestination(d) PROVE IInv'
<1>1. /\ UNCHANGED <<topologyDatabase, shortestPaths, previousNodes, queue, currentNode,
                     linkStateInfos, hops, panicked>>
      /\ destination' = d /\ currentRouterId' = d
      /\ Calculated /\ d # startRouterId /\ shortestPaths[d] # Inf
  BY DEF NextDestination, pathVars
<1>2. known' = known /\ Entry' = Entry /\ Calculated'
  BY <1>1 DEF known, Entry, Calculated
<1>3. TypeOK' /\ EntriesOld' /\ Relaxed' /\ Supported'
  BY <1>1, <1>2 DEF IInv, TypeOK, EntriesOld, NotTooCheap, Queued, Relaxed, NoBetter,
                    EntryOf, Supported, Reached
<1>4. OnTheWayBack(d, d)
  BY DEF OnTheWayBack
<1>5. \A n, o \in known : OnTheWayBack(n, o) => OnTheWayBack(n, o)'
  BY <1>1, <1>2 DEF OnTheWayBack, Closed
<1>6. \A o \in known : hops[o] # NoNode => hops[o] \in known
  BY DEF IInv, TypeOK
<1>7. Walking'
  BY <1>1, <1>2, <1>4, <1>5, <1>6 DEF IInv, Walking
<1>8. QED BY <1>1, <1>3, <1>7 DEF IInv

LEMMA findInitialHopKeeps == ASSUME IInv, findInitialHop PROVE IInv'
<1> DEFINE c == currentRouterId
           p == previousNodes[c]
<1>1. /\ UNCHANGED <<topologyDatabase, shortestPaths, previousNodes, queue, currentNode,
                     linkStateInfos>>
      /\ destination # NoNode /\ panicked' = (p = NoNode)
      /\ hops' = IF p = startRouterId THEN [hops EXCEPT ![destination] = c] ELSE hops
      /\ destination' = IF p = startRouterId THEN NoNode ELSE destination
      /\ currentRouterId' = IF p = startRouterId THEN NoNode ELSE p
  BY DEF findInitialHop, InitialHop, pathVars
<1>2. known' = known /\ Entry' = Entry
  BY <1>1 DEF known, Entry
<1>3. /\ Calculated /\ Calculated' /\ c \in known \ {startRouterId} /\ shortestPaths[c] # Inf
      /\ destination \in known /\ OnTheWayBack(c, destination)
  BY <1>1 DEF IInv, TypeOK, Walking, Calculated
<1>4. p \in known /\ shortestPaths[p] # Inf
  BY <1>3 DEF IInv, Supported, Reached
<1>5. panicked' = FALSE
  BY <1>1, <1>4 DEF IInv, TypeOK, NoNode
<1>6. TypeOK' /\ EntriesOld' /\ Relaxed' /\ Supported'
  <2>1. /\ hops' \in [known -> known \cup {NoNode}]
        /\ destination' \in known \cup {NoNode} /\ currentRouterId' \in known \cup {NoNode}
    BY <1>1, <1>3, <1>4 DEF IInv, TypeOK
  <2>2. TypeOK'
    BY <1>1, <1>2, <1>5, <2>1 DEF IInv, TypeOK
  <2>3. QED BY <1>1, <1>2, <2>2 DEF IInv, EntriesOld, NotTooCheap, Queued, Relaxed, NoBetter,
                                   EntryOf, Supported, Reached
<1>7. \A n, o \in known : OnTheWayBack(n, o) => OnTheWayBack(n, o)'
  BY <1>1, <1>2 DEF OnTheWayBack, Closed
<1>8. p # startRouterId => OnTheWayBack(p, destination)
  BY <1>3, <1>4 DEF OnTheWayBack, Closed
<1>9. ASSUME NEW d \in known, hops'[d] # NoNode
      PROVE  previousNodes[hops'[d]] = startRouterId /\ OnTheWayBack(hops[d], d)'
  <2>1. PICK h \in known : h = hops'[d] /\ previousNodes[h] = startRouterId /\ OnTheWayBack(h, d)
    <3>1. CASE p = startRouterId /\ d = destination
      <4>1. hops'[d] = c
        BY <1>1, <1>3, <3>1 DEF IInv, TypeOK
      <4>2. QED BY <1>3, <3>1, <4>1
    <3>2. CASE ~ (p = startRouterId /\ d = destination)
      <4>1. hops'[d] = hops[d] /\ hops[d] \in known
        BY <1>1, <1>3, <1>9, <3>2 DEF IInv, TypeOK
      <4>2. previousNodes[hops[d]] = startRouterId /\ OnTheWayBack(hops[d], d)
        BY <1>9, <4>1 DEF IInv, Walking
      <4>3. QED BY <4>1, <4>2
    <3>3. QED BY <3>1, <3>2
  <2>2. OnTheWayBack(h, d)'
    BY <1>7, <2>1
  <2>3. QED BY <2>1, <2>2 DEF OnTheWayBack
<1>10. Walking'
  <2>1. ASSUME destination' # NoNode
        PROVE  /\ currentRouterId' \in known \ {startRouterId}
               /\ shortestPaths[currentRouterId'] # Inf
               /\ OnTheWayBack(currentRouterId, destination)'
    <3>1. PICK n \in known \ {startRouterId}, o \in known :
            /\ n = currentRouterId' /\ o = destination'
            /\ shortestPaths[n] # Inf /\ OnTheWayBack(n, o)
      BY <1>1, <1>3, <1>4, <1>8, <2>1
    <3>2. OnTheWayBack(n, o)'
      BY <1>7, <3>1
    <3>3. QED BY <3>1, <3>2 DEF OnTheWayBack
  <2>2. QED BY <1>1, <1>2, <1>3, <1>9, <2>1 DEF Walking
<1>11. QED BY <1>5, <1>6, <1>10 DEF IInv

THEOREM Invariance == Spec => []IInv
<1>1. Init => IInv
  BY InitOK
<1>2. IInv /\ [Next]_vars => IInv'
  <2>1. IInv /\ Next => IInv'
    BY PopKeeps, RelaxKeeps, NextDestinationKeeps, findInitialHopKeeps DEF Next
  <2>2. ASSUME IInv, UNCHANGED vars PROVE IInv'
    <3>1. known' = known /\ Entry' = Entry /\ (Calculated <=> Calculated')
      BY <2>2 DEF known, Entry, vars, Calculated
    <3>2. TypeOK' /\ EntriesOld' /\ Relaxed' /\ Supported' /\ panicked' = FALSE
      BY <2>2, <3>1 DEF IInv, TypeOK, EntriesOld, NotTooCheap, Queued, Relaxed, NoBetter,
                        EntryOf, Supported, Reached, vars
    <3>3. Walking'
      BY <2>2, <3>1 DEF IInv, Walking, OnTheWayBack, Closed, vars
    <3>4. QED BY <3>2, <3>3 DEF IInv
  <2>3. QED BY <2>1, <2>2
<1>3. QED BY <1>1, <1>2, PTL DEF Spec

-----------------------------------------------------------------------------
\* The node next to the start is the only one of its kind on the way back.
LEMMA OneFirstHop ==
  ASSUME NEW d \in known, NEW g \in known, NEW h \in known,
         previousNodes[g] = startRouterId, previousNodes[h] = startRouterId,
         OnTheWayBack(g, d), OnTheWayBack(h, d)
  PROVE  g = h
<1> DEFINE B == {n \in known : OnTheWayBack(h, n)}
<1>1. Closed(B)
  <2> SUFFICES ASSUME NEW n \in B, previousNodes[n] \in known \ {startRouterId}
               PROVE  OnTheWayBack(h, previousNodes[n])
    BY DEF Closed
  <2> SUFFICES ASSUME NEW S \in SUBSET known, previousNodes[n] \in S, Closed(S)
               PROVE  h \in S
    BY DEF OnTheWayBack
  <2>1. S \cup {n} \in SUBSET known /\ n \in S \cup {n} /\ Closed(S \cup {n})
    BY DEF Closed
  <2>2. h \in S \cup {n}
    BY <2>1 DEF OnTheWayBack
  <2>3. QED BY <2>2
<1>2. g \in B
  BY <1>1 DEF OnTheWayBack
<1>3. Closed({g})
  BY DEF Closed
<1>4. QED BY <1>2, <1>3 DEF OnTheWayBack

LEMMA SameFirstHop == IInv => HopsAgree
<1> SUFFICES ASSUME IInv, NEW d \in known, hops[d] # NoNode
             PROVE  /\ previousNodes[hops[d]] = startRouterId
                    /\ previousNodes[d] # startRouterId /\ hops[previousNodes[d]] # NoNode =>
                         hops[d] = hops[previousNodes[d]]
  BY DEF HopsAgree
<1> DEFINE h == hops[d]
           e == previousNodes[d]
<1>1. h \in known /\ previousNodes[h] = startRouterId /\ OnTheWayBack(h, d)
  BY DEF IInv, TypeOK, Walking
<1>2. ASSUME e # startRouterId, hops[e] # NoNode PROVE h = hops[e]
  <2>1. e \in known
    <3>1. ASSUME e \notin known PROVE FALSE
      <4>1. Closed({d})
        BY <3>1 DEF Closed
      <4>2. h = d
        BY <1>1, <4>1 DEF OnTheWayBack
      <4>3. QED BY <1>1, <1>2, <4>2
    <3>2. QED BY <3>1
  <2>2. /\ hops[e] \in known /\ previousNodes[hops[e]] = startRouterId
        /\ OnTheWayBack(hops[e], e)
    BY <1>2, <2>1 DEF IInv, TypeOK, Walking
  <2>3. OnTheWayBack(hops[e], d)
    BY <1>2, <2>1, <2>2 DEF OnTheWayBack, Closed
  <2>4. QED BY <1>1, <2>2, <2>3, OneFirstHop
<1>3. QED BY <1>1, <1>2

LEMMA CostsAreLeast == IInv => LeastCosts
<1> SUFFICES ASSUME IInv, Calculated PROVE LeastCosts
  BY DEF LeastCosts
<1>1. Queued = {} /\ linkStateInfos = {}
  BY DEF Calculated, Queued
<1>2. ASSUME NEW q \in known, NEW i \in topologyDatabase[q],
             shortestPaths[q] # Inf, i.neighbor \in known
      PROVE  NoBetter(q, i)
  BY <1>1, <1>2 DEF IInv, Relaxed
<1>3. ASSUME NEW r \in known \ {startRouterId}, shortestPaths[r] # Inf
      PROVE  /\ previousNodes[r] \in known /\ shortestPaths[previousNodes[r]] # Inf
             /\ \E i \in topologyDatabase[previousNodes[r]] :
                  i.neighbor = r /\ shortestPaths[r] = shortestPaths[previousNodes[r]] + i.cost
  <2> DEFINE p == previousNodes[r]
  <2>1. Reached(r)
    BY <1>3 DEF IInv, Supported
  <2>2. PICK i \in topologyDatabase[p] :
          i.neighbor = r /\ shortestPaths[p] + i.cost <= shortestPaths[r]
    BY <2>1 DEF Reached
  <2>3. p \in known /\ shortestPaths[p] # Inf
    BY <2>1 DEF Reached
  <2>4. shortestPaths[p] \in Nat /\ shortestPaths[r] \in Nat /\ i.cost \in Nat
    BY <1>3, <2>2, <2>3 DEF IInv, TypeOK
  <2>5. shortestPaths[r] <= shortestPaths[p] + i.cost
    BY <1>2, <2>2, <2>3 DEF NoBetter
  <2>6. shortestPaths[r] = shortestPaths[p] + i.cost
    BY <2>2, <2>4, <2>5
  <2>7. QED BY <2>2, <2>3, <2>6
<1>4. shortestPaths[startRouterId] = 0
  BY DEF IInv, Supported
<1>5. QED BY <1>2, <1>3, <1>4 DEF LeastCosts, NoBetter

\* The maps of calculateShortestPaths, its queue and the walk are well formed.
THEOREM TypeCorrect == Spec => []TypeOK
<1>1. IInv => TypeOK
  BY DEF IInv
<1>2. QED BY <1>1, Invariance, PTL

\* Least costs, for every database and although Pop takes the last entry.
THEOREM LeastCostsFound == Spec => []LeastCosts
BY CostsAreLeast, Invariance, PTL

\* findInitialHop's panic cannot be reached from updateRoutingTableWithDijkstra.
THEOREM NeverPanics == Spec => []AlwaysAWayBack
<1>1. IInv => AlwaysAWayBack
  BY DEF IInv, AlwaysAWayBack
<1>2. QED BY <1>1, Invariance, PTL

\* The first hops of destinations that lie behind one another are the same.
THEOREM FirstHopsAgree == Spec => []HopsAgree
BY SameFirstHop, Invariance, PTL
=============================================================================
