-------------------------- MODULE CommandQueue_proofs --------------------------
(***************************************************************************)
(* For every set of addresses, paths and ids the linked list of the        *)
(* command queue is a queue, and every node of it is freed.                *)
(***************************************************************************)
EXTENDS CommandQueue, SequenceTheorems, TLAPS

Freeing == pc \in {"freeing", "dropping"}
Walking == pc = "sending" \/ Freeing

\* The nodes that were not freed: the walk that frees them does so from the first.
Left == (IF Freeing THEN pos ELSE 1) .. Len(order)

\* What is allocated is the list: the nodes in the order they were made, each
\* linked to the one behind it and to the first.
ListIsOrder ==
  /\ order \in Seq(Node) /\ pos \in Nat
  /\ \A i, j \in 1 .. Len(order) : order[i] = order[j] => i = j
  /\ live = {order[i] : i \in Left}
  /\ \A i \in Left : /\ next[order[i]] = IF i < Len(order) THEN order[i + 1] ELSE Null
                     /\ first[order[i]] = order[1]
                     /\ item[order[i]] \in Items

\* mi->queue is the node the walk has come to, and the last otherwise.
QueueIsPlace ==
  LET at == IF Walking THEN pos ELSE Len(order)
  IN  queue = IF at \in 1 .. Len(order) THEN order[at] ELSE Null

\* A walk has begun at the first node, and has not passed the last but to free it.
PlaceOfPc ==
  /\ pc = "sending" => pos \in 1 .. Len(order)
  /\ Freeing => pos \in 1 .. Len(order) + 1
  /\ pc = "ending" => order = <<>>

Links ==
  /\ next \in [Node -> Pointer] /\ prev \in [Node -> Pointer] /\ first \in [Node -> Pointer]
  /\ item \in [Node -> Items \cup {Null}]

IInv ==
  /\ connected \in BOOLEAN /\ lock \in BOOLEAN
  /\ Links
  /\ pc \in Places
  /\ batch \in Seq(Items)
  /\ ListIsOrder /\ QueueIsPlace /\ PlaceOfPc

LEMMA InitInv == Init => IInv
<1> SUFFICES ASSUME Init PROVE IInv
  OBVIOUS
<1>1. Links /\ batch \in Seq(Items) /\ pc = "idle" /\ order = <<>> /\ Len(order) = 0
  BY DEF Init, Links, Pointer
<1>2. ListIsOrder
  BY <1>1 DEF Init, ListIsOrder, Left, Freeing
<1>3. QueueIsPlace /\ PlaceOfPc
  BY <1>1 DEF Init, QueueIsPlace, PlaceOfPc, Walking, Freeing
<1> QED BY <1>1, <1>2, <1>3 DEF Init, IInv, Places

\* Outside of a walk the whole list is allocated.
LEMMA AtRest ==
  ASSUME IInv, pc \in {"idle", "adding", "ending"}
  PROVE  /\ ~Walking /\ ~Freeing /\ Left = 1 .. Len(order)
         /\ live = {order[i] : i \in 1 .. Len(order)}
         /\ \A i \in 1 .. Len(order) : order[i] \in Node /\ order[i] # Null
         /\ Len(order) = 0 <=> queue = Null
         /\ queue # Null => Len(order) \in Nat \ {0} /\ queue = order[Len(order)] /\ first[queue] = order[1]
<1>1. ~Walking /\ ~Freeing /\ Left = 1 .. Len(order)
  BY DEF Walking, Freeing, Left
<1>2. order \in Seq(Node) /\ Len(order) \in Nat
  BY DEF IInv, ListIsOrder
<1>3. \A i \in 1 .. Len(order) : order[i] \in Node /\ order[i] # Null
  BY <1>2, NullAssumption
<1>4. queue = IF Len(order) \in 1 .. Len(order) THEN order[Len(order)] ELSE Null
  BY <1>1 DEF IInv, QueueIsPlace
<1>5. \A i \in 1 .. Len(order) : first[order[i]] = order[1]
  BY <1>1 DEF IInv, ListIsOrder
<1> QED BY <1>1, <1>2, <1>3, <1>4, <1>5 DEF IInv, ListIsOrder

\* A command that is queued goes to the end of the list.
LEMMA AppendStep ==
  ASSUME IInv, NEW x \in Items, NEW n \in Node \ live, AppendNode(n, x),
         pc = "idle", pc' \in {"idle", "adding"}, connected' = connected, lock' = lock
  PROVE  IInv'
<1> DEFINE L == Len(order)
<1>1. /\ order \in Seq(Node) /\ L \in Nat /\ order' = Append(order, n)
      /\ Len(order') = L + 1 /\ order' \in Seq(Node)
      /\ order'[L + 1] = n /\ \A i \in 1 .. L : order'[i] = order[i]
  BY DEF IInv, ListIsOrder, AppendNode
<1>2. live = {order[i] : i \in 1 .. L} /\ \A i \in 1 .. L : order[i] \in Node /\ order[i] # n
  BY AtRest
<1>3. ~Walking' /\ ~Freeing' /\ Left' = 1 .. L + 1
  BY <1>1 DEF Walking, Freeing, Left
<1>4. Links /\ Links'
  <2>1. Links
    BY DEF IInv
  <2>2. queue \in Pointer /\ FirstFor(n) \in Pointer
    BY <2>1, AtRest DEF FirstFor, Links, Pointer
  <2>3. /\ next' \in [Node -> Pointer] /\ prev' \in [Node -> Pointer]
        /\ first' \in [Node -> Pointer]
    BY <2>1, <2>2 DEF Links, AppendNode, Pointer
  <2>4. item' \in [Node -> Items \cup {Null}]
    BY <2>1 DEF Links, AppendNode
  <2> QED BY <2>1, <2>3, <2>4 DEF Links
<1>5. ListIsOrder'
  <2>1. \A i, j \in 1 .. L + 1 : order'[i] = order'[j] => i = j
    <3>1. \A i, j \in 1 .. L : order[i] = order[j] => i = j
      BY DEF IInv, ListIsOrder
    <3> QED BY <1>1, <1>2, <3>1
  <2>2. live' = {order'[i] : i \in 1 .. L + 1}
    <3>1. live' = live \cup {n}
      BY DEF AppendNode
    <3> QED BY <3>1, <1>1, <1>2
  <2>3. ASSUME NEW i \in 1 .. L
        PROVE  /\ next'[order'[i]] = order'[i + 1]
               /\ first'[order'[i]] = order'[1]
               /\ item'[order'[i]] \in Items
    <3>1. /\ next[order[i]] = IF i < L THEN order[i + 1] ELSE Null
          /\ first[order[i]] = order[1] /\ item[order[i]] \in Items
      BY AtRest DEF IInv, ListIsOrder
    <3>2. queue # Null /\ queue = order[L] /\ (order[i] = queue => i = L)
      BY AtRest, <1>1, <1>2 DEF IInv, ListIsOrder
    <3>3. next' = [next EXCEPT ![queue] = n, ![n] = Null] /\ item' = [item EXCEPT ![n] = x]
          /\ first' = [first EXCEPT ![n] = FirstFor(n)]
      BY <3>2 DEF AppendNode
    <3>4. first'[order[i]] = first[order[i]] /\ item'[order[i]] = item[order[i]]
      BY <3>3, <1>2, <1>4 DEF Links
    <3>5. next'[order[i]] = order'[i + 1]
      <4>1. CASE i = L
        BY <4>1, <3>2, <3>3, <1>1, <1>2, <1>4 DEF Links
      <4>2. CASE i < L
        <5>1. next'[order[i]] = next[order[i]]
          BY <4>2, <3>2, <3>3, <1>2, <1>4 DEF Links
        <5> QED BY <5>1, <4>2, <3>1, <1>1
      <4> QED BY <4>1, <4>2, <1>1
    <3> QED BY <3>1, <3>4, <3>5, <1>1
  <2>4. next'[n] = Null /\ first'[n] = order'[1] /\ item'[n] \in Items
    <3>1. next'[n] = Null
      BY <1>4 DEF AppendNode, Links
    <3>2. item'[n] = x /\ first'[n] = FirstFor(n)
      BY <1>4 DEF AppendNode, Links
    <3>3. FirstFor(n) = order'[1]
      BY AtRest, <1>1 DEF FirstFor
    <3> QED BY <3>1, <3>2, <3>3
  <2>5. pos' \in Nat
    BY DEF AppendNode, IInv, ListIsOrder
  <2>6. ASSUME NEW i \in Left'
        PROVE  /\ next'[order'[i]] = IF i < Len(order') THEN order'[i + 1] ELSE Null
               /\ first'[order'[i]] = order'[1]
               /\ item'[order'[i]] \in Items
    <3>1. CASE i = L + 1
      BY <3>1, <2>4, <1>1
    <3>2. CASE i \in 1 .. L
      BY <3>2, <2>3, <1>1
    <3> QED BY <3>1, <3>2, <1>1, <1>3
  <2>7. \A i, j \in 1 .. Len(order') : order'[i] = order'[j] => i = j
    BY <1>1, <2>1
  <2>8. live' = {order'[i] : i \in Left'}
    BY <1>3, <2>2
  <2> QED BY <1>1, <2>5, <2>6, <2>7, <2>8 DEF ListIsOrder
<1>6. QueueIsPlace' /\ PlaceOfPc'
  <2>1. queue' = n
    BY DEF AppendNode
  <2> QED BY <2>1, <1>1, <1>3 DEF QueueIsPlace, PlaceOfPc, Walking
<1> QED BY <1>4, <1>5, <1>6 DEF IInv, AppendNode, Places

\* A walk that is somewhere in the list is at a node that was not freed.
LEMMA WalkStep ==
  ASSUME IInv, Walking, queue # Null
  PROVE  /\ order \in Seq(Node) /\ Len(order) \in Nat /\ pos \in 1 .. Len(order)
         /\ queue = order[pos] /\ queue \in Node /\ order[1] \in Node
         /\ next[queue] = IF pos < Len(order) THEN order[pos + 1] ELSE Null
         /\ (next[queue] = Null) <=> pos = Len(order)
         /\ first[queue] = order[1] /\ item[queue] \in Items
<1>1. order \in Seq(Node) /\ Len(order) \in Nat /\ pos \in Nat
  BY DEF IInv, ListIsOrder
<1>2. pos \in 1 .. Len(order) /\ queue = order[pos]
  BY DEF IInv, QueueIsPlace
<1>3. \A i \in 1 .. Len(order) : order[i] \in Node /\ order[i] # Null
  BY <1>1, NullAssumption
<1>4. pos \in Left
  BY <1>1, <1>2 DEF Left
<1>5. /\ next[queue] = IF pos < Len(order) THEN order[pos + 1] ELSE Null
      /\ first[queue] = order[1] /\ item[queue] \in Items
  BY <1>2, <1>4 DEF IInv, ListIsOrder
<1> QED BY <1>1, <1>2, <1>3, <1>5

\* The list is as it was: only the walk moves.
LEMMA WalkOnly ==
  ASSUME IInv, UNCHANGED <<live, heap, order>>, pos' \in Nat, Left' = Left
  PROVE  Links' /\ ListIsOrder'
BY DEF IInv, Links, heap, ListIsOrder

\* The loop of mpd_playlist_queue_commit, and what begins it and ends it.
LEMMA CommitSteps ==
  ASSUME IInv, CommitBegins \/ CommitRefused \/ CommitSends \/ CommitEnds
  PROVE  IInv'
<1>0. connected' \in BOOLEAN /\ lock' \in BOOLEAN /\ pc' \in Places
  BY DEF CommitBegins, CommitRefused, CommitSends, CommitEnds, IInv, Places
<1>1. CASE CommitBegins
  <2>1. pc \in {"idle", "adding"} /\ queue # Null
    BY <1>1 DEF CommitBegins, Committing
  <2>2. Len(order) \in Nat \ {0} /\ queue' = order[1] /\ Left = 1 .. Len(order)
    BY <1>1, <2>1, AtRest DEF CommitBegins, Rewind
  <2>3. pos' = 1 /\ order' = order /\ Walking' /\ ~Freeing' /\ Left' = Left /\ pc' = "sending"
    BY <1>1, <2>2 DEF CommitBegins, Walking, Freeing, Left
  <2>4. Links' /\ ListIsOrder'
    BY <1>1, <2>3, WalkOnly DEF CommitBegins
  <2>5. QueueIsPlace' /\ PlaceOfPc'
    BY <2>2, <2>3 DEF QueueIsPlace, PlaceOfPc
  <2> QED BY <1>0, <1>1, <2>4, <2>5 DEF IInv, CommitBegins
<1>2. CASE CommitRefused
  <2>1. pc \in {"idle", "adding"}
    BY <1>2 DEF CommitRefused, Committing
  <2>2. ~Walking' /\ ~Freeing' /\ Left' = Left /\ order' = order /\ pos' = pos /\ queue' = queue /\ pc' = "idle"
    BY <1>2, <2>1 DEF CommitRefused, Walking, Freeing, Left
  <2>3. Links' /\ ListIsOrder'
    BY <1>2, <2>2, WalkOnly DEF CommitRefused, IInv, ListIsOrder
  <2>4. QueueIsPlace' /\ PlaceOfPc'
    BY <2>1, <2>2, AtRest DEF QueueIsPlace, PlaceOfPc, IInv
  <2> QED BY <1>0, <1>2, <2>3, <2>4 DEF IInv, CommitRefused
<1>3. CASE CommitSends
  <2>1. pc = "sending" /\ Walking /\ ~Freeing /\ order' = order /\ Left = 1 .. Len(order)
    BY <1>3 DEF CommitSends, Walking, Freeing, Left
  <2>2. queue # Null
    BY <2>1, NullAssumption DEF IInv, QueueIsPlace, PlaceOfPc, ListIsOrder
  <2>3. Len(order) \in Nat /\ pos \in 1 .. Len(order) /\ item[queue] \in Items
    BY <2>1, <2>2, WalkStep
  <2>4. ASSUME pos < Len(order) PROVE Links' /\ ListIsOrder' /\ QueueIsPlace' /\ PlaceOfPc'
    <3>1. queue' = order[pos + 1] /\ pos' = pos + 1 /\ pc' = pc
      BY <1>3, <2>1, <2>2, <2>4, WalkStep DEF CommitSends, Step
    <3>2. Walking' /\ ~Freeing' /\ Left' = Left
      BY <3>1, <2>1 DEF Walking, Freeing, Left
    <3>3. Links' /\ ListIsOrder'
      BY <1>3, <2>3, <3>1, <3>2, WalkOnly DEF CommitSends
    <3>4. QueueIsPlace' /\ PlaceOfPc'
      BY <2>1, <2>3, <2>4, <3>1, <3>2 DEF QueueIsPlace, PlaceOfPc
    <3> QED BY <3>3, <3>4
  <2>5. ASSUME pos = Len(order) PROVE Links' /\ ListIsOrder' /\ QueueIsPlace' /\ PlaceOfPc'
    <3>1. queue' = order[1] /\ pos' = 1 /\ pc' = "freeing"
      BY <1>3, <2>1, <2>2, <2>5, WalkStep DEF CommitSends, Rewind
    <3>2. Walking' /\ Freeing' /\ Left' = Left
      BY <3>1, <2>1 DEF Walking, Freeing, Left
    <3>3. Links' /\ ListIsOrder'
      BY <1>3, <3>1, <3>2, WalkOnly DEF CommitSends
    <3>4. QueueIsPlace' /\ PlaceOfPc'
      BY <2>1, <2>3, <2>5, <3>1, <3>2 DEF QueueIsPlace, PlaceOfPc
    <3> QED BY <3>3, <3>4
  <2>6. batch' \in Seq(Items)
    BY <1>3, <2>3 DEF CommitSends, IInv
  <2> QED BY <1>0, <2>3, <2>4, <2>5, <2>6 DEF IInv
<1>4. CASE CommitEnds
  <2>1. pc = "ending"
    BY <1>4 DEF CommitEnds
  <2>2. ~Walking' /\ ~Freeing' /\ Left' = Left /\ order' = order /\ pos' = pos /\ queue' = queue /\ pc' = "idle"
    BY <1>4, <2>1 DEF CommitEnds, Walking, Freeing, Left
  <2>3. Links' /\ ListIsOrder'
    BY <1>4, <2>2, WalkOnly DEF CommitEnds, IInv, ListIsOrder
  <2>4. QueueIsPlace' /\ PlaceOfPc'
    BY <2>1, <2>2, AtRest DEF QueueIsPlace, PlaceOfPc, IInv
  <2> QED BY <1>0, <1>4, <2>3, <2>4 DEF IInv, CommitEnds
<1> QED BY <1>1, <1>2, <1>3, <1>4

\* The loop of mpd_free_queue_ob, and what begins it and ends it.
LEMMA FreeSteps ==
  ASSUME IInv, FreeNode \/ AllFreed \/ Disconnect
  PROVE  IInv'
<1>0. connected' \in BOOLEAN /\ lock' \in BOOLEAN /\ pc' \in Places /\ batch' = batch
  BY DEF FreeNode, AllFreed, Disconnect, IInv, Places
<1>1. CASE FreeNode
  <2>1. Freeing /\ Walking /\ Freeing' /\ Walking' /\ queue # Null /\ pc' = pc /\ pc # "sending" /\ pc # "ending"
    BY <1>1 DEF FreeNode, Freeing, Walking
  <2>2. /\ order' = order /\ order \in Seq(Node) /\ Len(order) \in Nat /\ pos \in 1 .. Len(order)
        /\ pos' = pos + 1 /\ queue = order[pos] /\ queue \in Node
    BY <1>1, <2>1, WalkStep DEF FreeNode
  <2>3. Left = pos .. Len(order) /\ Left' = pos + 1 .. Len(order)
    BY <2>1, <2>2 DEF Left
  <2>4. \A i \in Left' : i \in Left /\ order[i] # queue
    BY <2>2, <2>3 DEF IInv, ListIsOrder
  <2>5. Links'
    BY <1>1 DEF FreeNode, IInv, Links, Pointer
  <2>6. ASSUME NEW i \in Left'
        PROVE  next'[order[i]] = next[order[i]] /\ first'[order[i]] = first[order[i]]
               /\ item'[order[i]] = item[order[i]]
    <3>1. order[i] \in Node
      BY <2>2, <2>3
    <3> QED BY <1>1, <2>4, <3>1 DEF FreeNode, IInv, Links
  <2>7. live' = {order[i] : i \in Left'}
    <3>1. live = {order[i] : i \in Left} /\ live' = live \ {order[pos]}
      BY <1>1, <2>2 DEF FreeNode, IInv, ListIsOrder
    <3>2. \A i \in Left : i \in Left' \/ i = pos
      BY <2>2, <2>3
    <3> QED BY <2>2, <2>4, <3>1, <3>2
  <2>8. ListIsOrder'
    BY <2>2, <2>4, <2>6, <2>7 DEF IInv, ListIsOrder
  <2>9. queue' = IF pos < Len(order) THEN order[pos + 1] ELSE Null
    BY <1>1, <2>1, WalkStep DEF FreeNode, LinkBeforeFree
  <2>10. QueueIsPlace' /\ PlaceOfPc'
    BY <2>1, <2>2, <2>9 DEF QueueIsPlace, PlaceOfPc
  <2> QED BY <1>0, <2>5, <2>8, <2>10 DEF IInv
<1>2. CASE AllFreed
  <2>1. Freeing /\ Walking /\ queue = Null /\ queue' = Null /\ order' = <<>> /\ pos' = 0 /\ Len(order') = 0
    BY <1>2 DEF AllFreed, Freeing, Walking
  <2>2. Len(order) \in Nat /\ pos = Len(order) + 1
    BY <2>1, NullAssumption DEF IInv, ListIsOrder, QueueIsPlace, PlaceOfPc
  <2>3. live' = {} /\ Links'
    BY <1>2, <2>1, <2>2 DEF AllFreed, IInv, ListIsOrder, Left, heap, Links
  <2>4. pc' \in {"ending", "idle"} /\ ~Walking' /\ ~Freeing'
    BY <1>2 DEF AllFreed, Walking, Freeing
  <2>5. ListIsOrder'
    BY <2>1, <2>3, <2>4 DEF ListIsOrder, Left
  <2>6. QueueIsPlace' /\ PlaceOfPc'
    BY <2>1, <2>4 DEF QueueIsPlace, PlaceOfPc
  <2> QED BY <1>0, <2>3, <2>5, <2>6 DEF IInv
<1>3. CASE Disconnect
  <2>1. pc = "idle" /\ order' = order /\ ~Freeing /\ Left = 1 .. Len(order)
    BY <1>3, AtRest DEF Disconnect
  <2>2. CASE queue # Null
    <3>1. Len(order) \in Nat \ {0} /\ queue' = order[1] /\ pos' = 1 /\ pc' = "dropping"
      BY <1>3, <2>1, <2>2, AtRest DEF Disconnect, Rewind
    <3>2. Walking' /\ Freeing' /\ Left' = Left
      BY <2>1, <3>1 DEF Walking, Freeing, Left
    <3>3. Links' /\ ListIsOrder'
      BY <1>3, <3>1, <3>2, WalkOnly DEF Disconnect
    <3>4. QueueIsPlace' /\ PlaceOfPc'
      BY <2>1, <3>1, <3>2 DEF QueueIsPlace, PlaceOfPc
    <3> QED BY <1>0, <3>3, <3>4 DEF IInv
  <2>3. CASE queue = Null
    <3>1. queue' = queue /\ pos' = pos /\ pc' = pc
      BY <1>3, <2>3 DEF Disconnect
    <3>2. Walking' = Walking /\ Freeing' = Freeing /\ Left' = Left
      BY <2>1, <3>1 DEF Walking, Freeing, Left
    <3>3. Links' /\ ListIsOrder'
      BY <1>3, <3>1, <3>2, WalkOnly DEF Disconnect, IInv, ListIsOrder
    <3>4. QueueIsPlace' /\ PlaceOfPc'
      BY <2>1, <3>1, <3>2 DEF QueueIsPlace, PlaceOfPc, IInv
    <3> QED BY <1>0, <3>3, <3>4 DEF IInv
  <2> QED BY <2>2, <2>3
<1> QED BY <1>1, <1>2, <1>3

\* Every queueing operation appends one item.
LEMMA QueueingAppends ==
  ASSUME Queueing
  PROVE  /\ pc = "idle" /\ pc' \in {"idle", "adding"} /\ connected' = connected /\ lock' = lock
         /\ \E x \in Items : \E n \in Node \ live : AppendNode(n, x)
<1>1. /\ pc' \in {"idle", "adding"}
      /\ \/ \E p \in Paths : Enqueue("ADD", p)
         \/ \E p \in Paths : Enqueue("LOAD", p)
         \/ \E i \in Ids : Enqueue("DELETE_ID", i)
         \/ \E i \in Ids : Enqueue("DELETE_POS", i)
  <2>1. CASE QueueAdd \/ QueueLoad \/ QueueDeleteId \/ QueueDeletePos
    BY <2>1 DEF QueueAdd, QueueLoad, QueueDeleteId, QueueDeletePos, Enqueue
  <2>2. CASE PlaylistAdd \/ PlaylistDeleteId \/ PlaylistDeletePos
    BY <2>2 DEF PlaylistAdd, PlaylistDeleteId, PlaylistDeletePos
  <2> QED BY <2>1, <2>2 DEF Queueing
<1>2. ASSUME NEW type, NEW arg, Enqueue(type, arg), [type |-> type, arg |-> arg] \in Items
      PROVE  /\ pc = "idle" /\ connected' = connected /\ lock' = lock
             /\ \E x \in Items : \E n \in Node \ live : AppendNode(n, x)
  BY <1>2 DEF Enqueue
<1>3. /\ \A p \in Paths : [type |-> "ADD", arg |-> p] \in Items /\ [type |-> "LOAD", arg |-> p] \in Items
      /\ \A i \in Ids : [type |-> "DELETE_ID", arg |-> i] \in Items /\ [type |-> "DELETE_POS", arg |-> i] \in Items
  BY DEF Items, PathTypes, IdTypes
<1> QED BY <1>1, <1>2, <1>3

LEMMA NextInv == IInv /\ [Next]_vars => IInv'
<1> SUFFICES ASSUME IInv, [Next]_vars PROVE IInv'
  OBVIOUS
<1>1. CASE Queueing
  BY <1>1, QueueingAppends, AppendStep
<1>2. CASE CommitBegins \/ CommitRefused \/ CommitSends \/ CommitEnds
  BY <1>2, CommitSteps
<1>3. CASE FreeNode \/ AllFreed \/ Disconnect
  BY <1>3, FreeSteps
<1>4. CASE Connect \/ LockTaken \/ LockReleased \/ UNCHANGED vars
  <2>1. UNCHANGED <<queue, live, heap, pc, order, pos, batch>> /\ connected' \in BOOLEAN /\ lock' \in BOOLEAN
    BY <1>4 DEF Connect, LockTaken, LockReleased, vars, IInv
  <2>2. Walking' = Walking /\ Freeing' = Freeing /\ Left' = Left
    BY <2>1 DEF Walking, Freeing, Left
  <2>3. Links' /\ ListIsOrder'
    BY <2>1, <2>2, WalkOnly DEF IInv, ListIsOrder
  <2>4. QueueIsPlace' /\ PlaceOfPc'
    BY <2>1, <2>2 DEF QueueIsPlace, PlaceOfPc, IInv
  <2> QED BY <2>1, <2>3, <2>4 DEF IInv
<1> QED BY <1>1, <1>2, <1>3, <1>4 DEF Next, Inside

\* At every step of a walk over the list the nodes that are allocated are those
\* from the walk's place on (or all of them), linked in the order they were made.
THEOREM Invariant == Spec => []IInv
BY InitInv, NextInv, PTL DEF Spec

\* mi->queue and the links of the nodes lead to no node that was freed, and when
\* mi->queue is NULL every node was: whatever is queued, committed or dropped.
THEOREM NothingLeaks == Spec => []NoLeak
<1>1. IInv => NoLeak
  <2> SUFFICES ASSUME IInv PROVE NoLeak
    OBVIOUS
  <2>1. queue \in live \cup {Null} /\ (queue = Null => live = {})
    <3>1. CASE Walking
      <4>1. Len(order) \in Nat /\ pos \in Nat /\ live = {order[i] : i \in Left}
        BY DEF IInv, ListIsOrder
      <4>2. queue = IF pos \in 1 .. Len(order) THEN order[pos] ELSE Null
        BY <3>1 DEF IInv, QueueIsPlace
      <4>3. queue # Null => pos \in Left
        BY <4>1, <4>2 DEF Left
      <4>4. queue = Null => Freeing /\ pos = Len(order) + 1
        BY <3>1, <4>1, <4>2, NullAssumption DEF IInv, PlaceOfPc, Walking, ListIsOrder
      <4>5. queue = Null => Left = {}
        BY <4>1, <4>4 DEF Left
      <4> QED BY <4>1, <4>2, <4>3, <4>5
    <3>2. CASE ~Walking
      BY <3>2, AtRest DEF Walking, Freeing, IInv, Places
    <3> QED BY <3>1, <3>2
  <2>2. live \subseteq Node
    <3>1. \A i \in Left : i \in 1 .. Len(order)
      BY DEF IInv, ListIsOrder, PlaceOfPc, Left
    <3> QED BY <3>1 DEF IInv, ListIsOrder
  <2> QED BY <2>1, <2>2 DEF NoLeak, TypeOK, IInv, Links, ListIsOrder
<1> QED BY <1>1, Invariant, PTL

\* What Pending is at each place: the whole list, what is left of it, nothing.
PendingIs ==
  /\ Pending \in Seq(Items)
  /\ pc \in {"idle", "adding"} => Pending = [i \in 1 .. Len(order) |-> item[order[i]]]
  /\ pc = "sending" => Pending = [i \in 1 .. Len(order) - pos + 1 |-> item[order[pos + i - 1]]]
  /\ pc \in {"freeing", "ending", "dropping"} => Pending = <<>>

LEMMA PendingNow == IInv => PendingIs
<1> SUFFICES ASSUME IInv PROVE PendingIs
  OBVIOUS
<1>1. order \in Seq(Node) /\ Len(order) \in Nat /\ pos \in Nat /\ pc \in Places
  BY DEF IInv, ListIsOrder
<1>2. CASE pc \in {"idle", "adding"}
  <2>1. Pending = [i \in 1 .. Len(order) |-> item[order[i]]]
    BY <1>1, <1>2 DEF Pending
  <2>2. \A i \in 1 .. Len(order) : item[order[i]] \in Items
    BY <1>2, AtRest DEF IInv, ListIsOrder
  <2> QED BY <1>1, <1>2, <2>1, <2>2 DEF PendingIs
<1>3. CASE pc = "sending"
  <2>1. Pending = [i \in 1 .. Len(order) - pos + 1 |-> item[order[pos + i - 1]]]
    BY <1>1, <1>3 DEF Pending
  <2>2. pos \in 1 .. Len(order) /\ Left = 1 .. Len(order)
    BY <1>3 DEF IInv, PlaceOfPc, Left, Freeing
  <2>3. \A i \in 1 .. Len(order) - pos + 1 : pos + i - 1 \in Left
    BY <1>1, <2>2
  <2>4. \A i \in 1 .. Len(order) - pos + 1 : item[order[pos + i - 1]] \in Items
    BY <2>3 DEF IInv, ListIsOrder
  <2> QED BY <1>1, <1>3, <2>1, <2>2, <2>4 DEF PendingIs
<1>4. CASE pc \in {"freeing", "ending", "dropping"}
  <2>1. Pending = [i \in 1 .. 0 |-> item[order[i]]]
    BY <1>4 DEF Pending
  <2> QED BY <1>4, <2>1 DEF PendingIs
<1> QED BY <1>1, <1>2, <1>3, <1>4 DEF Places

LEMMA PendingNext == IInv' => PendingIs'
BY PendingNow, PTL

Sending == pc \in {"sending", "freeing", "ending"}

\* A command is queued at the end of what is pending.
LEMMA EnqueueMaps ==
  ASSUME IInv, IInv', Queueing
  PROVE  Promised!Enqueue
<1>1. /\ pc = "idle" /\ pc' \in {"idle", "adding"}
      /\ \E x \in Items : \E n \in Node \ live : AppendNode(n, x)
  BY QueueingAppends
<1>2. PICK x \in Items : \E n \in Node \ live : AppendNode(n, x)
  BY <1>1
<1>3. PICK n \in Node \ live : AppendNode(n, x)
  BY <1>2
<1>4. /\ order \in Seq(Node) /\ Len(order) \in Nat /\ order' = Append(order, n)
      /\ Len(order') = Len(order) + 1 /\ order'[Len(order) + 1] = n
      /\ \A i \in 1 .. Len(order) : order'[i] = order[i] /\ order[i] \in Node /\ order[i] # n
  BY <1>1, <1>3, AtRest DEF AppendNode, IInv, ListIsOrder
<1>5. item' = [item EXCEPT ![n] = x] /\ item \in [Node -> Items \cup {Null}]
  BY <1>3 DEF AppendNode, IInv, Links
<1>6. /\ Pending \in Seq(Items) /\ Pending' \in Seq(Items)
      /\ Pending = [i \in 1 .. Len(order) |-> item[order[i]]]
      /\ Pending' = [i \in 1 .. Len(order) + 1 |-> item'[order'[i]]]
  BY <1>1, <1>4, PendingNow, PendingNext DEF PendingIs
<1>7. Pending' = Append(Pending, x)
  <2>1. Append(Pending, x) \in Seq(Items) /\ Len(Pending) = Len(order)
    BY <1>4, <1>6
  <2>2. /\ Len(Append(Pending, x)) = Len(order) + 1
        /\ Append(Pending, x)[Len(order) + 1] = x
        /\ \A i \in 1 .. Len(order) : Append(Pending, x)[i] = Pending[i]
    BY <1>6, <2>1
  <2>3. ASSUME NEW i \in 1 .. Len(order) + 1
        PROVE  Pending'[i] = Append(Pending, x)[i]
    <3>1. CASE i = Len(order) + 1
      BY <3>1, <1>4, <1>5, <1>6, <2>2
    <3>2. CASE i \in 1 .. Len(order)
      BY <3>2, <1>4, <1>5, <1>6, <2>2
    <3>3. i = Len(order) + 1 \/ i \in 1 .. Len(order)
      BY <1>4
    <3> QED BY ONLY <3>1, <3>2, <3>3
  <2>4. Len(Pending') = Len(order) + 1
    BY <1>4, <1>6
  <2> QED BY <1>6, <2>1, <2>2, <2>3, <2>4, SeqEqual
<1>8. ~Sending /\ Sending' = Sending /\ batch' = batch
  BY <1>1, <1>3 DEF Sending, AppendNode
<1> QED BY <1>7, <1>8 DEF Promised!Enqueue, Sending

\* The walk hands over what is pending, the oldest first.
LEMMA SendMaps ==
  ASSUME IInv, IInv', CommitSends
  PROVE  Promised!SendNext
<1>1. pc = "sending" /\ Walking /\ order' = order /\ item' = item
  BY DEF CommitSends, Walking, heap
<1>2. queue # Null
  BY <1>1, NullAssumption DEF IInv, QueueIsPlace, PlaceOfPc, ListIsOrder
<1>3. order \in Seq(Node) /\ Len(order) \in Nat /\ pos \in 1 .. Len(order) /\ queue = order[pos]
  BY <1>1, <1>2, WalkStep
<1>4. Pending \in Seq(Items) /\ Pending = [i \in 1 .. Len(order) - pos + 1 |-> item[order[pos + i - 1]]]
  BY <1>1, PendingNow DEF PendingIs
<1>5. Len(Pending) = Len(order) - pos + 1 /\ Pending # <<>> /\ Head(Pending) = item[queue]
  <2>1. Len(Pending) = Len(order) - pos + 1 /\ Len(Pending) >= 1 /\ pos + 1 - 1 = pos
    BY <1>3, <1>4
  <2>2. Pending[1] = item[order[pos]]
    BY <1>3, <1>4, <2>1
  <2>3. Pending # <<>>
    BY <2>1
  <2> QED BY <1>3, <1>4, <2>1, <2>2, <2>3
<1>6. batch' = IF Sendable(Head(Pending)) THEN Append(batch, Head(Pending)) ELSE batch
  BY <1>5 DEF CommitSends
<1>7. Pending' = Tail(Pending) /\ Sending /\ Sending'
  <2>1. CASE pos < Len(order)
    <3>1. pos' = pos + 1 /\ pc' = "sending"
      BY <1>1, <1>2, <2>1, WalkStep DEF CommitSends
    <3>2. Pending' \in Seq(Items) /\ Pending' = [i \in 1 .. Len(order) - pos |-> item[order[pos + i]]]
      <4>1. Len(order) - pos' + 1 = Len(order) - pos /\ \A i \in 1 .. Len(order) - pos : pos' + i - 1 = pos + i
        BY <3>1, <1>3
      <4>2. Pending' \in Seq(Items) /\ Pending' = [i \in 1 .. Len(order) - pos' + 1 |-> item[order[pos' + i - 1]]]
        BY <1>1, <3>1, PendingNext DEF PendingIs
      <4> QED BY <4>1, <4>2
    <3>3. Len(Pending') = Len(order) - pos
      BY <3>2, <1>3
    <3>4. /\ Tail(Pending) \in Seq(Items) /\ Len(Tail(Pending)) = Len(order) - pos
          /\ \A i \in 1 .. Len(order) - pos : Tail(Pending)[i] = Pending[i + 1]
      BY <1>3, <1>4, <1>5, HeadTailProperties
    <3>5. \A i \in 1 .. Len(order) - pos : pos + (i + 1) - 1 = pos + i /\ i + 1 \in 1 .. Len(order) - pos + 1
      BY <1>3
    <3>6. \A i \in 1 .. Len(order) - pos : Pending'[i] = Tail(Pending)[i]
      BY <1>4, <3>2, <3>4, <3>5
    <3>7. Pending' = Tail(Pending)
      BY <3>2, <3>3, <3>4, <3>6, SeqEqual
    <3> QED BY <1>1, <3>1, <3>7 DEF Sending
  <2>2. CASE pos = Len(order)
    <3>1. pc' = "freeing"
      BY <1>1, <1>2, <2>2, WalkStep DEF CommitSends
    <3>2. Pending' = <<>>
      BY <3>1, PendingNext DEF PendingIs
    <3>3. Tail(Pending) \in Seq(Items) /\ Len(Tail(Pending)) = 0
      BY <1>3, <1>4, <1>5, <2>2, HeadTailProperties
    <3> QED BY <1>1, <3>1, <3>2, <3>3, EmptySeq DEF Sending
  <2> QED BY <1>3, <2>1, <2>2
<1> QED BY <1>5, <1>6, <1>7 DEF Promised!SendNext, Sending

\* The rest of a commit, the freeing of the nodes and what happens around them.
LEMMA OtherMaps ==
  ASSUME IInv, IInv', [Next]_vars, ~Queueing, ~CommitSends
  PROVE  Promised!Begin \/ Promised!End \/ Promised!Discard
           \/ UNCHANGED <<Pending, Sending, batch>>
<1>1. CASE CommitBegins
  <2>1. pc \in {"idle", "adding"} /\ pc' = "sending" /\ pos' = 1 /\ UNCHANGED <<order, item, batch>> /\ queue # Null
    BY <1>1 DEF CommitBegins, Committing, heap
  <2>2. order \in Seq(Node) /\ Len(order) \in Nat \ {0}
    BY <2>1, AtRest DEF IInv, ListIsOrder
  <2>3. Pending = [i \in 1 .. Len(order) |-> item[order[i]]]
    BY <2>1, PendingNow DEF PendingIs
  <2>4. Pending' = [i \in 1 .. Len(order) - 1 + 1 |-> item[order[1 + i - 1]]]
    BY <2>1, PendingNext DEF PendingIs
  <2>5. Len(order) - 1 + 1 = Len(order) /\ \A i \in 1 .. Len(order) : 1 + i - 1 = i
    BY <2>2
  <2>6. Pending' = Pending /\ Len(Pending) # 0
    BY <2>2, <2>3, <2>4, <2>5
  <2>7. Pending # <<>>
    BY <2>6
  <2> QED BY <2>1, <2>6, <2>7 DEF Promised!Begin, Sending
<1>2. CASE CommitEnds
  <2>1. pc = "ending" /\ pc' = "idle" /\ batch' = <<>> /\ UNCHANGED <<order, item>>
    BY <1>2 DEF CommitEnds, heap
  <2>2. order = <<>> /\ Len(order) = 0
    BY <2>1 DEF IInv, PlaceOfPc
  <2>3. Pending = <<>> /\ Pending' = [i \in 1 .. 0 |-> item[order[i]]]
    BY <2>1, <2>2, PendingNow, PendingNext DEF PendingIs
  <2> QED BY <2>1, <2>3 DEF Promised!End, Sending
<1>3. CASE Disconnect
  <2>1. pc = "idle" /\ pc' \in {"idle", "dropping"} /\ UNCHANGED <<order, item, batch>>
    BY <1>3 DEF Disconnect, heap
  <2>2. Pending' = <<>>
    <3>1. CASE pc' = "dropping"
      BY <3>1, PendingNext DEF PendingIs
    <3>2. CASE pc' = "idle"
      <4>1. Len(order) = 0
        BY <1>3, <2>1, <3>2, AtRest DEF Disconnect
      <4>2. Pending' = [i \in 1 .. 0 |-> item[order[i]]]
        BY <2>1, <3>2, <4>1, PendingNext DEF PendingIs
      <4> QED BY <4>2
    <3> QED BY <2>1, <3>1, <3>2
  <2> QED BY <2>1, <2>2 DEF Promised!Discard, Sending
<1>4. CASE FreeNode \/ AllFreed
  <2>1. pc \in {"freeing", "dropping"} /\ UNCHANGED batch
    BY <1>4 DEF FreeNode, AllFreed
  <2>2. /\ pc' = pc \/ (pc = "freeing" /\ pc' = "ending") \/ (pc = "dropping" /\ pc' = "idle")
        /\ pc' = "idle" => order' = <<>>
    BY <1>4 DEF FreeNode, AllFreed
  <2>3. Pending = <<>>
    BY <2>1, PendingNow DEF PendingIs
  <2>4. Pending' = <<>>
    <3>1. CASE pc' = "idle"
      <4>1. Len(order') = 0
        BY <2>2, <3>1
      <4>2. Pending' = [i \in 1 .. 0 |-> item'[order'[i]]]
        BY <3>1, <4>1, PendingNext DEF PendingIs
      <4> QED BY <4>2
    <3>2. CASE pc' # "idle"
      BY <2>1, <2>2, <3>2, PendingNext DEF PendingIs
    <3> QED BY <3>1, <3>2
  <2> QED BY <2>1, <2>2, <2>3, <2>4 DEF Sending
<1>5. CASE CommitRefused \/ Connect \/ LockTaken \/ LockReleased \/ UNCHANGED vars
  <2>1. UNCHANGED <<order, item, pos, batch>> /\ (pc' = pc \/ (pc = "adding" /\ pc' = "idle"))
    BY <1>5 DEF CommitRefused, Committing, Connect, LockTaken, LockReleased, vars, heap
  <2>2. Pending' = Pending
    BY <2>1 DEF Pending
  <2> QED BY <2>1, <2>2 DEF Sending
<1> QED BY <1>1, <1>2, <1>3, <1>4, <1>5 DEF Next, Inside

LEMMA StepMaps ==
  ASSUME IInv, IInv', [Next]_vars
  PROVE  [Promised!Next]_<<Pending, Sending, batch>>
<1>1. CASE Queueing
  BY <1>1, EnqueueMaps DEF Promised!Next
<1>2. CASE CommitSends
  BY <1>2, SendMaps DEF Promised!Next
<1>3. CASE ~Queueing /\ ~CommitSends
  BY <1>3, OtherMaps DEF Promised!Next
<1> QED BY <1>1, <1>2, <1>3

\* The list on the heap does what a queue promises: commands go out in the order
\* they were queued, each of them once, or are discarded by a disconnect.
THEOREM ListIsQueue == Spec => ImplementsQueue
<1>1. Init => Promised!Init
  <2> SUFFICES ASSUME Init PROVE Promised!Init
    OBVIOUS
  <2>1. Pending = [i \in 1 .. 0 |-> item[order[i]]]
    BY DEF Init, Pending
  <2> QED BY <2>1 DEF Init, Promised!Init
<1>2. IInv /\ IInv' /\ [Next]_vars => [Promised!Next]_(Promised!vars)
  BY StepMaps DEF Sending, Promised!vars
<1> QED BY <1>1, <1>2, Invariant, PTL DEF Spec, ImplementsQueue, Promised!Spec

=============================================================================
