-------------------------------- MODULE MpdData --------------------------------
(***************************************************************************)
(* The linked list of libmpd.c in which answers are returned: nodes on the *)
(* heap with a link to the next, the previous and the first node.  A       *)
(* handle is a variable of the program or of libmpd that points into a     *)
(* list; each list has one.  What a node carries is left out, its address  *)
(* stands for it.                                                          *)
(***************************************************************************)
EXTENDS Integers, SequencesExt

CONSTANTS Handle, Node, Null

ASSUME DataAssumption == Null \notin Node /\ IsFiniteSet(Node)

Pointer == Node \cup {Null}

VARIABLES live, next, prev, first, handle

heap == <<live, next, prev, first>>
vars == <<heap, handle>>

\* A handle is NULL or points at a node that was not freed.
TypeOK ==
  /\ live \subseteq Node
  /\ next \in [Node -> Pointer] /\ prev \in [Node -> Pointer] /\ first \in [Node -> Pointer]
  /\ handle \in [Handle -> live \cup {Null}]

Init ==
  /\ live = {}
  /\ next = [n \in Node |-> Null] /\ prev = [n \in Node |-> Null] /\ first = [n \in Node |-> Null]
  /\ handle = [h \in Handle |-> Null]

\* Where a walk from n along a link is after each step.
Walk(link, n) ==
  LET walk[i \in 1..(Cardinality(Node) + 1)] ==
        IF i = 1 THEN n ELSE IF walk[i - 1] = Null THEN Null ELSE link[walk[i - 1]]
  IN  walk

\* The nodes reached from n along a link, n first.
Chain(link, n) ==
  LET walk == Walk(link, n)
  IN  SubSeq(walk, 1, Cardinality({i \in DOMAIN walk : walk[i] # Null}))

Point(h, n) == handle' = [handle EXCEPT ![h] = n]

Without(link, gone) == [n \in Node |-> IF n \in gone THEN Null ELSE link[n]]

-----------------------------------------------------------------------------
\* libmpd appends to the node it made last.
AppendItem(h) ==
  LET last == handle[h] IN
  /\ last # Null => next[last] = Null
  /\ \E n \in Node \ live :
       /\ live' = live \cup {n}
       /\ next' = IF last = Null THEN next ELSE [next EXCEPT ![last] = n]
       /\ prev' = [prev EXCEPT ![n] = last]
       /\ first' = [first EXCEPT ![n] = IF last = Null THEN n ELSE first[last]]
       /\ Point(h, n)

GetFirst(h) ==
  /\ handle[h] # Null
  /\ Point(h, first[handle[h]])
  /\ UNCHANGED heap

\* Mutation: what comes before the node is not freed.
FreedWithTail(n) == Chain(next, n)

\* mpd_data_free frees the whole list, whichever node it is given.
FreedWith(n) == Chain(next, first[n])

FreeNodes(gone) ==
  /\ live' = live \ gone
  /\ next' = Without(next, gone) /\ prev' = Without(prev, gone) /\ first' = Without(first, gone)

Free(h) ==
  /\ handle[h] # Null
  /\ FreeNodes(ToSet(FreedWith(handle[h])))
  /\ Point(h, Null)

\* mpd_data_get_next frees the list when there is no next node.
GetNext(h) ==
  \/ /\ handle[h] # Null /\ next[handle[h]] # Null
     /\ Point(h, next[handle[h]])
     /\ UNCHANGED heap
  \/ /\ handle[h] # Null /\ next[handle[h]] = Null
     /\ Free(h)

-----------------------------------------------------------------------------
\* Mutation: the nodes of the second list keep their first.
FirstAfterJoinKept(n, head, second) == IF n = second THEN head ELSE first[n]

FirstAfterJoin(n, head, second) == IF n \in ToSet(Chain(next, second)) THEN head ELSE first[n]

\* The second list goes behind the first, whichever nodes are given.
Concatenate(h, g) ==
  LET head   == first[handle[h]]
      last   == Last(Chain(next, handle[h]))
      second == first[handle[g]]
  IN
  /\ h # g
  /\ \/ /\ handle[h] = Null \/ handle[g] = Null
        /\ handle' = [handle EXCEPT ![h] = IF handle[h] = Null THEN handle[g] ELSE handle[h], ![g] = Null]
        /\ UNCHANGED heap
     \/ /\ handle[h] # Null /\ handle[g] # Null
        /\ next' = [next EXCEPT ![last] = second]
        /\ prev' = [prev EXCEPT ![second] = last]
        /\ first' = [n \in Node |-> FirstAfterJoin(n, head, second)]
        /\ handle' = [handle EXCEPT ![h] = head, ![g] = Null]
        /\ UNCHANGED live

\* Mutation: the node behind does not learn that the node is gone.
BackLinksKept(d) == IF prev[d] = Null THEN prev ELSE [prev EXCEPT ![d] = Null]

\* The links back when node d is taken out.
BackLinks(d) == IF next[d] = Null THEN prev ELSE [prev EXCEPT ![next[d]] = prev[d]]

\* The removed node is made a list of its own before it is freed.
FreedByDelete(d) == {d}

\* The node before the removed one, else the one behind it.  Only when the
\* removed node was the first does the rest of the list get a new one.
DeleteItem(h) ==
  LET d     == handle[h]
      temp  == IF prev[d] # Null THEN prev[d] ELSE next[d]
      ahead == IF prev[d] = Null THEN next ELSE [next EXCEPT ![prev[d]] = next[d]]
      back  == BackLinks(d)
      start == Last(Chain(back, temp))
      gone  == FreedByDelete(d)
  IN
  /\ d # Null
  /\ live' = live \ gone
  /\ next' = Without(ahead, gone)
  /\ prev' = Without(back, gone)
  /\ first' = IF temp # Null /\ first[temp] = d
              THEN [n \in Node |-> IF n \in gone THEN Null
                                   ELSE IF n \in ToSet(Chain(ahead, start)) THEN start ELSE first[n]]
              ELSE Without(first, gone)
  /\ Point(h, temp)

Next ==
  \/ \E h \in Handle : AppendItem(h) \/ GetFirst(h) \/ GetNext(h) \/ DeleteItem(h) \/ Free(h)
  \/ \E h, g \in Handle : Concatenate(h, g)

Spec == Init /\ [][Next]_vars

-----------------------------------------------------------------------------
(* Properties *)

ListOf(h) == IF handle[h] = Null THEN <<>> ELSE Chain(next, first[handle[h]])

\* Every node that was not freed is in the list of some handle: no operation
\* leaves a node behind that nobody can free, or frees one that is in use.
NothingLost == live = UNION {ToSet(ListOf(h)) : h \in Handle}

\* A list can be walked from both ends and left to its first node from
\* anywhere, after any concatenation and removal, and nothing that is kept
\* leads to a freed node.
WellLinked ==
  /\ TypeOK
  /\ \A n \in live :
       /\ next[n] # Null => next[n] \in live /\ prev[next[n]] = n /\ first[next[n]] = first[n]
       /\ prev[n] # Null => prev[n] \in live /\ next[prev[n]] = n
       /\ prev[n] = Null => first[n] = n

Place(h) == IF handle[h] = Null THEN 0 ELSE CHOOSE i \in DOMAIN ListOf(h) : ListOf(h)[i] = handle[h]

Promised == INSTANCE MpdDataSpec WITH
  Element <- Node,
  lists <- [h \in Handle |-> ListOf(h)],
  at <- [h \in Handle |-> Place(h)]

\* The linked nodes are the lists that libmpd.h promises.
ImplementsLists == Promised!Spec

=============================================================================
