---------------------------- MODULE CommandQueue ----------------------------
(***************************************************************************)
(* The command queue of libmpd-playlist.c: a doubly linked list of         *)
(* MpdQueue nodes on the heap.  mi->queue points at the last node while    *)
(* commands are queued, and walks from the first to the last while a       *)
(* commit writes the command list; the last step of the walk frees all of  *)
(* the nodes.                                                              *)
(*                                                                         *)
(* `order', `pos' and `batch' are history: the nodes of the list in the    *)
(* order they were made, the place of mi->queue among them while it walks, *)
(* and the commands of the list being written.                             *)
(***************************************************************************)
EXTENDS Integers, Sequences

CONSTANTS Node,   \* addresses of MpdQueue nodes
          Null,   \* the NULL pointer
          Paths,  \* paths of songs and playlists
          Ids     \* song ids and positions, some of them negative

ASSUME NullAssumption == Null \notin Node
ASSUME IdsAssumption == Ids \subseteq Int

PathTypes == {"ADD", "LOAD"}
IdTypes   == {"DELETE_ID", "DELETE_POS"}
Items     == [type : PathTypes, arg : Paths] \cup [type : IdTypes, arg : Ids]
Pointer   == Node \cup {Null}

VARIABLES
  connected, lock,    \* mi->connected, mi->connection_lock
  queue,              \* mi->queue
  live,               \* nodes allocated and not freed
  next, prev, first,  \* the links of each node
  item,               \* type and path or id of each node
  pc,                 \* where the library is
  order, pos, batch

heap == <<next, prev, first, item>>
vars == <<connected, lock, queue, live, heap, pc, order, pos, batch>>

\* "adding" is mpd_playlist_add between its two calls; "freeing" is
\* mpd_free_queue_ob called by a commit, "dropping" the same by a disconnect.
Places == {"idle", "adding", "sending", "freeing", "ending", "dropping"}

\* mi->queue is NULL or a node that was not freed, and so on for the rest.
TypeOK ==
  /\ connected \in BOOLEAN /\ lock \in BOOLEAN
  /\ live \subseteq Node
  /\ queue \in live \cup {Null}
  /\ next \in [Node -> Pointer] /\ prev \in [Node -> Pointer] /\ first \in [Node -> Pointer]
  /\ item \in [Node -> Items \cup {Null}]
  /\ pc \in Places
  /\ order \in Seq(Node) /\ pos \in Nat
  /\ batch \in Seq(Items)

Init ==
  /\ connected = FALSE /\ lock = TRUE
  /\ queue = Null /\ live = {}
  /\ next = [n \in Node |-> Null] /\ prev = [n \in Node |-> Null] /\ first = [n \in Node |-> Null]
  /\ item = [n \in Node |-> Null]
  /\ pc = "idle"
  /\ order = <<>> /\ pos = 0 /\ batch = <<>>

-----------------------------------------------------------------------------
(* Queueing *)

\* Mutation: every node is its own first.
FirstOfItself(n) == n

\* The first node of the list that a new node n ends.
FirstFor(n) == IF queue = Null THEN n ELSE first[queue]

\* A new node n becomes the last of the list, and mi->queue points at it.
AppendNode(n, x) ==
  /\ live' = live \cup {n}
  /\ first' = [first EXCEPT ![n] = FirstFor(n)]
  /\ prev' = [prev EXCEPT ![n] = queue]
  /\ next' = IF queue = Null THEN [next EXCEPT ![n] = Null]
                             ELSE [next EXCEPT ![queue] = n, ![n] = Null]
  /\ item' = [item EXCEPT ![n] = x]
  /\ queue' = n
  /\ order' = Append(order, n)
  /\ UNCHANGED <<pos, batch>>

Enqueue(type, arg) ==
  /\ pc = "idle" /\ connected
  /\ \E n \in Node \ live : AppendNode(n, [type |-> type, arg |-> arg])
  /\ UNCHANGED <<connected, lock>>

\* mpd_playlist_queue_add, _load, _delete_id and _delete_pos: the last two
\* take any number.
QueueAdd       == \E p \in Paths : Enqueue("ADD", p) /\ UNCHANGED pc
QueueLoad      == \E p \in Paths : Enqueue("LOAD", p) /\ UNCHANGED pc
QueueDeleteId  == \E i \in Ids : Enqueue("DELETE_ID", i) /\ UNCHANGED pc
QueueDeletePos == \E i \in Ids : Enqueue("DELETE_POS", i) /\ UNCHANGED pc

\* mpd_playlist_add, _delete_id and _delete_pos queue one command and commit.
PlaylistAdd       == \E p \in Paths : Enqueue("ADD", p) /\ pc' = "adding"
PlaylistDeleteId  == \E i \in Ids : Enqueue("DELETE_ID", i) /\ pc' = "adding"
PlaylistDeletePos == \E i \in Ids : Enqueue("DELETE_POS", i) /\ pc' = "adding"

-----------------------------------------------------------------------------
(* Committing *)

\* Mutation: the walk begins wherever mi->queue is.
RewindNowhere(q) == q

\* mi->queue = mi->queue->first
Rewind(q) == first[q]

Committing == pc = "idle" \/ pc = "adding"

CommitBegins ==
  /\ Committing
  /\ connected /\ queue # Null /\ ~lock
  /\ lock' = TRUE
  /\ queue' = Rewind(queue)
  /\ pos' = 1
  /\ pc' = "sending"
  /\ UNCHANGED <<connected, live, heap, order, batch>>

\* The lock is held by the call whose callback asks for the commit.  What
\* mpd_playlist_add has queued stays queued, although it returns an error.
CommitRefused ==
  /\ Committing
  /\ connected /\ queue # Null /\ lock
  /\ pc' = "idle"
  /\ UNCHANGED <<connected, lock, queue, live, heap, order, pos, batch>>

\* Mutation: a negative id is sent like any other.
SendableAny(x) == x \in Items

Sendable(x) == x.type \in PathTypes \/ x.arg >= 0

Step(q) == next[q]

\* One turn of the loop of mpd_playlist_queue_commit, with mpd_queue_get_next,
\* which goes to the next node or, behind the last, begins to free them all.
CommitSends ==
  /\ pc = "sending"
  /\ batch' = IF Sendable(item[queue]) THEN Append(batch, item[queue]) ELSE batch
  /\ \/ /\ next[queue] # Null
        /\ queue' = Step(queue)
        /\ pos' = pos + 1
        /\ UNCHANGED pc
     \/ /\ next[queue] = Null
        /\ queue' = Rewind(queue)
        /\ pos' = 1
        /\ pc' = "freeing"
  /\ UNCHANGED <<connected, lock, live, heap, order>>

\* Mutation: the link is read from the node after the node was freed.
LinkAfterFree(q) == q

LinkBeforeFree(q) == next[q]

\* One turn of the loop of mpd_free_queue_ob.  Nothing of a freed node is left.
FreeNode ==
  /\ pc \in {"freeing", "dropping"} /\ queue # Null
  /\ live' = live \ {queue}
  /\ next' = [next EXCEPT ![queue] = Null]
  /\ prev' = [prev EXCEPT ![queue] = Null]
  /\ first' = [first EXCEPT ![queue] = Null]
  /\ item' = [item EXCEPT ![queue] = Null]
  /\ queue' = LinkBeforeFree(queue)
  /\ pos' = IF pos > Len(order) THEN pos ELSE pos + 1
  /\ UNCHANGED <<connected, lock, pc, order, batch>>

AllFreed ==
  /\ pc \in {"freeing", "dropping"} /\ queue = Null
  /\ pc' = IF pc = "freeing" THEN "ending" ELSE "idle"
  /\ order' = <<>> /\ pos' = 0
  /\ UNCHANGED <<connected, lock, queue, live, heap, batch>>

\* The end of the command list, its reply and the unlock.
CommitEnds ==
  /\ pc = "ending"
  /\ lock' = FALSE
  /\ pc' = "idle" /\ batch' = <<>>
  /\ UNCHANGED <<connected, queue, live, heap, order, pos>>

-----------------------------------------------------------------------------
(* What the rest of the library does around it *)

Connect ==
  /\ pc = "idle" /\ ~connected
  /\ connected' = TRUE /\ lock' = FALSE
  /\ UNCHANGED <<queue, live, heap, pc, order, pos, batch>>

\* Another call takes the lock and, from inside it, calls back the program.
LockTaken ==
  /\ pc = "idle" /\ connected /\ ~lock
  /\ lock' = TRUE
  /\ UNCHANGED <<connected, queue, live, heap, pc, order, pos, batch>>

LockReleased ==
  /\ pc = "idle" /\ connected /\ lock
  /\ lock' = FALSE
  /\ UNCHANGED <<connected, queue, live, heap, pc, order, pos, batch>>

\* mpd_disconnect drops what is queued.
Disconnect ==
  /\ pc = "idle" /\ connected
  /\ connected' = FALSE /\ lock' = TRUE
  /\ \/ /\ queue # Null
        /\ queue' = Rewind(queue) /\ pos' = 1 /\ pc' = "dropping"
     \/ /\ queue = Null
        /\ UNCHANGED <<queue, pos, pc>>
  /\ UNCHANGED <<live, heap, order, batch>>

Queueing == QueueAdd \/ QueueLoad \/ QueueDeleteId \/ QueueDeletePos
              \/ PlaylistAdd \/ PlaylistDeleteId \/ PlaylistDeletePos

Inside == CommitSends \/ FreeNode \/ AllFreed \/ CommitEnds \/ (pc = "adding" /\ (CommitBegins \/ CommitRefused))

Next == Queueing \/ Inside \/ CommitBegins \/ CommitRefused
          \/ Connect \/ Disconnect \/ LockTaken \/ LockReleased

Spec == Init /\ [][Next]_vars

\* A call that has begun goes on; nothing else runs before it is over.
FairSpec == Spec /\ WF_vars(Inside)

-----------------------------------------------------------------------------
(* Properties *)

\* No pointer that is still used leads to a freed node, and when mi->queue is
\* NULL every node that was ever queued has been freed: neither a commit nor a
\* disconnect loses the beginning of the list.
NoLeak == TypeOK /\ (queue = Null => live = {})

\* Queued commands that were not handed over yet, oldest first.
Pending ==
  LET from == IF pc = "sending" THEN pos ELSE 1
      last == IF pc \in {"idle", "adding", "sending"} THEN Len(order) ELSE 0
  IN  [i \in 1..(last - from + 1) |-> item[order[from + i - 1]]]

Promised == INSTANCE CommandQueueSpec WITH
  pending <- Pending,
  sending <- pc \in {"sending", "freeing", "ending"}

\* The linked list does what a queue promises: commands go out in the order
\* they were queued, each once, in one command list, or are discarded.
ImplementsQueue == Promised!Spec

\* A commit or a disconnect always gets to its end.
CallsReturn == pc # "idle" ~> pc = "idle"

=============================================================================
