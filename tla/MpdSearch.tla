------------------------------- MODULE MpdSearch -------------------------------
(***************************************************************************)
(* The searches of libmpd-database.c and libmpd-playlist.c.  What is       *)
(* searched is written down twice: as the text of the command in           *)
(* connection->request, by libmpdclient, and as mi->search_type and        *)
(* mi->search_field, by libmpd, which decide how the answer is read.       *)
(*                                                                         *)
(* An error that is not an answer of the server makes mpd_unlock_conn call *)
(* the error callback and then mpd_disconnect; `depth' counts the error    *)
(* callbacks that are under way, from which the program may call on.       *)
(***************************************************************************)
EXTENDS Integers, Sequences

CONSTANTS Fields,          \* tags a search is about
          DefaultField,    \* MPD_TAG_ITEM_ARTIST
          Supported,       \* kinds of search the server's version has
          MaxConstraints,  \* bound: constraints of one search
          MaxDepth,        \* bound: error callbacks inside one another
          None             \* the NULL pointer

Kinds         == {"find", "search", "list", "playlistfind", "playlistsearch", "count"}
PlaylistKinds == {"playlistfind", "playlistsearch", "count"}

\* connection->request, apart from its text.
Requests == [kind : Kinds, field : Fields \cup {None}, constraints : Seq(Fields)]

ASSUME SearchAssumption ==
  /\ DefaultField \in Fields /\ None \notin Fields \cup Requests /\ Supported \subseteq Kinds
  /\ MaxConstraints \in Nat /\ MaxDepth \in Nat

VARIABLES connected, lock, searchType, searchField, request, depth

vars == <<connected, lock, searchType, searchField, request, depth>>

\* The field is that of a list command and of no other.
TypeOK ==
  /\ connected \in BOOLEAN /\ lock \in BOOLEAN
  /\ searchType \in Kinds \cup {"none"} /\ searchField \in Fields
  /\ request \in Requests \cup {None}
  /\ request # None => (request.field = None <=> request.kind # "list")
  /\ depth \in 0..MaxDepth

NoSearch == searchType' = "none" /\ searchField' = DefaultField /\ request' = None

Init ==
  /\ connected = FALSE /\ lock = TRUE
  /\ searchType = "none" /\ searchField = DefaultField /\ request = None
  /\ depth = 0

\* The call goes on to the connection.
Ready == connected /\ ~lock

\* The unlock finds an error and calls the program back.
Fails == depth < MaxDepth /\ depth' = depth + 1

-----------------------------------------------------------------------------
\* Mutation: the field is forgotten.
FieldAfterForgotten(kind, field) == searchField

\* mi->search_field is set by mpd_database_search_field_start alone.
FieldAfter(kind, field) == IF kind = "list" THEN field ELSE searchField

\* The field of a request that is no list is not there.
Started(kind, field) == [kind |-> kind, field |-> IF kind = "list" THEN field ELSE None, constraints |-> <<>>]

\* mpd_database_search_start, _search_field_start, _search_stats_start and
\* mpd_playlist_search_start.  The type is set although libmpdclient refuses a
\* search while another is in progress.
SearchStart(kind, field) ==
  /\ Ready /\ kind \in Supported
  /\ searchType' = kind
  /\ searchField' = FieldAfter(kind, field)
  /\ \/ request = None /\ request' = Started(kind, field) /\ UNCHANGED depth
     \/ request # None /\ UNCHANGED request /\ Fails
  /\ UNCHANGED <<connected, lock>>

SearchAddConstraint(field) ==
  /\ Ready /\ Supported # {} /\ searchType # "none"
  /\ \/ /\ request # None /\ Len(request.constraints) < MaxConstraints
        /\ request' = [request EXCEPT !.constraints = Append(@, field)]
        /\ UNCHANGED depth
     \/ request = None /\ UNCHANGED request /\ Fails
  /\ UNCHANGED <<connected, lock, searchType, searchField>>

\* Mutation: the text is sent and kept.
RequestAfterCommitKept(r) == r

RequestAfterCommit(r) == None

\* Mutation: the search goes on after its commit.
TypeAfterCommitKept(type) == type

TypeAfterCommit(type) == "none"

\* mpd_commitSearch and the answer: OK or ACK, or an error of the connection.
CommitSearch ==
  /\ request' = RequestAfterCommit(request)
  /\ \/ request # None /\ UNCHANGED depth
     \/ Fails
  /\ UNCHANGED <<connected, lock>>

SearchCommit ==
  /\ Ready /\ searchType # "none"
  /\ CommitSearch
  /\ searchType' = TypeAfterCommit(searchType) /\ searchField' = DefaultField

PlaylistSearchCommit ==
  /\ Ready /\ searchType \in PlaylistKinds
  /\ CommitSearch
  /\ searchType' = TypeAfterCommit(searchType) /\ searchField' = DefaultField

\* The type is not reset.
SearchStatsCommit ==
  /\ Ready /\ searchType = "count"
  /\ CommitSearch
  /\ UNCHANGED <<searchType, searchField>>

-----------------------------------------------------------------------------
Connect ==
  /\ ~connected
  /\ connected' = TRUE /\ lock' = FALSE
  /\ UNCHANGED <<searchType, searchField, request, depth>>

\* mpd_disconnect, which frees the connection and with it the request.
Disconnects == connected' = FALSE /\ lock' = TRUE /\ NoSearch

Disconnect == connected /\ Disconnects /\ UNCHANGED depth

ErrorCallbackReturns == depth > 0 /\ depth' = depth - 1 /\ Disconnects

\* Another call holds the lock while it calls the program back.
LockTaken ==
  /\ connected /\ ~lock /\ depth = 0 /\ lock' = TRUE
  /\ UNCHANGED <<connected, searchType, searchField, request, depth>>

LockReleased ==
  /\ connected /\ lock /\ lock' = FALSE
  /\ UNCHANGED <<connected, searchType, searchField, request, depth>>

Next ==
  \/ \E kind \in Kinds, field \in Fields : SearchStart(kind, field)
  \/ \E field \in Fields : SearchAddConstraint(field)
  \/ SearchCommit \/ PlaylistSearchCommit \/ SearchStatsCommit
  \/ Connect \/ Disconnect \/ ErrorCallbackReturns \/ LockTaken \/ LockReleased

Spec == Init /\ [][Next]_vars

-----------------------------------------------------------------------------
(* Properties *)

\* Outside the error callback of a refused search, the answer to the request
\* is read as what the request asks for, and a list as a list of its field.
ReadAsAsked ==
  depth = 0 /\ request # None =>
    searchType = request.kind /\ (request.kind = "list" => searchField = request.field)

\* A request that no commit can reach would make the next search fail and cost
\* the connection: there is none.
NoRequestLeft == request # None => connected /\ searchType # "none"

\* A commit or a constraint without a search is refused by the look at
\* searchType, before it reaches the connection and costs it ("no/wrong search
\* in progress to commit"), except after mpd_database_search_stats_commit.
NoEmptySearch == depth = 0 /\ request = None => searchType \in {"none", "count"}

=============================================================================
