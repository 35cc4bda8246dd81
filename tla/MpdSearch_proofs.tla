---------------------------- MODULE MpdSearch_proofs ----------------------------
(***************************************************************************)
(* For any set of fields, any number of constraints and any depth of error *)
(* callbacks, a search is answered as what was asked.                      *)
(***************************************************************************)
EXTENDS MpdSearch, SequenceTheorems, TLAPS

\* A search that is begun has a request of its type.
LEMMA StartedType ==
  ASSUME NEW kind \in Kinds, NEW field \in Fields
  PROVE  /\ Started(kind, field) \in Requests
         /\ Started(kind, field).field = None <=> Started(kind, field).kind # "list"
<1>1. <<>> \in Seq(Fields)
  OBVIOUS
<1> QED BY <1>1, SearchAssumption DEF Started, Requests

\* Nothing changes the types.
LEMMA TypeStep ==
  ASSUME TypeOK, [Next]_vars
  PROVE  TypeOK'
<1> USE SearchAssumption DEF TypeOK
<1>1. ASSUME NEW kind \in Kinds, NEW field \in Fields, SearchStart(kind, field)
      PROVE  TypeOK'
  <2>1. searchField' \in Fields
    BY <1>1 DEF SearchStart, FieldAfter
  <2>2. request' \in Requests \cup {None} /\ (request' # None => (request'.field = None <=> request'.kind # "list"))
    BY <1>1, StartedType DEF SearchStart
  <2>3. depth' \in 0..MaxDepth
    BY <1>1 DEF SearchStart, Fails
  <2> QED BY <1>1, <2>1, <2>2, <2>3 DEF SearchStart
<1>2. ASSUME NEW field \in Fields, SearchAddConstraint(field)
      PROVE  TypeOK'
  <2>1. CASE request # None
    <3>1. request \in Requests /\ Append(request.constraints, field) \in Seq(Fields)
      BY <2>1, AppendProperties DEF Requests
    <3>2. request' = [request EXCEPT !.constraints = Append(@, field)] /\ depth' = depth
      BY <1>2, <2>1 DEF SearchAddConstraint
    <3>3. request' \in Requests /\ request'.field = request.field /\ request'.kind = request.kind
      BY <3>1, <3>2 DEF Requests
    <3> QED BY <1>2, <2>1, <3>2, <3>3 DEF SearchAddConstraint
  <2>2. CASE request = None
    BY <1>2, <2>2 DEF SearchAddConstraint, Fails
  <2> QED BY <2>1, <2>2
<1>3. CASE SearchCommit \/ PlaylistSearchCommit \/ SearchStatsCommit
  BY <1>3 DEF SearchCommit, PlaylistSearchCommit, SearchStatsCommit, CommitSearch, RequestAfterCommit, TypeAfterCommit, Fails
<1>4. CASE Connect \/ LockTaken \/ LockReleased \/ UNCHANGED vars
  BY <1>4 DEF Connect, LockTaken, LockReleased, vars
<1>5. CASE Disconnect
  BY <1>5 DEF Disconnect, Disconnects, NoSearch
<1>6. CASE ErrorCallbackReturns
  <2>1. depth' \in 0..MaxDepth
    BY <1>6 DEF ErrorCallbackReturns
  <2> QED BY <1>6, <2>1 DEF ErrorCallbackReturns, Disconnects, NoSearch
<1> QED BY <1>1, <1>2, <1>3, <1>4, <1>5, <1>6 DEF Next

\* The types of what is written down about a search.
THEOREM TypeCorrect == Spec => []TypeOK
<1>1. Init => TypeOK
  <2> SUFFICES ASSUME Init PROVE TypeOK
    OBVIOUS
  <2>1. searchField \in Fields /\ depth \in 0..MaxDepth
    BY SearchAssumption DEF Init
  <2> QED BY <2>1 DEF Init, TypeOK
<1>2. TypeOK /\ [Next]_vars => TypeOK'
  BY TypeStep
<1> QED BY <1>1, <1>2, PTL DEF Spec

-----------------------------------------------------------------------------
\* Both records of a search change together wherever no error is under way.
LEMMA ReadAsAskedStep ==
  ASSUME TypeOK, ReadAsAsked, [Next]_vars
  PROVE  ReadAsAsked'
<1> USE DEF ReadAsAsked, TypeOK
<1>1. ASSUME NEW kind \in Kinds, NEW field \in Fields, SearchStart(kind, field)
      PROVE  ReadAsAsked'
  <2>1. CASE request = None /\ request' = Started(kind, field)
    BY <1>1, <2>1 DEF SearchStart, Started, FieldAfter
  <2>2. CASE Fails
    BY <2>2, SearchAssumption DEF Fails
  <2> QED BY <1>1, <2>1, <2>2 DEF SearchStart
<1>2. ASSUME NEW field \in Fields, SearchAddConstraint(field)
      PROVE  ReadAsAsked'
  <2>1. CASE request # None
    <3>1. request' = [request EXCEPT !.constraints = Append(@, field)] /\ depth' = depth
      BY <1>2, <2>1 DEF SearchAddConstraint
    <3>2. request'.kind = request.kind /\ request'.field = request.field
      BY <2>1, <3>1 DEF Requests
    <3> QED BY <1>2, <2>1, <3>1, <3>2 DEF SearchAddConstraint
  <2>2. CASE request = None
    BY <1>2, <2>2 DEF SearchAddConstraint
  <2> QED BY <2>1, <2>2
<1>3. CASE SearchCommit \/ PlaylistSearchCommit \/ SearchStatsCommit
  BY <1>3 DEF SearchCommit, PlaylistSearchCommit, SearchStatsCommit, CommitSearch, RequestAfterCommit, TypeAfterCommit
<1>4. CASE Connect \/ LockTaken \/ LockReleased \/ UNCHANGED vars
  BY <1>4 DEF Connect, LockTaken, LockReleased, vars
<1>5. CASE Disconnect \/ ErrorCallbackReturns
  BY <1>5 DEF Disconnect, ErrorCallbackReturns, Disconnects, NoSearch
<1> QED BY <1>1, <1>2, <1>3, <1>4, <1>5 DEF Next

\* The answer to a search is read as what was asked for, however many
\* constraints it has and whatever the error callbacks of other searches did.
THEOREM SearchReadAsAsked == Spec => []ReadAsAsked
<1>1. Init => ReadAsAsked
  BY DEF Init, ReadAsAsked
<1>2. TypeOK /\ ReadAsAsked /\ [Next]_vars => ReadAsAsked'
  BY ReadAsAskedStep
<1> QED BY <1>1, <1>2, TypeCorrect, PTL DEF Spec

\* A request belongs to a connection and to a search that can be committed.
THEOREM NoSearchLeftBehind == Spec => []NoRequestLeft
<1> USE DEF NoRequestLeft
<1>1. Init => NoRequestLeft
  BY DEF Init
<1>2. NoRequestLeft /\ [Next]_vars => NoRequestLeft'
  <2> SUFFICES ASSUME NoRequestLeft, [Next]_vars PROVE NoRequestLeft'
    OBVIOUS
  <2>1. ASSUME NEW kind \in Kinds, NEW field \in Fields, SearchStart(kind, field)
        PROVE  NoRequestLeft'
    BY <2>1 DEF SearchStart, Ready, Kinds
  <2>2. ASSUME NEW field \in Fields, SearchAddConstraint(field)
        PROVE  NoRequestLeft'
    BY <2>2 DEF SearchAddConstraint, Ready
  <2>3. CASE SearchCommit \/ PlaylistSearchCommit \/ SearchStatsCommit
    BY <2>3 DEF SearchCommit, PlaylistSearchCommit, SearchStatsCommit, CommitSearch, RequestAfterCommit, TypeAfterCommit
  <2>4. CASE Connect \/ LockTaken \/ LockReleased \/ UNCHANGED vars
    BY <2>4 DEF Connect, LockTaken, LockReleased, vars
  <2>5. CASE Disconnect \/ ErrorCallbackReturns
    BY <2>5 DEF Disconnect, ErrorCallbackReturns, Disconnects, NoSearch
  <2> QED BY <2>1, <2>2, <2>3, <2>4, <2>5 DEF Next
<1> QED BY <1>1, <1>2, PTL DEF Spec

\* And the other way round: where no error is under way there is a request
\* whenever there is a search, but for a statistics search that was committed.
THEOREM SearchHasRequest == Spec => []NoEmptySearch
<1> USE DEF NoEmptySearch, TypeOK
<1>1. Init => NoEmptySearch
  BY DEF Init
<1>2. TypeOK /\ NoEmptySearch /\ [Next]_vars => NoEmptySearch'
  <2> SUFFICES ASSUME TypeOK, NoEmptySearch, [Next]_vars PROVE NoEmptySearch'
    OBVIOUS
  <2>1. ASSUME NEW kind \in Kinds, NEW field \in Fields, SearchStart(kind, field)
        PROVE  NoEmptySearch'
    <3>1. CASE request = None /\ request' = Started(kind, field)
      BY <3>1, StartedType, SearchAssumption
    <3>2. CASE Fails
      BY <3>2, SearchAssumption DEF Fails
    <3> QED BY <2>1, <3>1, <3>2 DEF SearchStart
  <2>2. ASSUME NEW field \in Fields, SearchAddConstraint(field)
        PROVE  NoEmptySearch'
    <3>1. CASE request # None /\ request' = [request EXCEPT !.constraints = Append(@, field)]
      <4>1. Append(request.constraints, field) \in Seq(Fields)
        BY <3>1, AppendProperties DEF Requests
      <4>2. request' \in Requests
        BY <3>1, <4>1 DEF Requests
      <4> QED BY <4>2, SearchAssumption
    <3>2. CASE Fails
      BY <3>2, SearchAssumption DEF Fails
    <3> QED BY <2>2, <3>1, <3>2 DEF SearchAddConstraint
  <2>3. CASE SearchCommit \/ PlaylistSearchCommit \/ SearchStatsCommit
    BY <2>3 DEF SearchCommit, PlaylistSearchCommit, SearchStatsCommit, CommitSearch, TypeAfterCommit
  <2>4. CASE Connect \/ LockTaken \/ LockReleased \/ UNCHANGED vars
    BY <2>4 DEF Connect, LockTaken, LockReleased, vars
  <2>5. CASE Disconnect \/ ErrorCallbackReturns
    BY <2>5 DEF Disconnect, ErrorCallbackReturns, Disconnects, NoSearch
  <2> QED BY <2>1, <2>2, <2>3, <2>4, <2>5 DEF Next
<1> QED BY <1>1, <1>2, TypeCorrect, PTL DEF Spec

=============================================================================
