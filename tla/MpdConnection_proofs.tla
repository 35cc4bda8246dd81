------------------------- MODULE MpdConnection_proofs -------------------------
(***************************************************************************)
(* Proofs about MpdConnection: type correctness, and that a reply line is  *)
(* never taken for the answer to another command before the client has     *)
(* given one up.                                                           *)
(***************************************************************************)
EXTENDS MpdConnection, SequenceTheorems, TLAPS

\* The sets a step picks its values from.
LEMMA Kinds ==
  /\ "command" \in LineKinds /\ "garbled" \in LineKinds /\ "end" \in LineKinds
  /\ "begin" \in LineKinds /\ "begin_ok" \in LineKinds
  /\ "command" \notin NotAnswered /\ "end" \notin NotAnswered
  /\ SendErrors \subseteq Errors /\ OpenErrors \subseteq Errors
  /\ {"NONE", "LOCAL", "ACK", "CONNCLOSED", "BUFFEROVERRUN", "TIMEOUT"} \subseteq Errors
  BY DEF LineKinds, NotAnswered, Errors, SendErrors, OpenErrors

\* A command line, torn or not, is one of the lines the wire carries.
LEMMA SendType ==
  ASSUME NEW kind \in {"command", "begin", "begin_ok", "end"}, TypeOK, Send(kind)
  PROVE  wire' \in Seq(Requests)
<1> DEFINE k == IF torn THEN "garbled" ELSE kind
<1>1. k \in LineKinds
  BY Kinds
<1>2. Item(k, current + 1) \in Requests
  BY <1>1 DEF Item, TypeOK, ClientTypes, ServerTypes, Requests
<1>3. wire' = Append(wire, Item(k, current + 1)) \/ wire' = wire
  BY DEF Send
<1> HIDE DEF k
<1> QED BY <1>2, <1>3 DEF TypeOK, ClientTypes, ServerTypes

\* mpd_executeCommand keeps the types, whatever it is called with.
LEMMA ExecuteType ==
  ASSUME NEW kind \in {"command", "begin", "end"}, NEW mode \in Modes,
         TypeOK, ExecuteCommand(kind, mode, listOks), commandList' \in Modes
  PROVE  TypeOK'
<1> USE Kinds
<1>1. CASE /\ ~MayExecute(mode)
           /\ error' = "LOCAL"
           /\ listOks' = listOks
           /\ UNCHANGED <<doneProcessing, wire, torn, history>>
  BY <1>1 DEF ExecuteCommand, TypeOK, ClientTypes, ServerTypes, history
<1>2. CASE /\ MayExecute(mode)
           /\ Send(kind)
           /\ error' = "NONE"
           /\ doneProcessing' = (doneProcessing /\ mode # "NONE")
           /\ listOks' = ListOksAfter(mode, listOks)
  <2>1. wire' \in Seq(Requests)
    BY <1>2, SendType
  <2>2. listOks' \in Nat
    BY <1>2 DEF ListOksAfter, TypeOK, ClientTypes, ServerTypes
  <2>3. doneProcessing' \in BOOLEAN
    BY <1>2, Zenon
  <2>4. ClientTypes'
    BY <1>2, <2>2, <2>3 DEF ExecuteCommand, TypeOK, ClientTypes
  <2>5. ServerTypes'
    BY <1>2, <2>1 DEF ExecuteCommand, Send, TypeOK, ServerTypes
  <2> QED BY <1>2, <2>4, <2>5 DEF Send, TypeOK, ClientTypes, ServerTypes
<1>3. CASE /\ SendFails
           /\ error' \in SendErrors
           /\ listOks' = listOks
           /\ UNCHANGED doneProcessing
  BY <1>3 DEF ExecuteCommand, SendFails, TypeOK, ClientTypes, ServerTypes
<1> QED BY <1>1, <1>2, <1>3 DEF ExecuteCommand

\* mpd_getNextReturnElement keeps the types.
LEMMA GetNextType ==
  ASSUME NEW dlo \in BOOLEAN, TypeOK, GetNextReturnElement(dlo)
  PROVE  TypeOK'
<1> USE Kinds
<1>1. CASE ReadLine(dlo)
  <2>1. stream' \in Seq(Lines)
    BY <1>1 DEF ReadLine, TypeOK, ClientTypes, ServerTypes
  <2>2. listOks' \in Nat
    BY <1>1 DEF ReadLine, ExpectsListOk, TypeOK, ClientTypes, ServerTypes
  <2>3. error' \in Errors /\ doneListOk' \in BOOLEAN
    BY <1>1 DEF ReadLine, TypeOK, ClientTypes, ServerTypes
  <2> QED BY <1>1, <2>1, <2>2, <2>3
       DEF GetNextReturnElement, ReadLine, NewElement, EndsReply, TypeOK, ClientTypes, ServerTypes
<1>2. CASE \E e \in {"BUFFEROVERRUN", "CONNCLOSED", "TIMEOUT"} : GiveUp(e) /\ abandoned' \in BOOLEAN
  BY <1>2 DEF GetNextReturnElement, GiveUp, TypeOK, ClientTypes, ServerTypes
<1> QED BY <1>1, <1>2 DEF GetNextReturnElement, TypeOK, ClientTypes, ServerTypes

\* The server appends lines of the kinds it knows.
LEMMA ReplyType ==
  ASSUME NEW kind \in Unfinished \cup Terminators, TypeOK, wire # <<>>, Reply(kind)
  PROVE  stream' \in Seq(Lines)
<1>1. Head(wire) \in Requests
  BY DEF TypeOK, ClientTypes, ServerTypes
<1>2. Item(kind, Head(wire).of) \in Lines
  BY <1>1 DEF Requests, Lines, Item
<1> QED BY <1>2 DEF Reply, TypeOK, ClientTypes, ServerTypes

\* The empty sequence is a sequence of anything.
LEMMA EmptySequence == ASSUME NEW S PROVE <<>> \in Seq(S)
  OBVIOUS

\* A connection just made, or none, has its types.
LEMMA FreshType ==
  ASSUME NEW done \in BOOLEAN, NEW err \in Errors, NEW alive \in BOOLEAN,
         Fresh(done, err, alive), open' \in BOOLEAN
  PROVE  TypeOK'
<1>1. ClientTypes'
  BY DEF Fresh, ClientTypes, Modes
<1>2. ServerTypes'
  <2>1. wire' \in Seq(Requests) /\ stream' \in Seq(Lines)
    BY EmptySequence, Zenon DEF Fresh
  <2> QED BY <2>1 DEF Fresh, ServerTypes, Modes
<1> QED BY <1>1, <1>2 DEF Fresh, TypeOK, ClientTypes, ServerTypes

\* Every step keeps the types.
LEMMA TypeStep == TypeOK /\ [Next]_vars => TypeOK'
<1> SUFFICES ASSUME TypeOK, [Next]_vars PROVE TypeOK'
  OBVIOUS
<1> USE Kinds
<1>1. CASE NewConnection
  BY <1>1, FreshType DEF NewConnection
<1>2. CASE CloseConnection
  BY <1>2, FreshType DEF CloseConnection
<1>3. CASE ClearError
  BY <1>3 DEF ClearError, TypeOK, ClientTypes, ServerTypes, server, history
<1>4. CASE SendCommand
  BY <1>4, ExecuteType DEF SendCommand, TypeOK, ClientTypes, ServerTypes
<1>5. CASE SendCommandListBegin
  BY <1>5, ExecuteType DEF SendCommandListBegin, TypeOK, ClientTypes, ServerTypes, Modes
<1>6. CASE SendCommandListOkBegin
  <2>1. wire' \in Seq(Requests)
    BY <1>6, SendType DEF SendCommandListOkBegin, SendFails, TypeOK, ClientTypes, ServerTypes
  <2>2. commandList' \in Modes
    BY <1>6 DEF SendCommandListOkBegin, Modes
  <2>3. ClientTypes'
    BY <1>6, <2>2 DEF SendCommandListOkBegin, TypeOK, ClientTypes
  <2>4. ServerTypes'
    BY <1>6, <2>1 DEF SendCommandListOkBegin, Send, SendFails, TypeOK, ServerTypes
  <2>5. current' \in Nat /\ abandoned' \in BOOLEAN
    <3>1. CASE Send("begin_ok")
      BY <3>1 DEF Send, TypeOK
    <3>2. CASE SendFails
      BY <3>2 DEF SendFails, TypeOK
    <3> QED BY <1>6, <3>1, <3>2 DEF SendCommandListOkBegin
  <2> QED BY <2>3, <2>4, <2>5 DEF TypeOK
<1>7. CASE SendCommandListEnd
  BY <1>7, ExecuteType DEF SendCommandListEnd, TypeOK, ClientTypes, ServerTypes, Modes
<1>8. CASE RefuseList
  BY <1>8 DEF RefuseList, TypeOK, ClientTypes, ServerTypes, server, history
<1>9. CASE GetNext
  BY <1>9, GetNextType DEF GetNext, TypeOK, ClientTypes, ServerTypes
<1>10. CASE FinishCommand
  BY <1>10, GetNextType DEF FinishCommand
<1>11. CASE NextListOkCommand
  BY <1>11 DEF NextListOkCommand, TypeOK, ClientTypes, ServerTypes, server, history
<1>12. CASE ServerCollects
  <2>1. serverList' \in Modes /\ collected' \in Nat
    BY <1>12 DEF ServerCollects, TypeOK, ClientTypes, ServerTypes, Modes
  <2>2. wire' \in Seq(Requests)
    BY <1>12 DEF ServerCollects, TypeOK, ClientTypes, ServerTypes
  <2> QED BY <1>12, <2>1, <2>2 DEF ServerCollects, TypeOK, ClientTypes, ServerTypes, client, history
<1>13. CASE ServerLine
  <2>1. PICK kind \in Unfinished : Reply(kind)
    BY <1>13 DEF ServerLine
  <2>2. stream' \in Seq(Lines)
    BY <1>13, <2>1, ReplyType DEF ServerLine
  <2> QED BY <1>13, <2>2 DEF ServerLine, TypeOK, ClientTypes, ServerTypes, client, history
<1>14. CASE ServerListOk
  <2>1. stream' \in Seq(Lines)
    BY <1>14, ReplyType DEF ServerListOk, Unfinished
  <2> QED BY <1>14, <2>1 DEF ServerListOk, TypeOK, ClientTypes, ServerTypes, client, history
<1>15. CASE ServerEndsReply
  <2>1. PICK kind \in Terminators : Reply(kind)
    BY <1>15 DEF ServerEndsReply
  <2>2. stream' \in Seq(Lines)
    BY <1>15, <2>1, ReplyType DEF ServerEndsReply
  <2>3. wire' \in Seq(Requests)
    BY <1>15 DEF ServerEndsReply, TypeOK, ClientTypes, ServerTypes
  <2> QED BY <1>15, <2>2, <2>3 DEF ServerEndsReply, TypeOK, ClientTypes, ServerTypes, client, history, Modes
<1>16. CASE PeerCloses
  <2>1. stream' \in Seq(Lines)
    BY <1>16 DEF PeerCloses, TypeOK, ClientTypes, ServerTypes
  <2>2. ClientTypes'
    BY <1>16 DEF PeerCloses, TypeOK, ClientTypes, client
  <2>3. ServerTypes'
    <3>1. wire' \in Seq(Requests)
      BY <1>16, EmptySequence, Zenon DEF PeerCloses
    <3> QED BY <1>16, <2>1, <3>1 DEF PeerCloses, ServerTypes, Modes
  <2> QED BY <1>16, <2>2, <2>3 DEF PeerCloses, TypeOK, ClientTypes, ServerTypes, history
<1>17. CASE UNCHANGED vars
  BY <1>17 DEF vars, client, server, history, TypeOK, ClientTypes, ServerTypes
<1> QED BY <1>1, <1>2, <1>3, <1>4, <1>5, <1>6, <1>7, <1>8, <1>9, <1>10, <1>11,
        <1>12, <1>13, <1>14, <1>15, <1>16, <1>17 DEF Next, Client, Server

\* Before the first connection the types hold.
LEMMA InitType == Init => TypeOK
<1> SUFFICES ASSUME Init PROVE TypeOK
  OBVIOUS
<1>1. ClientTypes
  BY Kinds DEF Init, ClientTypes, Modes
<1>2. ServerTypes
  <2>1. wire \in Seq(Requests) /\ stream \in Seq(Lines)
    BY EmptySequence, Zenon DEF Init
  <2> QED BY <2>1 DEF Init, ServerTypes, Modes
<1> QED BY <1>1, <1>2 DEF Init, TypeOK, ClientTypes, ServerTypes

\* The fields of a connection, its socket and its server always have their types.
THEOREM TypeCorrect == Spec => []TypeOK
<1>1. Init => TypeOK
  BY InitType
<1> QED BY <1>1, TypeStep, PTL DEF Spec

-----------------------------------------------------------------------------

\* With no reply pending, no line of one is waiting.
LEMMA NoLineWhenDone ==
  ASSUME TypeOK, Aligned, doneProcessing, ~abandoned
  PROVE  stream = <<>>
<1>1. stream # <<>> => 1 \in DOMAIN stream
  BY DEF TypeOK, ServerTypes
<1> QED BY <1>1 DEF Aligned

\* A line that is sent goes behind the others, under the next number.
LEMMA SendEffect ==
  ASSUME NEW kind \in {"command", "begin", "begin_ok", "end"}, TypeOK, ~torn, peer, Send(kind)
  PROVE  /\ Len(wire') = Len(wire) + 1
         /\ wire' # <<>>
         /\ \A i \in DOMAIN wire : wire'[i] = wire[i]
         /\ wire'[Len(wire) + 1].kind = kind
         /\ wire'[Len(wire) + 1].of = current'
<1>1. Item(kind, current + 1) \in Requests
  BY Kinds DEF Item, Requests, TypeOK
<1>2. wire' = Append(wire, Item(kind, current + 1))
  BY Zenon DEF Send
<1>3. wire \in Seq(Requests)
  BY DEF TypeOK, ServerTypes
<1>4. current' = current + 1
  BY DEF Send
<1>5. Item(kind, current + 1).kind = kind /\ Item(kind, current + 1).of = current + 1
  BY DEF Item
<1> QED BY <1>1, <1>2, <1>3, <1>4, <1>5, AppendProperties

\* A send that fails gives up everything the invariant says of replies.
LEMMA SendFailsInv ==
  ASSUME IInv, TypeOK', SendFails, NotReadingInList', UNCHANGED <<peer, serverList>>
  PROVE  IInv'
  BY DEF IInv, SendFails, Aligned, NothingOwed, NotReadingInList, NoTornLine, TerminatorLast,
         NothingAtClosedPeer, ListOnWire, RequestOnWire, TypeOK, ServerTypes

\* A step that leaves the reply and the wire alone preserves everything.
LEMMA UnchangedInv ==
  ASSUME IInv, TypeOK', UNCHANGED <<doneProcessing, commandList, peer, wire, torn, serverList, stream, current, abandoned>>
  PROVE  IInv'
  BY DEF IInv, Aligned, NothingOwed, NotReadingInList, NoTornLine, TerminatorLast,
         NothingAtClosedPeer, ListOnWire, RequestOnWire

\* A connection just made, or closed, has nothing on the wire.
LEMMA FreshInv ==
  ASSUME NEW done \in BOOLEAN, NEW err, NEW alive \in BOOLEAN,
         Fresh(done, err, alive), TypeOK'
  PROVE  IInv'
<1>1. wire' = <<>> /\ stream' = <<>> /\ serverList' = "NONE" /\ commandList' = "NONE" /\ torn' = FALSE
  BY DEF Fresh
<1>2. Aligned' /\ TerminatorLast'
  BY <1>1 DEF Aligned, TerminatorLast
<1> QED BY <1>1, <1>2 DEF IInv, NothingOwed, NotReadingInList, NoTornLine,
        NothingAtClosedPeer, ListOnWire, RequestOnWire

\* A command outside a list is alone on the wire.
LEMMA SendCommandInv == ASSUME IInv, TypeOK', SendCommand PROVE IInv'
<1>1. CASE ~MayExecute(commandList)
  BY <1>1, UnchangedInv DEF SendCommand, ExecuteCommand, history
<1>2. CASE SendFails /\ UNCHANGED doneProcessing
  BY <1>2, SendFailsInv DEF SendCommand, ExecuteCommand, IInv, NotReadingInList
<1>3. CASE /\ MayExecute(commandList)
           /\ Send("command")
           /\ doneProcessing' = (doneProcessing /\ commandList # "NONE")
  <2>1. doneProcessing /\ UNCHANGED <<commandList, peer, serverList, stream, abandoned>> /\ ~torn'
    BY <1>3 DEF MayExecute, IInv, NotReadingInList, SendCommand, ExecuteCommand, Send
  <2>2. ~abandoned => stream = <<>>
    BY <2>1, NoLineWhenDone DEF IInv
  <2>3. Aligned' /\ TerminatorLast'
    BY <2>1, <2>2 DEF Aligned, TerminatorLast
  <2>4. NothingAtClosedPeer' /\ NoTornLine' /\ NotReadingInList'
    BY <1>3, <2>1 DEF IInv, NothingAtClosedPeer, NoTornLine, NotReadingInList, Send
  <2>5. NothingOwed'
    BY <1>3, <2>1 DEF NothingOwed
  <2>6. ListOnWire'
    <3> SUFFICES ASSUME ~abandoned, commandList # "NONE", peer
                 PROVE  ListOnWire'
      BY <2>1 DEF ListOnWire
    <3>1. ListOnWire /\ ~torn
      BY DEF IInv, NoTornLine
    <3>2. /\ Len(wire') = Len(wire) + 1
          /\ wire' # <<>>
          /\ \A i \in DOMAIN wire : wire'[i] = wire[i]
          /\ wire'[Len(wire) + 1].kind = "command"
      BY <1>3, <3>1, SendEffect DEF IInv
    <3>3. DOMAIN wire = 1..Len(wire) /\ DOMAIN wire' = 1..(Len(wire) + 1) /\ Len(wire) \in Nat
      BY <3>2 DEF IInv, TypeOK, ServerTypes
    <3>4. serverList = "NONE" => 1 \in DOMAIN wire
      BY <3>1, <2>1, <3>3 DEF ListOnWire, IInv, TypeOK, ServerTypes
    <3> QED BY <2>1, <3>1, <3>2, <3>3, <3>4 DEF ListOnWire
  <2>7. RequestOnWire'
    <3> SUFFICES ASSUME ~abandoned, commandList = "NONE", peer
                 PROVE  RequestOnWire'
      <4>1. commandList # "NONE" => doneProcessing'
        BY <1>3, <2>1
      <4>2. ~peer => wire' = <<>>
        BY <1>3 DEF IInv, NothingAtClosedPeer, Send
      <4> QED BY <2>1, <4>1, <4>2 DEF RequestOnWire
    <3>1. wire = <<>> /\ serverList = "NONE" /\ ~torn
      BY <2>1 DEF IInv, NothingOwed, NoTornLine
    <3>2. Len(wire') = 1 /\ wire'[1].kind = "command" /\ wire'[1].of = current'
      BY <1>3, <3>1, SendEffect DEF IInv
    <3> QED BY <2>1, <3>1, <3>2 DEF RequestOnWire
  <2> QED BY <2>3, <2>4, <2>5, <2>6, <2>7 DEF IInv
<1> QED BY <1>1, <1>2, <1>3 DEF SendCommand, ExecuteCommand

\* The beginning of a list, of either kind, is alone on the wire.
LEMMA BeginInv ==
  ASSUME NEW kind \in NotAnswered, IInv, TypeOK',
         doneProcessing, commandList = "NONE", doneProcessing', commandList' # "NONE",
         UNCHANGED <<peer, serverList, stream>>, Send(kind) \/ SendFails
  PROVE  IInv'
<1>1. CASE SendFails
  BY <1>1, SendFailsInv DEF NotReadingInList
<1>2. CASE Send(kind)
  <2>1. UNCHANGED abandoned /\ ~torn'
    BY <1>2 DEF Send
  <2>2. ~abandoned => stream = <<>>
    BY NoLineWhenDone DEF IInv
  <2>3. Aligned' /\ TerminatorLast'
    BY <2>1, <2>2 DEF Aligned, TerminatorLast
  <2>4. NothingAtClosedPeer' /\ NoTornLine' /\ NotReadingInList' /\ NothingOwed'
    BY <1>2, <2>1 DEF IInv, NothingAtClosedPeer, NoTornLine, NotReadingInList, NothingOwed, Send
  <2>5. ListOnWire'
    <3> SUFFICES ASSUME ~abandoned, peer
                 PROVE  ListOnWire'
      BY <2>1 DEF ListOnWire
    <3>1. wire = <<>> /\ serverList = "NONE" /\ ~torn
      BY DEF IInv, NothingOwed, NoTornLine
    <3>2. wire' # <<>> /\ Len(wire') = 1 /\ wire'[1].kind = kind
      BY <1>2, <3>1, SendEffect DEF IInv, NotAnswered
    <3>3. DOMAIN wire' = 1..1
      BY <3>2 DEF TypeOK, ServerTypes
    <3> QED BY <3>1, <3>2, <3>3 DEF ListOnWire
  <2>6. RequestOnWire'
    BY DEF RequestOnWire
  <2> QED BY <2>3, <2>4, <2>5, <2>6 DEF IInv
<1> QED BY <1>1, <1>2

\* A list that is begun is a line sent, a send that failed, or neither.
LEMMA SendCommandListBeginInv == ASSUME BeginsWhenDone, IInv, TypeOK', SendCommandListBegin PROVE IInv'
<1>1. doneProcessing'
  BY DEF SendCommandListBegin, MayBegin, ExecuteCommand, MayExecute
<1>2. Send("begin") \/ SendFails
  BY DEF SendCommandListBegin, MayBegin, ExecuteCommand, MayExecute
<1> QED BY <1>1, <1>2, BeginInv DEF SendCommandListBegin, MayBegin, ExecuteCommand, NotAnswered

\* The other kind of list begins in the same way.
LEMMA SendCommandListOkBeginInv == ASSUME BeginsWhenDone, IInv, TypeOK', SendCommandListOkBegin PROVE IInv'
  BY BeginInv DEF SendCommandListOkBegin, MayBegin, NotAnswered

\* The end of a list is the line the server answers, and the last one sent.
LEMMA SendCommandListEndInv == ASSUME IInv, TypeOK', SendCommandListEnd PROVE IInv'
<1>0. doneProcessing /\ commandList # "NONE" /\ commandList' = "NONE"
  BY DEF SendCommandListEnd, IInv, NotReadingInList
<1>1. UNCHANGED <<peer, serverList, stream>>
  BY DEF SendCommandListEnd, ExecuteCommand
<1>2. CASE SendFails
  BY <1>0, <1>1, <1>2, SendFailsInv DEF NotReadingInList
<1>3. CASE Send("end") /\ doneProcessing' = (doneProcessing /\ "NONE" # "NONE")
  <2>1. UNCHANGED abandoned /\ ~torn' /\ ~doneProcessing'
    BY <1>3 DEF Send
  <2>2. ~abandoned => stream = <<>>
    BY <1>0, NoLineWhenDone DEF IInv
  <2>3. Aligned' /\ TerminatorLast'
    BY <1>1, <2>1, <2>2 DEF Aligned, TerminatorLast
  <2>4. NothingAtClosedPeer' /\ NoTornLine' /\ NotReadingInList' /\ NothingOwed' /\ ListOnWire'
    BY <1>0, <1>1, <1>3, <2>1
       DEF IInv, NothingAtClosedPeer, NoTornLine, NotReadingInList, NothingOwed, ListOnWire, Send
  <2>5. RequestOnWire'
    <3>1. CASE ~peer
      <4>1. wire' = <<>>
        BY <1>3, <3>1 DEF IInv, NothingAtClosedPeer, Send
      <4> QED BY <4>1 DEF RequestOnWire
    <3>2. CASE abandoned
      BY <2>1, <3>2 DEF RequestOnWire
    <3>3. CASE peer /\ ~abandoned
      <4>1. ListOnWire /\ ~torn
        BY <3>3 DEF IInv, NoTornLine
      <4>2. /\ Len(wire') = Len(wire) + 1
            /\ \A i \in DOMAIN wire : wire'[i] = wire[i]
            /\ wire'[Len(wire) + 1].kind = "end"
            /\ wire'[Len(wire) + 1].of = current'
        BY <1>3, <3>3, <4>1, SendEffect DEF IInv
      <4>3. DOMAIN wire = 1..Len(wire) /\ DOMAIN wire' = 1..(Len(wire) + 1) /\ Len(wire) \in Nat
        BY <4>2 DEF IInv, TypeOK, ServerTypes
      <4>4. serverList = "NONE" => Len(wire) > 0 /\ 1 \in DOMAIN wire
        BY <1>0, <3>3, <4>1, <4>3 DEF ListOnWire, IInv, TypeOK, ServerTypes
      <4>5. CASE serverList # "NONE"
        BY <1>0, <1>1, <3>3, <4>1, <4>2, <4>3, <4>5 DEF ListOnWire, RequestOnWire
      <4>6. CASE serverList = "NONE"
        BY <1>0, <1>1, <3>3, <4>1, <4>2, <4>3, <4>4, <4>6 DEF ListOnWire, RequestOnWire
      <4> QED BY <4>5, <4>6
    <3> QED BY <3>1, <3>2, <3>3
  <2> QED BY <2>3, <2>4, <2>5 DEF IInv
<1> QED BY <1>0, <1>2, <1>3 DEF SendCommandListEnd, ExecuteCommand, MayExecute

\* Reading takes the first line away; the terminator, being the last, leaves
\* nothing of the reply.
LEMMA ReadInv ==
  ASSUME NEW dlo \in BOOLEAN, IInv, TypeOK', ~doneProcessing, GetNextReturnElement(dlo)
  PROVE  IInv'
<1>1. UNCHANGED <<commandList, peer, wire, torn, serverList, current>>
  BY DEF GetNextReturnElement
<1>2. commandList = "NONE"
  BY DEF IInv, NotReadingInList
<1>3. CASE abandoned' = TRUE
  BY <1>1, <1>2, <1>3 DEF IInv, Aligned, NothingOwed, NotReadingInList, NoTornLine,
     TerminatorLast, NothingAtClosedPeer, ListOnWire, RequestOnWire
<1>4. CASE stream = <<>> /\ ~peer /\ GiveUp("CONNCLOSED") /\ UNCHANGED abandoned
  BY <1>1, <1>2, <1>4 DEF GiveUp, IInv, Aligned, NothingOwed, NotReadingInList, NoTornLine,
     TerminatorLast, NothingAtClosedPeer, ListOnWire, RequestOnWire
<1>5. CASE ReadLine(dlo)
  <2>1. stream # <<>> /\ stream' = Tail(stream) /\ UNCHANGED abandoned
    BY <1>5 DEF ReadLine
  <2>2. doneProcessing' <=> Head(stream).kind \in Terminators
    BY <1>5 DEF ReadLine, EndsReply, Terminators
  <2>3. /\ stream \in Seq(Lines)
        /\ DOMAIN stream = 1..Len(stream)
        /\ DOMAIN stream' = 1..(Len(stream) - 1)
        /\ Len(stream) \in Nat /\ Len(stream') = Len(stream) - 1
        /\ \A i \in DOMAIN stream' : stream'[i] = stream[i + 1] /\ i + 1 \in DOMAIN stream
        /\ 1 \in DOMAIN stream /\ Head(stream) = stream[1]
    BY <2>1 DEF IInv, TypeOK, ServerTypes
  <2>4. doneProcessing' /\ ~abandoned =>
          stream' = <<>> /\ wire = <<>> /\ serverList = "NONE"
    BY <2>1, <2>2, <2>3 DEF IInv, TerminatorLast, TypeOK, ServerTypes
  <2>5. Aligned'
    BY <1>1, <2>1, <2>3, <2>4 DEF IInv, Aligned
  <2>6. TerminatorLast'
    BY <1>1, <2>1, <2>3 DEF IInv, TerminatorLast
  <2>7. NothingOwed' /\ ListOnWire' /\ NotReadingInList'
    BY <1>1, <1>2, <2>1, <2>4 DEF NothingOwed, ListOnWire, NotReadingInList
  <2>8. NoTornLine' /\ NothingAtClosedPeer' /\ RequestOnWire'
    BY <1>1, <2>1 DEF IInv, NoTornLine, NothingAtClosedPeer, RequestOnWire
  <2> QED BY <2>5, <2>6, <2>7, <2>8 DEF IInv
<1> QED BY <1>3, <1>4, <1>5 DEF GetNextReturnElement

\* The server answers one command only: the last one sent.
LEMMA AnswersLast ==
  ASSUME IInv, ~abandoned, wire # <<>>, Answers
  PROVE  ~doneProcessing /\ Len(wire) = 1 /\ Head(wire).of = current
<1>1. /\ 1 \in DOMAIN wire /\ Head(wire) = wire[1]
      /\ DOMAIN wire = 1..Len(wire) /\ Len(wire) \in Nat /\ Len(wire) > 0
  BY DEF IInv, TypeOK, ServerTypes
<1>2. ~doneProcessing
  <2> SUFFICES ASSUME doneProcessing PROVE FALSE
    OBVIOUS
  <2>1. commandList # "NONE" /\ peer
    BY DEF IInv, NothingOwed, NothingAtClosedPeer
  <2>2. ListOnWire
    BY DEF IInv
  <2> QED BY <1>1, <2>1, <2>2 DEF ListOnWire, Answers, Begins, Collects
<1>3. RequestOnWire
  BY DEF IInv
<1> QED BY <1>1, <1>2, <1>3 DEF RequestOnWire, Answers, Begins, Collects, NotAnswered

\* What the server collects leaves the end of the list on the wire.
LEMMA ServerCollectsInv == ASSUME IInv, TypeOK', ServerCollects PROVE IInv'
<1>1. wire # <<>> /\ wire' = Tail(wire) /\ UNCHANGED <<client, history, peer, torn, stream>>
  BY DEF ServerCollects
<1>2. UNCHANGED <<doneProcessing, commandList, current, abandoned>>
  BY <1>1 DEF client, history
<1>3. serverList' # "NONE"
  BY DEF ServerCollects, Collects
<1>4. /\ DOMAIN wire = 1..Len(wire) /\ Len(wire) \in Nat /\ Len(wire) > 0
      /\ DOMAIN wire' = 1..(Len(wire) - 1) /\ Len(wire') = Len(wire) - 1
      /\ \A i \in DOMAIN wire' : wire'[i] = wire[i + 1] /\ i + 1 \in DOMAIN wire
      /\ Head(wire) = wire[1]
  BY <1>1 DEF IInv, TypeOK, ServerTypes
<1>5. peer
  BY <1>1 DEF IInv, NothingAtClosedPeer
<1>6. Aligned' /\ NotReadingInList' /\ NoTornLine' /\ NothingAtClosedPeer'
  BY <1>1, <1>2, <1>5 DEF IInv, Aligned, NotReadingInList, NoTornLine, NothingAtClosedPeer
<1>7. NothingOwed' /\ TerminatorLast'
  BY <1>1, <1>2 DEF IInv, NothingOwed, TerminatorLast
<1>8. ListOnWire'
  BY <1>1, <1>2, <1>3, <1>4, <1>5 DEF IInv, ListOnWire
<1>9. RequestOnWire'
  <2> SUFFICES ASSUME ~doneProcessing, ~abandoned, wire' # <<>>
               PROVE  RequestOnWire'
    BY <1>2 DEF RequestOnWire
  <2>1. RequestOnWire
    BY DEF IInv
  <2>2. Len(wire) > 1
    BY <1>1, <1>4 DEF IInv, TypeOK, ServerTypes
  <2>3. wire'[Len(wire')] = wire[Len(wire)]
    BY <1>4, <2>2
  <2> QED BY <1>1, <1>2, <1>3, <1>4, <2>1, <2>2, <2>3 DEF RequestOnWire
<1> QED BY <1>6, <1>7, <1>8, <1>9 DEF IInv

\* A line of a reply is numbered like the command it answers.
LEMMA ReplyInv ==
  ASSUME NEW kind \in Unfinished \cup Terminators, IInv, wire # <<>>, Answers, Reply(kind), ~abandoned
  PROVE  /\ \A i \in DOMAIN stream' : stream'[i].of = current
         /\ \A i \in DOMAIN stream' : stream'[i].kind \in Terminators =>
              i = Len(stream') /\ kind \in Terminators
<1>1. Head(wire).of = current /\ ~doneProcessing
  BY AnswersLast
<1>2. Item(kind, current) \in Lines /\ Item(kind, current).of = current /\ Item(kind, current).kind = kind
  BY DEF Item, Lines, IInv, TypeOK
<1>3. stream \in Seq(Lines) /\ stream' = Append(stream, Item(kind, current))
  BY <1>1 DEF Reply, IInv, TypeOK, ServerTypes
<1>4. /\ Len(stream') = Len(stream) + 1 /\ Len(stream) \in Nat
      /\ DOMAIN stream = 1..Len(stream) /\ DOMAIN stream' = 1..(Len(stream) + 1)
      /\ \A i \in 1..Len(stream) : stream'[i] = stream[i]
      /\ stream'[Len(stream) + 1] = Item(kind, current)
  BY <1>2, <1>3, AppendProperties
<1>5. \A i \in DOMAIN stream : stream[i].of = current /\ stream[i].kind \notin Terminators
  BY DEF IInv, Aligned, TerminatorLast
<1> QED BY <1>2, <1>4, <1>5

\* A line before the terminator changes nothing but the stream.
LEMMA ServerLineInv ==
  ASSUME IInv, TypeOK', NEW kind \in Unfinished, wire # <<>>, Answers, Reply(kind),
         UNCHANGED <<client, history, peer, wire, torn, serverList>>
  PROVE  IInv'
<1>1. UNCHANGED <<doneProcessing, commandList, current, abandoned>>
  BY DEF client, history
<1>2. kind \notin Terminators
  BY DEF Unfinished, Terminators
<1>3. Aligned' /\ TerminatorLast'
  BY <1>1, <1>2, ReplyInv, AnswersLast DEF Aligned, TerminatorLast
<1>4. NothingOwed' /\ NotReadingInList' /\ NoTornLine' /\ NothingAtClosedPeer'
  BY <1>1 DEF IInv, NothingOwed, NotReadingInList, NoTornLine, NothingAtClosedPeer
<1>5. ListOnWire' /\ RequestOnWire'
  BY <1>1 DEF IInv, ListOnWire, RequestOnWire
<1> QED BY <1>3, <1>4, <1>5 DEF IInv

\* The terminator takes the command off the wire with it.
LEMMA ServerEndsReplyInv == ASSUME IInv, TypeOK', ServerEndsReply PROVE IInv'
<1>1. PICK kind \in Terminators : Reply(kind)
  BY DEF ServerEndsReply
<1>2. /\ wire # <<>> /\ Answers /\ wire' = Tail(wire) /\ serverList' = "NONE"
      /\ UNCHANGED <<doneProcessing, commandList, current, abandoned, peer, torn>>
  BY DEF ServerEndsReply, client, history
<1>3. ~abandoned => wire' = <<>> /\ ~doneProcessing
  BY <1>2, AnswersLast DEF IInv, TypeOK, ServerTypes
<1>4. Aligned' /\ TerminatorLast'
  BY <1>1, <1>2, <1>3, ReplyInv DEF Aligned, TerminatorLast
<1>5. peer
  BY <1>2 DEF IInv, NothingAtClosedPeer
<1>6. NotReadingInList' /\ NoTornLine' /\ NothingAtClosedPeer'
  BY <1>2, <1>5 DEF IInv, NotReadingInList, NoTornLine, NothingAtClosedPeer
<1>7. NothingOwed' /\ ListOnWire' /\ RequestOnWire'
  BY <1>2, <1>3 DEF NothingOwed, ListOnWire, RequestOnWire
<1> QED BY <1>4, <1>6, <1>7 DEF IInv

\* What arrives of a cut reply is a beginning of it.
LEMMA PeerClosesInv == ASSUME IInv, TypeOK', PeerCloses PROVE IInv'
<1>1. /\ peer' = FALSE /\ wire' = <<>> /\ torn' = FALSE /\ serverList' = "NONE"
      /\ UNCHANGED <<doneProcessing, commandList, current, abandoned>>
  BY DEF PeerCloses, client, history
<1>2. PICK n \in 0..Len(stream) : stream' = SubSeq(stream, 1, n)
  BY DEF PeerCloses
<1>3. stream \in Seq(Lines)
  BY DEF IInv, TypeOK, ServerTypes
<1>4. /\ DOMAIN stream = 1..Len(stream) /\ Len(stream') = n /\ DOMAIN stream' = 1..n
      /\ \A i \in 1..n : stream'[i] = stream[i]
  BY <1>2, <1>3
<1>5. Aligned' /\ TerminatorLast'
  BY <1>1, <1>2, <1>3, <1>4 DEF IInv, Aligned, TerminatorLast
<1>6. NothingOwed' /\ NotReadingInList' /\ NoTornLine' /\ NothingAtClosedPeer' /\ ListOnWire' /\ RequestOnWire'
  BY <1>1 DEF IInv, NothingOwed, NotReadingInList, NoTornLine, NothingAtClosedPeer, ListOnWire, RequestOnWire
<1> QED BY <1>5, <1>6 DEF IInv

\* Every step preserves the invariant, if no list begins while a reply is read.
LEMMA InvStep == ASSUME BeginsWhenDone PROVE IInv /\ [Next]_vars => IInv'
<1> SUFFICES ASSUME IInv, [Next]_vars PROVE IInv'
  OBVIOUS
<1>0. TypeOK'
  BY TypeStep DEF IInv
<1>1. CASE NewConnection
  BY <1>0, <1>1, FreshInv DEF NewConnection
<1>2. CASE CloseConnection
  BY <1>0, <1>2, FreshInv DEF CloseConnection
<1>3. CASE ClearError \/ RefuseList \/ NextListOkCommand
  BY <1>0, <1>3, UnchangedInv DEF ClearError, RefuseList, NextListOkCommand, server, history
<1>4. CASE SendCommand
  BY <1>0, <1>4, SendCommandInv
<1>5. CASE SendCommandListBegin
  BY <1>0, <1>5, SendCommandListBeginInv
<1>6. CASE SendCommandListOkBegin
  BY <1>0, <1>6, SendCommandListOkBeginInv
<1>7. CASE SendCommandListEnd
  BY <1>0, <1>7, SendCommandListEndInv
<1>8. CASE GetNext
  BY <1>0, <1>8, ReadInv DEF GetNext, IInv, TypeOK, ClientTypes
<1>9. CASE FinishCommand
  BY <1>0, <1>9, ReadInv DEF FinishCommand
<1>10. CASE ServerCollects
  BY <1>0, <1>10, ServerCollectsInv
<1>11. CASE ServerLine
  BY <1>0, <1>11, ServerLineInv DEF ServerLine
<1>12. CASE ServerListOk
  BY <1>0, <1>12, ServerLineInv DEF ServerListOk, Unfinished
<1>13. CASE ServerEndsReply
  BY <1>0, <1>13, ServerEndsReplyInv
<1>14. CASE PeerCloses
  BY <1>0, <1>14, PeerClosesInv
<1>15. CASE UNCHANGED vars
  BY <1>0, <1>15, UnchangedInv DEF vars, client, server, history
<1> QED BY <1>1, <1>2, <1>3, <1>4, <1>5, <1>6, <1>7, <1>8, <1>9, <1>10, <1>11,
        <1>12, <1>13, <1>14, <1>15 DEF Next, Client, Server

\* Before the first connection there is nothing to be misread.
LEMMA InitInv == Init => IInv
<1>1. Init => TypeOK
  BY InitType
<1> QED BY <1>1 DEF Init, IInv, Aligned, NothingOwed, NotReadingInList, NoTornLine,
   TerminatorLast, NothingAtClosedPeer, ListOnWire, RequestOnWire

\* For any number of commands and any length of reply, and a caller that begins
\* no command list while a reply is pending: until the client gives
\* up on a reply, every line it may read belongs to the command sent last.
THEOREM LinesAligned == ASSUME BeginsWhenDone PROVE Spec => []Aligned
<1>1. IInv => Aligned
  BY DEF IInv
<1> QED BY <1>1, InitInv, InvStep, PTL DEF Spec

\* And a connection that is done with a reply is owed nothing.
THEOREM DoneMeansNothingOwed == ASSUME BeginsWhenDone PROVE Spec => []NothingOwed
<1>1. IInv => NothingOwed
  BY DEF IInv
<1> QED BY <1>1, InitInv, InvStep, PTL DEF Spec

\* A finished reply leaves no element behind for the getters of the next one.
THEOREM NothingLeftOver == Spec => []NoLeftoverElement
<1>1. Init => NoLeftoverElement
  BY DEF Init, NoLeftoverElement
<1>2. TypeOK /\ NoLeftoverElement /\ [Next]_vars => NoLeftoverElement'
  <2> SUFFICES ASSUME TypeOK, NoLeftoverElement, [Next]_vars
               PROVE  NoLeftoverElement'
    OBVIOUS
  <2>1. CASE NewConnection \/ CloseConnection
    BY <2>1 DEF NewConnection, CloseConnection, Fresh, NoLeftoverElement
  <2>2. CASE ClearError \/ RefuseList \/ NextListOkCommand \/ UNCHANGED vars
    BY <2>2 DEF ClearError, RefuseList, NextListOkCommand, vars, client, NoLeftoverElement
  <2>3. ASSUME NEW kind, NEW mode, NEW oks, ExecuteCommand(kind, mode, oks)
        PROVE  NoLeftoverElement'
    BY <2>3 DEF ExecuteCommand, NoLeftoverElement
  <2>4. CASE SendCommand \/ SendCommandListBegin \/ SendCommandListEnd
    BY <2>3, <2>4 DEF SendCommand, SendCommandListBegin, SendCommandListEnd
  <2>5. CASE SendCommandListOkBegin
    BY <2>5 DEF SendCommandListOkBegin, NoLeftoverElement
  <2>6. ASSUME NEW dlo, GetNextReturnElement(dlo)
        PROVE  NoLeftoverElement'
    <3>1. CASE \E e : GiveUp(e)
      BY <3>1 DEF GiveUp, NoLeftoverElement
    <3>2. CASE ReadLine(dlo)
      BY <3>2 DEF ReadLine, NewElement, EndsReply, NoLeftoverElement
    <3> QED BY <2>6, <3>1, <3>2 DEF GetNextReturnElement
  <2>7. CASE GetNext \/ FinishCommand
    BY <2>6, <2>7 DEF GetNext, FinishCommand
  <2>8. CASE Server
    BY <2>8 DEF Server, ServerCollects, ServerLine, ServerListOk, ServerEndsReply, PeerCloses,
       client, NoLeftoverElement
  <2> QED BY <2>1, <2>2, <2>4, <2>5, <2>7, <2>8 DEF Next, Client
<1> QED BY <1>1, <1>2, TypeCorrect, PTL DEF Spec

-----------------------------------------------------------------------------
\* Only lists of the mode COMMAND_LIST_OK make the client expect a list_OK.
NoListOk == listOks = 0 /\ commandList # "COMMAND_LIST_OK"

\* There is nothing to be read before the connection is there.
NothingBeforeOpen == ~open => ~peer /\ wire = <<>> /\ stream = <<>>

\* Only an open connection is written to and read from.
LEMMA NothingBeforeOpenStep == NothingBeforeOpen /\ [Next]_vars => NothingBeforeOpen'
<1> SUFFICES ASSUME NothingBeforeOpen, [Next]_vars PROVE NothingBeforeOpen'
  OBVIOUS
<1> USE DEF NothingBeforeOpen
<1>1. CASE NewConnection \/ CloseConnection
  BY <1>1 DEF NewConnection, CloseConnection, Fresh
<1>2. CASE ClearError \/ RefuseList \/ NextListOkCommand \/ UNCHANGED vars
  BY <1>2 DEF ClearError, RefuseList, NextListOkCommand, vars, client, server
<1>3. CASE SendCommand \/ SendCommandListBegin \/ SendCommandListOkBegin \/ SendCommandListEnd
  BY <1>3 DEF SendCommand, SendCommandListBegin, SendCommandListOkBegin, SendCommandListEnd, ExecuteCommand
<1>4. CASE GetNext \/ FinishCommand
  <2>1. ASSUME NEW dlo, GetNextReturnElement(dlo)
        PROVE  UNCHANGED open
    BY <2>1 DEF GetNextReturnElement
  <2>2. open /\ open' = open
    BY <1>4, <2>1 DEF GetNext, FinishCommand
  <2> QED BY <2>2
<1>5. CASE Server
  BY <1>5 DEF Server, ServerCollects, ServerLine, ServerListOk, ServerEndsReply, PeerCloses, client
<1> QED BY <1>1, <1>2, <1>3, <1>4, <1>5 DEF Next, Client

\* A caller that does without them never expects one.
LEMMA NoListOkStep == ASSUME ~UseListOk PROVE TypeOK /\ NoListOk /\ [Next]_vars => NoListOk'
<1> SUFFICES ASSUME TypeOK, NoListOk, [Next]_vars PROVE NoListOk'
  OBVIOUS
<1> USE DEF NoListOk
<1>1. CASE NewConnection \/ CloseConnection
  BY <1>1 DEF NewConnection, CloseConnection, Fresh
<1>2. CASE ClearError \/ RefuseList \/ SendCommandListOkBegin \/ NextListOkCommand \/ Server \/ UNCHANGED vars
  BY <1>2 DEF ClearError, RefuseList, SendCommandListOkBegin, NextListOkCommand, Server, ServerCollects,
     ServerLine, ServerListOk, ServerEndsReply, PeerCloses, vars, client
<1>3. CASE SendCommand \/ SendCommandListBegin \/ SendCommandListEnd
  BY <1>3 DEF SendCommand, SendCommandListBegin, SendCommandListEnd, ExecuteCommand, ListOksAfter
<1>4. ASSUME NEW dlo, GetNextReturnElement(dlo)
      PROVE  NoListOk'
  BY <1>4 DEF GetNextReturnElement, GiveUp, ReadLine, ExpectsListOk
<1>5. CASE GetNext \/ FinishCommand
  BY <1>4, <1>5 DEF GetNext, FinishCommand
<1> QED BY <1>1, <1>2, <1>3, <1>4, <1>5 DEF Next, Client

\* Without command_list_ok_begin, which libmpd does not use, a reply that ends
\* with OK leaves no error behind.
THEOREM OkLeavesNoError == ASSUME ~UseListOk PROVE Spec => OkMeansNoError
<1>1. Init => NoListOk /\ NothingBeforeOpen
  BY DEF Init, NoListOk, NothingBeforeOpen
<1>2. TypeOK /\ NoListOk /\ NothingBeforeOpen /\ [Next]_vars =>
        [stream # <<>> /\ stream' = Tail(stream) /\ ~abandoned /\ Head(stream).kind = "OK" /\ error = "NONE"
           => error' = "NONE"]_vars
  <2> SUFFICES ASSUME TypeOK, NoListOk, NothingBeforeOpen, Next, stream # <<>>, stream' = Tail(stream),
                      Head(stream).kind = "OK", error = "NONE"
               PROVE  error' = "NONE"
    OBVIOUS
  <2>1. stream' # stream
    BY DEF TypeOK, ServerTypes
  <2>2. CASE NewConnection \/ CloseConnection \/ ClearError \/ RefuseList \/ NextListOkCommand
    BY <2>1, <2>2 DEF NewConnection, CloseConnection, ClearError, RefuseList, NextListOkCommand,
       NothingBeforeOpen, server, Fresh
  <2>3. CASE SendCommand \/ SendCommandListBegin \/ SendCommandListOkBegin \/ SendCommandListEnd
    BY <2>1, <2>3 DEF SendCommand, SendCommandListBegin, SendCommandListOkBegin, SendCommandListEnd, ExecuteCommand
  <2>4. CASE Server
    BY <2>4 DEF Server, ServerCollects, ServerLine, ServerListOk, ServerEndsReply, PeerCloses, client
  <2>5. ASSUME NEW dlo, GetNextReturnElement(dlo)
        PROVE  error' = "NONE"
    BY <2>1, <2>5 DEF GetNextReturnElement, GiveUp, ReadLine, NoListOk
  <2>6. CASE GetNext \/ FinishCommand
    BY <2>5, <2>6 DEF GetNext, FinishCommand
  <2> QED BY <2>2, <2>3, <2>4, <2>6 DEF Next, Client
<1> QED BY <1>1, <1>2, NoListOkStep, NothingBeforeOpenStep, TypeCorrect, PTL DEF Spec, OkMeansNoError

=============================================================================
