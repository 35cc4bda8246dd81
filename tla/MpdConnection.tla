---------------------------- MODULE MpdConnection ----------------------------
(***************************************************************************)
(* The protocol connection of libmpdclient.c: one mpd_Connection, the      *)
(* server at the other end of its socket, and a caller that may use the    *)
(* functions of libmpdclient.h in any order.                               *)
(*                                                                         *)
(* Commands travel to the server on `wire' and reply lines come back on    *)
(* `stream'; both are numbered by the command they belong to, which the    *)
(* code does not do: the program has nothing but the order of the lines to *)
(* tell which command a reply answers.  The numbers, `current' and         *)
(* `abandoned' are history that no action of the client reads.             *)
(***************************************************************************)
EXTENDS Integers, Sequences

CONSTANTS MaxRequests,  \* bound: commands sent on one connection
          MaxElements,  \* bound: lines of a reply before its terminator
          UseListOk,    \* whether the caller uses command_list_ok_begin
          BeginsWhenDone \* whether it begins a list only with no reply pending

ASSUME BoundsAssumption == MaxRequests \in Nat /\ MaxElements \in Nat
ASSUME CallerAssumption == UseListOk \in BOOLEAN /\ BeginsWhenDone \in BOOLEAN

VARIABLES
  open,            \* the mpd_Connection exists
  doneProcessing,  \* no reply is being read
  commandList,     \* the command list mode
  listOks,         \* list_OK lines still expected
  doneListOk,      \* stopped at a list_OK
  error,           \* connection->error
  returnElement,   \* connection->returnElement is not NULL
  peer,            \* the server end of the socket is open
  wire,            \* command lines the server has not taken yet
  torn,            \* the server has the beginning of a line without its end
  serverList,      \* the list the server is collecting
  collected,       \* commands of that list it owes a list_OK for
  emitted,         \* lines of the present reply sent before its terminator
  stream,          \* reply lines the client has not read
  current,         \* number of the last command sent
  abandoned        \* the client stopped waiting, or a send failed half way

client  == <<open, doneProcessing, commandList, listOks, doneListOk, error, returnElement>>
server  == <<peer, wire, torn, serverList, collected, emitted, stream>>
history == <<current, abandoned>>
vars    == <<client, server, history>>

Modes       == {"NONE", "COMMAND_LIST", "COMMAND_LIST_OK"}
NotAnswered == {"begin", "begin_ok"}
LineKinds   == {"command", "garbled", "end"} \cup NotAnswered
Unfinished  == {"element", "colonless", "malformed", "overlong", "list_OK"}
Terminators == {"OK", "ACK"}
SendErrors  == {"SENDING", "TIMEOUT"}
OpenErrors  == {"UNKHOST", "CONNPORT", "NOTMPD", "NORESPONSE"}
\* LOCAL is the bare 1 the code stores for its own complaints.
Errors      == {"NONE", "LOCAL", "ACK", "CONNCLOSED", "BUFFEROVERRUN"} \cup SendErrors \cup OpenErrors

Requests == [kind : LineKinds, of : Nat]
Lines    == [kind : Unfinished \cup Terminators, of : Nat]
Item(kind, of) == [kind |-> kind, of |-> of]

ClientTypes ==
  /\ open \in BOOLEAN /\ doneProcessing \in BOOLEAN
  /\ commandList \in Modes
  /\ listOks \in Nat /\ doneListOk \in BOOLEAN
  /\ error \in Errors
  /\ returnElement \in BOOLEAN

ServerTypes ==
  /\ peer \in BOOLEAN /\ torn \in BOOLEAN
  /\ wire \in Seq(Requests)
  /\ serverList \in Modes /\ collected \in Nat /\ emitted \in Nat
  /\ stream \in Seq(Lines)

\* Every field has the type its declaration in the code gives it, and the
\* count of expected list_OK lines never goes below zero.
TypeOK == ClientTypes /\ ServerTypes /\ current \in Nat /\ abandoned \in BOOLEAN

Fresh(done, err, alive) ==
  /\ doneProcessing' = done /\ commandList' = "NONE"
  /\ listOks' = 0 /\ doneListOk' = FALSE
  /\ error' = err /\ returnElement' = FALSE
  /\ peer' = alive /\ wire' = <<>> /\ torn' = FALSE
  /\ serverList' = "NONE" /\ collected' = 0 /\ emitted' = 0
  /\ stream' = <<>>
  /\ current' = 0 /\ abandoned' = FALSE

Init ==
  /\ open = FALSE /\ doneProcessing = FALSE /\ commandList = "NONE"
  /\ listOks = 0 /\ doneListOk = FALSE
  /\ error = "NONE" /\ returnElement = FALSE
  /\ peer = FALSE /\ wire = <<>> /\ torn = FALSE
  /\ serverList = "NONE" /\ collected = 0 /\ emitted = 0
  /\ stream = <<>>
  /\ current = 0 /\ abandoned = FALSE

-----------------------------------------------------------------------------
(* The client: opening and closing *)

\* A connection comes back whether it could be made or not; only a welcome
\* line with a version makes it ready for commands.
NewConnection ==
  /\ ~open
  /\ open' = TRUE
  /\ \/ Fresh(TRUE, "NONE", TRUE)
     \/ \E e \in OpenErrors : Fresh(FALSE, e, FALSE)

CloseConnection ==
  /\ open
  /\ open' = FALSE
  /\ Fresh(FALSE, "NONE", FALSE)

ClearError ==
  /\ open /\ error # "NONE"
  /\ error' = "NONE"
  /\ UNCHANGED <<open, doneProcessing, commandList, listOks, doneListOk, returnElement, server, history>>

-----------------------------------------------------------------------------
(* The client: sending *)

\* A line reaches the socket; what was left of a torn line spoils it, and
\* nobody takes it when the server is gone.
Send(kind) ==
  /\ wire' = IF peer THEN Append(wire, Item(IF torn THEN "garbled" ELSE kind, current + 1)) ELSE wire
  /\ torn' = FALSE
  /\ current' = current + 1
  /\ UNCHANGED abandoned

\* send() fails or the socket stays full: some of the line may be gone.
SendFails ==
  /\ torn' \in {torn, peer}
  /\ abandoned' = TRUE
  /\ UNCHANGED <<wire, current>>

\* Mutation: a command is sent whatever is still being read.
MayExecuteAlways(mode) == mode \in Modes

\* A command may go out when no reply is pending or in a command list.
MayExecute(mode) == doneProcessing \/ mode # "NONE"

\* Mutation: the else without its test of COMMAND_LIST_OK.
ListOksAnyList(mode, oks) == IF mode # "NONE" THEN oks + 1 ELSE oks

\* Only a COMMAND_LIST_OK list owes the client a list_OK per command.
ListOksAfter(mode, oks) == IF mode = "COMMAND_LIST_OK" THEN oks + 1 ELSE oks

\* mode is the command list mode mpd_executeCommand sees, oks the number of
\* list_OK lines expected when it does.
ExecuteCommand(kind, mode, oks) ==
  /\ UNCHANGED <<open, doneListOk, returnElement, peer, serverList, collected, emitted, stream>>
  /\ \/ /\ ~MayExecute(mode)
        /\ error' = "LOCAL"
        /\ listOks' = oks
        /\ UNCHANGED <<doneProcessing, wire, torn, history>>
     \/ /\ MayExecute(mode)
        /\ current < MaxRequests
        /\ Send(kind)
        /\ error' = "NONE"
        /\ doneProcessing' = (doneProcessing /\ mode # "NONE")
        /\ listOks' = ListOksAfter(mode, oks)
     \/ /\ MayExecute(mode)
        /\ SendFails
        /\ error' \in SendErrors
        /\ listOks' = oks
        /\ UNCHANGED doneProcessing

SendCommand ==
  /\ open
  /\ UNCHANGED commandList
  /\ ExecuteCommand("command", commandList, listOks)

\* The code does not ask whether a reply is pending when a list begins; libmpd
\* begins one right after taking the lock, when none is.
MayBegin == commandList = "NONE" /\ (BeginsWhenDone => doneProcessing)

SendCommandListBegin ==
  /\ open /\ MayBegin
  /\ commandList' = "COMMAND_LIST"
  /\ ExecuteCommand("begin", "COMMAND_LIST", listOks)

\* The caller of listOks' own mode starts from zero whatever the send did.
SendCommandListOkBegin ==
  /\ UseListOk
  /\ open /\ MayBegin
  /\ commandList' = "COMMAND_LIST_OK"
  /\ listOks' = 0
  /\ UNCHANGED <<open, doneProcessing, doneListOk, returnElement, peer, serverList, collected, emitted, stream>>
  /\ \/ current < MaxRequests /\ Send("begin_ok") /\ error' = "NONE"
     \/ SendFails /\ error' \in SendErrors

SendCommandListEnd ==
  /\ open /\ commandList # "NONE"
  /\ commandList' = "NONE"
  /\ ExecuteCommand("end", "NONE", listOks)

\* Beginning in a list and ending outside one are refused.
RefuseList ==
  /\ open
  /\ error' = "LOCAL"
  /\ UNCHANGED <<open, doneProcessing, commandList, listOks, doneListOk, returnElement, server, history>>

-----------------------------------------------------------------------------
(* The client: reading *)

\* Mutation: the error is stored and the reply goes on.
GiveUpReading(e) ==
  /\ error' = e
  /\ doneListOk' = FALSE
  /\ returnElement' = FALSE
  /\ UNCHANGED <<doneProcessing, listOks, stream>>

GiveUp(e) ==
  /\ error' = e
  /\ doneProcessing' = TRUE /\ doneListOk' = FALSE
  /\ returnElement' = FALSE
  /\ UNCHANGED <<listOks, stream>>

\* Mutation: a list_OK taken for the end of the reply.
EndsReplyOrCommand(kind) == kind \in {"OK", "list_OK", "ACK"}

EndsReply(kind) == kind \in {"OK", "ACK"}

\* Mutation: the element of the previous call is not freed first.
KeepsElement(kind) == returnElement \/ kind = "element"

\* The previous element is freed; only a "name: value" line makes a new one.
NewElement(kind) == kind = "element"

\* Mutation: the count is decremented without looking at it.
ExpectsListOkAlways == listOks \in Int

ExpectsListOk == listOks > 0

\* One line of the reply; dlo is doneListOk as the function finds it.
ReadLine(dlo) ==
  LET kind == Head(stream).kind IN
  /\ stream # <<>>
  /\ stream' = Tail(stream)
  /\ returnElement' = NewElement(kind)
  /\ doneProcessing' = EndsReply(kind)
  /\ \/ /\ kind = "OK"
        /\ error' = IF listOks > 0 THEN "LOCAL" ELSE error
        /\ listOks' = 0 /\ doneListOk' = FALSE
     \/ /\ kind = "ACK"
        /\ error' = "ACK"
        /\ doneListOk' = FALSE /\ UNCHANGED listOks
     \/ /\ kind = "list_OK" /\ ExpectsListOk
        /\ listOks' = listOks - 1 /\ doneListOk' = TRUE
        /\ UNCHANGED error
     \/ /\ kind = "malformed" \/ (kind = "list_OK" /\ ~ExpectsListOk)
        /\ error' = "LOCAL"
        /\ doneListOk' = dlo /\ UNCHANGED listOks
     \/ /\ kind \in {"element", "colonless"}
        /\ doneListOk' = dlo /\ UNCHANGED <<error, listOks>>
  /\ UNCHANGED abandoned

\* mpd_getNextReturnElement.  Its callers look at doneProcessing and at
\* doneListOk first, so its own complaint about them is never made.
GetNextReturnElement(dlo) ==
  /\ UNCHANGED <<open, commandList, peer, wire, torn, serverList, collected, emitted, current>>
  /\ \/ /\ stream # <<>> /\ Head(stream).kind # "overlong"
        /\ ReadLine(dlo)
     \/ /\ stream # <<>> /\ Head(stream).kind = "overlong"
        /\ GiveUp("BUFFEROVERRUN")
        /\ abandoned' = TRUE
     \/ /\ stream = <<>> /\ ~peer
        /\ GiveUp("CONNCLOSED")
        /\ UNCHANGED abandoned
     \/ /\ stream = <<>> /\ peer
        /\ GiveUp("TIMEOUT")
        /\ abandoned' = TRUE

\* A getter (mpd_getNextReturnElementNamed and the like) asks for a line.
GetNext ==
  /\ open
  /\ ~doneProcessing
  /\ ~(listOks > 0 /\ doneListOk)
  /\ GetNextReturnElement(doneListOk)

\* One turn of the loop of mpd_finishCommand.
FinishCommand ==
  /\ open
  /\ ~doneProcessing
  /\ GetNextReturnElement(FALSE)

\* The end of mpd_nextListOkCommand, after mpd_finishListOkCommand.
NextListOkCommand ==
  /\ UseListOk
  /\ open
  /\ doneListOk
  /\ doneListOk' = FALSE
  /\ UNCHANGED <<open, doneProcessing, commandList, listOks, error, returnElement, server, history>>

-----------------------------------------------------------------------------
(* The server, as the client's code expects it to behave *)

Begins     == serverList = "NONE" /\ Head(wire).kind \in NotAnswered
Collects   == serverList # "NONE" /\ Head(wire).kind # "end"
Answers    == ~Begins /\ ~Collects
CannotDo   == Head(wire).kind = "garbled" \/ (Head(wire).kind = "end" /\ serverList = "NONE")
Reply(kind) == stream' = Append(stream, Item(kind, Head(wire).of))

ServerCollects ==
  /\ wire # <<>>
  /\ \/ /\ Begins
        /\ serverList' = IF Head(wire).kind = "begin" THEN "COMMAND_LIST" ELSE "COMMAND_LIST_OK"
        /\ UNCHANGED collected
     \/ /\ Collects
        /\ collected' = IF serverList = "COMMAND_LIST_OK" THEN collected + 1 ELSE collected
        /\ UNCHANGED serverList
  /\ wire' = Tail(wire)
  /\ UNCHANGED <<client, history, peer, torn, emitted, stream>>

ServerLine ==
  /\ wire # <<>> /\ Answers
  /\ emitted < MaxElements
  /\ emitted' = emitted + 1
  /\ \E kind \in Unfinished \ {"list_OK"} : Reply(kind)
  /\ UNCHANGED <<client, history, peer, wire, torn, serverList, collected>>

ServerListOk ==
  /\ wire # <<>> /\ Answers
  /\ collected > 0
  /\ collected' = collected - 1
  /\ Reply("list_OK")
  /\ UNCHANGED <<client, history, peer, wire, torn, serverList, emitted>>

ServerEndsReply ==
  /\ wire # <<>> /\ Answers
  /\ \E kind \in Terminators :
       /\ kind = "OK" => collected = 0 /\ ~CannotDo
       /\ Reply(kind)
  /\ wire' = Tail(wire)
  /\ serverList' = "NONE" /\ collected' = 0 /\ emitted' = 0
  /\ UNCHANGED <<client, history, peer, torn>>

\* The server goes away; of what it sent a part may still arrive.
PeerCloses ==
  /\ peer
  /\ peer' = FALSE
  /\ \E n \in 0..Len(stream) : stream' = SubSeq(stream, 1, n)
  /\ wire' = <<>> /\ torn' = FALSE
  /\ serverList' = "NONE" /\ collected' = 0 /\ emitted' = 0
  /\ UNCHANGED <<client, history>>

-----------------------------------------------------------------------------
Client ==
  \/ NewConnection \/ CloseConnection \/ ClearError
  \/ SendCommand \/ SendCommandListBegin \/ SendCommandListOkBegin \/ SendCommandListEnd \/ RefuseList
  \/ GetNext \/ FinishCommand \/ NextListOkCommand

Server == ServerCollects \/ ServerLine \/ ServerListOk \/ ServerEndsReply \/ PeerCloses

Next == Client \/ Server

Spec == Init /\ [][Next]_vars

\* mpd_finishCommand loops without doing anything else, and select() returns
\* at the latest when its timeout is over.
FairSpec == Spec /\ WF_vars(FinishCommand)

-----------------------------------------------------------------------------
(* Properties *)

\* Until the client gives up on a reply, every line waiting to be read
\* belongs to the command sent last, and lines wait only while that command
\* is being processed: mpd_getNextReturnElement, which sees the order of the
\* lines and nothing else, never takes one command's answer for another's.
Aligned ==
  ~abandoned => \A i \in DOMAIN stream : ~doneProcessing /\ stream[i].of = current

\* Nothing is owed on a connection that is done with its reply: when
\* doneProcessing is set again the server has answered everything, unless
\* the client gave up or a command list is being written.
NothingOwed ==
  doneProcessing /\ ~abandoned /\ commandList = "NONE" => wire = <<>> /\ serverList = "NONE"

\* No element of a finished reply is left in returnElement, where getters
\* that test returnElement first (mpd_getNextOutput, mpd_getNextInfoEntity)
\* would hand it out as part of the next reply.
NoLeftoverElement == doneProcessing => ~returnElement

\* Unless an earlier reply was abandoned, a reply that the server ends with OK
\* leaves no error behind that was not there before its last line ("this will
\* be set to MPD_ERROR_* if there is an error, 0 if not").
OkMeansNoError ==
  [][stream # <<>> /\ stream' = Tail(stream) /\ ~abandoned /\ Head(stream).kind = "OK" /\ error = "NONE"
       => error' = "NONE"]_vars

\* mpd_finishCommand comes back: a reply that is being read is over at some
\* time, by its terminator, by a timeout or by the connection closing.
ReplyFinishes == (open /\ ~doneProcessing) ~> (doneProcessing \/ ~open)

-----------------------------------------------------------------------------
(* Why Aligned and NothingOwed hold: the inductive invariant *)

\* Nothing more comes after the terminator of a reply.
TerminatorLast ==
  ~abandoned => \A i \in DOMAIN stream :
    stream[i].kind \in Terminators => i = Len(stream) /\ wire = <<>> /\ serverList = "NONE"

\* What a server that is gone had taken is gone with it.
NothingAtClosedPeer == ~peer => wire = <<>> /\ serverList = "NONE" /\ ~torn

\* A list being written is on the wire behind its beginning, or the server
\* is collecting it; nothing in it is answered yet.
ListOnWire ==
  doneProcessing /\ ~abandoned /\ commandList # "NONE" /\ peer =>
    /\ serverList = "NONE" => wire # <<>> /\ wire[1].kind \in NotAnswered
    /\ \A i \in DOMAIN wire : (i = 1 /\ serverList = "NONE") \/ wire[i].kind = "command"

\* Of a request being processed only the last line is answered, and it is
\* the command sent last.
RequestOnWire ==
  ~doneProcessing /\ ~abandoned /\ wire # <<>> =>
    /\ wire[Len(wire)].of = current
    /\ \/ /\ serverList # "NONE"
          /\ wire[Len(wire)].kind = "end"
          /\ \A i \in DOMAIN wire : i < Len(wire) => wire[i].kind = "command"
       \/ /\ serverList = "NONE"
          /\ Len(wire) = 1 /\ wire[1].kind = "command"
       \/ /\ serverList = "NONE"
          /\ Len(wire) > 1 /\ wire[1].kind \in NotAnswered
          /\ wire[Len(wire)].kind = "end"
          /\ \A i \in DOMAIN wire : 1 < i /\ i < Len(wire) => wire[i].kind = "command"

\* No reply is being read while a list is written.
NotReadingInList == ~doneProcessing => commandList = "NONE"

\* A line is torn only by a send that failed.
NoTornLine == ~abandoned => ~torn

\* All of it together is preserved by every step.
IInv ==
  /\ TypeOK
  /\ Aligned
  /\ NothingOwed
  /\ NotReadingInList
  /\ NoTornLine
  /\ TerminatorLast
  /\ NothingAtClosedPeer
  /\ ListOnWire
  /\ RequestOnWire

=============================================================================
