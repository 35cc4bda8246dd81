------------------------------ MODULE MpdRequests ------------------------------
(***************************************************************************)
(* From the arguments of a mpd_send...Command() to what the server takes   *)
(* for the request: names are escaped and quoted, the text is written to   *)
(* the room counted for it, and mpd_executeCommand() sends it in as many   *)
(* pieces as the socket wants, or gives up and is followed by a disconnect *)
(* (the functions of libmpd that send one command do nothing in between).  *)
(*                                                                         *)
(* Bytes are model values but for those with a meaning: "quote",           *)
(* "backslash", "space" and "end", the end of a line.  A name has no end   *)
(* of line.  Each byte of a word is the word.                              *)
(***************************************************************************)
EXTENDS MpdRequestTable, SequencesExt

CONSTANTS
  NameBytes,   \* bytes of a name
  MaxName      \* bound: the longest name of a request with one name

ASSUME NamesAreNoLines == "end" \notin NameBytes
ASSUME MaxNameType == MaxName \in Nat

VARIABLES
  phase,   \* of the client: "idle", "sending", "sent", "failed"
  asked,   \* what the last request says: lines, each a sequence of arguments
  unsent,  \* the bytes commandPtr points to, commandLen of them
  line,    \* the bytes the server has and not yet the end of their line
  got      \* what the server took the last request to say

requestVars == <<phase, asked, unsent, line, got>>

-----------------------------------------------------------------------------
(* The text of a request. *)

\* Mutation: only quotes are escaped.
SanitizedQuotes(name) ==
  FlattenSeq([i \in DOMAIN name |-> IF name[i] = "quote" THEN <<"backslash", name[i]>> ELSE <<name[i]>>])

\* mpd_sanitizeArg
Sanitized(name) ==
  FlattenSeq([i \in DOMAIN name |-> IF name[i] \in {"quote", "backslash"} THEN <<"backslash", name[i]>> ELSE <<name[i]>>])

Written(kind, arg) ==
  CASE kind = "tag"  -> arg
    [] kind = "name" -> <<"quote">> \o Sanitized(arg) \o <<"quote">>
    [] OTHER         -> <<"quote">> \o arg \o <<"quote">>

Repeated(byte, n) == [i \in 1 .. n |-> byte]

\* What the format of snprintf() says.
Text(row, args) ==
  Repeated(row.word, row.length)
    \o FlattenSeq([i \in DOMAIN args |-> <<"space">> \o Written(row.args[i], args[i])])
    \o <<"end">>

\* What snprintf() writes.  The room for a name is counted after escaping it.
Request(row, args) ==
  LET counted == [i \in DOMAIN args |-> Len(IF row.args[i] = "name" THEN Sanitized(args[i]) ELSE args[i])]
      text    == Text(row, args)
  IN SubSeq(text, 1, IF Len(text) < Room(row, counted) THEN Len(text) ELSE Room(row, counted) - 1)

\* The constant texts; mpd_sendGetEventsCommand() sends two lines.
PlainLines(word) == IF word = "idle" THEN <<"idle", "noidle">> ELSE <<word>>

-----------------------------------------------------------------------------
(* Arguments. *)

Names(n) == UNION {[1 .. k -> NameBytes] : k \in 0 .. n}

\* Numbers of one digit and of as many as there are; a name is shorter where
\* there are several.
Values(kind, args) ==
  CASE kind = "tag"  -> {Repeated("tag", 6)}
    [] kind = "name" -> Names(IF \E i, j \in DOMAIN args : i # j /\ args[i] = "name" /\ args[j] = "name" THEN 1 ELSE MaxName)
    [] OTHER         -> {Repeated("digit", n) : n \in {1, MaxDigits[kind]}}

Arguments(row) ==
  {args \in [DOMAIN row.args -> UNION {Values(row.args[i], row.args) : i \in DOMAIN row.args}] :
     \A i \in DOMAIN args : args[i] \in Values(row.args[i], row.args)}

-----------------------------------------------------------------------------
(* The server: words and arguments are parted by spaces, an argument in    *)
(* quotes ends with the next quote no backslash stands before.             *)

Read(st, byte) ==
  IF st.escaped THEN [st EXCEPT !.word = Append(@, byte), !.escaped = FALSE]
  ELSE CASE st.quoted /\ byte = "backslash" -> [st EXCEPT !.escaped = TRUE]
         [] byte = "quote"                  -> [st EXCEPT !.quoted = ~@]
         [] ~st.quoted /\ byte = "space"    -> [st EXCEPT !.words = Append(@, st.word), !.word = <<>>]
         [] OTHER                           -> [st EXCEPT !.word = Append(@, byte)]

Parsed(text) ==
  LET after[i \in 0 .. Len(text)] ==
        IF i = 0 THEN [words |-> <<>>, word |-> <<>>, quoted |-> FALSE, escaped |-> FALSE]
        ELSE Read(after[i - 1], text[i])
      st == after[Len(text)]
  IN IF st.quoted THEN <<"malformed">> ELSE Append(st.words, st.word)

-----------------------------------------------------------------------------
RequestInit ==
  /\ phase = "idle"
  /\ asked = <<>>
  /\ unsent = <<>>
  /\ line = <<>>
  /\ got = <<>>

Begins(text, says) ==
  /\ phase = "idle"
  /\ phase' = "sending"
  /\ unsent' = text
  /\ asked' = says
  /\ UNCHANGED <<line, got>>

\* One of the functions that send a constant text.
SendPlain(word) ==
  LET lines == PlainLines(word)
  IN Begins(FlattenSeq([i \in DOMAIN lines |-> <<lines[i], "end">>]), [i \in DOMAIN lines |-> <<<<lines[i]>>>>])

\* One of the functions that write a text.
SendWritten(row, args) ==
  Begins(Request(row, args), <<<<Repeated(row.word, row.length)>> \o args>>)

\* What is left after send() took n bytes.
Rest(n) == SubSeq(unsent, n + 1, Len(unsent))

\* Mutation: commandLen < 0.
SentLess(rest) == Len(rest) < 0

\* commandLen <= 0
Sent(rest) == rest = <<>>

\* select() lets send() write, which takes n bytes.
Send(n) ==
  /\ phase = "sending"
  /\ n \in 1 .. Len(unsent)
  /\ line' = line \o SubSeq(unsent, 1, n)
  /\ unsent' = Rest(n)
  /\ phase' = IF Sent(Rest(n)) THEN "sent" ELSE "sending"
  /\ UNCHANGED <<asked, got>>

\* select() times out or is interrupted, or send() fails.
SendFails ==
  /\ phase = "sending"
  /\ phase' = "failed"
  /\ UNCHANGED <<asked, unsent, line, got>>

\* Mutation: the connection is used again.
LineAfterDisconnectKept == line

\* mpd_check_error() disconnects, and the server forgets half a line.
LineAfterDisconnect == <<>>

\* mpd_unlock_conn() finds the error; the program connects again.
ConnectAgain ==
  /\ phase = "failed"
  /\ phase' = "idle"
  /\ line' = LineAfterDisconnect
  /\ unsent' = <<>>
  /\ asked' = <<>>
  /\ got' = <<>>

\* The server takes the first whole line it has.
ServerTakesLine ==
  \E i \in DOMAIN line :
    /\ line[i] = "end"
    /\ \A j \in 1 .. i - 1 : line[j] # "end"
    /\ got' = Append(got, Parsed(SubSeq(line, 1, i - 1)))
    /\ line' = SubSeq(line, i + 1, Len(line))
    /\ UNCHANGED <<phase, asked, unsent>>

\* The reply to all of it has come and is read.
ReplyRead ==
  /\ phase = "sent"
  /\ Len(got) = Len(asked)
  /\ phase' = "idle"
  /\ asked' = <<>>
  /\ got' = <<>>
  /\ UNCHANGED <<unsent, line>>

SendSome == \E n \in 1 .. Len(unsent) : Send(n)

RequestNext ==
  \/ \E word \in Plain : SendPlain(word)
  \/ \E row \in Rows : \E args \in Arguments(row) : SendWritten(row, args)
  \/ SendSome
  \/ SendFails
  \/ ConnectAgain
  \/ ServerTakesLine
  \/ ReplyRead

RequestSpec == RequestInit /\ [][RequestNext]_requestVars

\* The server reads, so that the socket can be written to; if it does not,
\* select() times out.
FairSpec == RequestSpec /\ WF_requestVars(SendSome)

-----------------------------------------------------------------------------
\* A request that was sent and whose lines the server has taken says to the
\* server what the program asked: each name byte for byte, whatever quotes
\* and backslashes are in it, each number with all its digits, and nothing
\* is left that would begin the next request.
ArrivesAsAsked ==
  phase = "sent" /\ "end" \notin ToSet(line) => got = asked /\ line = <<>>

\* A request that did not get through whole leaves nothing that is taken for
\* a request or for a part of the next one.
NothingElseArrives == IsPrefix(got, asked)

\* A request gets out whole or fails: the loop around send() ends, however
\* little each send() takes.
RequestEnds == phase = "sending" ~> phase \in {"sent", "failed"}

=============================================================================
