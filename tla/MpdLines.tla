------------------------------- MODULE MpdLines -------------------------------
(***************************************************************************)
(* How libmpdclient.c makes lines of the bytes that arrive: the welcome    *)
(* line in mpd_newConnection, all others in mpd_getNextReturnElement.      *)
(* Bytes are kept in a buffer of fixed size that is filled behind buflen   *)
(* and read from bufstart; what was read stays in front of it until the    *)
(* buffer is full and the rest is moved down.                              *)
(*                                                                         *)
(* Each recv() brings as many bytes as it likes.  What a line means and    *)
(* when one is asked for is in MpdConnection.                              *)
(***************************************************************************)
EXTENDS Integers, Sequences

CONSTANTS Max,      \* MPD_BUFFER_MAX_LENGTH
          Bytes, NewLine, Nul,
          Streams   \* what the server may send on one connection

ASSUME MaxAssumption == Max \in Nat \ {0}
ASSUME ByteAssumption == NewLine \in Bytes /\ Nul \notin Bytes
\* The server sends text.
ASSUME StreamAssumption == Streams \subseteq Seq(Bytes)

VARIABLES
  stream,    \* all the server sends
  taken,     \* bytes of it that recv() returned
  buffer, bufstart, buflen,
  check,     \* bufferCheck: no line ends before it
  reading,   \* in mpd_newConnection, in mpd_getNextReturnElement or in neither
  error,     \* of the last call
  line       \* the last line handed up

vars == <<stream, taken, buffer, bufstart, buflen, check, reading, error, line>>

Init ==
  /\ stream \in Streams /\ taken = 0
  /\ buffer = [i \in 0 .. Max |-> Nul] /\ bufstart = 0 /\ buflen = 0 /\ check = 0
  /\ reading = "welcome" /\ error = "NONE" /\ line = <<>>

\* There is always room for the byte that ends the string.
TypeOK ==
  /\ stream \in Seq(Bytes) /\ taken \in 0 .. Len(stream)
  /\ buffer \in [0 .. Max -> Bytes \cup {Nul}]
  /\ buflen \in 0 .. Max /\ bufstart \in 0 .. buflen /\ check \in bufstart .. buflen
  /\ reading \in {"welcome", "element", "no"}
  /\ error \in {"NONE", "CONNCLOSED", "TIMEOUT", "BUFFEROVERRUN", "NORESPONSE"}
  /\ line \in Seq(Bytes)

-----------------------------------------------------------------------------
(* The buffer *)

\* The end of a line that strchr() comes to before the string ends.
IsEnd(rt) == rt >= check /\ buffer[rt] = NewLine /\ \A i \in check .. rt - 1 : buffer[i] # Nul

Found == bufstart < buflen /\ \E rt \in 0 .. Max : IsEnd(rt)

\* It returns the first.
EndsAt(rt) == IsEnd(rt) /\ \A i \in check .. rt - 1 : buffer[i] # NewLine

\* Mutation: the byte that ends the string is not moved.
MovedWithoutEnd(from) ==
  [i \in 0 .. Max |-> IF i < buflen - from THEN buffer[i + from] ELSE buffer[i]]

\* memmove() takes the byte that ends the string along.
Moved(from) == [i \in 0 .. Max |-> IF i <= buflen - from THEN buffer[i + from] ELSE buffer[i]]

\* Mutation: recv() may fill the whole array.
RoomAndEnd == Max + 1 - buflen

Room == Max - buflen

\* Mutation: the search goes on after the bytes that came.
CheckBehind(n) == buflen + n

CheckAfter(n) == buflen

Stored(n) == [i \in 0 .. Max |->
                IF i \in buflen .. buflen + n - 1 THEN stream[taken + i - buflen + 1]
                ELSE IF i = buflen + n THEN Nul ELSE buffer[i]]

Receive(n) ==
  /\ n \in 1 .. Room /\ taken + n <= Len(stream)
  /\ taken' = taken + n
  /\ buffer' = Stored(n) /\ buflen' = buflen + n
  /\ UNCHANGED <<stream, bufstart, reading, error, line>>

\* The bytes up to the end of the line, which is overwritten.
HandUp(rt) ==
  /\ EndsAt(rt)
  /\ line' = [i \in 1 .. rt - bufstart |-> buffer[bufstart + i - 1]]
  /\ reading' = "no"
  /\ UNCHANGED <<stream, taken, error>>

Fails(err) ==
  /\ error' = err /\ reading' = "no"
  /\ UNCHANGED <<stream, taken, line>>

-----------------------------------------------------------------------------
(* The welcome line *)

\* The whole string is searched each time.
WelcomeReceive(n) ==
  /\ reading = "welcome" /\ ~Found
  /\ check' = 0
  /\ Receive(n)

\* The rest of the string is moved to the front of the buffer.
Welcome(rt) ==
  /\ reading = "welcome"
  /\ HandUp(rt)
  /\ buffer' = Moved(rt + 1) /\ buflen' = buflen - rt - 1
  /\ check' = 0 /\ UNCHANGED bufstart

\* A full buffer leaves recv() no room, which looks like a connection that
\* was closed.
NoWelcome ==
  /\ reading = "welcome" /\ ~Found
  /\ Fails("NORESPONSE")
  /\ UNCHANGED <<buffer, bufstart, buflen, check>>

-----------------------------------------------------------------------------
(* All other lines *)

\* Without a welcome the connection is not used.
GetNext ==
  /\ reading = "no" /\ error # "NORESPONSE"
  /\ reading' = "element" /\ error' = "NONE" /\ check' = bufstart
  /\ UNCHANGED <<stream, taken, buffer, bufstart, buflen, line>>

LineFound(rt) ==
  /\ reading = "element" /\ Found
  /\ HandUp(rt)
  /\ buffer' = [buffer EXCEPT ![rt] = Nul]
  /\ bufstart' = rt + 1 /\ check' = rt + 1
  /\ UNCHANGED buflen

Waits == reading = "element" /\ ~Found

\* Mutation: a full buffer is full.
KeepsRead == FALSE

\* Lines that were read make room.
MayCompact == bufstart > 0

Compact ==
  /\ Waits /\ buflen >= Max /\ MayCompact
  /\ buffer' = Moved(bufstart) /\ buflen' = buflen - bufstart /\ bufstart' = 0
  /\ check' = buflen'
  /\ UNCHANGED <<stream, taken, reading, error, line>>

Overrun ==
  /\ Waits /\ buflen >= Max /\ ~MayCompact
  /\ Fails("BUFFEROVERRUN")
  /\ UNCHANGED <<buffer, bufstart, buflen, check>>

LineReceive(n) ==
  /\ Waits /\ buflen < Max
  /\ check' = CheckAfter(n)
  /\ Receive(n)

\* The socket was ready and has nothing: the loop goes on, and looks for a
\* line behind what is there.
NothingThere ==
  /\ Waits /\ buflen < Max
  /\ check' = buflen
  /\ UNCHANGED <<stream, taken, buffer, bufstart, buflen, reading, error, line>>

\* An interrupted select() is taken for a timeout.
GiveUp ==
  /\ Waits /\ buflen < Max
  /\ Fails("CONNCLOSED") \/ Fails("TIMEOUT")
  /\ check' = buflen
  /\ UNCHANGED <<buffer, bufstart, buflen>>

-----------------------------------------------------------------------------
Next ==
  \/ \E rt \in 0 .. Max : Welcome(rt) \/ LineFound(rt)
  \/ \E n \in 1 .. Max : WelcomeReceive(n) \/ LineReceive(n)
  \/ NoWelcome \/ GetNext \/ Compact \/ Overrun \/ NothingThere \/ GiveUp

Spec == Init /\ [][Next]_vars

\* What is on its way arrives and the loop turns.
FairSpec ==
  /\ Spec
  /\ WF_vars(\E rt \in 0 .. Max : LineFound(rt)) /\ WF_vars(Compact) /\ WF_vars(Overrun)
  /\ WF_vars(\E n \in 1 .. Max : LineReceive(n))

-----------------------------------------------------------------------------
(* Properties *)

\* Bytes of the stream that are in lines handed up.
HandedUp == taken - buflen + bufstart

\* However the bytes come, the lines handed up are those of the stream, none
\* torn, lost or read twice, also when calls in between timed out, found
\* nothing or moved the buffer.
Abstract == INSTANCE LineSpec WITH next <- HandedUp
ImplementsLines == Abstract!Spec

\* The buffer is the part of the stream from the first byte not handed up to
\* the last one taken, as one string with its end where buflen says.
BufferIsStream ==
  /\ buffer[buflen] = Nul
  /\ \A i \in bufstart .. buflen - 1 : buffer[i] = stream[taken - buflen + i + 1]

\* A line is refused for its length only when it has no end within the buffer,
\* whatever was read before it.
OverrunForLongLines ==
  error = "BUFFEROVERRUN" =>
    HandedUp + Max <= Len(stream) /\ \A i \in 1 .. Max : stream[HandedUp + i] # NewLine

\* A call for a line the server sends completely returns, even if the program
\* sets no timeout.
LineComes == \E n \in 0 .. Len(stream) : Abstract!LineAt(HandedUp, n)
LineArrives == (reading = "element" /\ LineComes) ~> (reading = "no")

\* The buffer holds no more than was taken.
BufferWithin == buflen <= taken

\* What the search for the end of a line relies on: there is none before check.
NoLineBefore ==
  /\ \A i \in bufstart .. check - 1 : buffer[i] # NewLine
  /\ reading = "welcome" => bufstart = 0

OverrunIsFull ==
  error = "BUFFEROVERRUN" => reading = "no" /\ bufstart = 0 /\ buflen = Max /\ \A i \in 0 .. Max - 1 : buffer[i] # NewLine

\* The inductive invariant of the proofs.
IInv == TypeOK /\ BufferIsStream /\ BufferWithin /\ NoLineBefore /\ OverrunIsFull
=============================================================================
