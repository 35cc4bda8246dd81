---------------------------- MODULE MpdLines_proofs ----------------------------
(***************************************************************************)
(* For every size of the buffer and everything the server may send, lines  *)
(* come out whole and in order.                                            *)
(***************************************************************************)
EXTENDS MpdLines, TLAPS

\* What recv() stores is a string that goes on with the stream.
LEMMA StoredIsStream ==
  ASSUME IInv, NEW n \in 1 .. Max, Receive(n)
  PROVE  /\ taken' \in 0 .. Len(stream) /\ buflen' \in 0 .. Max
         /\ buffer' \in [0 .. Max -> Bytes \cup {Nul}]
         /\ bufstart <= buflen'
         /\ BufferIsStream'
         /\ \A i \in 0 .. buflen - 1 : buffer'[i] = buffer[i]
         /\ HandedUp' = HandedUp
<1> USE MaxAssumption, ByteAssumption DEF IInv, TypeOK
<1>1. /\ taken' = taken + n /\ taken + n \in 0 .. Len(stream)
      /\ buflen' = buflen + n /\ buflen + n \in 0 .. Max
      /\ bufstart' = bufstart /\ stream' = stream /\ buffer' = Stored(n)
  BY DEF Receive, Room
<1>2. \A i \in buflen .. buflen + n - 1 : taken + i - buflen + 1 \in 1 .. Len(stream)
  BY <1>1
<1>3. \A i \in buflen .. buflen + n - 1 : stream[taken + i - buflen + 1] \in Bytes
  BY <1>2
<1>4. buffer' \in [0 .. Max -> Bytes \cup {Nul}]
  BY <1>1, <1>3 DEF Stored
<1>5. \A i \in 0 .. buflen - 1 : buffer'[i] = buffer[i]
  BY <1>1 DEF Stored
<1>6. buffer'[buflen'] = Nul
  BY <1>1 DEF Stored
<1>7. ASSUME NEW i \in bufstart' .. buflen' - 1
      PROVE  buffer'[i] = stream'[taken' - buflen' + i + 1]
  <2>1. taken' - buflen' = taken - buflen
    BY <1>1
  <2>2. CASE i < buflen
    BY <1>1, <1>5, <2>1, <2>2 DEF BufferIsStream
  <2>3. CASE i >= buflen
    <3>1. buffer'[i] = stream[taken + i - buflen + 1]
      BY <1>1, <2>3 DEF Stored
    <3>2. taken + i - buflen + 1 = taken - buflen + i + 1
      BY <1>1
    <3> QED BY <3>1, <3>2, <2>1, <1>1
  <2> QED BY <2>2, <2>3, <1>1
<1>8. HandedUp' = HandedUp
  BY <1>1 DEF HandedUp
<1> QED BY <1>1, <1>4, <1>5, <1>6, <1>7, <1>8 DEF BufferIsStream

\* Moving down what was not read keeps it as it was.
LEMMA MovedIsStream ==
  ASSUME IInv, NEW from \in 0 .. buflen, from >= bufstart,
         buffer' = Moved(from), buflen' = buflen - from, bufstart' = 0,
         taken' = taken, stream' = stream
  PROVE  /\ buflen' \in 0 .. Max /\ buffer' \in [0 .. Max -> Bytes \cup {Nul}]
         /\ BufferIsStream'
         /\ \A i \in 0 .. buflen' : buffer'[i] = buffer[i + from]
         /\ HandedUp' = taken - buflen + from
<1> USE MaxAssumption, ByteAssumption DEF IInv, TypeOK
<1>1. buflen' \in 0 .. Max
  OBVIOUS
<1>2. buffer' \in [0 .. Max -> Bytes \cup {Nul}]
  BY DEF Moved
<1>3. \A i \in 0 .. buflen' : buffer'[i] = buffer[i + from]
  BY DEF Moved
<1>4. buffer'[buflen'] = Nul
  BY <1>1, <1>3 DEF BufferIsStream
<1>5. ASSUME NEW i \in bufstart' .. buflen' - 1
      PROVE  buffer'[i] = stream'[taken' - buflen' + i + 1]
  <2>1. i + from \in bufstart .. buflen - 1
    BY <1>1
  <2>2. buffer'[i] = stream[taken - buflen + (i + from) + 1]
    BY <1>1, <1>3, <2>1 DEF BufferIsStream
  <2>3. taken - buflen + (i + from) + 1 = taken' - buflen' + i + 1
    OBVIOUS
  <2> QED BY <2>2, <2>3
<1>6. HandedUp' = taken - buflen + from
  BY DEF HandedUp
<1> QED BY <1>1, <1>2, <1>3, <1>4, <1>5, <1>6 DEF BufferIsStream

\* The end of a line is one in the stream, and the line before it has no other.
LEMMA FoundIsLine ==
  ASSUME IInv, Found, NEW rt \in 0 .. Max, EndsAt(rt)
  PROVE  /\ rt \in bufstart .. buflen - 1
         /\ rt - bufstart \in 0 .. Len(stream)
         /\ Abstract!LineAt(HandedUp, rt - bufstart)
         /\ \A i \in 1 .. rt - bufstart : buffer[bufstart + i - 1] = stream[HandedUp + i]
<1> USE MaxAssumption, ByteAssumption DEF IInv, TypeOK
<1>1. rt < buflen
  <2>1. buffer[buflen] = Nul /\ buffer[rt] = NewLine /\ NewLine # Nul
    BY DEF BufferIsStream, EndsAt, IsEnd
  <2>2. SUFFICES ASSUME rt > buflen PROVE FALSE
    BY <2>1
  <2>3. buflen \in check .. rt - 1
    BY <2>2
  <2> QED BY <2>1, <2>3 DEF EndsAt, IsEnd
<1>2. rt \in bufstart .. buflen - 1
  BY <1>1 DEF EndsAt, IsEnd
<1>3. rt - bufstart \in 0 .. Len(stream) /\ HandedUp \in 0 .. Len(stream)
  <2>1. buflen <= taken
    BY DEF BufferWithin
  <2> QED BY <1>2, <2>1 DEF HandedUp
<1>4. \A i \in bufstart .. buflen - 1 : buffer[i] = stream[HandedUp + (i - bufstart) + 1]
  BY DEF BufferIsStream, HandedUp
<1>5. \A i \in 1 .. rt - bufstart : buffer[bufstart + i - 1] = stream[HandedUp + i]
  <2> SUFFICES ASSUME NEW i \in 1 .. rt - bufstart
               PROVE  buffer[bufstart + i - 1] = stream[HandedUp + i]
    OBVIOUS
  <2>1. bufstart + i - 1 \in bufstart .. buflen - 1
    BY <1>2
  <2>2. HandedUp + ((bufstart + i - 1) - bufstart) + 1 = HandedUp + i
    BY <1>3
  <2> QED BY <1>4, <2>1, <2>2
<1>6. stream[HandedUp + (rt - bufstart) + 1] = NewLine
  BY <1>2, <1>4 DEF EndsAt, IsEnd
<1>7. \A i \in 1 .. rt - bufstart : stream[HandedUp + i] # NewLine
  <2> SUFFICES ASSUME NEW i \in 1 .. rt - bufstart
               PROVE  stream[HandedUp + i] # NewLine
    OBVIOUS
  <2>1. bufstart + i - 1 \in bufstart .. rt - 1
    BY <1>2
  <2>2. buffer[bufstart + i - 1] # NewLine
    BY <2>1 DEF EndsAt, IsEnd, NoLineBefore
  <2> QED BY <2>2, <1>5
<1>8. HandedUp + (rt - bufstart) < Len(stream)
  BY <1>2 DEF HandedUp
<1> QED BY <1>2, <1>3, <1>5, <1>6, <1>7, <1>8 DEF Abstract!LineAt

\* A line is made of bytes of the stream.
LEMMA HandedUpType ==
  ASSUME IInv, Found, NEW rt \in 0 .. Max, EndsAt(rt), HandUp(rt)
  PROVE  line' \in Seq(Bytes)
<1> USE MaxAssumption, ByteAssumption DEF IInv, TypeOK
<1>1. rt - bufstart \in Nat /\ rt \in bufstart .. buflen - 1
  BY FoundIsLine
<1>2. \A i \in 1 .. rt - bufstart : buffer[bufstart + i - 1] \in Bytes
  <2> SUFFICES ASSUME NEW i \in 1 .. rt - bufstart PROVE buffer[bufstart + i - 1] \in Bytes
    OBVIOUS
  <2>1. buffer[bufstart + i - 1] = stream[HandedUp + i]
    BY FoundIsLine
  <2>2. HandedUp + i \in 1 .. Len(stream)
    BY <1>1 DEF HandedUp, BufferWithin
  <2> QED BY <2>1, <2>2
<1>3. line' = [i \in 1 .. rt - bufstart |-> buffer[bufstart + i - 1]]
  BY DEF HandUp
<1> QED BY <1>1, <1>2, <1>3

\* Handing up a line reads the next one of the stream.
LEMMA HandUpReads ==
  ASSUME IInv, Found, NEW rt \in 0 .. Max, EndsAt(rt), HandUp(rt),
         stream' = stream, HandedUp' = HandedUp + (rt - bufstart) + 1
  PROVE  Abstract!ReadLine
<1> DEFINE n == rt - bufstart
<1>1. /\ n \in 0 .. Len(stream) /\ Abstract!LineAt(HandedUp, n)
      /\ \A i \in 1 .. n : buffer[bufstart + i - 1] = stream[HandedUp + i]
  BY FoundIsLine
<1>2. line' = [i \in 1 .. n |-> buffer[bufstart + i - 1]]
  BY DEF HandUp
<1>3. line' = [i \in 1 .. n |-> stream[HandedUp + i]]
  BY <1>1, <1>2
<1> HIDE DEF n
<1>4. HandedUp' = HandedUp + n + 1
  BY DEF n
<1> QED BY <1>1, <1>3, <1>4 DEF Abstract!ReadLine

LEMMA InitInvariant == Init => IInv
<1> SUFFICES ASSUME Init PROVE IInv
  OBVIOUS
<1> USE MaxAssumption, ByteAssumption, StreamAssumption DEF Init
<1>1. stream \in Seq(Bytes)
  OBVIOUS
<1>2. TypeOK
  BY <1>1 DEF TypeOK
<1>3. BufferIsStream /\ BufferWithin /\ NoLineBefore /\ OverrunIsFull
  BY DEF BufferIsStream, BufferWithin, NoLineBefore, OverrunIsFull
<1> QED BY <1>2, <1>3 DEF IInv

\* A call that gives up, or has not begun, leaves the buffer as it was.
LEMMA SameBuffer ==
  ASSUME IInv, UNCHANGED <<stream, taken, buffer, bufstart, buflen, line>>,
         check' \in bufstart .. buflen,
         \A i \in bufstart .. check' - 1 : buffer[i] # NewLine,
         reading' \in {"welcome", "element", "no"}, reading' = "welcome" => reading = "welcome",
         error' \in {"NONE", "CONNCLOSED", "TIMEOUT", "NORESPONSE"} \/ (error' = error /\ reading' = reading)
  PROVE  IInv'
<1>1. TypeOK'
  BY DEF IInv, TypeOK
<1>2. BufferIsStream' /\ BufferWithin'
  BY DEF IInv, BufferIsStream, BufferWithin
<1>3. NoLineBefore' /\ OverrunIsFull'
  BY DEF IInv, NoLineBefore, OverrunIsFull
<1> QED BY <1>1, <1>2, <1>3 DEF IInv

\* Without an end of a line in sight there is none in the buffer.
LEMMA NothingFound ==
  ASSUME IInv, ~Found
  PROVE  \A i \in bufstart .. buflen - 1 : buffer[i] # NewLine
<1> USE MaxAssumption, ByteAssumption DEF IInv, TypeOK
<1> SUFFICES ASSUME NEW j \in bufstart .. buflen - 1, buffer[j] = NewLine PROVE FALSE
  OBVIOUS
<1>1. \A i \in bufstart .. buflen - 1 : buffer[i] \in Bytes
  <2> SUFFICES ASSUME NEW i \in bufstart .. buflen - 1 PROVE buffer[i] \in Bytes
    OBVIOUS
  <2>1. taken - buflen + i + 1 \in 1 .. Len(stream)
    BY DEF BufferWithin
  <2>2. buffer[i] = stream[taken - buflen + i + 1]
    BY DEF BufferIsStream
  <2>3. \A k \in 1 .. Len(stream) : stream[k] \in Bytes
    OBVIOUS
  <2> QED BY ONLY <2>1, <2>2, <2>3
<1>2. j \in check .. buflen - 1
  BY DEF NoLineBefore
<1>3. IsEnd(j) /\ j \in 0 .. Max /\ bufstart < buflen
  BY <1>1, <1>2 DEF IsEnd
<1> QED BY <1>3 DEF Found

\* The string still has its end where bytes were added or removed before it.
LEMMA InvariantStep ==
  ASSUME IInv, [Next]_vars
  PROVE  IInv'
<1> USE MaxAssumption, ByteAssumption
<1>1. ASSUME NEW rt \in 0 .. Max, Welcome(rt)
      PROVE  IInv'
  <2>1. rt < buflen /\ bufstart = 0 /\ Len(line') = rt /\ line' \in Seq(Bytes)
    <3>1. reading = "welcome" /\ bufstart = 0 /\ EndsAt(rt)
      BY <1>1 DEF Welcome, HandUp, IInv, NoLineBefore
    <3>2. rt # buflen
      BY <3>1 DEF EndsAt, IsEnd, IInv, BufferIsStream
    <3>3. rt < buflen
      <4>1. SUFFICES ASSUME rt > buflen PROVE FALSE
        BY <3>2 DEF IInv, TypeOK
      <4>2. buflen \in check .. rt - 1
        BY <4>1 DEF IInv, TypeOK
      <4> QED BY <3>1, <4>2 DEF EndsAt, IsEnd, IInv, BufferIsStream
    <3>4. Found
      BY <3>1, <3>3 DEF Found, EndsAt, IInv, TypeOK
    <3>5. line' \in Seq(Bytes)
      BY <1>1, <3>1, <3>4, HandedUpType DEF Welcome
    <3> QED BY <1>1, <3>1, <3>3, <3>5 DEF Welcome, HandUp, IInv, TypeOK
  <2>2. /\ buffer' = Moved(rt + 1) /\ buflen' = buflen - (rt + 1) /\ bufstart' = 0
        /\ taken' = taken /\ stream' = stream /\ check' = 0 /\ reading' = "no" /\ error' = error
    BY <1>1, <2>1 DEF Welcome, HandUp, IInv, TypeOK
  <2>3. rt + 1 \in 0 .. buflen /\ rt + 1 >= bufstart
    BY <2>1 DEF IInv, TypeOK
  <2>4. /\ buflen' \in 0 .. Max /\ buffer' \in [0 .. Max -> Bytes \cup {Nul}] /\ BufferIsStream'
    BY <2>2, <2>3, MovedIsStream
  <2>5. TypeOK' /\ BufferWithin' /\ NoLineBefore'
    BY <2>1, <2>2, <2>3, <2>4 DEF IInv, TypeOK, BufferWithin, NoLineBefore
  <2>6. OverrunIsFull'
    BY <1>1, <2>2 DEF Welcome, IInv, OverrunIsFull
  <2> QED BY <2>4, <2>5, <2>6 DEF IInv
<1>2. ASSUME NEW rt \in 0 .. Max, LineFound(rt)
      PROVE  IInv'
  <2>1. Found /\ EndsAt(rt)
    BY <1>2 DEF LineFound, HandUp
  <2>2. rt \in bufstart .. buflen - 1
    BY <2>1, FoundIsLine
  <2>3. line' \in Seq(Bytes)
    BY <1>2, <2>1, HandedUpType DEF LineFound
  <2>4. /\ buffer' = [buffer EXCEPT ![rt] = Nul] /\ bufstart' = rt + 1 /\ check' = rt + 1
        /\ buflen' = buflen /\ taken' = taken /\ stream' = stream /\ error' = error /\ reading' = "no"
    BY <1>2 DEF LineFound, HandUp
  <2>5. \A i \in rt + 1 .. buflen : buffer'[i] = buffer[i]
    BY <2>2, <2>4 DEF IInv, TypeOK
  <2>6. TypeOK' /\ BufferWithin' /\ NoLineBefore'
    BY <2>2, <2>3, <2>4 DEF IInv, TypeOK, BufferWithin, NoLineBefore
  <2>7. BufferIsStream'
    <3>1. buflen \in rt + 1 .. buflen /\ \A i \in bufstart' .. buflen - 1 : i \in rt + 1 .. buflen /\ i \in bufstart .. buflen - 1
      BY <2>2, <2>4 DEF IInv, TypeOK
    <3>2. buffer'[buflen'] = Nul
      BY <2>4, <2>5, <3>1 DEF IInv, BufferIsStream
    <3>3. ASSUME NEW i \in bufstart' .. buflen' - 1
          PROVE  buffer'[i] = stream'[taken' - buflen' + i + 1]
      <4>1. i \in rt + 1 .. buflen /\ i \in bufstart .. buflen - 1
        BY <2>4, <3>1, <3>3
      <4>2. buffer'[i] = buffer[i]
        BY <2>5, <4>1
      <4>3. buffer[i] = stream[taken - buflen + i + 1]
        BY <4>1 DEF IInv, BufferIsStream
      <4> QED BY <2>4, <4>2, <4>3
    <3> QED BY <3>2, <3>3 DEF BufferIsStream
  <2>8. OverrunIsFull'
    BY <1>2, <2>4 DEF LineFound, IInv, OverrunIsFull
  <2> QED BY <2>6, <2>7, <2>8 DEF IInv
<1>3. ASSUME NEW n \in 1 .. Max, WelcomeReceive(n)
      PROVE  IInv'
  <2>1. Receive(n) /\ check' = 0 /\ reading = "welcome" /\ bufstart = 0
    BY <1>3 DEF WelcomeReceive, IInv, NoLineBefore
  <2>2. /\ stream' = stream /\ bufstart' = bufstart /\ reading' = reading /\ error' = error /\ line' = line
        /\ buflen' = buflen + n /\ taken' = taken + n
    BY <2>1 DEF Receive
  <2>3. /\ taken' \in 0 .. Len(stream) /\ buflen' \in 0 .. Max /\ bufstart <= buflen'
        /\ buffer' \in [0 .. Max -> Bytes \cup {Nul}] /\ BufferIsStream'
    BY <2>1, StoredIsStream
  <2>4. TypeOK' /\ BufferWithin' /\ NoLineBefore' /\ OverrunIsFull'
    BY <2>1, <2>2, <2>3 DEF IInv, TypeOK, BufferWithin, NoLineBefore, OverrunIsFull
  <2> QED BY <2>3, <2>4 DEF IInv
<1>4. ASSUME NEW n \in 1 .. Max, LineReceive(n)
      PROVE  IInv'
  <2>1. Receive(n) /\ check' = buflen /\ reading = "element" /\ ~Found
    BY <1>4 DEF LineReceive, Waits, CheckAfter
  <2>2. /\ stream' = stream /\ bufstart' = bufstart /\ reading' = reading /\ error' = error /\ line' = line
        /\ buflen' = buflen + n /\ taken' = taken + n
    BY <2>1 DEF Receive
  <2>3. /\ taken' \in 0 .. Len(stream) /\ buflen' \in 0 .. Max /\ bufstart <= buflen'
        /\ buffer' \in [0 .. Max -> Bytes \cup {Nul}] /\ BufferIsStream'
        /\ \A i \in 0 .. buflen - 1 : buffer'[i] = buffer[i]
    BY <2>1, StoredIsStream
  <2>4. TypeOK' /\ BufferWithin'
    BY <2>1, <2>2, <2>3 DEF IInv, TypeOK, BufferWithin
  <2>5. \A i \in bufstart .. buflen - 1 : buffer[i] # NewLine
    BY <2>1, NothingFound
  <2>6. NoLineBefore'
    BY <2>1, <2>2, <2>3, <2>5 DEF IInv, TypeOK, NoLineBefore
  <2>7. OverrunIsFull'
    BY <2>1, <2>2 DEF IInv, OverrunIsFull
  <2> QED BY <2>3, <2>4, <2>6, <2>7 DEF IInv
<1>5. CASE NoWelcome
  <2> QED BY <1>5, SameBuffer DEF NoWelcome, Fails, IInv, TypeOK, NoLineBefore
<1>6. CASE GetNext
  <2> QED BY <1>6, SameBuffer DEF GetNext, IInv, TypeOK
<1>7. CASE Compact
  <2>1. /\ buffer' = Moved(bufstart) /\ buflen' = buflen - bufstart /\ bufstart' = 0 /\ check' = buflen'
        /\ UNCHANGED <<stream, taken, reading, error, line>> /\ ~Found /\ reading = "element"
    BY <1>7 DEF Compact, Waits
  <2>2. bufstart \in 0 .. buflen
    BY DEF IInv, TypeOK
  <2>3. /\ buflen' \in 0 .. Max /\ buffer' \in [0 .. Max -> Bytes \cup {Nul}] /\ BufferIsStream'
        /\ \A i \in 0 .. buflen' : buffer'[i] = buffer[i + bufstart]
    BY <2>1, <2>2, MovedIsStream DEF IInv, TypeOK
  <2>4. TypeOK' /\ BufferWithin'
    BY <2>1, <2>3 DEF IInv, TypeOK, BufferWithin
  <2>5. \A i \in bufstart .. buflen - 1 : buffer[i] # NewLine
    BY <2>1, NothingFound
  <2>6. \A i \in 0 .. buflen' - 1 : buffer'[i] # NewLine
    BY <2>1, <2>3, <2>5 DEF IInv, TypeOK
  <2>7. NoLineBefore' /\ OverrunIsFull'
    BY <2>1, <2>6 DEF IInv, TypeOK, NoLineBefore, OverrunIsFull
  <2> QED BY <2>3, <2>4, <2>7 DEF IInv
<1>8. CASE Overrun
  <2>1. /\ bufstart = 0 /\ buflen = Max /\ ~Found /\ reading' = "no" /\ error' = "BUFFEROVERRUN"
        /\ UNCHANGED <<stream, taken, buffer, bufstart, buflen, check, line>>
    BY <1>8 DEF Overrun, Waits, MayCompact, Fails, IInv, TypeOK
  <2>2. \A i \in bufstart .. buflen - 1 : buffer[i] # NewLine
    BY <2>1, NothingFound
  <2>3. TypeOK'
    BY <2>1 DEF IInv, TypeOK
  <2>4. BufferIsStream' /\ BufferWithin' /\ NoLineBefore' /\ OverrunIsFull'
    BY <2>1, <2>2 DEF IInv, BufferIsStream, BufferWithin, NoLineBefore, OverrunIsFull
  <2> QED BY <2>3, <2>4 DEF IInv
<1>9. CASE NothingThere
  <2>1. \A i \in bufstart .. buflen - 1 : buffer[i] # NewLine
    BY <1>9, NothingFound DEF NothingThere, Waits
  <2> QED BY <1>9, <2>1, SameBuffer DEF NothingThere, Waits, IInv, TypeOK
<1>10. CASE GiveUp
  <2>1. \A i \in bufstart .. buflen - 1 : buffer[i] # NewLine
    BY <1>10, NothingFound DEF GiveUp, Waits
  <2> QED BY <1>10, <2>1, SameBuffer DEF GiveUp, Waits, Fails, IInv, TypeOK
<1>11. CASE UNCHANGED vars
  BY <1>11 DEF vars, IInv, TypeOK, BufferIsStream, BufferWithin, NoLineBefore, OverrunIsFull
<1> QED BY <1>1, <1>2, <1>3, <1>4, <1>5, <1>6, <1>7, <1>8, <1>9, <1>10, <1>11 DEF Next

\* The inductive invariant holds in every reachable state.
THEOREM Invariant == Spec => []IInv
BY InitInvariant, InvariantStep, PTL DEF Spec

\* For any buffer, stream and way of the bytes to arrive nothing is written
\* outside the buffer and what a call starts from is within it.
THEOREM TypeCorrect == Spec => []TypeOK
<1>1. IInv => TypeOK
  BY DEF IInv
<1> QED BY <1>1, Invariant, PTL

\* A line is refused for its length only when it does not fit the buffer.
THEOREM OverrunMeansLong == Spec => []OverrunForLongLines
<1>1. IInv => OverrunForLongLines
  <2> USE MaxAssumption
  <2> SUFFICES ASSUME IInv, error = "BUFFEROVERRUN", NEW i \in 1 .. Max
               PROVE  HandedUp + Max <= Len(stream) /\ stream[HandedUp + i] # NewLine
    BY DEF OverrunForLongLines
  <2>0. HandedUp + Max <= Len(stream)
    BY DEF HandedUp, IInv, TypeOK, OverrunIsFull
  <2>1. bufstart = 0 /\ buflen = Max /\ i - 1 \in 0 .. Max - 1 /\ buffer[i - 1] # NewLine
    BY DEF IInv, OverrunIsFull
  <2>2. buffer[i - 1] = stream[taken - buflen + (i - 1) + 1]
    BY <2>1 DEF IInv, BufferIsStream
  <2>3. taken - buflen + (i - 1) + 1 = HandedUp + i
    BY <2>1 DEF HandedUp, IInv, TypeOK
  <2> QED BY <2>0, <2>1, <2>2, <2>3
<1> QED BY <1>1, Invariant, PTL

\* Every step hands up the next line of the stream or none.
LEMMA LineStep ==
  ASSUME IInv, [Next]_vars
  PROVE  [Abstract!ReadLine]_<<stream, HandedUp, line>>
<1> USE MaxAssumption, ByteAssumption
<1>1. ASSUME NEW rt \in 0 .. Max, Welcome(rt)
      PROVE  Abstract!ReadLine
  <2>1. Found /\ EndsAt(rt) /\ HandUp(rt) /\ stream' = stream /\ bufstart = 0 /\ bufstart' = 0
    <3>1. reading = "welcome" /\ EndsAt(rt) /\ bufstart = 0
      BY <1>1 DEF Welcome, HandUp, IInv, NoLineBefore
    <3>2. 0 < buflen
      BY <1>1, <3>1 DEF Welcome, HandUp, EndsAt, IsEnd, IInv, TypeOK, BufferIsStream
    <3>3. Found
      BY <3>1, <3>2 DEF Found, EndsAt
    <3> QED BY <1>1, <3>1, <3>3 DEF Welcome, HandUp
  <2>2. HandedUp' = HandedUp + (rt - bufstart) + 1
    BY <1>1, <2>1 DEF Welcome, HandUp, HandedUp, IInv, TypeOK
  <2> QED BY <2>1, <2>2, HandUpReads
<1>2. ASSUME NEW rt \in 0 .. Max, LineFound(rt)
      PROVE  Abstract!ReadLine
  <2>1. Found /\ EndsAt(rt) /\ HandUp(rt) /\ stream' = stream
    BY <1>2 DEF LineFound, HandUp
  <2>2. HandedUp' = HandedUp + (rt - bufstart) + 1
    BY <1>2 DEF LineFound, HandUp, HandedUp, IInv, TypeOK
  <2> QED BY <2>1, <2>2, HandUpReads
<1>3. ASSUME NEW n \in 1 .. Max, WelcomeReceive(n) \/ LineReceive(n)
      PROVE  UNCHANGED <<stream, HandedUp, line>>
  <2>1. Receive(n) /\ stream' = stream /\ line' = line
    BY <1>3 DEF WelcomeReceive, LineReceive, Receive
  <2> QED BY <2>1, StoredIsStream
<1>4. CASE Compact
  BY <1>4 DEF Compact, HandedUp, IInv, TypeOK
<1>5. CASE NoWelcome \/ GetNext \/ Overrun \/ NothingThere \/ GiveUp \/ UNCHANGED vars
  BY <1>5 DEF NoWelcome, GetNext, Overrun, NothingThere, GiveUp, Fails, HandedUp, vars
<1> QED BY <1>1, <1>2, <1>3, <1>4, <1>5 DEF Next

\* For every size of the buffer and every stream the program gets the lines of
\* the stream, in order and whole.
THEOREM LinesAreTheStream == Spec => ImplementsLines
<1>1. Init => Abstract!Init
  BY DEF Init, Abstract!Init, HandedUp
<1>2. IInv /\ [Next]_vars => [Abstract!ReadLine]_<<stream, HandedUp, line>>
  BY LineStep
<1> QED BY <1>1, <1>2, Invariant, PTL DEF Spec, ImplementsLines, Abstract!Spec
=============================================================================
