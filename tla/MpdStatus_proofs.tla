--------------------------- MODULE MpdStatus_proofs ---------------------------
(***************************************************************************)
(* For any fields, events, outputs and depth of callbacks: the bits of     *)
(* what changed are not lost between the comparison that finds them and    *)
(* the callback that tells them.                                           *)
(***************************************************************************)
EXTENDS MpdStatus, SequenceTheorems, TLAPS

-----------------------------------------------------------------------------
(* The stack of calls *)

\* The bits that calls under way have collected.
Collected(s) == UNION {s[i].what : i \in 1 .. Len(s)}

\* A status_update that will store mi->status has the bit for it.
Watches(s) == \E i \in 1 .. Len(s) : s[i].at = "watch" /\ "UPDATING" \in s[i].what

\* Only mpd_status_update collects bits, after it has read a status, and it is
\* the one that calls mpd_stats_update_real; the program is at the bottom.
Shape(s) ==
  /\ s \in Seq(Frames) /\ Len(s) > 0 /\ s[Len(s)].op = "user"
  /\ \A i \in 1 .. Len(s) :
       /\ s[i].what # {} => s[i].op = "status_update" /\ s[i].at # "begin"
       /\ s[i].at \in {"watch", "signal"} => s[i].op = "status_update"
       /\ s[i].op = "stats_real" => /\ i < Len(s)
                                    /\ s[i + 1].op = "status_update" /\ s[i + 1].at # "begin"
  /\ \A i, j \in 1 .. Len(s) : s[i].op = "connect" /\ s[j].op = "connect" => i = j

\* mpd_connect has not begun to reset.
NotOpening(s) == \A i \in 1 .. Len(s) : s[i].op = "connect" => i = 1 /\ s[i].at = "begin"

\* A call that begins, or a frame that goes on elsewhere.
LEMMA ConsProperties ==
  ASSUME NEW S, NEW s \in Seq(S), NEW f \in S
  PROVE  /\ <<f>> \o s \in Seq(S) /\ Len(<<f>> \o s) = Len(s) + 1
         /\ (<<f>> \o s)[1] = f /\ \A i \in 1 .. Len(s) : (<<f>> \o s)[i + 1] = s[i]
         /\ \A i \in 2 .. Len(s) + 1 : (<<f>> \o s)[i] = s[i - 1]
         /\ Head(<<f>> \o s) = f
<1>1. <<f>> \in Seq(S) /\ Len(<<f>>) = 1 /\ <<f>>[1] = f
  OBVIOUS
<1>2. /\ <<f>> \o s \in Seq(S) /\ Len(<<f>> \o s) = 1 + Len(s)
      /\ \A i \in 1 .. 1 + Len(s) : (<<f>> \o s)[i] = IF i <= 1 THEN <<f>>[i] ELSE s[i - 1]
  BY <1>1, ConcatProperties
<1>3. Len(s) \in Nat
  OBVIOUS
<1>4. (<<f>> \o s)[1] = f
  BY <1>1, <1>2, <1>3
<1>5. \A i \in 1 .. Len(s) : (<<f>> \o s)[i + 1] = s[i]
  BY <1>2, <1>3
<1>6. Head(<<f>> \o s) = f
  BY <1>2, <1>3, <1>4
<1> QED BY <1>2, <1>3, <1>4, <1>5, <1>6

LEMMA Push ==
  ASSUME NEW s, Shape(s), NEW op,
         op \in {"user", "status_update", "stats_update", "stats_real", "connect", "disconnect",
                 "ack_error", "fatal_error"},
         op = "stats_real" => Head(s).op = "status_update" /\ Head(s).at # "begin",
         op = "connect" => \A i \in 1 .. Len(s) : s[i].op # "connect"
  PROVE  LET t == <<Call(op)>> \o s
         IN  /\ Shape(t) /\ Head(t) = Call(op) /\ Len(t) > 1 /\ t[2] = Head(s)
             /\ Collected(t) = Collected(s) /\ (Watches(s) => Watches(t))
             /\ NotOpening(s) /\ Head(s).op # "connect" => NotOpening(t)
<1> DEFINE t == <<Call(op)>> \o s
<1>1. /\ Call(op) \in Frames /\ Call(op).op = op /\ Call(op).at = "begin" /\ Call(op).what = {}
  BY DEF Call, Frames
<1>2. /\ t \in Seq(Frames) /\ Len(t) = Len(s) + 1 /\ t[1] = Call(op) /\ Head(t) = Call(op)
      /\ \A i \in 1 .. Len(s) : t[i + 1] = s[i]
      /\ \A i \in 2 .. Len(s) + 1 : t[i] = s[i - 1]
  BY <1>1, ConsProperties DEF Shape
<1>3. Len(s) \in Nat \ {0} /\ Head(s) = s[1]
  BY DEF Shape
<1> HIDE DEF t
<1>4. Shape(t)
  <2>1. t[Len(t)].op = "user"
    BY <1>2, <1>3 DEF Shape
  <2>2. ASSUME NEW i \in 1 .. Len(t)
        PROVE  /\ t[i].what # {} => t[i].op = "status_update" /\ t[i].at # "begin"
               /\ t[i].at \in {"watch", "signal"} => t[i].op = "status_update"
               /\ t[i].op = "stats_real" => /\ i < Len(t)
                                            /\ t[i + 1].op = "status_update" /\ t[i + 1].at # "begin"
    <3>1. CASE i = 1
      BY <3>1, <1>1, <1>2, <1>3
    <3>2. CASE i # 1
      <4>1. i - 1 \in 1 .. Len(s) /\ t[i] = s[i - 1] /\ (i - 1 < Len(s) => t[i + 1] = s[i - 1 + 1])
        BY <3>2, <1>2, <1>3
      <4> QED BY <4>1, <1>2, <1>3 DEF Shape
    <3> QED BY <3>1, <3>2
  <2>3. ASSUME NEW i \in 1 .. Len(t), NEW j \in 1 .. Len(t), t[i].op = "connect", t[j].op = "connect"
        PROVE  i = j
    <3>1. \A k \in 2 .. Len(t) : k - 1 \in 1 .. Len(s) /\ t[k] = s[k - 1]
      BY <1>2, <1>3
    <3>2. CASE i = 1 \/ j = 1
      <4>1. op = "connect" /\ \A k \in 2 .. Len(t) : t[k].op # "connect"
        BY <2>3, <3>1, <3>2, <1>1, <1>2
      <4> QED BY <2>3, <4>1, <1>2, <1>3
    <3>3. CASE i # 1 /\ j # 1
      <4>1. i - 1 \in 1 .. Len(s) /\ t[i] = s[i - 1] /\ j - 1 \in 1 .. Len(s) /\ t[j] = s[j - 1]
        BY <3>1, <3>3, <1>2, <1>3
      <4>2. i - 1 = j - 1
        BY <2>3, <4>1 DEF Shape
      <4> QED BY <4>2, <1>2, <1>3
    <3> QED BY <3>2, <3>3
  <2> QED BY <1>2, <1>3, <2>1, <2>2, <2>3 DEF Shape
<1>5. Collected(t) = Collected(s)
  <2>1. \A i \in 1 .. Len(s) : i + 1 \in 1 .. Len(t) /\ t[i + 1].what = s[i].what
    BY <1>2, <1>3
  <2>2. \A i \in 1 .. Len(t) : t[i].what = {} \/ (i - 1 \in 1 .. Len(s) /\ t[i].what = s[i - 1].what)
    BY <1>1, <1>2, <1>3
  <2> QED BY <2>1, <2>2 DEF Collected
<1>6. Watches(s) => Watches(t)
  <2>1. \A i \in 1 .. Len(s) : i + 1 \in 1 .. Len(t) /\ t[i + 1] = s[i]
    BY <1>2, <1>3
  <2> QED BY <2>1 DEF Watches
<1>7. NotOpening(s) /\ Head(s).op # "connect" => NotOpening(t)
  BY <1>1, <1>2, <1>3 DEF NotOpening
<1>8. Len(t) > 1 /\ t[2] = Head(s)
  BY <1>2, <1>3
<1> QED BY <1>2, <1>4, <1>5, <1>6, <1>7, <1>8 DEF t

LEMMA Pop ==
  ASSUME NEW s, Shape(s), Head(s).op # "user" \/ Len(s) > 1
  PROVE  LET t == Tail(s)
         IN  /\ Shape(t) /\ Collected(s) = Head(s).what \cup Collected(t)
             /\ Watches(s) /\ Head(s).at # "watch" => Watches(t)
             /\ NotOpening(s) \/ Head(s).op = "connect" => \A i \in 1 .. Len(t) : t[i].op # "connect"
             /\ Head(s).op = "stats_real" => Head(t).op = "status_update" /\ Head(t).at # "begin"
<1> DEFINE t == Tail(s)
<1>1. Len(s) \in Nat /\ Len(s) > 1 /\ Head(s) = s[1] /\ s # <<>> /\ s \in Seq(Frames)
  BY DEF Shape
<1>2. t \in Seq(Frames) /\ Len(t) = Len(s) - 1 /\ \A i \in 1 .. Len(t) : t[i] = s[i + 1]
  BY <1>1, HeadTailProperties
<1> HIDE DEF t
<1>3. \A i \in 1 .. Len(t) : i + 1 \in 2 .. Len(s) /\ (i < Len(t) => t[i + 1] = s[i + 1 + 1])
  BY <1>1, <1>2
<1>4. Shape(t)
  <2>1. t[Len(t)].op = "user"
    BY <1>1, <1>2, <1>3 DEF Shape
  <2>2. \A i, j \in 1 .. Len(t) : t[i].op = "connect" /\ t[j].op = "connect" => i = j
    BY <1>1, <1>2, <1>3 DEF Shape
  <2>3. ASSUME NEW i \in 1 .. Len(t)
        PROVE  /\ t[i].what # {} => t[i].op = "status_update" /\ t[i].at # "begin"
               /\ t[i].at \in {"watch", "signal"} => t[i].op = "status_update"
               /\ t[i].op = "stats_real" => /\ i < Len(t)
                                            /\ t[i + 1].op = "status_update" /\ t[i + 1].at # "begin"
    <3>1. i + 1 \in 1 .. Len(s) /\ t[i] = s[i + 1] /\ (i + 1 < Len(s) <=> i < Len(t))
      BY <1>1, <1>2
    <3> QED BY <3>1, <1>3 DEF Shape
  <2> QED BY <1>1, <1>2, <2>1, <2>2, <2>3 DEF Shape
<1>5. \A i \in 1 .. Len(s) : i = 1 \/ (i - 1 \in 1 .. Len(t) /\ s[i] = t[i - 1])
  BY <1>1, <1>2
<1>6. Collected(s) = Head(s).what \cup Collected(t)
  <2>1. \A i \in 1 .. Len(t) : i + 1 \in 1 .. Len(s) /\ t[i].what = s[i + 1].what
    BY <1>2, <1>3, <1>1
  <2>2. 1 \in 1 .. Len(s) /\ Head(s).what = s[1].what
    BY <1>1
  <2>3. \A i \in 1 .. Len(s) : s[i].what = Head(s).what \/ (i - 1 \in 1 .. Len(t) /\ s[i].what = t[i - 1].what)
    BY <1>1, <1>5
  <2> QED BY <2>1, <2>2, <2>3 DEF Collected
<1>7. Watches(s) /\ Head(s).at # "watch" => Watches(t)
  BY <1>1, <1>5 DEF Watches
<1>8. NotOpening(s) \/ Head(s).op = "connect" => \A i \in 1 .. Len(t) : t[i].op # "connect"
  BY <1>1, <1>2, <1>3 DEF NotOpening, Shape
<1>9. Head(s).op = "stats_real" => Head(t).op = "status_update" /\ Head(t).at # "begin"
  <2>1. Head(t) = s[1 + 1]
    BY <1>1, <1>2
  <2>2. s[1].op = "stats_real" => s[1 + 1].op = "status_update" /\ s[1 + 1].at # "begin"
    BY <1>1 DEF Shape
  <2> QED BY <1>1, <2>1, <2>2
<1> QED BY <1>4, <1>6, <1>7, <1>8, <1>9 DEF t

\* The frame that runs goes on elsewhere or with other bits.
LEMMA Replace ==
  ASSUME NEW s, Shape(s), NEW g \in Frames, g.op = Head(s).op, g.op # "stats_real",
         g.what # {} => g.op = "status_update" /\ g.at # "begin",
         g.at \in {"watch", "signal"} => g.op = "status_update"
  PROVE  LET t == <<g>> \o Tail(s)
         IN  /\ Shape(t) /\ Head(t) = g /\ Len(t) = Len(s)
             /\ Collected(s) \subseteq Head(s).what \cup Collected(t)
             /\ g.what \subseteq Collected(t)
             /\ Head(s).what \subseteq g.what => Collected(s) \subseteq Collected(t)
             /\ Watches(s) /\ Head(s).at # "watch" => Watches(t)
             /\ Watches(s) /\ Head(s).at = g.at /\ Head(s).what \subseteq g.what => Watches(t)
             /\ g.at = "watch" /\ "UPDATING" \in g.what => Watches(t)
             /\ NotOpening(s) /\ Head(s).op # "connect" => NotOpening(t)
<1> DEFINE t == <<g>> \o Tail(s)
<1>1. Len(s) \in Nat /\ Len(s) > 0 /\ Head(s) = s[1] /\ s # <<>> /\ s \in Seq(Frames)
  BY DEF Shape
<1>2. Tail(s) \in Seq(Frames) /\ Len(Tail(s)) = Len(s) - 1 /\ \A i \in 1 .. Len(Tail(s)) : Tail(s)[i] = s[i + 1]
  BY <1>1, HeadTailProperties
<1>3. /\ t \in Seq(Frames) /\ Len(t) = Len(s) /\ t[1] = g /\ Head(t) = g
      /\ \A i \in 2 .. Len(s) : t[i] = Tail(s)[i - 1]
  BY <1>1, <1>2, ConsProperties
<1>4. \A i \in 2 .. Len(s) : t[i] = s[i]
  BY <1>1, <1>2, <1>3
<1> HIDE DEF t
<1>5. Shape(t)
  <2>1. t[Len(t)].op = "user"
    BY <1>1, <1>3, <1>4 DEF Shape
  <2>2. \A i, j \in 1 .. Len(t) : t[i].op = "connect" /\ t[j].op = "connect" => i = j
    BY <1>1, <1>3, <1>4 DEF Shape
  <2>3. ASSUME NEW i \in 1 .. Len(t)
        PROVE  /\ t[i].what # {} => t[i].op = "status_update" /\ t[i].at # "begin"
               /\ t[i].at \in {"watch", "signal"} => t[i].op = "status_update"
               /\ t[i].op = "stats_real" => /\ i < Len(t)
                                            /\ t[i + 1].op = "status_update" /\ t[i + 1].at # "begin"
    <3>1. CASE i = 1
      BY <3>1, <1>3
    <3>2. CASE i # 1
      <4>1. i \in 1 .. Len(s) /\ t[i] = s[i] /\ (i < Len(s) => t[i + 1] = s[i + 1])
        BY <3>2, <1>1, <1>3, <1>4
      <4> QED BY <4>1, <1>3 DEF Shape
    <3> QED BY <3>1, <3>2
  <2> QED BY <1>1, <1>3, <2>1, <2>2, <2>3 DEF Shape
<1>6. \A i \in 1 .. Len(s) : i = 1 \/ (i \in 2 .. Len(s) /\ i \in 1 .. Len(t) /\ s[i] = t[i])
  BY <1>1, <1>3, <1>4
<1>7. 1 \in 1 .. Len(t) /\ t[1] = g
  BY <1>1, <1>3
<1>8. Collected(s) \subseteq Head(s).what \cup Collected(t) /\ g.what \subseteq Collected(t)
  BY <1>1, <1>6, <1>7 DEF Collected
<1>9. /\ Watches(s) /\ Head(s).at # "watch" => Watches(t)
      /\ Watches(s) /\ Head(s).at = g.at /\ Head(s).what \subseteq g.what => Watches(t)
      /\ g.at = "watch" /\ "UPDATING" \in g.what => Watches(t)
  BY <1>1, <1>6, <1>7 DEF Watches
<1>10. NotOpening(s) /\ Head(s).op # "connect" => NotOpening(t)
  BY <1>1, <1>3, <1>4 DEF NotOpening
<1> QED BY <1>3, <1>5, <1>8, <1>9, <1>10 DEF t

-----------------------------------------------------------------------------
(* The invariant *)

\* mpd_disconnect leaves these fields to the next connection.
Kept     == {"single", "consume"}
Followed == StateFields \ Kept

EnabledIn(states) == {id \in Ids : id + 1 \in DOMAIN states /\ states[id + 1]}

\* mpd_connect has reset the fields and is about to disconnect.
Resetting == connected /\ Len(stack) > 1 /\ stack[1].op = "disconnect" /\ stack[2].op = "connect"

Following == connected /\ ~Resetting

Servers ==
  [state : States, enabled : SUBSET Ids, error : BOOLEAN, events : SUBSET Events, happened : 0 .. MaxEvents]

ServerTyped ==
  server \in Servers /\ server.state.updatingDb \in {0, 1} /\ server.state.dbUpdateTime \in Nat

\* The types, and that what is stored was read from a server or is what a
\* server never asked is taken to say.
Typed ==
  /\ ServerTyped
  /\ alive \in BOOLEAN /\ connected \in BOOLEAN /\ lock \in BOOLEAN /\ hasIdle \in BOOLEAN
  /\ status \in {Unknown, 0, 1} /\ current \in States /\ current.dbUpdateTime \in Nat /\ old \in Nat
  /\ outputs \in Seq(BOOLEAN)
  /\ over \in {"no", "no status", "no answer", "no output"}
  /\ told \in [state : States, enabled : SUBSET Ids] /\ owed \subseteq Bits /\ silent \in BOOLEAN

\* Without a connection nothing is known and the program was told so.
Forgotten ==
  ~connected => /\ status = Unknown /\ outputs = <<>> /\ ~hasIdle
                /\ told.enabled = {}
                /\ \A f \in Followed : current[f] = InitServerState[f] /\ told.state[f] = InitServerState[f]

\* A value the program was not told has its bit in a call under way.
FieldsCollected ==
  Following => \A f \in Followed : \/ told.state[f] = current[f]
                                   \/ BitOf[f] \in Collected(stack)
                                   \/ f = "dbUpdateTime" /\ silent

\* A status that is not stored yet has its bit, too.
StatusCollected ==
  Following /\ status # Unknown /\ status # current.updatingDb => Watches(stack)

OutputsCollected ==
  connected /\ ~hasIdle => told.enabled = EnabledIn(outputs) \/ "OUTPUT" \in Collected(stack)

EventsCollected == owed \subseteq Collected(stack)

IInv ==
  /\ Typed /\ Shape(stack)
  /\ Following => NotOpening(stack)
  /\ Forgotten
  /\ FieldsCollected /\ StatusCollected /\ OutputsCollected /\ EventsCollected

-----------------------------------------------------------------------------
(* Bits and fields *)

LEMMA FieldFacts ==
  /\ Fields \subseteq StateFields /\ "updatingDb" \in StateFields /\ "dbUpdateTime" \in StateFields
  /\ "updatingDb" \notin Fields /\ "dbUpdateTime" \notin Fields
  /\ "updatingDb" \in Followed /\ "dbUpdateTime" \in Followed /\ Followed \subseteq StateFields
  /\ BitOf["updatingDb"] = "UPDATING" /\ BitOf["dbUpdateTime"] = "DATABASE"
  /\ \A f \in StateFields : BitOf[f] \in Bits
  /\ \A e \in Events : EventBit[e] \in Bits
  /\ {"OUTPUT", "SERVER_ERROR", "UPDATING", "DATABASE"} \subseteq Bits
<1>1. /\ Fields \subseteq StateFields /\ "updatingDb" \in StateFields /\ "dbUpdateTime" \in StateFields
      /\ "updatingDb" \notin Fields /\ "dbUpdateTime" \notin Fields
  BY StatusAssumption DEF StateFields
<1>2. "updatingDb" \in Followed /\ "dbUpdateTime" \in Followed /\ Followed \subseteq StateFields
  BY <1>1 DEF Followed, Kept
<1>3. BitOf["updatingDb"] = "UPDATING" /\ BitOf["dbUpdateTime"] = "DATABASE"
  BY DEF BitOf
<1>4. /\ \A f \in StateFields : BitOf[f] \in Bits
      /\ \A e \in Events : EventBit[e] \in Bits
      /\ {"OUTPUT", "SERVER_ERROR"} \subseteq Bits
  BY DEF Bits
<1> QED BY <1>1, <1>2, <1>3, <1>4

LEMMA InitStateTyped ==
  /\ InitServerState \in States
  /\ InitServerState.updatingDb = 0 /\ InitServerState.dbUpdateTime = 0
  /\ \A f \in StateFields : InitServerState[f] \in Int \cup {Unknown}
<1>1. InitServerState \in States
  BY DEF InitServerState, States
<1>2. "updatingDb" \in ZeroFields /\ "dbUpdateTime" \in ZeroFields
  BY DEF ZeroFields
<1>3. InitServerState.updatingDb = 0 /\ InitServerState.dbUpdateTime = 0
  BY <1>2, FieldFacts DEF InitServerState
<1> QED BY <1>1, <1>3 DEF States

LEMMA InitInv == Init => IInv
<1> SUFFICES ASSUME Init PROVE IInv
  OBVIOUS
<1>1. /\ stack = <<Call("user")>> /\ Call("user") \in Frames /\ Call("user").op = "user"
      /\ Call("user").at = "begin" /\ Call("user").what = {}
  BY DEF Init, Call, Frames
<1>2. stack \in Seq(Frames) /\ Len(stack) = 1 /\ stack[1] = Call("user")
  BY <1>1
<1>3. Shape(stack) /\ Collected(stack) = {} /\ NotOpening(stack)
  BY <1>1, <1>2 DEF Shape, Collected, NotOpening
<1>4. ServerTyped
  <2>1. [f \in StateFields |-> 0] \in States
    BY DEF States
  <2>2. server.state.updatingDb = 0 /\ server.state.dbUpdateTime = 0
    BY FieldFacts DEF Init
  <2> QED BY <2>1, <2>2, StatusAssumption DEF Init, ServerTyped, Servers
<1>5. Typed
  <2>1. told \in [state : States, enabled : SUBSET Ids]
    BY InitStateTyped DEF Init, Nothing
  <2>2. outputs \in Seq(BOOLEAN)
    BY DEF Init
  <2>3. current \in States /\ current.dbUpdateTime \in Nat
    BY InitStateTyped DEF Init
  <2>4. /\ alive \in BOOLEAN /\ connected \in BOOLEAN /\ lock \in BOOLEAN /\ hasIdle \in BOOLEAN
        /\ status \in {Unknown, 0, 1} /\ old \in Nat /\ over \in {"no", "no status", "no answer", "no output"}
        /\ owed \subseteq Bits /\ silent \in BOOLEAN
    BY DEF Init
  <2> QED BY <1>4, <2>1, <2>2, <2>3, <2>4 DEF Typed
<1>6. Forgotten
  BY DEF Init, Forgotten, Nothing
<1>7. FieldsCollected /\ StatusCollected /\ OutputsCollected /\ EventsCollected
  BY DEF Init, FieldsCollected, StatusCollected, OutputsCollected, EventsCollected, Following
<1> QED BY <1>3, <1>5, <1>6, <1>7 DEF IInv

-----------------------------------------------------------------------------
(* Steps that only call, return or fail *)

\* The stack t has all the bits of the stack, and mpd_connect is not in it.
Carries(t) ==
  /\ Shape(t) /\ Collected(stack) \subseteq Collected(t)
  /\ Watches(stack) => Watches(t)
  /\ NotOpening(stack) => NotOpening(t)

LEMMA TopFacts ==
  ASSUME Shape(stack)
  PROVE  /\ Top = stack[1] /\ Top \in Frames /\ Len(stack) \in Nat \ {0} /\ Top.what \subseteq Bits
         /\ Top.op # "disconnect" => ~Resetting
         /\ Top.op # "user" => Len(stack) > 1
         /\ Top.what # {} => Top.op = "status_update" /\ Top.at # "begin"
         /\ Top.at \in {"watch", "signal"} => Top.op = "status_update"
<1>1. Len(stack) \in Nat \ {0} /\ stack \in Seq(Frames) /\ Top = stack[1]
  BY DEF Shape, Top
<1>2. Top \in Frames
  BY <1>1
<1>3. Top.what \subseteq Bits
  BY <1>2 DEF Frames
<1>4. /\ Top.op # "user" => Len(stack) > 1
      /\ Top.what # {} => Top.op = "status_update" /\ Top.at # "begin"
      /\ Top.at \in {"watch", "signal"} => Top.op = "status_update"
  BY <1>1 DEF Shape
<1> QED BY <1>1, <1>2, <1>3, <1>4 DEF Resetting

Called == {"user", "status_update", "stats_update", "disconnect", "ack_error", "fatal_error"}

LEMMA ReturnCarries ==
  ASSUME Shape(stack), Len(stack) > 1, Top.what = {}, Top.at # "watch"
  PROVE  /\ Carries(Returned)
         /\ \A op \in Called : Carries(<<Call(op)>> \o Returned)
<1>1. /\ Shape(Returned) /\ Collected(stack) = Collected(Returned)
      /\ Watches(stack) => Watches(Returned)
      /\ NotOpening(stack) => \A i \in 1 .. Len(Returned) : Returned[i].op # "connect"
  BY Pop DEF Returned, Top
<1>2. NotOpening(stack) => NotOpening(Returned) /\ Head(Returned).op # "connect"
  <2>1. Head(Returned) = Returned[1] /\ 1 \in 1 .. Len(Returned)
    BY <1>1 DEF Shape
  <2> QED BY <1>1, <2>1 DEF NotOpening
<1>3. Carries(Returned)
  BY <1>1, <1>2 DEF Carries
<1>4. ASSUME NEW op \in Called
      PROVE  Carries(<<Call(op)>> \o Returned)
  BY <1>1, <1>2, Push DEF Carries, Called
<1> QED BY <1>3, <1>4

LEMMA CallCarries ==
  ASSUME Shape(stack), NEW op \in Called, Top.op # "connect"
  PROVE  Carries(<<Call(op)>> \o stack)
BY Push DEF Carries, Called, Top

LEMMA GoesOnCarries ==
  ASSUME Shape(stack), NEW op \in Called, Top.op \in {"ack_error", "fatal_error"}, Top.at = "begin"
  PROVE  Carries(<<Call(op)>> \o At("close", {}))
<1> DEFINE g == [Top EXCEPT !.at = "close", !.what = {}]
<1>1. g \in Frames /\ g.op = Top.op /\ g.at = "close" /\ g.what = {} /\ Top.what = {}
  BY TopFacts DEF Frames
<1> HIDE DEF g
<1>2. /\ Shape(<<g>> \o Tail(stack)) /\ Head(<<g>> \o Tail(stack)) = g
      /\ Collected(stack) \subseteq Collected(<<g>> \o Tail(stack))
      /\ Watches(stack) => Watches(<<g>> \o Tail(stack))
      /\ NotOpening(stack) => NotOpening(<<g>> \o Tail(stack))
  BY <1>1, Replace DEF Top
<1>3. At("close", {}) = <<g>> \o Tail(stack)
  BY DEF At, g
<1> QED BY <1>1, <1>2, <1>3, Push DEF Carries, Called

\* Such a step leaves what the program was told and what libmpd knows alone,
\* and at most drops the status.
LEMMA Quiet ==
  ASSUME IInv, Typed', Carries(stack'), Resetting => stack' = stack,
         UNCHANGED <<connected, hasIdle, current, outputs, told, owed, silent>>,
         status' \in {status, Unknown}
  PROVE  IInv'
<1>1. Following' => Following
  BY DEF Following, Resetting
<1>2. Shape(stack') /\ (Following' => NotOpening(stack'))
  BY <1>1 DEF IInv, Carries
<1>3. Forgotten'
  BY DEF IInv, Forgotten
<1>4. FieldsCollected' /\ OutputsCollected' /\ EventsCollected'
  BY <1>1 DEF IInv, Carries, FieldsCollected, OutputsCollected, EventsCollected, EnabledIn
<1>5. StatusCollected'
  BY <1>1 DEF IInv, Carries, StatusCollected
<1> QED BY <1>2, <1>3, <1>4, <1>5 DEF IInv

LEMMA SameCarries == ASSUME Shape(stack) PROVE Carries(stack)
BY DEF Carries

LEMMA ExceptState ==
  ASSUME NEW st \in States, NEW f \in StateFields, NEW v \in Int \cup {Unknown}
  PROVE  [st EXCEPT ![f] = v] \in States
BY DEF States

LEMMA HappensTyped ==
  ASSUME ServerTyped, NEW change \in Servers, change.happened = server.happened,
         change.state.updatingDb \in {0, 1}, change.state.dbUpdateTime \in Nat,
         NEW event, Happens(change, event)
  PROVE  ServerTyped'
<1>1. server' = [change EXCEPT !.happened = @ + 1, !.events = @ \cup ({event} \cap Events)]
  BY DEF Happens
<1>2. change.happened \in 0 .. MaxEvents /\ change.happened < MaxEvents
  BY DEF Happens, Servers
<1>3. change.happened + 1 \in 0 .. MaxEvents
  BY <1>2, StatusAssumption
<1>4. change.events \cup ({event} \cap Events) \in SUBSET Events
  BY DEF Servers
<1>5. server' \in Servers /\ server'.state = change.state
  BY <1>1, <1>3, <1>4 DEF Servers
<1> QED BY <1>5 DEF ServerTyped

LEMMA CountTyped ==
  ASSUME ServerTyped, server.happened < MaxEvents, server' = [server EXCEPT !.happened = @ + 1]
  PROVE  ServerTyped'
<1>1. server.happened + 1 \in 0 .. MaxEvents
  BY StatusAssumption DEF ServerTyped, Servers
<1> QED BY <1>1 DEF ServerTyped, Servers

LEMMA EnvironmentStep ==
  ASSUME IInv, Environment
  PROVE  IInv'
<1>1. ServerTyped
  BY DEF IInv, Typed
<1>2. server \in Servers /\ server.state \in States /\ server.happened \in 0 .. MaxEvents
  BY <1>1 DEF ServerTyped, Servers
<1>3. alive' \in BOOLEAN /\ UNCHANGED <<session, mi, stack, over, history>>
  BY DEF IInv, Typed, Environment, StateChanges, UpdateStarts, UpdateEnds, OutputToggles, OtherEvent,
         PlayFails, Dies, Happens
<1>4. ServerTyped'
  <2>1. CASE StateChanges
    <3>1. PICK f \in Fields, v \in Values :
            Happens([server EXCEPT !.state[f] = v], IF f = "playlistid" THEN "playlist" ELSE "player")
      BY <2>1 DEF StateChanges
    <3>2. [server.state EXCEPT ![f] = v] \in States
      <4>1. f \in StateFields /\ v \in Int
        BY FieldFacts DEF Values
      <4> QED BY <1>2, <4>1, ExceptState
    <3>3. [server EXCEPT !.state[f] = v] = [server EXCEPT !.state = [server.state EXCEPT ![f] = v]]
      BY <1>2 DEF Servers
    <3>4. [server EXCEPT !.state[f] = v] \in Servers /\ [server EXCEPT !.state[f] = v].happened = server.happened
      BY <1>2, <3>2, <3>3 DEF Servers
    <3>5. [server.state EXCEPT ![f] = v].updatingDb = server.state.updatingDb
          /\ [server.state EXCEPT ![f] = v].dbUpdateTime = server.state.dbUpdateTime
      BY <1>2, FieldFacts DEF States
    <3>6. [server EXCEPT !.state[f] = v].state = [server.state EXCEPT ![f] = v]
      BY <1>2, <3>3 DEF Servers
    <3> QED BY <1>1, <3>1, <3>4, <3>5, <3>6, HappensTyped DEF ServerTyped
  <2>2. CASE UpdateStarts
    <3> DEFINE c == [server EXCEPT !.state.updatingDb = 1]
    <3>1. [server.state EXCEPT !.updatingDb = 1] \in States
      BY <1>2 DEF States
    <3>2. c = [server EXCEPT !.state = [server.state EXCEPT !.updatingDb = 1]]
      BY <1>2 DEF Servers
    <3>3. c \in Servers /\ c.happened = server.happened /\ c.state = [server.state EXCEPT !.updatingDb = 1]
      BY <1>2, <3>1, <3>2 DEF Servers
    <3>4. c.state.updatingDb = 1 /\ c.state.dbUpdateTime = server.state.dbUpdateTime
      BY <1>2, <3>3, FieldFacts DEF States
    <3>5. Happens(c, "update")
      BY <2>2 DEF UpdateStarts
    <3> QED BY <1>1, <3>3, <3>4, <3>5, HappensTyped DEF ServerTyped
  <2>3. CASE UpdateEnds
    <3> DEFINE c == [server EXCEPT !.state.updatingDb = 0, !.state.dbUpdateTime = @ + 1]
               n == [server.state EXCEPT !.updatingDb = 0, !.dbUpdateTime = @ + 1]
    <3>0. server.state.dbUpdateTime + 1 \in Nat
      BY <1>1 DEF ServerTyped
    <3>1. n \in States
      <4> DEFINE u == [server.state EXCEPT !.updatingDb = 0]
                 time == server.state.dbUpdateTime + 1
      <4>1. u \in States
        BY <1>2, FieldFacts, ExceptState
      <4>2. time \in Int \cup {Unknown}
        BY <3>0
      <4> HIDE DEF u, time
      <4>3. [u EXCEPT !["dbUpdateTime"] = time] \in States
        BY <4>1, <4>2, FieldFacts, ExceptState
      <4> QED BY <4>3 DEF u, time
    <3>2. c = [server EXCEPT !.state = n]
      BY <1>2 DEF Servers
    <3>3. c \in Servers /\ c.happened = server.happened /\ c.state = n
      BY <1>2, <3>1, <3>2 DEF Servers
    <3>4. c.state.updatingDb = 0 /\ c.state.dbUpdateTime = server.state.dbUpdateTime + 1
      BY <1>2, <3>3, FieldFacts DEF States
    <3>5. Happens(c, "database")
      BY <2>3 DEF UpdateEnds
    <3> QED BY <1>1, <3>0, <3>3, <3>4, <3>5, HappensTyped
  <2>4. CASE OutputToggles
    <3>1. PICK id \in Ids :
            Happens([server EXCEPT !.enabled = IF id \in @ THEN @ \ {id} ELSE @ \cup {id}], "output")
      BY <2>4 DEF OutputToggles
    <3> DEFINE c == [server EXCEPT !.enabled = IF id \in @ THEN @ \ {id} ELSE @ \cup {id}]
    <3>2. c \in Servers /\ c.happened = server.happened /\ c.state = server.state
      BY <1>2 DEF Servers
    <3> QED BY <1>1, <3>1, <3>2, HappensTyped DEF ServerTyped
  <2>5. CASE OtherEvent
    BY <1>1, <1>2, <2>5, HappensTyped DEF OtherEvent, ServerTyped
  <2>6. CASE PlayFails
    <3> DEFINE c == [server EXCEPT !.error = TRUE]
    <3>1. c \in Servers /\ c.happened = server.happened /\ c.state = server.state
      BY <1>2 DEF Servers
    <3> QED BY <1>1, <2>6, <3>1, HappensTyped DEF PlayFails, ServerTyped
  <2>7. CASE Dies
    BY <1>1, <1>2, <2>7, HappensTyped DEF Dies, ServerTyped
  <2> QED BY <2>1, <2>2, <2>3, <2>4, <2>5, <2>6, <2>7 DEF Environment
<1>5. Typed'
  BY <1>3, <1>4 DEF IInv, Typed, session, mi, history
<1>6. Carries(stack')
  BY <1>3, SameCarries DEF IInv
<1> QED BY <1>3, <1>5, <1>6, Quiet DEF session, mi, history

\* A call begins, a callback or a call that failed returns, the program drops
\* the status.
LEMMA CallSteps ==
  ASSUME IInv, \/ AckError \/ FatalError \/ DropStatus \/ CallbackReturns
               \/ \E op \in {"status_update", "stats_update", "connect", "disconnect"} : Program(op)
  PROVE  IInv'
<1>0. Shape(stack)
  BY DEF IInv
<1>1. /\ UNCHANGED <<server, alive, session, current, old, outputs, over, history>>
      /\ status' \in {status, Unknown} /\ Top.op # "disconnect"
  BY DEF AckError, FatalError, DropStatus, CallbackReturns, Program, Running, mi
<1>2. Typed'
  BY <1>1 DEF IInv, Typed, ServerTyped, session, history
<1>3. CASE \A op : ~Program(op) \/ op # "connect"
  <2>1. Carries(stack')
    <3>1. CASE AckError \/ FatalError
      <4>1. /\ Top.op \in {"ack_error", "fatal_error"} /\ Top.at \in {"begin", "close"}
            /\ \/ stack' = <<Call("user")>> \o At("close", {}) /\ Top.at = "begin"
               \/ stack' = Returned
               \/ stack' = <<Call("disconnect")>> \o Returned
        BY <3>1 DEF AckError, FatalError, Running
      <4>2. Top.what = {} /\ Len(stack) > 1
        BY <1>0, <4>1, TopFacts
      <4> QED BY <1>0, <4>1, <4>2, ReturnCarries, GoesOnCarries DEF Called
    <3>2. CASE DropStatus
      BY <1>0, <3>2, SameCarries DEF DropStatus
    <3>3. CASE CallbackReturns
      <4>1. Len(stack) > 1 /\ Top.op = "user" /\ Top.at = "begin" /\ stack' = Returned
        BY <3>3 DEF CallbackReturns, Running
      <4> QED BY <1>0, <4>1, TopFacts, ReturnCarries
    <3>4. CASE \E op \in {"status_update", "stats_update", "disconnect"} : Program(op)
      BY <1>0, <3>4, CallCarries DEF Program, Running, Called
    <3> QED BY <1>3, <3>1, <3>2, <3>3, <3>4
  <2> QED BY <1>0, <1>1, <1>2, <2>1, TopFacts, Quiet DEF session, history
<1>4. CASE Program("connect")
  <2>1. \A i \in 1 .. Len(stack) : stack[i].op # "connect"
    BY <1>0, <1>4 DEF Program, Shape
  <2>2. Top.op = "user" /\ stack' = <<Call("connect")>> \o stack /\ status' = status
    BY <1>4 DEF Program, Running, mi
  <2>3. Carries(stack')
    BY <1>0, <2>1, <2>2, Push DEF Carries, Top
  <2> QED BY <1>0, <1>1, <1>2, <2>2, <2>3, TopFacts, Quiet DEF session, history
<1> QED BY <1>3, <1>4

-----------------------------------------------------------------------------
(* Connecting and disconnecting *)

LEMMA EnabledTyped ==
  /\ \A states : EnabledIn(states) \subseteq Ids
  /\ EnabledIn(<<>>) = {}
BY DEF EnabledIn

LEMMA DisconnectStep ==
  ASSUME IInv, Disconnect
  PROVE  IInv'
<1>0. Shape(stack) /\ Typed
  BY DEF IInv
<1>1. Len(stack) > 1 /\ Top.what = {} /\ Top.at = "begin"
  BY <1>0, TopFacts DEF Disconnect, Running
<1>2. /\ stack' \in {Returned, <<Call("user")>> \o Returned}
      /\ connected' = FALSE /\ status' = Unknown /\ outputs' = <<>> /\ hasIdle' = FALSE
      /\ told' = IF connected THEN Nothing ELSE told
      /\ owed' = IF connected THEN {} ELSE owed
  BY DEF Disconnect, history
<1>3. Carries(stack')
  BY <1>0, <1>1, <1>2, ReturnCarries DEF Called
<1>4. /\ current' \in States /\ current'.dbUpdateTime \in Nat
      /\ \A f \in Followed : current'[f] = InitServerState[f]
  <2>1. current' = [f \in StateFields |-> IF f \in Kept THEN current[f] ELSE InitServerState[f]]
    BY DEF Disconnect, Kept
  <2>2. current' \in States
    BY <1>0, <2>1, InitStateTyped DEF Typed, States
  <2>3. \A f \in Followed : current'[f] = InitServerState[f]
    BY <2>1 DEF Followed
  <2> QED BY <2>2, <2>3, FieldFacts, InitStateTyped
<1>5. Typed'
  <2>1. told' \in [state : States, enabled : SUBSET Ids]
    BY <1>0, <1>2, InitStateTyped DEF Typed, Nothing
  <2>2. outputs' \in Seq(BOOLEAN)
    BY <1>2
  <2>3. owed' \subseteq Bits
    BY <1>0, <1>2 DEF Typed
  <2>4. alive' \in BOOLEAN /\ lock' \in BOOLEAN /\ old' \in Nat /\ over' = over /\ server' = server
    <3>1. InitServerState.dbUpdateTime \in Nat
      BY InitStateTyped
    <3> QED BY <3>1 DEF Disconnect
  <2>5. silent' \in BOOLEAN
    <3>1. silent' = FALSE \/ silent' = silent
      BY DEF Disconnect, history
    <3> QED BY <1>0, <3>1 DEF Typed
  <2> QED BY <1>0, <1>2, <1>4, <2>1, <2>2, <2>3, <2>4, <2>5 DEF Typed, ServerTyped
<1>6. Forgotten'
  <2>1. told'.enabled = {} /\ \A f \in Followed : told'.state[f] = InitServerState[f]
    BY <1>2 DEF Nothing, IInv, Forgotten
  <2> QED BY <1>2, <1>4, <2>1 DEF Forgotten
<1>7. EventsCollected'
  BY <1>2, <1>3 DEF IInv, EventsCollected, Carries
<1> QED BY <1>2, <1>3, <1>5, <1>6, <1>7
        DEF IInv, Carries, Following, FieldsCollected, StatusCollected, OutputsCollected

LEMMA ConnectBeginsStep ==
  ASSUME IInv, ConnectBegins
  PROVE  IInv'
<1>0. Shape(stack) /\ Typed
  BY DEF IInv
<1> DEFINE g == [Top EXCEPT !.at = "open", !.what = {}]
<1>1. /\ Top.op = "connect" /\ Top.at = "begin" /\ Top.what = {}
      /\ g \in Frames /\ g.op = "connect" /\ g.at = "open" /\ g.what = {}
  BY <1>0, TopFacts DEF ConnectBegins, Running, Frames
<1>2. At("open", {}) = <<g>> \o Tail(stack)
  BY DEF At
<1> HIDE DEF g
<1>3. /\ Shape(At("open", {})) /\ Head(At("open", {})) = g
      /\ Collected(stack) \subseteq Collected(At("open", {}))
  BY <1>0, <1>1, <1>2, Replace DEF Top
<1>4. /\ UNCHANGED <<server, alive, session, status, outputs, over, history>>
      /\ current' = InitServerState /\ old' = InitServerState.dbUpdateTime
      /\ stack' = (IF connected THEN <<Call("disconnect")>> ELSE <<>>) \o At("open", {})
  BY DEF ConnectBegins
<1>5. Typed'
  <2>1. current' \in States /\ current'.dbUpdateTime \in Nat /\ old' \in Nat
    BY <1>4, InitStateTyped
  <2>2. UNCHANGED <<server, alive, connected, lock, hasIdle, status, outputs, over, told, owed, silent>>
    BY <1>4 DEF session, history
  <2> QED BY <1>0, <2>1, <2>2 DEF Typed, ServerTyped
<1>6. Shape(stack') /\ Collected(stack) \subseteq Collected(stack') /\ ~Following'
  <2>1. CASE connected
    <3>1. stack' = <<Call("disconnect")>> \o At("open", {})
      BY <1>4, <2>1
    <3>2. /\ Shape(stack') /\ Head(stack') = Call("disconnect") /\ Len(stack') > 1 /\ stack'[2] = g
          /\ Collected(stack') = Collected(At("open", {}))
      BY <1>3, <3>1, Push
    <3>3. stack'[1].op = "disconnect" /\ stack'[2].op = "connect"
      BY <1>1, <3>2 DEF Call, Shape
    <3> QED BY <1>3, <3>2, <3>3 DEF Following, Resetting
  <2>2. CASE ~connected
    <3>1. stack' = At("open", {})
      BY <1>3, <1>4, <2>2, ConcatEmptySeq DEF Shape
    <3> QED BY <1>3, <1>4, <2>2, <3>1 DEF Following, session
  <2> QED BY <2>1, <2>2
<1>7. Forgotten' /\ OutputsCollected' /\ EventsCollected'
  BY <1>4, <1>6 DEF IInv, Forgotten, OutputsCollected, EventsCollected, EnabledIn, session, history
<1> QED BY <1>5, <1>6, <1>7 DEF IInv, FieldsCollected, StatusCollected

LEMMA FetchedTyped ==
  ASSUME outputs \in Seq(BOOLEAN), NEW answered \in BOOLEAN
  PROVE  Fetched(answered) \in Seq(BOOLEAN)
<1> DEFINE n == IF answered THEN NumOutputs ELSE 1
<1>1. n \in Nat
  BY StatusAssumption
<1> HIDE DEF n
<1>2. [i \in 1 .. n |-> FALSE] \in Seq(BOOLEAN)
  BY <1>1
<1>3. outputs \o [i \in 1 .. n |-> FALSE] \in Seq(BOOLEAN)
  BY <1>2, ConcatProperties
<1> QED BY <1>3 DEF Fetched, n

LEMMA ConnectOpensStep ==
  ASSUME IInv, ConnectOpens
  PROVE  IInv'
<1>0. Shape(stack) /\ Typed
  BY DEF IInv
<1>1. Top.op = "connect" /\ Top.at = "open" /\ Top.what = {} /\ Len(stack) > 1 /\ ~Resetting
  BY <1>0, TopFacts DEF ConnectOpens, Running
<1>2. ~connected
  <2>1. Top = stack[1] /\ 1 \in 1 .. Len(stack)
    BY <1>0, <1>1, TopFacts
  <2> QED BY <1>1, <2>1 DEF IInv, NotOpening, Following
<1>3. UNCHANGED <<status, current, old, over>>
  BY DEF ConnectOpens
<1>4. /\ Carries(Returned) /\ \A op \in Called : Carries(<<Call(op)>> \o Returned)
      /\ NotOpening(Returned) /\ NotOpening(<<Call("user")>> \o Returned)
  <2>1. /\ Carries(Returned) /\ \A op \in Called : Carries(<<Call(op)>> \o Returned)
    BY <1>0, <1>1, ReturnCarries
  <2>2. Shape(Returned) /\ \A i \in 1 .. Len(Returned) : Returned[i].op # "connect"
    BY <1>0, <1>1, Pop DEF Returned, Top
  <2>3. NotOpening(Returned) /\ Head(Returned).op # "connect"
    BY <2>2 DEF NotOpening, Shape
  <2> QED BY <2>1, <2>2, <2>3, Push
<1>5. CASE /\ lock' = TRUE /\ server.happened < MaxEvents
           /\ server' = [server EXCEPT !.happened = @ + 1]
           /\ stack' = <<Call("fatal_error")>> \o Returned
           /\ UNCHANGED <<alive, connected, hasIdle, outputs, history>>
  <2>1. ServerTyped'
    BY <1>0, <1>5, CountTyped DEF Typed
  <2>2. Typed'
    BY <1>0, <1>3, <1>5, <2>1 DEF Typed, history
  <2> QED BY <1>1, <1>3, <1>4, <1>5, <2>2, Quiet DEF history, Called
<1>6. ASSUME connected' = TRUE, lock' = FALSE, hasIdle' \in BOOLEAN, alive' = TRUE,
             server' = [server EXCEPT !.events = {}],
             stack' \in {Returned, <<Call("user")>> \o Returned},
             \/ UNCHANGED <<outputs, history>> /\ hasIdle' = FALSE
             \/ /\ \E answered \in {TRUE, OutputsAllowed} : outputs' = Fetched(answered)
                /\ told' = [Nothing EXCEPT !.enabled = ToldOutputs(hasIdle')] /\ owed' = {} /\ silent' = FALSE
      PROVE  IInv'
  <2>1. Shape(stack') /\ NotOpening(stack') /\ Collected(stack) \subseteq Collected(stack')
    BY <1>4, <1>6 DEF Carries, Called
  <2>2. status' = Unknown /\ outputs = <<>> /\ \A f \in Followed : current'[f] = InitServerState[f]
    BY <1>2, <1>3 DEF IInv, Forgotten
  <2>3. /\ told' \in [state : States, enabled : SUBSET Ids]
        /\ \A f \in Followed : told'.state[f] = InitServerState[f]
        /\ ~hasIdle' => told'.enabled = EnabledIn(outputs')
    <3>1. CASE UNCHANGED <<outputs, history>>
      BY <1>0, <1>2, <3>1, <2>2, EnabledTyped DEF IInv, Forgotten, Typed, history
    <3>2. CASE told' = [Nothing EXCEPT !.enabled = ToldOutputs(hasIdle')]
      <4>1. told'.state = InitServerState /\ told'.enabled = ToldOutputs(hasIdle')
            /\ told' = [state |-> InitServerState, enabled |-> ToldOutputs(hasIdle')]
        BY <3>2 DEF Nothing
      <4>2. ToldOutputs(hasIdle') = IF hasIdle' THEN server.enabled ELSE EnabledIn(outputs')
        BY <1>6 DEF ToldOutputs, EnabledIn
      <4>3. ToldOutputs(hasIdle') \subseteq Ids
        BY <1>0, <4>2, EnabledTyped DEF Typed, ServerTyped, Servers
      <4> QED BY <4>1, <4>2, <4>3, InitStateTyped
    <3> QED BY <1>6, <3>1, <3>2
  <2>4. outputs' \in Seq(BOOLEAN) /\ owed' \subseteq Bits /\ silent' \in BOOLEAN /\ owed' \subseteq owed
    BY <1>0, <1>6, FetchedTyped, StatusAssumption DEF Typed, history
  <2>5. ServerTyped'
    <3>1. server \in Servers /\ server' = [server EXCEPT !.events = {}]
      BY <1>0, <1>6 DEF Typed, ServerTyped
    <3>2. server' \in Servers /\ server'.state = server.state
      BY <3>1 DEF Servers
    <3> QED BY <1>0, <3>2 DEF Typed, ServerTyped
  <2>6. Typed'
    BY <1>0, <1>3, <1>6, <2>3, <2>4, <2>5 DEF Typed
  <2>7. Forgotten' /\ FieldsCollected' /\ StatusCollected' /\ OutputsCollected' /\ EventsCollected'
    BY <1>6, <2>1, <2>2, <2>3, <2>4
       DEF IInv, Forgotten, FieldsCollected, StatusCollected, OutputsCollected, EventsCollected
  <2> QED BY <2>1, <2>6, <2>7 DEF IInv
<1> QED BY <1>5, <1>6 DEF ConnectOpens

-----------------------------------------------------------------------------
(* Statistics *)

\* A call that is refused the lock returns, one that is not answered fails.
LEMMA ReturnStep ==
  ASSUME IInv, Len(stack) > 1, Top.what = {}, Top.at # "watch", Top.op # "disconnect", ServerTyped',
         UNCHANGED <<alive, connected, hasIdle, current, outputs, over, history>>, lock' \in BOOLEAN,
         status' \in {status, Unknown}, old' \in Nat,
         stack' = Returned \/ \E op \in Called : stack' = <<Call(op)>> \o Returned
  PROVE  IInv'
<1>1. Shape(stack) /\ Typed
  BY DEF IInv
<1>2. Carries(stack')
  BY <1>1, ReturnCarries
<1>3. Typed'
  BY <1>1 DEF Typed, history
<1> QED BY <1>1, <1>2, <1>3, TopFacts, Quiet DEF history

\* Values of the database and its bit go to the frame below the running one.
LEMMA BitBelow ==
  ASSUME Shape(stack), Top.op = "stats_real", NEW bits \in SUBSET Bits
  PROVE  LET t == [Returned EXCEPT ![1].what = @ \cup bits]
         IN  Carries(t) /\ bits \subseteq Collected(t)
<1> DEFINE R == Returned
           g == [Head(R) EXCEPT !.what = @ \cup bits]
           t == [R EXCEPT ![1].what = @ \cup bits]
           u == <<g>> \o Tail(R)
<1>1. Len(stack) > 1 /\ Top.what = {} /\ Top.at # "watch"
  BY TopFacts
<1>2. /\ Shape(R) /\ Carries(R)
      /\ Head(R).op = "status_update" /\ Head(R).at # "begin"
  BY <1>1, Pop, ReturnCarries DEF Returned, Top
<1> HIDE DEF R
<1>3. R \in Seq(Frames) /\ Len(R) \in Nat \ {0} /\ Head(R) = R[1] /\ R # <<>> /\ Head(R) \in Frames
  BY <1>2 DEF Shape
<1>4. g \in Frames /\ g.op = Head(R).op /\ g.at = Head(R).at /\ g.what = Head(R).what \cup bits
  BY <1>3 DEF Frames
<1>5. t = [R EXCEPT ![1] = g]
  BY <1>3
<1>6. u = t
  <2> HIDE DEF g, t
  <2>1. t \in Seq(Frames) /\ Len(t) = Len(R) /\ \A i \in 1 .. Len(R) : t[i] = IF i = 1 THEN g ELSE R[i]
    BY <1>3, <1>4, <1>5, ExceptSeq
  <2>2. Tail(R) \in Seq(Frames) /\ Len(Tail(R)) = Len(R) - 1 /\ \A i \in 1 .. Len(Tail(R)) : Tail(R)[i] = R[i + 1]
    BY <1>3, HeadTailProperties
  <2>3. /\ u \in Seq(Frames) /\ Len(u) = Len(R) /\ u[1] = g
        /\ \A i \in 2 .. Len(R) : u[i] = Tail(R)[i - 1]
    BY <1>3, <1>4, <2>2, ConsProperties
  <2>4. \A i \in 2 .. Len(R) : u[i] = R[i]
    BY <1>3, <2>2, <2>3
  <2> HIDE DEF u
  <2>5. \A i \in 1 .. Len(u) : u[i] = t[i]
    BY <1>3, <2>1, <2>3, <2>4
  <2> QED BY <2>1, <2>3, <2>5, SeqEqual
<1> HIDE DEF g, t
<1>7. /\ Shape(u) /\ g.what \subseteq Collected(u) /\ Collected(R) \subseteq Collected(u)
      /\ Watches(R) => Watches(u)
      /\ NotOpening(R) => NotOpening(u)
  BY <1>2, <1>4, Replace
<1>8. Carries(u) /\ bits \subseteq Collected(u)
  BY <1>2, <1>4, <1>7 DEF Carries
<1> QED BY <1>6, <1>8 DEF t, R

\* The statistics are stored with their bit, or are what nobody is told.
LEMMA StatsTakenStep ==
  ASSUME IInv, Following, StatsTaken, Carries(stack'), old' \in Nat, Top.op # "disconnect",
         UNCHANGED <<server, alive, session, status, outputs, over, told, owed>>,
         silent' \in BOOLEAN, silent => silent',
         Updated => "DATABASE" \in Collected(stack') \/ silent'
  PROVE  IInv'
<1>1. Typed /\ Shape(stack)
  BY DEF IInv
<1>2. /\ current' \in States /\ current'.dbUpdateTime \in Nat
      /\ current'.updatingDb = current.updatingDb
      /\ \A f \in StateFields : current'[f] = current[f] \/ (f = "dbUpdateTime" /\ Updated)
  <2>1. CASE Updated
    <3>1. current' = [current EXCEPT !["dbUpdateTime"] = server.state.dbUpdateTime]
      BY <2>1 DEF StatsTaken
    <3>2. server.state.dbUpdateTime \in Nat /\ current \in States
      BY <1>1 DEF Typed, ServerTyped
    <3>3. current' \in States
      <4> DEFINE time == server.state.dbUpdateTime
      <4>1. time \in Int \cup {Unknown} /\ "dbUpdateTime" \in StateFields
        BY <3>2, FieldFacts
      <4> HIDE DEF time
      <4>2. [current EXCEPT !["dbUpdateTime"] = time] \in States
        BY <3>2, <4>1, ExceptState
      <4> QED BY <3>1, <4>2 DEF time
    <3>4. \A f \in StateFields : current'[f] = IF f = "dbUpdateTime" THEN server.state.dbUpdateTime ELSE current[f]
      BY <3>1, <3>2 DEF States
    <3> QED BY <2>1, <3>2, <3>3, <3>4, FieldFacts
  <2>2. CASE ~Updated
    BY <1>1, <2>2 DEF StatsTaken, Typed
  <2> QED BY <2>1, <2>2
<1>3. Typed'
  BY <1>1, <1>2 DEF Typed, ServerTyped, session
<1>4. Forgotten' /\ Shape(stack') /\ NotOpening(stack')
  BY DEF Forgotten, Following, session, Carries, IInv
<1>5. FieldsCollected'
  <2>1. ASSUME NEW f \in Followed
        PROVE  told'.state[f] = current'[f] \/ BitOf[f] \in Collected(stack') \/ (f = "dbUpdateTime" /\ silent')
    <3>1. CASE current'[f] = current[f]
      BY <3>1 DEF IInv, FieldsCollected, Carries
    <3>2. CASE f = "dbUpdateTime" /\ Updated
      BY <3>2, FieldFacts
    <3> QED BY <3>1, <3>2, <1>2, FieldFacts
  <2> QED BY <2>1 DEF FieldsCollected
<1>6. StatusCollected' /\ OutputsCollected' /\ EventsCollected'
  BY <1>2 DEF IInv, Following, StatusCollected, OutputsCollected, EventsCollected, EnabledIn, Carries, session
<1> QED BY <1>3, <1>4, <1>5, <1>6 DEF IInv

LEMMA StatsSteps ==
  ASSUME IInv, StatsReal \/ StatsUpdate
  PROVE  IInv'
<1>0. Shape(stack) /\ Typed
  BY DEF IInv
<1>1. Top.op \in {"stats_real", "stats_update"} /\ Len(stack) > 1 /\ Top.what = {} /\ Top.at = "begin" /\ ~Resetting
  BY <1>0, TopFacts DEF StatsReal, StatsUpdate, Running
<1>2. UNCHANGED status /\ old' \in Nat
  BY <1>0 DEF StatsReal, StatsUpdate, Typed
<1>3. CASE stack' = Returned /\ UNCHANGED <<server, alive, session, current, outputs, over, history>>
  <2>1. ServerTyped' /\ lock' \in BOOLEAN
    BY <1>0, <1>3 DEF Typed, ServerTyped, session
  <2> QED BY <1>1, <1>2, <1>3, <2>1, ReturnStep DEF session
<1>4. CASE AskFails(Returned)
  <2>1. ServerTyped'
    BY <1>0, <1>4, CountTyped DEF AskFails, Refuses, Typed, ServerTyped
  <2> QED BY <1>1, <1>2, <1>4, <2>1, ReturnStep DEF AskFails, Called
<1>5. CASE StatsReal /\ connected /\ StatsTaken
           /\ stack' = [Returned EXCEPT ![1].what = @ \cup DatabaseBit]
           /\ UNCHANGED <<server, alive, session, outputs, over, history>>
  <2>1. Top.op = "stats_real"
    BY <1>5 DEF StatsReal, Running
  <2>2. DatabaseBit \in SUBSET Bits
    BY FieldFacts DEF DatabaseBit
  <2>3. Carries(stack') /\ DatabaseBit \subseteq Collected(stack')
    <3> HIDE DEF DatabaseBit
    <3> QED BY <1>0, <1>5, <2>1, <2>2, BitBelow
  <2>4. Updated => "DATABASE" \in Collected(stack')
    BY <2>3 DEF DatabaseBit
  <2> QED BY <1>0, <1>1, <1>2, <1>5, <2>3, <2>4, StatsTakenStep DEF Following, history, Typed
<1>6. CASE StatsUpdate /\ connected /\ StatsTaken /\ silent' = (silent \/ Updated)
           /\ stack' = Returned /\ UNCHANGED <<server, alive, session, outputs, over, told, owed>>
  <2>1. Carries(stack')
    BY <1>0, <1>1, <1>6, ReturnCarries
  <2>2. silent' \in BOOLEAN /\ (silent => silent') /\ (Updated => silent')
    <3>1. silent \in BOOLEAN /\ Updated \in BOOLEAN
      BY <1>0 DEF Typed, Updated
    <3> QED BY <1>6, <3>1
  <2> QED BY <1>1, <1>2, <1>6, <2>1, <2>2, StatsTakenStep DEF Following
<1> QED BY <1>3, <1>4, <1>5, <1>6 DEF StatsReal, StatsUpdate

-----------------------------------------------------------------------------
(* mpd_status_update *)

\* Its frame goes on elsewhere with at least the bits it had.
LEMMA BitsCarried ==
  ASSUME Shape(stack), Top.op = "status_update", NEW at \in {"watch", "signal"},
         NEW what \in SUBSET Bits, Top.what \subseteq what
  PROVE  LET t == At(at, what)
         IN  /\ Shape(t) /\ Collected(stack) \subseteq Collected(t) /\ what \subseteq Collected(t)
             /\ Watches(stack) /\ Top.at # "watch" => Watches(t)
             /\ at = "watch" /\ "UPDATING" \in what => Watches(t)
             /\ NotOpening(stack) => NotOpening(t)
             /\ Head(t).op = "status_update" /\ Head(t).at # "begin"
<1> DEFINE g == [Top EXCEPT !.at = at, !.what = what]
<1>1. g \in Frames /\ g.op = "status_update" /\ g.at = at /\ g.what = what
  BY TopFacts DEF Frames
<1>2. At(at, what) = <<g>> \o Tail(stack)
  BY DEF At
<1> HIDE DEF g
<1> QED BY <1>1, <1>2, Replace DEF Top

\* A call that the frame makes from there.
LEMMA CallsOver ==
  ASSUME NEW t, Shape(t), Head(t).op = "status_update", Head(t).at # "begin",
         NEW op \in {"stats_real", "fatal_error", "ack_error"}
  PROVE  LET u == <<Call(op)>> \o t
         IN  /\ Shape(u) /\ Collected(u) = Collected(t)
             /\ Watches(t) => Watches(u)
             /\ NotOpening(t) => NotOpening(u)
BY Push

LEMMA StatusAnsweredStep ==
  ASSUME IInv, connected, Running("status_update", "begin"), StatusAnswered
  PROVE  IInv'
<1> DEFINE updating == current.updatingDb # server.state.updatingDb
           stopped  == updating /\ server.state.updatingDb = 0
           what     == FieldBits \cup (IF server.error THEN {"SERVER_ERROR"} ELSE {})
                                 \cup (IF updating THEN {"UPDATING"} ELSE {})
<1>0. Shape(stack) /\ Typed
  BY DEF IInv
<1>1. Top.op = "status_update" /\ Top.at = "begin" /\ Top.what = {} /\ ~Resetting
  BY <1>0, TopFacts DEF Running
<1>2. /\ status' = server.state.updatingDb /\ old' = current.dbUpdateTime
      /\ current' = [f \in StateFields |->
                       IF f \in Fields /\ BitOf[f] \in FieldBits THEN server.state[f] ELSE current[f]]
      /\ server' = [server EXCEPT !.error = FALSE]
      /\ stack' = (IF stopped THEN <<Call("stats_real")>> ELSE <<>>) \o At("watch", what)
      /\ UNCHANGED <<alive, session, outputs, over, history>>
  BY DEF StatusAnswered
<1>3. what \subseteq Bits
  BY FieldFacts DEF FieldBits, Compared
<1> HIDE DEF stopped
<1>4. FieldBits \subseteq what /\ (updating => "UPDATING" \in what)
  OBVIOUS
<1>5. /\ Shape(stack') /\ Collected(stack) \subseteq Collected(stack') /\ what \subseteq Collected(stack')
      /\ Watches(stack) => Watches(stack')
      /\ "UPDATING" \in what => Watches(stack')
      /\ NotOpening(stack) => NotOpening(stack')
  <2> HIDE DEF what
  <2> DEFINE t == At("watch", what)
  <2>1. /\ Shape(t) /\ Collected(stack) \subseteq Collected(t) /\ what \subseteq Collected(t)
        /\ Watches(stack) => Watches(t)
        /\ "UPDATING" \in what => Watches(t)
        /\ NotOpening(stack) => NotOpening(t)
        /\ Head(t).op = "status_update" /\ Head(t).at # "begin"
    BY <1>0, <1>1, <1>3, BitsCarried
  <2> HIDE DEF t
  <2>2. CASE stopped
    <3>1. stack' = <<Call("stats_real")>> \o t
      BY <1>2, <2>2 DEF t
    <3> QED BY <2>1, <3>1, CallsOver
  <2>3. CASE ~stopped
    <3>1. stack' = t
      BY <1>2, <2>1, <2>3, ConcatEmptySeq DEF t, Shape
    <3> QED BY <2>1, <3>1
  <2> QED BY <2>2, <2>3
<1> HIDE DEF what
<1>6. /\ current' \in States /\ current'.updatingDb = current.updatingDb
      /\ current'.dbUpdateTime = current.dbUpdateTime
      /\ \A f \in StateFields : current'[f] = current[f] \/ BitOf[f] \in FieldBits
  <2>1. current' \in States
    BY <1>0, <1>2 DEF Typed, ServerTyped, Servers, States
  <2> QED BY <1>2, <2>1, FieldFacts
<1>7. Typed'
  <2>1. server \in Servers
    BY <1>0 DEF Typed, ServerTyped
  <2>2. server' \in Servers /\ server'.state = server.state
    BY <1>2, <2>1 DEF Servers
  <2>3. ServerTyped'
    BY <1>0, <2>2 DEF Typed, ServerTyped
  <2>4. status' \in {Unknown, 0, 1} /\ old' \in Nat /\ current'.dbUpdateTime \in Nat
    BY <1>0, <1>2, <1>6 DEF Typed, ServerTyped
  <2> QED BY <1>0, <1>2, <1>6, <2>3, <2>4 DEF Typed, session, history
<1>8. Following /\ UNCHANGED <<connected, hasIdle, told, owed, silent>>
  BY <1>1, <1>2 DEF Following, session, history
<1>9. Forgotten' /\ (Following' => NotOpening(stack'))
  BY <1>5, <1>8 DEF Forgotten, Following, IInv
<1>10. FieldsCollected'
  <2>1. ASSUME NEW f \in Followed
        PROVE  told'.state[f] = current'[f] \/ BitOf[f] \in Collected(stack') \/ (f = "dbUpdateTime" /\ silent')
    <3>1. CASE current'[f] = current[f]
      BY <1>5, <1>8, <3>1 DEF IInv, FieldsCollected
    <3>2. CASE BitOf[f] \in FieldBits
      BY <1>4, <1>5, <3>2
    <3> QED BY <1>6, <3>1, <3>2, FieldFacts
  <2> QED BY <2>1 DEF FieldsCollected
<1>11. StatusCollected'
  BY <1>2, <1>4, <1>5, <1>6 DEF StatusCollected
<1>12. OutputsCollected' /\ EventsCollected'
  BY <1>2, <1>5, <1>8 DEF IInv, OutputsCollected, EventsCollected, EnabledIn
<1> QED BY <1>5, <1>7, <1>9, <1>10, <1>11, <1>12 DEF IInv

\* What every turn of the second half has in common: a status that is stored
\* now has its bit.
LEMMA WatchStep ==
  ASSUME IInv, Watch, Shape(stack'), Collected(stack) \subseteq Collected(stack'),
         NotOpening(stack) => NotOpening(stack'), ServerTyped', outputs' \in Seq(BOOLEAN),
         over' \in {"no", "no status", "no answer", "no output"}, owed' \subseteq Bits,
         OutputsCollected', EventsCollected'
  PROVE  IInv'
<1>0. Shape(stack) /\ Typed
  BY DEF IInv
<1>1. Top.op = "status_update" /\ status # Unknown /\ ~Resetting
  BY <1>0, TopFacts DEF Watch, Running
<1>2. connected /\ Following
  BY <1>1 DEF IInv, Forgotten, Following
<1>3. /\ UNCHANGED <<alive, connected, lock, hasIdle, status, old, told, silent>>
      /\ current' = [current EXCEPT !.updatingDb = status]
  BY DEF Watch, session
<1>4. /\ current' \in States /\ current'.updatingDb = status
      /\ \A f \in StateFields : f # "updatingDb" => current'[f] = current[f]
  <2>1. current \in States /\ status \in Int
    <3>1. current \in States /\ status \in {Unknown, 0, 1}
      BY <1>0 DEF Typed
    <3>2. status \in {0, 1}
      BY <1>1, <3>1
    <3>3. 0 \in Int /\ 1 \in Int
      BY ONLY TRUE
    <3>4. CASE status = 0
      BY ONLY <3>1, <3>3, <3>4
    <3>5. CASE status = 1
      BY ONLY <3>1, <3>3, <3>5
    <3> QED BY ONLY <3>2, <3>4, <3>5
  <2>2. current' \in States
    BY <1>3, <2>1, FieldFacts, ExceptState
  <2> QED BY <1>3, <2>1, <2>2, FieldFacts DEF States
<1>5. Typed'
  <2>1. current'.dbUpdateTime \in Nat
    BY <1>0, <1>4, FieldFacts DEF Typed
  <2> QED BY <1>0, <1>3, <1>4, <2>1 DEF Typed
<1>6. Forgotten' /\ StatusCollected' /\ NotOpening(stack')
  BY <1>2, <1>3, <1>4 DEF Forgotten, StatusCollected, IInv
<1>7. FieldsCollected'
  <2>1. ASSUME NEW f \in Followed
        PROVE  told'.state[f] = current'[f] \/ BitOf[f] \in Collected(stack') \/ (f = "dbUpdateTime" /\ silent')
    <3>1. CASE current'[f] = current[f]
      BY <1>2, <1>3, <3>1 DEF IInv, FieldsCollected
    <3>2. CASE f = "updatingDb" /\ current.updatingDb # status
      <4>1. Watches(stack)
        BY <1>1, <1>2, <3>2 DEF IInv, StatusCollected
      <4>2. "UPDATING" \in Collected(stack)
        BY <4>1 DEF Watches, Collected
      <4> QED BY <3>2, <4>2, FieldFacts
    <3> QED BY <1>4, <3>1, <3>2, FieldFacts
  <2> QED BY <2>1 DEF FieldsCollected
<1> QED BY <1>5, <1>6, <1>7 DEF IInv

LEMMA WatchOutputsStep ==
  ASSUME IInv, WatchOutputs \/ WatchNoOutputs \/ FetchOutputs
  PROVE  IInv'
<1>0. Shape(stack) /\ Typed /\ Top.what \subseteq Bits
  BY TopFacts DEF IInv
<1>1. Watch /\ Top.op = "status_update" /\ UNCHANGED <<owed, told, connected, hasIdle>>
  BY DEF WatchOutputs, WatchNoOutputs, FetchOutputs, Watch, Running, session
<1>2. owed' \subseteq Bits
  BY <1>0, <1>1 DEF Typed
<1>3. ServerTyped'
  <2>1. server' = server \/ Refuses
    BY DEF WatchOutputs, WatchNoOutputs, FetchOutputs
  <2> QED BY <1>0, <2>1, CountTyped DEF Refuses, Typed, ServerTyped
<1>4. CASE UNCHANGED <<stack, outputs>> /\ over' \in {"no output", "no answer"}
  BY <1>0, <1>1, <1>2, <1>3, <1>4, WatchStep
     DEF IInv, Typed, OutputsCollected, EventsCollected, EnabledIn
<1>5. ASSUME WatchOutputs, over' = over
      PROVE  IInv'
  <2> DEFINE now == [i \in DOMAIN outputs |-> IF i - 1 \in Ids THEN i - 1 \in server.enabled ELSE outputs[i]]
             what == Top.what \cup OutputBit(now)
  <2>1. outputs' = now /\ stack' = At("signal", what)
    BY <1>0, <1>5 DEF WatchOutputs, Typed, Watch, Running
  <2>2. now \in Seq(BOOLEAN)
    <3>1. outputs \in Seq(BOOLEAN)
      BY <1>0 DEF Typed
    <3>2. DOMAIN outputs = 1 .. Len(outputs) /\ Len(outputs) \in Nat
      BY <3>1, LenProperties
    <3>3. now = [i \in 1 .. Len(outputs) |-> IF i - 1 \in Ids THEN i - 1 \in server.enabled ELSE outputs[i]]
      BY <3>2
    <3>4. \A i \in 1 .. Len(outputs) : (IF i - 1 \in Ids THEN i - 1 \in server.enabled ELSE outputs[i]) \in BOOLEAN
      <4>1. ASSUME NEW i \in 1 .. Len(outputs)
            PROVE  (IF i - 1 \in Ids THEN i - 1 \in server.enabled ELSE outputs[i]) \in BOOLEAN
        <5>1. outputs[i] \in BOOLEAN
          BY <3>1, ElementOfSeq
        <5>2. (i - 1 \in server.enabled) \in BOOLEAN
          OBVIOUS
        <5> QED BY <5>1, <5>2, Zenon
      <4> QED BY <4>1
    <3> QED BY <3>2, <3>3, <3>4
  <2>3. what \subseteq Bits
    BY <1>0, FieldFacts DEF OutputBit
  <2> HIDE DEF now
  <2>4. now # outputs => "OUTPUT" \in what
    BY DEF OutputBit
  <2> HIDE DEF what
  <2>5. /\ Shape(stack') /\ Collected(stack) \subseteq Collected(stack') /\ what \subseteq Collected(stack')
        /\ NotOpening(stack) => NotOpening(stack')
    <3>1. Top.what \subseteq what
      BY DEF what
    <3> QED BY <1>0, <1>1, <2>1, <2>3, <3>1, BitsCarried
  <2>6. OutputsCollected' /\ EventsCollected'
    BY <1>1, <2>1, <2>4, <2>5 DEF IInv, OutputsCollected, EventsCollected, EnabledIn
  <2> QED BY <1>0, <1>1, <1>2, <1>3, <1>5, <2>1, <2>2, <2>5, <2>6, WatchStep DEF Typed
<1>6. CASE FetchOutputs
  <2> DEFINE what == Top.what \cup {"OUTPUT"}
             then == At("signal", what)
  <2>1. what \in SUBSET Bits
    BY <1>0, FieldFacts
  <2>2. /\ \E answered \in BOOLEAN : outputs' = Fetched(answered)
        /\ over' = over
        /\ stack' = then \/ \E op \in {"fatal_error", "ack_error"} : stack' = <<Call(op)>> \o then
    BY <1>6 DEF FetchOutputs
  <2>3. "OUTPUT" \in what /\ Top.what \subseteq what
    OBVIOUS
  <2> HIDE DEF what
  <2>4. /\ Shape(then) /\ Collected(stack) \subseteq Collected(then) /\ what \subseteq Collected(then)
        /\ NotOpening(stack) => NotOpening(then)
        /\ Head(then).op = "status_update" /\ Head(then).at # "begin"
    BY <1>0, <1>1, <2>1, <2>3, BitsCarried
  <2> HIDE DEF then
  <2>5. /\ Shape(stack') /\ Collected(stack) \subseteq Collected(stack') /\ "OUTPUT" \in Collected(stack')
        /\ NotOpening(stack) => NotOpening(stack')
    BY <2>2, <2>3, <2>4, CallsOver
  <2>6. outputs' \in Seq(BOOLEAN)
    BY <1>0, <2>2, FetchedTyped DEF Typed
  <2>7. OutputsCollected' /\ EventsCollected'
    BY <1>1, <2>5 DEF IInv, OutputsCollected, EventsCollected
  <2> QED BY <1>0, <1>1, <1>2, <1>3, <2>2, <2>5, <2>6, <2>7, WatchStep DEF Typed
<1>7. WatchOutputs => over' = over \/ (UNCHANGED <<stack, outputs>> /\ over' = "no output")
  BY DEF WatchOutputs
<1> QED BY <1>4, <1>5, <1>6, <1>7 DEF WatchNoOutputs

LEMMA WatchEventsStep ==
  ASSUME IInv, WatchEvents
  PROVE  IInv'
<1> DEFINE events == IF alive THEN server.events ELSE {}
           bits   == {EventBit[e] : e \in events}
           fetch  == "database" \in events /\ "DATABASE" \notin Top.what
           what   == Top.what \cup bits
           then   == At("signal", what)
<1>0. Shape(stack) /\ Typed /\ Top.what \subseteq Bits
  BY TopFacts DEF IInv
<1>1. /\ Watch /\ Top.op = "status_update" /\ UNCHANGED <<outputs, over, told, connected, hasIdle>> /\ hasIdle
      /\ server' = IF alive THEN [server EXCEPT !.events = {}] ELSE server
      /\ owed' = owed \cup bits
      /\ stack' = (IF fetch THEN <<Call("stats_real")>> ELSE <<>>) \o then
  BY DEF WatchEvents, Watch, Running, session
<1>2. events \subseteq Events
  BY <1>0 DEF Typed, ServerTyped, Servers
<1> HIDE DEF events, fetch
<1>3. bits \subseteq Bits
  BY <1>2, FieldFacts
<1> HIDE DEF bits
<1>4. what \in SUBSET Bits /\ Top.what \subseteq what /\ bits \subseteq what
  BY <1>0, <1>3
<1> HIDE DEF what
<1>5. /\ Shape(then) /\ Collected(stack) \subseteq Collected(then) /\ what \subseteq Collected(then)
      /\ NotOpening(stack) => NotOpening(then)
      /\ Head(then).op = "status_update" /\ Head(then).at # "begin"
  BY <1>0, <1>1, <1>4, BitsCarried
<1> HIDE DEF then
<1>6. /\ Shape(stack') /\ Collected(stack) \subseteq Collected(stack') /\ what \subseteq Collected(stack')
      /\ NotOpening(stack) => NotOpening(stack')
  <2>1. CASE fetch
    BY <1>1, <1>5, <2>1, CallsOver
  <2>2. CASE ~fetch
    <3>1. stack' = then
      BY <1>1, <1>5, <2>2, ConcatEmptySeq DEF Shape
    <3> QED BY <1>5, <3>1
  <2> QED BY <2>1, <2>2
<1>7. ServerTyped'
  <2>1. CASE alive
    <3>1. server \in Servers /\ server' = [server EXCEPT !.events = {}]
      BY <1>0, <1>1, <2>1 DEF Typed, ServerTyped
    <3>2. server' \in Servers /\ server'.state = server.state
      BY <3>1 DEF Servers
    <3> QED BY <1>0, <3>2 DEF Typed, ServerTyped
  <2>2. CASE ~alive
    BY <1>0, <1>1, <2>2 DEF Typed, ServerTyped
  <2> QED BY <2>1, <2>2
<1>8. owed' \subseteq Bits /\ owed' \subseteq Collected(stack')
  BY <1>0, <1>1, <1>3, <1>4, <1>6 DEF Typed, IInv, EventsCollected
<1>9. OutputsCollected' /\ EventsCollected'
  BY <1>1, <1>8 DEF OutputsCollected, EventsCollected
<1> QED BY <1>0, <1>1, <1>6, <1>7, <1>8, <1>9, WatchStep DEF Typed

LEMMA StatusUpdateStep ==
  ASSUME IInv, StatusUpdate \/ WatchWithoutStatus
  PROVE  IInv'
<1>0. Shape(stack) /\ Typed
  BY DEF IInv
<1>1. CASE StatusUpdate
  <2>1. Top.op = "status_update" /\ Top.at = "begin" /\ Top.what = {} /\ Len(stack) > 1
    BY <1>0, <1>1, TopFacts DEF StatusUpdate, Running
  <2>2. CASE stack' = Returned /\ UNCHANGED <<server, alive, session, mi, over, history>>
    <3>1. ServerTyped' /\ lock' \in BOOLEAN /\ old' \in Nat
      BY <1>0, <2>2 DEF Typed, ServerTyped, session, mi
    <3> QED BY <2>1, <2>2, <3>1, ReturnStep DEF session, mi
  <2>3. CASE connected /\ StatusAnswered
    BY <1>1, <2>3, StatusAnsweredStep DEF StatusUpdate
  <2>4. CASE AskFails(Returned) /\ status' = Unknown /\ UNCHANGED old
    <3>1. ServerTyped'
      BY <1>0, <2>4, CountTyped DEF AskFails, Refuses, Typed, ServerTyped
    <3>2. old' \in Nat
      BY <1>0, <2>4 DEF Typed
    <3> QED BY <2>1, <2>4, <3>1, <3>2, ReturnStep DEF AskFails, Called
  <2> QED BY <1>1, <2>2, <2>3, <2>4 DEF StatusUpdate
<1>2. CASE WatchWithoutStatus
  <2>1. UNCHANGED <<server, alive, session, mi, stack, history>> /\ over' = "no status"
    BY <1>2 DEF WatchWithoutStatus
  <2>2. Typed'
    BY <1>0, <2>1 DEF Typed, ServerTyped, session, mi, history
  <2>3. Carries(stack')
    BY <1>0, <2>1, SameCarries
  <2> QED BY <2>1, <2>2, <2>3, Quiet DEF session, mi, history
<1> QED BY <1>1, <1>2

\* What is told leaves the stack and what is not told stays on it.
LEMMA SignalStep ==
  ASSUME IInv, Signal
  PROVE  IInv'
<1>0. Shape(stack) /\ Typed
  BY DEF IInv
<1>1. /\ Top.op = "status_update" /\ Top.at = "signal" /\ Len(stack) > 1 /\ ~Resetting
      /\ UNCHANGED <<server, alive, session, mi, over>>
  BY <1>0, TopFacts DEF Signal, Running
<1>2. CASE Top.what = {}
  <2>1. stack' = Returned /\ UNCHANGED history
    BY <1>2 DEF Signal, Signalled
  <2>2. ServerTyped' /\ lock' \in BOOLEAN /\ old' \in Nat
    BY <1>0, <1>1 DEF Typed, ServerTyped, session, mi
  <2> QED BY <1>1, <1>2, <2>1, <2>2, ReturnStep DEF session, mi
<1>3. CASE Top.what # {}
  <2> DEFINE what == Top.what
  <2>1. /\ stack' = <<Call("user")>> \o Returned
        /\ told' = [state   |-> [f \in StateFields |->
                                   IF BitOf[f] \in what THEN current[f] ELSE told.state[f]],
                    enabled |-> IF "OUTPUT" \in what THEN ToldOutputs(hasIdle) ELSE told.enabled]
        /\ owed' = owed \ what
        /\ silent' = (silent /\ "DATABASE" \notin what)
    BY <1>3 DEF Signal, Signalled
  <2>2. UNCHANGED <<connected, lock, hasIdle, status, current, old, outputs>>
    BY <1>1 DEF session, mi
  <2>3. /\ Shape(Returned) /\ Collected(stack) = what \cup Collected(Returned)
        /\ Watches(stack) => Watches(Returned)
        /\ NotOpening(stack) => \A i \in 1 .. Len(Returned) : Returned[i].op # "connect"
    BY <1>0, <1>1, Pop DEF Returned, Top
  <2>4. NotOpening(stack) => NotOpening(Returned) /\ Head(Returned).op # "connect"
    <3>1. Head(Returned) = Returned[1] /\ 1 \in 1 .. Len(Returned)
      BY <2>3 DEF Shape
    <3> QED BY <2>3, <3>1 DEF NotOpening
  <2>5. /\ Shape(stack') /\ Collected(stack) = what \cup Collected(stack')
        /\ Watches(stack) => Watches(stack')
        /\ NotOpening(stack) => NotOpening(stack')
    BY <2>1, <2>3, <2>4, Push
  <2> HIDE DEF what
  <2>6. Following' => Following
    BY <1>1, <2>2 DEF Following
  <2>7. ToldOutputs(hasIdle) \subseteq Ids /\ (~hasIdle => ToldOutputs(hasIdle) = EnabledIn(outputs))
    <3>1. server.enabled \subseteq Ids /\ told.enabled \subseteq Ids
      BY <1>0 DEF Typed, ServerTyped, Servers
    <3> QED BY <2>2, <3>1, EnabledTyped DEF ToldOutputs, EnabledIn
  <2>8. /\ told' \in [state : States, enabled : SUBSET Ids]
        /\ told'.enabled = IF "OUTPUT" \in what THEN ToldOutputs(hasIdle) ELSE told.enabled
        /\ \A f \in StateFields : told'.state[f] = IF BitOf[f] \in what THEN current[f] ELSE told.state[f]
    <3> DEFINE st == [f \in StateFields |-> IF BitOf[f] \in what THEN current[f] ELSE told.state[f]]
               en == IF "OUTPUT" \in what THEN ToldOutputs(hasIdle) ELSE told.enabled
    <3>1. st \in States
      BY <1>0 DEF Typed, States
    <3>2. en \subseteq Ids
      BY <1>0, <2>7 DEF Typed
    <3>3. told' = [state |-> st, enabled |-> en]
      BY <2>1
    <3>4. \A f \in StateFields : st[f] = IF BitOf[f] \in what THEN current[f] ELSE told.state[f]
      OBVIOUS
    <3> HIDE DEF st
    <3> QED BY <3>1, <3>2, <3>3, <3>4
  <2>9. Typed'
    <3>1. owed' \subseteq Bits /\ silent' \in BOOLEAN
      BY <1>0, <2>1 DEF Typed
    <3> QED BY <1>0, <1>1, <2>2, <2>8, <3>1 DEF Typed, ServerTyped
  <2>10. Forgotten'
    <3>1. ASSUME ~connected
          PROVE  told'.enabled = {} /\ \A f \in Followed : told'.state[f] = InitServerState[f]
      <4>1. outputs = <<>> /\ ~hasIdle /\ told.enabled = {}
            /\ \A f \in Followed : current[f] = InitServerState[f] /\ told.state[f] = InitServerState[f]
        BY <3>1 DEF IInv, Forgotten
      <4> QED BY <4>1, <2>7, <2>8, EnabledTyped, FieldFacts
    <3> QED BY <2>2, <3>1 DEF IInv, Forgotten
  <2>11. FieldsCollected'
    <3>1. ASSUME Following, NEW f \in Followed
          PROVE  told'.state[f] = current[f] \/ BitOf[f] \in Collected(stack') \/ (f = "dbUpdateTime" /\ silent')
      <4>1. told.state[f] = current[f] \/ BitOf[f] \in Collected(stack) \/ (f = "dbUpdateTime" /\ silent)
        BY <3>1 DEF IInv, FieldsCollected
      <4>2. CASE BitOf[f] \in what
        BY <2>8, <4>2, FieldFacts
      <4>3. CASE BitOf[f] \notin what
        BY <2>1, <2>5, <2>8, <4>1, <4>3, FieldFacts
      <4> QED BY <4>2, <4>3
    <3> QED BY <2>2, <2>6, <3>1 DEF FieldsCollected
  <2>12. StatusCollected' /\ EventsCollected'
    BY <2>1, <2>2, <2>5, <2>6 DEF IInv, StatusCollected, EventsCollected
  <2>13. OutputsCollected'
    BY <2>2, <2>5, <2>7, <2>8 DEF IInv, OutputsCollected, EnabledIn
  <2>14. Following' => NotOpening(stack')
    BY <2>5, <2>6 DEF IInv
  <2> QED BY <2>5, <2>9, <2>10, <2>11, <2>12, <2>13, <2>14 DEF IInv
<1> QED BY <1>2, <1>3

LEMMA NextInv == IInv /\ [Next]_vars => IInv'
<1> SUFFICES ASSUME IInv, [Next]_vars PROVE IInv'
  OBVIOUS
<1>1. CASE Environment
  BY <1>1, EnvironmentStep
<1>2. CASE \/ AckError \/ FatalError \/ DropStatus \/ CallbackReturns
           \/ \E op \in {"status_update", "stats_update", "connect", "disconnect"} : Program(op)
  BY <1>2, CallSteps
<1>3. CASE Disconnect \/ ConnectBegins \/ ConnectOpens
  BY <1>3, DisconnectStep, ConnectBeginsStep, ConnectOpensStep
<1>4. CASE StatsReal \/ StatsUpdate
  BY <1>4, StatsSteps
<1>5. CASE StatusUpdate \/ WatchWithoutStatus
  BY <1>5, StatusUpdateStep
<1>6. CASE WatchOutputs \/ WatchNoOutputs \/ FetchOutputs \/ WatchEvents
  BY <1>6, WatchOutputsStep, WatchEventsStep
<1>7. CASE Signal
  BY <1>7, SignalStep
<1>8. CASE UNCHANGED vars
  <2>1. Typed'
    BY <1>8 DEF IInv, Typed, ServerTyped, vars, session, mi, history
  <2>2. Carries(stack')
    BY <1>8, SameCarries DEF vars, IInv
  <2> QED BY <1>8, <2>1, <2>2, Quiet DEF vars, session, mi, history
<1> QED BY <1>1, <1>2, <1>3, <1>4, <1>5, <1>6, <1>7, <1>8 DEF Next, Library

\* Whatever the server, the program and the order of failures do, the difference
\* between what the program was told and what libmpd holds is in the bits that the
\* calls under way have collected.
THEOREM Invariant == Spec => []IInv
BY InitInv, NextInv, PTL DEF Spec

\* The types, and that only a call that looks for changes collects bits.
THEOREM TypeCorrect == Spec => []TypeOK
<1>1. IInv => TypeOK
  <2> SUFFICES ASSUME IInv PROVE TypeOK
    OBVIOUS
  <2>1. stack \in Seq(Frames) /\ stack # <<>> /\ DOMAIN stack = 1 .. Len(stack)
    BY DEF IInv, Shape
  <2>2. \A i \in DOMAIN stack : stack[i].what # {} => stack[i].op = "status_update"
    BY <2>1 DEF IInv, Shape
  <2> QED BY <2>1, <2>2 DEF IInv, Typed, ServerTyped, Servers, TypeOK
<1> QED BY <1>1, Invariant, PTL

\* No call is under way in the main loop, and none holds a bit back.
LEMMA MainLoop ==
  ASSUME IInv, InMainLoop
  PROVE  Collected(stack) = {} /\ ~Resetting
<1>1. Len(stack) = 1 /\ stack[1].what = {}
  BY DEF InMainLoop, Call
<1> QED BY <1>1 DEF Collected, Resetting

\* Events that were read are told by the time mpd_status_update returns, however
\* many callbacks, failures and updates come between.
THEOREM EventsTold == Spec => []EventsAreTold
<1>1. IInv => EventsAreTold
  BY MainLoop DEF EventsAreTold, IInv, EventsCollected
<1> QED BY <1>1, Invariant, PTL

\* In the main loop of a connected program nothing that CurrentState holds was
\* kept from it, the two fields excepted that mpd_disconnect does not reset.
TellsAllFollowed ==
  InMainLoop /\ connected =>
    /\ \A f \in Followed : told.state[f] = current[f] \/ (f = "dbUpdateTime" /\ silent)
    /\ ~hasIdle => told.enabled = {id \in Ids : id + 1 \in DOMAIN outputs /\ outputs[id + 1]}

\* mpd_status_update finds a change, and somebody tells it: any fields, any number
\* of changes between any two steps, callbacks of any depth.
THEOREM FollowedTold == Spec => []TellsAllFollowed
<1>1. IInv => TellsAllFollowed
  BY MainLoop DEF TellsAllFollowed, IInv, FieldsCollected, OutputsCollected, Following, EnabledIn
<1> QED BY <1>1, Invariant, PTL

\* So TellsAll holds of all the fields that mpd_disconnect resets.  It does not of
\* the others: a bit that is told after a disconnect is told with the old value,
\* and a connection that is left half set up resets that value and tells no one.
THEOREM AllTold == ASSUME Fields \cap Kept = {} PROVE Spec => []TellsAll
<1>1. Followed = StateFields
  BY DEF Followed, StateFields, Kept
<1>2. TellsAllFollowed => TellsAll
  BY <1>1 DEF TellsAllFollowed, TellsAll
<1> QED BY <1>2, FollowedTold, PTL

=============================================================================
