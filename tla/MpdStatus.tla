------------------------------ MODULE MpdStatus ------------------------------
(***************************************************************************)
(* How libmpd finds out what changed at the server and tells the program:  *)
(* mpd_status_update compares a new status with CurrentState field by      *)
(* field, asks for the outputs or for the events of idle, fetches new      *)
(* statistics when the database changed, and hands all the bits it         *)
(* collected to status_changed.                                            *)
(*                                                                         *)
(* The calls under way are on `stack', the running one first, each with    *)
(* the bits it collected; "user" is the program, in its main loop or in a  *)
(* callback.  The server changes between any two steps.  What can go wrong *)
(* while a connection is set up is in MpdSession.                          *)
(***************************************************************************)
EXTENDS Integers, Sequences, FiniteSets

CONSTANTS Fields,      \* the plain fields of MpdServerState that are looked at
          Events,      \* the subsystems of idle that are looked at
          NumOutputs,  \* outputs of the server, which do not change
          MaxEvents,   \* bound: changes, refusals and losses at the server
          MaxNesting,  \* bound: user frames on the stack
          OutputsAllowed, \* "outputs" is never refused, for want of a password
          Unknown      \* a field of a server that was not asked; the NULL status

\* The bit of what_changed for each field.
BitOf ==
  [playlistid  |-> "PLAYLIST",     state       |-> "STATE",        songid     |-> "SONGID",
   songpos     |-> "SONGPOS",      nextsongid  |-> "NEXTSONG",     nextsongpos |-> "NEXTSONG",
   single      |-> "SINGLE_MODE",  consume     |-> "CONSUME_MODE", repeat     |-> "REPEAT",
   random      |-> "RANDOM",       volume      |-> "VOLUME",       xfade      |-> "CROSSFADE",
   totaltime   |-> "TOTAL_TIME",   elapsedtime |-> "ELAPSED_TIME", bitrate    |-> "BITRATE",
   samplerate  |-> "AUDIOFORMAT",  bits        |-> "AUDIOFORMAT",  channels   |-> "AUDIOFORMAT",
   updatingDb  |-> "UPDATING",     dbUpdateTime |-> "DATABASE"]

\* The bit for each event.
EventBit ==
  [output   |-> "OUTPUT",   database |-> "DATABASE", stored_playlist |-> "STORED_PLAYLIST",
   playlist |-> "PLAYLIST", sticker  |-> "STICKER",  options         |-> "REPLAYGAIN"]

StateFields == Fields \cup {"updatingDb", "dbUpdateTime"}
Bits == {BitOf[f] : f \in StateFields} \cup {EventBit[e] : e \in Events} \cup {"OUTPUT", "SERVER_ERROR"}

ASSUME StatusAssumption ==
  /\ Fields \subseteq DOMAIN BitOf \ {"updatingDb", "dbUpdateTime"}
  /\ {"database", "output"} \subseteq Events /\ Events \subseteq DOMAIN EventBit
  /\ NumOutputs \in Nat \ {0}  \* "No outputs defined? that cannot be"
  /\ MaxEvents \in Nat /\ MaxNesting \in Nat \ {0}
  /\ OutputsAllowed \in BOOLEAN
  /\ Unknown \notin Int

VARIABLES
  server,           \* what the server would answer, and how often it changed
  alive,            \* the server still answers on this connection
  connected, lock, hasIdle,
  status,           \* mi->status: what it says of updatingDb, the rest is in current
  current, old,     \* CurrentState; of OldState only dbUpdateTime is read
  outputs,          \* output_states, num_outputs long
  stack,
  over,             \* the program used what is not there: it is over
  told, owed,       \* history: what the program was told, events read and not told,
  silent            \* an update that mpd_stats_update found and did not tell

session == <<connected, lock, hasIdle>>
mi      == <<status, current, old, outputs>>
history == <<told, owed, silent>>
vars    == <<server, alive, session, mi, stack, over, history>>

Ids    == 0 .. NumOutputs - 1
Values == {0, 1}
Frames == [op : {"user", "status_update", "stats_update", "stats_real", "connect", "disconnect",
                 "ack_error", "fatal_error"},
           at : {"begin", "watch", "signal", "open", "close"},
           what : SUBSET Bits]
States == [StateFields -> Int \cup {Unknown}]

\* Mutation: every field is set to -1.
AllUnknown == [f \in StateFields |-> Unknown]

\* What the program and libmpd take for the state of a server never asked.
ZeroFields == {"single", "consume", "totaltime", "elapsedtime", "bitrate", "samplerate", "bits", "channels",
               "updatingDb", "dbUpdateTime"}
InitServerState == [f \in StateFields |-> IF f \in ZeroFields THEN 0 ELSE Unknown]
Nothing         == [state |-> InitServerState, enabled |-> {}]

\* The types; only the calls that look for changes collect bits.
TypeOK ==
  /\ server \in [state : States, enabled : SUBSET Ids, error : BOOLEAN,
                 events : SUBSET Events, happened : 0 .. MaxEvents]
  /\ alive \in BOOLEAN /\ connected \in BOOLEAN /\ lock \in BOOLEAN /\ hasIdle \in BOOLEAN
  /\ status \in {Unknown, 0, 1} /\ current \in States /\ old \in Nat
  /\ outputs \in Seq(BOOLEAN) /\ stack \in Seq(Frames) \ {<<>>}
  /\ over \in {"no", "no status", "no answer", "no output"}
  /\ told \in [state : States, enabled : SUBSET Ids] /\ owed \subseteq Bits /\ silent \in BOOLEAN
  /\ \A i \in DOMAIN stack :
       stack[i].what # {} => stack[i].op = "status_update"

Init ==
  /\ server = [state |-> [f \in StateFields |-> 0], enabled |-> {},
               error |-> FALSE, events |-> {}, happened |-> 0]
  /\ alive = FALSE /\ connected = FALSE /\ lock = TRUE /\ hasIdle = FALSE
  /\ status = Unknown /\ current = InitServerState /\ old = 0 /\ outputs = <<>>
  /\ stack = <<[op |-> "user", at |-> "begin", what |-> {}]>> /\ over = "no"
  /\ told = Nothing /\ owed = {} /\ silent = FALSE

-----------------------------------------------------------------------------
(* The server *)

Happens(change, event) ==
  /\ server.happened < MaxEvents
  /\ server' = [change EXCEPT !.happened = @ + 1, !.events = @ \cup ({event} \cap Events)]
  /\ UNCHANGED <<session, mi, stack, over, history>>

\* Playing, or what the user does with another client.
StateChanges ==
  /\ UNCHANGED alive
  /\ \E f \in Fields, v \in Values :
       /\ server.state[f] # v
       /\ Happens([server EXCEPT !.state[f] = v], IF f = "playlistid" THEN "playlist" ELSE "player")

UpdateStarts ==
  /\ UNCHANGED alive
  /\ server.state.updatingDb = 0
  /\ Happens([server EXCEPT !.state.updatingDb = 1], "update")

UpdateEnds ==
  /\ UNCHANGED alive
  /\ server.state.updatingDb = 1
  /\ Happens([server EXCEPT !.state.updatingDb = 0, !.state.dbUpdateTime = @ + 1], "database")

OutputToggles ==
  /\ UNCHANGED alive
  /\ \E id \in Ids :
       Happens([server EXCEPT !.enabled = IF id \in @ THEN @ \ {id} ELSE @ \cup {id}], "output")

OtherEvent ==
  /\ UNCHANGED alive
  /\ \E e \in Events \ {"database", "output", "playlist"} : Happens(server, e)

PlayFails ==
  /\ UNCHANGED alive
  /\ ~server.error /\ Happens([server EXCEPT !.error = TRUE], "player")

Dies ==
  /\ alive /\ alive' = FALSE
  /\ Happens(server, "none")

Environment == StateChanges \/ UpdateStarts \/ UpdateEnds \/ OutputToggles \/ OtherEvent \/ PlayFails \/ Dies

\* A command is refused: its reply is an ACK.
Refuses == alive /\ server.happened < MaxEvents /\ server' = [server EXCEPT !.happened = @ + 1]

-----------------------------------------------------------------------------
(* Calls and returns *)

Top          == Head(stack)
Running(op, at) == over = "no" /\ Top.op = op /\ Top.at = at
Call(op)     == [op |-> op, at |-> "begin", what |-> {}]
At(at, what) == <<[Top EXCEPT !.at = at, !.what = what]>> \o Tail(stack)
Returned     == Tail(stack)
UserFrames   == {i \in DOMAIN stack : stack[i].op = "user"}

\* mpd_check_error after an ACK: the error callback says whether to disconnect.
AckError ==
  /\ UNCHANGED <<server, alive, session, mi, over, history>>
  /\ \/ Running("ack_error", "begin") /\ stack' = <<Call("user")>> \o At("close", {})
     \/ Running("ack_error", "close") /\ stack' \in {Returned, <<Call("disconnect")>> \o Returned}

\* Any other error ends the connection after the callback.
FatalError ==
  /\ UNCHANGED <<server, alive, session, mi, over, history>>
  /\ \/ Running("fatal_error", "begin") /\ stack' = <<Call("user")>> \o At("close", {})
     \/ Running("fatal_error", "close") /\ stack' = <<Call("disconnect")>> \o Returned

\* Two fields keep the value they had at the server that is left.
Disconnect ==
  /\ Running("disconnect", "begin")
  /\ lock' = TRUE /\ alive' = FALSE /\ hasIdle' = FALSE
  /\ status' = Unknown /\ old' = InitServerState.dbUpdateTime
  /\ current' = [f \in StateFields |->
                   IF f \in {"single", "consume"} THEN current[f] ELSE InitServerState[f]]
  /\ outputs' = <<>>
  /\ connected' = FALSE
  /\ IF connected THEN /\ stack' = <<Call("user")>> \o Returned
                       /\ told' = Nothing /\ owed' = {} /\ silent' = FALSE
                  ELSE stack' = Returned /\ UNCHANGED history
  /\ UNCHANGED <<server, over>>

\* A program whose server has idle asks for the outputs itself when it is told
\* of them, the others are told what libmpd saw.
ToldOutputs(idle) ==
  IF idle THEN IF alive' THEN server.enabled ELSE told.enabled
          ELSE {id \in Ids : id + 1 \in DOMAIN outputs' /\ outputs'[id + 1]}

\* mpd_server_update_outputs appends an entry for each output, none of them
\* taken to be enabled; a refusal is counted as one output.
Fetched(answered) == outputs \o [i \in 1 .. (IF answered THEN NumOutputs ELSE 1) |-> FALSE]

ConnectBegins ==
  /\ Running("connect", "begin")
  /\ current' = InitServerState /\ old' = InitServerState.dbUpdateTime
  /\ stack' = (IF connected THEN <<Call("disconnect")>> ELSE <<>>) \o At("open", {})
  /\ UNCHANGED <<server, alive, session, status, outputs, over, history>>

\* The connection cannot be made, is left half set up by a server whose
\* commands could not be read, or is announced to the program.
ConnectOpens ==
  /\ Running("connect", "open")
  /\ UNCHANGED <<status, current, old, over>>
  /\ \/ /\ lock' = TRUE /\ server.happened < MaxEvents
        /\ server' = [server EXCEPT !.happened = @ + 1]
        /\ stack' = <<Call("fatal_error")>> \o Returned
        /\ UNCHANGED <<alive, connected, hasIdle, outputs, history>>
     \/ /\ connected' = TRUE /\ lock' = FALSE /\ hasIdle' = FALSE /\ alive' = TRUE
        /\ server' = [server EXCEPT !.events = {}]
        /\ stack' = Returned
        /\ UNCHANGED <<outputs, history>>
     \/ /\ connected' = TRUE /\ lock' = FALSE /\ hasIdle' \in BOOLEAN /\ alive' = TRUE
        /\ server' = [server EXCEPT !.events = {}]
        /\ \E answered \in {TRUE, OutputsAllowed} : outputs' = Fetched(answered)
        /\ stack' = <<Call("user")>> \o Returned
        /\ told' = [Nothing EXCEPT !.enabled = ToldOutputs(hasIdle')] /\ owed' = {} /\ silent' = FALSE

-----------------------------------------------------------------------------
(* Statistics *)

Updated == server.state.dbUpdateTime # old'

StatsTaken == current' = IF Updated THEN [current EXCEPT !.dbUpdateTime = server.state.dbUpdateTime] ELSE current

\* The server is gone, or says no, when it is asked under the lock.
AskFails(returned) ==
  /\ lock' = FALSE
  /\ UNCHANGED <<alive, connected, hasIdle, current, outputs, over, history>>
  /\ \/ ~alive /\ stack' = <<Call("fatal_error")>> \o returned /\ UNCHANGED server
     \/ Refuses /\ stack' = <<Call("ack_error")>> \o returned

\* Mutation: the time of the update is stored and no bit is set.
NoBitForUpdate == {}

DatabaseBit == IF Updated THEN {"DATABASE"} ELSE {}

\* mpd_stats_update_real for mpd_status_update, which it hands its bit.
StatsReal ==
  /\ Running("stats_real", "begin")
  /\ UNCHANGED <<status, old>>
  /\ IF ~connected \/ lock
       THEN stack' = Returned /\ UNCHANGED <<server, alive, session, current, outputs, over, history>>
       ELSE \/ AskFails(Returned)
            \/ /\ alive /\ StatsTaken
               /\ stack' = [Returned EXCEPT ![1].what = @ \cup DatabaseBit]
               /\ UNCHANGED <<server, alive, session, outputs, over, history>>

\* On its own it tests the bit 1, that there is a callback, against the bit of
\* the database: the program is not called back.
StatsUpdate ==
  /\ Running("stats_update", "begin")
  /\ old' = current.dbUpdateTime
  /\ UNCHANGED status
  /\ IF ~connected \/ lock
       THEN stack' = Returned /\ UNCHANGED <<server, alive, session, current, outputs, over, history>>
       ELSE \/ AskFails(Returned)
            \/ /\ alive /\ StatsTaken
               /\ silent' = (silent \/ Updated)
               /\ stack' = Returned
               /\ UNCHANGED <<server, alive, session, outputs, over, told, owed>>

-----------------------------------------------------------------------------
(* mpd_status_update *)

\* Mutation: the position of the next song is not looked at.
ComparedWithoutPosition == Fields \ {"nextsongpos"}

\* The fields whose difference makes a bit; a field is stored with its bit.
Compared == Fields

FieldBits == {BitOf[f] : f \in {f \in Compared : current[f] # server.state[f]}}

\* The status is compared and stored, an error in it cleared.  A change of
\* `updating_db' is stored after the statistics were fetched.
StatusAnswered ==
  LET updating == current.updatingDb # server.state.updatingDb
      stopped  == updating /\ server.state.updatingDb = 0
      what     == FieldBits \cup (IF server.error THEN {"SERVER_ERROR"} ELSE {})
                            \cup (IF updating THEN {"UPDATING"} ELSE {})
  IN /\ alive
     /\ status' = server.state.updatingDb
     /\ old' = current.dbUpdateTime
     /\ current' = [f \in StateFields |->
                      IF f \in Fields /\ BitOf[f] \in FieldBits THEN server.state[f] ELSE current[f]]
     /\ server' = [server EXCEPT !.error = FALSE]
     /\ stack' = (IF stopped THEN <<Call("stats_real")>> ELSE <<>>) \o At("watch", what)
     /\ UNCHANGED <<alive, session, outputs, over, history>>

StatusUpdate ==
  /\ Running("status_update", "begin")
  /\ IF ~connected \/ lock
       THEN stack' = Returned /\ UNCHANGED <<server, alive, session, mi, over, history>>
       ELSE StatusAnswered \/ (AskFails(Returned) /\ status' = Unknown /\ UNCHANGED old)

\* The status is used whether a callback dropped it or not.
Watch ==
  /\ Running("status_update", "watch") /\ status # Unknown
  /\ current' = [current EXCEPT !.updatingDb = status]
  /\ UNCHANGED <<alive, session, status, old, told, silent>>

WatchWithoutStatus ==
  /\ Running("status_update", "watch") /\ status = Unknown
  /\ over' = "no status"
  /\ UNCHANGED <<server, alive, session, mi, stack, history>>

\* Mutation: the new states are stored and no bit is set.
NoBitForOutputs(now) == {}

OutputBit(now) == IF now # outputs THEN {"OUTPUT"} ELSE {}

\* The outputs are compared by their number, which must be one that is stored.
WatchOutputs ==
  /\ ~hasIdle /\ outputs # <<>> /\ alive
  /\ Watch /\ UNCHANGED <<server, owed>>
  /\ LET now == [i \in DOMAIN outputs |-> IF i - 1 \in Ids THEN i - 1 \in server.enabled ELSE outputs[i]]
     IN IF \E id \in Ids : id + 1 \notin DOMAIN outputs
          THEN over' = "no output" /\ UNCHANGED <<outputs, stack>>
          ELSE /\ outputs' = now
               /\ stack' = At("signal", Top.what \cup OutputBit(now))
               /\ UNCHANGED over

\* mpd_getNextOutput makes an output of an answer that does not come, with no
\* number.
WatchNoOutputs ==
  /\ ~hasIdle /\ outputs # <<>>
  /\ Watch /\ UNCHANGED <<outputs, stack, owed>>
  /\ over' = "no answer"
  /\ \/ ~alive /\ UNCHANGED server
     \/ ~OutputsAllowed /\ Refuses

FetchOutputs ==
  /\ ~hasIdle /\ outputs = <<>>
  /\ Watch /\ UNCHANGED <<over, owed>>
  /\ LET then == At("signal", Top.what \cup {"OUTPUT"})
     IN \/ alive /\ outputs' = Fetched(TRUE) /\ stack' = then /\ UNCHANGED server
        \/ ~alive /\ outputs' = Fetched(FALSE) /\ stack' = <<Call("fatal_error")>> \o then /\ UNCHANGED server
        \/ ~OutputsAllowed /\ Refuses /\ outputs' = Fetched(FALSE) /\ stack' = <<Call("ack_error")>> \o then

\* The events are read whatever becomes of them; one of the database asks for
\* the statistics, if they were not fetched just now.
WatchEvents ==
  /\ hasIdle
  /\ Watch /\ UNCHANGED <<outputs, over>>
  /\ LET events == IF alive THEN server.events ELSE {}
         bits   == {EventBit[e] : e \in events}
         fetch  == "database" \in events /\ "DATABASE" \notin Top.what
     IN /\ server' = IF alive THEN [server EXCEPT !.events = {}] ELSE server
        /\ owed' = owed \cup bits
        /\ stack' = (IF fetch THEN <<Call("stats_real")>> ELSE <<>>) \o At("signal", Top.what \cup bits)

\* Mutation: the callback is made for what the status showed, not for events.
SignalledWithoutEvents(what) == what \cap {BitOf[f] : f \in Fields}

Signalled(what) == what

\* The callback is made with all the bits, also after a disconnect.
Signal ==
  /\ Running("status_update", "signal")
  /\ UNCHANGED <<server, alive, session, mi, over>>
  /\ LET what == Signalled(Top.what)
     IN IF what = {} THEN stack' = Returned /\ UNCHANGED history
        ELSE /\ stack' = <<Call("user")>> \o Returned
             /\ told' = [state   |-> [f \in StateFields |->
                                        IF BitOf[f] \in what THEN current[f] ELSE told.state[f]],
                         enabled |-> IF "OUTPUT" \in what THEN ToldOutputs(hasIdle) ELSE told.enabled]
             /\ owed' = owed \ what
             /\ silent' = (silent /\ "DATABASE" \notin what)

-----------------------------------------------------------------------------
(* The program *)

Library ==
  \/ AckError \/ FatalError \/ Disconnect \/ ConnectBegins \/ ConnectOpens
  \/ StatsReal \/ StatsUpdate
  \/ StatusUpdate \/ WatchWithoutStatus \/ WatchOutputs \/ WatchNoOutputs \/ FetchOutputs
  \/ WatchEvents \/ Signal

\* In its main loop or a callback; no callback of a mpd_connect under way
\* connects.
Program(op) ==
  /\ Running("user", "begin") /\ Cardinality(UserFrames) < MaxNesting
  /\ op = "connect" => \A i \in DOMAIN stack : stack[i].op # "connect"
  /\ stack' = <<Call(op)>> \o stack
  /\ UNCHANGED <<server, alive, session, mi, over, history>>

\* mpd_status_queue_update
DropStatus ==
  /\ Running("user", "begin") /\ connected
  /\ status # Unknown /\ status' = Unknown
  /\ UNCHANGED <<server, alive, session, current, old, outputs, stack, over, history>>

CallbackReturns ==
  /\ Running("user", "begin") /\ Len(stack) > 1
  /\ stack' = Returned
  /\ UNCHANGED <<server, alive, session, mi, over, history>>

Next ==
  \/ Environment \/ Library
  \/ \E op \in {"status_update", "stats_update", "connect", "disconnect"} : Program(op)
  \/ DropStatus \/ CallbackReturns

Spec == Init /\ [][Next]_vars

InMainLoop == stack = <<Call("user")>> /\ over = "no"

\* Callbacks return, and the program polls from its main loop, as it is told to.
FairSpec ==
  /\ Spec
  /\ WF_vars(Library) /\ SF_vars(CallbackReturns)
  /\ SF_vars(InMainLoop /\ Program("status_update"))

-----------------------------------------------------------------------------
(* Properties *)

\* When no call is under way the program was told every value CurrentState
\* holds: a callback, a disconnect or a failure between two of the steps of
\* mpd_status_update loses no bit.  Without idle that goes for the outputs too.
\* Excepted is what mpd_stats_update found out.
TellsAll ==
  InMainLoop /\ connected =>
    /\ \A f \in StateFields : told.state[f] = current[f] \/ (f = "dbUpdateTime" /\ silent)
    /\ ~hasIdle => told.enabled = {id \in Ids : id + 1 \in DOMAIN outputs /\ outputs[id + 1]}

\* Every event that was read, and so will not be reported by the server again,
\* was handed to the program by the time mpd_status_update returns.
EventsAreTold == InMainLoop => owed = {}

\* A program that is told by a "signal that gets called when the state of mpd
\* has changed" hears of every update of the database libmpd has seen.
UpdatesAreTold == InMainLoop /\ connected => told.state.dbUpdateTime = current.dbUpdateTime

\* While the program stays connected what it was told becomes what the server
\* says, whatever changed while it was being told; the statistics are left out.
Settled == /\ \A f \in StateFields \ {"dbUpdateTime"} : told.state[f] = server.state[f]
           /\ told.enabled = server.enabled
EventuallyTold == <>[](connected /\ over = "no") => <>[]Settled
=============================================================================
