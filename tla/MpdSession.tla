----------------------------- MODULE MpdSession -----------------------------
(***************************************************************************)
(* The MpdObj: its connection, its lock and what it caches, and a program  *)
(* that calls the functions of libmpd from its main loop and from the      *)
(* callbacks libmpd makes.  There is one thread; what interleaves is the   *)
(* rest of a function with whatever its callbacks do before it goes on.    *)
(*                                                                         *)
(* `stack' is the call stack, the running function first.  The program is  *)
(* a frame "user", the main loop at the bottom and one more for every      *)
(* callback.  An empty stack is a program that has used a NULL pointer.    *)
(***************************************************************************)
EXTENDS MpdOperations, Integers, FiniteSets

CONSTANTS Operations,   \* functions the program calls
          MaxNesting,   \* bound: user frames on the stack
          AckCodes,     \* codes of the errors the server reports
          OldServer,    \* the server may be older than 0.12.0
          DbUpdates,    \* an update of the database may finish
          None          \* the NULL pointer

ASSUME SessionAssumption ==
  /\ Operations \subseteq Public
  /\ MaxNesting \in Nat \ {0}
  /\ OldServer \in BOOLEAN /\ DbUpdates \in BOOLEAN

VARIABLES
  connected, lock,  \* mi->connected, mi->connection_lock
  conn,             \* mi->connection
  status,           \* mi->status
  cache,            \* what else the MpdObj keeps of the server
  stack, result     \* the calls under way, and what the last one returned

data == <<connected, lock, conn, status, cache>>
vars == <<data, stack, result>>

\* A connection: its error, the errorCode of the last ACK (mpd_clearError
\* leaves it), and whether the reply of an earlier command may still come
\* because the client gave it up.  `by' and `late' are history: whether the
\* last command, and the one with the late reply, was sent by a function that
\* sends one.
Connections == [error : {"NONE", "ACK", "FATAL"}, code : AckCodes \cup {"NONE"},
                by : {"one", "more"}, late : {"no", "one", "more"}]

ASSUME NoneAssumption == None \notin Connections

\* Mutation: errorCode is not initialised by mpd_newConnection.
OpenedUninitialised(e) == [error |-> e, code |-> "GARBAGE", by |-> "more", late |-> "no"]

Opened(e) == [error |-> e, code |-> "NONE", by |-> "more", late |-> "no"]

\* A status is stale when a command sent after it changed what it says.
Statuses  == {"none", "fresh", "stale"}
Cacheable == {"stats", "song", "handlers", "outputs", "commands", "idle"}
Frames    == [op : DOMAIN Code \cup {"user"}, at : Nat \ {0}]

\* The types; a running function is always at one of its steps.
TypeOK ==
  /\ connected \in BOOLEAN /\ lock \in BOOLEAN
  /\ conn \in Connections \cup {None}
  /\ status \in Statuses /\ cache \subseteq Cacheable
  /\ stack \in Seq(Frames)
  /\ result \in {"ok", "failed", "disconnect"}
  /\ \A i \in DOMAIN stack : stack[i].op # "user" => stack[i].at \in DOMAIN Code[stack[i].op]

Frame(op) == [op |-> op, at |-> 1]

Init ==
  /\ connected = FALSE /\ lock = TRUE
  /\ conn = None
  /\ status = "none" /\ cache = {}
  /\ stack = <<Frame("user")>> /\ result = "ok"

-----------------------------------------------------------------------------
(* The call stack *)

Top == Head(stack)

\* The step the running function is at.
Here == IF stack = <<>> \/ Top.op = "user" THEN "user" ELSE Code[Top.op][Top.at]

After(n)     == <<[Top EXCEPT !.at = @ + n]>> \o Tail(stack)
Skip(n)      == stack' = After(n)
Advance      == Skip(1)
Call(op)     == stack' = <<Frame(op)>> \o After(1)
Become(op)   == stack' = <<Frame(op)>> \o Tail(stack)
Return(r)    == stack' = Tail(stack) /\ result' = r
Keep(r)      == result' = r

Nesting == Cardinality({i \in DOMAIN stack : stack[i].op = "user"})

\* libmpd calls the program back: it returns at once, or first makes calls
\* of its own.
CallBack ==
  \/ Advance
  \/ Nesting < MaxNesting /\ stack' = <<Frame("user")>> \o After(1)

CallOperation ==
  /\ stack # <<>> /\ Top.op = "user"
  /\ \E op \in Operations : stack' = <<Frame(op)>> \o stack
  /\ Keep("ok") /\ UNCHANGED data

\* Only the error callback is asked something.
CallbackReturns ==
  /\ Len(stack) > 1 /\ Top.op = "user"
  /\ stack' = Tail(stack)
  /\ result' \in IF stack[2].op = "ack_error" THEN {"ok", "disconnect"} ELSE {"ok"}
  /\ UNCHANGED data

\* A step that is the name of a function calls it.
CallFunction ==
  /\ Here \in DOMAIN Code
  /\ Call(Here)
  /\ UNCHANGED <<data, result>>

Returns ==
  /\ \/ Here = "return" /\ Return("ok")
     \/ Here = "return_failed" /\ Return("failed")
     \/ Here = "return_result" /\ Return(result)
  /\ UNCHANGED data

\* The caller looks at the result of the call before.
OrFail ==
  /\ Here = "or_fail"
  /\ IF result = "ok" THEN Advance /\ Keep("ok") ELSE Return("failed")
  /\ UNCHANGED data

-----------------------------------------------------------------------------
(* The tests at the beginning of a function *)

CheckConnected ==
  /\ Here \in {"connected", "if_connected"}
  /\ IF connected THEN Advance /\ Keep("ok")
     ELSE Return(IF Here = "connected" THEN "failed" ELSE "ok")
  /\ UNCHANGED data

\* Any server may be the old one.
CheckVersion ==
  /\ Here = "version"
  /\ \/ Advance /\ Keep(result)
     \/ OldServer /\ Return("failed")
  /\ UNCHANGED data

\* Everything is allowed by a server that was not asked.
CheckCommandAllowed ==
  /\ Here = "command_allowed"
  /\ \/ Advance /\ Keep(result)
     \/ "commands" \in cache /\ Return("failed")
  /\ UNCHANGED data

LockConn ==
  /\ Here = "lock"
  /\ IF lock THEN Return("failed") ELSE Advance /\ Keep("ok")
  /\ lock' = TRUE
  /\ UNCHANGED <<connected, conn, status, cache>>

UnlockConn ==
  /\ Here = "unlock"
  /\ lock' = FALSE
  /\ IF lock THEN Call("check_error") /\ Keep(result) ELSE Advance /\ Keep("failed")
  /\ UNCHANGED <<connected, conn, status, cache>>

-----------------------------------------------------------------------------
(* Talking to the server *)

ListSteps == {"commands", "notcommands", "outputs", "handlers"}
Exchanges == {"exec", "set", "fetch_status", "fetch_stats"} \cup ListSteps

\* The functions that send at most one command and never ask for the status;
\* mpd_playlist_load(), which clears errors that are not its own, is not one.
SendOne ==
  LET Plain(op) ==
        /\ \A i \in DOMAIN Code[op] : Code[op][i] \notin (DOMAIN Code \ {"status_queue_update"}) \cup {"need_status"}
        /\ Cardinality({i \in DOMAIN Code[op] : Code[op][i] \in Exchanges}) <= 1
  IN  {"stats_getter"} \cup ({op \in Public : Plain(op)} \ {"status_update", "playlist_load"})

\* What the program called.
Called == LET user == CHOOSE i \in DOMAIN stack : stack[i].op = "user" /\ \A j \in 1 .. i - 1 : stack[j].op # "user"
          IN stack[user - 1].op
Sender == IF Called \in SendOne THEN "one" ELSE "more"

\* What a command does to the connection: mpd_executeCommand clears the
\* error of the command before; the reply ends with OK or ACK, or the
\* connection fails and a part of the reply may still come.
Answers ==
  {[conn EXCEPT !.error = "NONE", !.by = Sender]}
    \cup {[conn EXCEPT !.error = "ACK", !.code = c, !.by = Sender] : c \in AckCodes}
    \cup {[conn EXCEPT !.error = "FATAL", !.by = Sender, !.late = l] : l \in {conn.late, Sender}}

\* The commands of a list that is stored as its lines are read.
ListKept(step) ==
  CASE step = "commands"    -> {{}, {"commands"}, {"commands", "idle"}}
    [] step = "notcommands" -> {{}, {"commands"}}
    [] step = "outputs"     -> {{}, {"outputs"}}
    [] step = "handlers"    -> {{}, {"handlers"}}

Exchange ==
  /\ Here \in Exchanges /\ conn # None
  /\ \E c \in Answers :
       /\ conn' = c
       /\ status' = CASE Here = "fetch_status" -> IF c.error = "NONE" THEN "fresh" ELSE "none"
                      [] Here = "set" /\ status # "none" /\ c.error # "ACK" -> "stale"
                      [] OTHER -> status
       /\ cache' \in CASE Here = "fetch_stats" ->
                            {IF c.error = "NONE" THEN cache \cup {"stats"} ELSE cache \ {"stats"}}
                       [] Here \in ListSteps -> {cache \cup kept : kept \in ListKept(Here)}
                       [] OTHER -> {cache}
  /\ Advance /\ Keep("ok")
  /\ UNCHANGED <<connected, lock>>

-----------------------------------------------------------------------------
(* mpd_check_error *)

LookForError ==
  /\ Here = "look"
  /\ \/ conn = None /\ Return("failed") /\ UNCHANGED conn
     \/ /\ conn # None /\ conn.error = "NONE"
        /\ Advance /\ Keep("ok") /\ UNCHANGED conn
     \/ /\ conn # None /\ conn.error = "ACK"
        /\ conn' = [conn EXCEPT !.error = "NONE"]
        /\ Become("ack_error") /\ Keep("ok")
     \/ /\ conn # None /\ conn.error = "FATAL"
        /\ Become("fatal_error") /\ Keep("ok") /\ UNCHANGED conn
  /\ UNCHANGED <<connected, lock, status, cache>>

\* The program may answer that libmpd is to disconnect.
ErrorCallback ==
  /\ Here = "error_callback"
  /\ \/ Advance /\ result' \in IF Top.op = "ack_error" THEN {"ok", "disconnect"} ELSE {"ok"}
     \/ Nesting < MaxNesting /\ stack' = <<Frame("user")>> \o After(1) /\ Keep("ok")
  /\ UNCHANGED data

Obey ==
  /\ Here = "obey"
  /\ IF result = "disconnect" THEN Call("disconnect") ELSE Advance
  /\ Keep("ok") /\ UNCHANGED data

-----------------------------------------------------------------------------
(* Connecting and disconnecting *)

\* Mutation: the outputs of the last server are kept.
KeptAfterDisconnectOutputs(kept) == kept \cap {"outputs"}

\* mpd_disconnect frees everything that came from the server.
KeptAfterDisconnect(kept) == kept \ Cacheable

Close ==
  /\ Here = "close"
  /\ lock' = TRUE
  /\ conn' = None /\ status' = "none"
  /\ cache' = KeptAfterDisconnect(cache)
  /\ connected' = FALSE
  /\ IF connected THEN CallBack ELSE Advance
  /\ Keep("ok")

\* mpd_connect_real leaves the server it is connected to first.
Leave ==
  /\ Here = "leave"
  /\ IF connected THEN Call("disconnect") ELSE Advance
  /\ Keep("ok") /\ UNCHANGED data

\* A connection is there even when it could not be made; then it has an error.
Open ==
  /\ Here = "open"
  /\ lock' = TRUE
  /\ conn' \in {Opened("NONE"), Opened("FATAL")}
  /\ Advance /\ Keep("ok")
  /\ UNCHANGED <<connected, status, cache>>

Accept ==
  /\ Here = "accept"
  /\ connected' = TRUE
  /\ Advance /\ Keep("ok")
  /\ UNCHANGED <<lock, conn, status, cache>>

FreeCommands ==
  /\ Here = "free_commands"
  /\ cache' = cache \ {"commands"}
  /\ Advance /\ Keep("ok")
  /\ UNCHANGED <<connected, lock, conn, status>>

SignalConnected ==
  /\ Here = "signal_connected"
  /\ CallBack /\ Keep("ok")
  /\ UNCHANGED data

\* status_changed: called when something changed.
SignalStatus ==
  /\ Here = "signal_status" /\ CallBack
  /\ Keep("ok")
  /\ UNCHANGED data

-----------------------------------------------------------------------------
(* The status *)

\* mpd_status_queue_update
ForgetStatus ==
  /\ Here = "forget_status"
  /\ status' = "none"
  /\ Advance /\ Keep("ok")
  /\ UNCHANGED <<connected, lock, conn, cache>>

\* mpd_status_check and mpd_stats_check ask the server only when they must.
Need ==
  /\ Here \in {"need_status", "need_stats"}
  /\ IF Here = "need_status"
     THEN IF status = "none" THEN Call("status_update") ELSE Advance
     ELSE IF "stats" \notin cache THEN Call("stats_update") ELSE Advance
  /\ Keep("ok") /\ UNCHANGED data

\* mpd_status_update looks for changes; a new playlist drops the song.
Compare ==
  /\ Here = "compare" /\ status # "none"
  /\ cache' \in {cache, cache \ {"song"}}
  /\ Advance /\ Keep("ok")
  /\ UNCHANGED <<connected, lock, conn, status>>

\* A status with an error is answered by a command, without the lock.
ClearServerError ==
  /\ Here = "clear_error" /\ conn # None
  /\ conn' \in Answers \cup {conn}
  /\ Advance /\ Keep("ok")
  /\ UNCHANGED <<connected, lock, status, cache>>

\* New statistics when the database update is over.
StatsIfStopped ==
  /\ Here = "stats_if_stopped"
  /\ \/ Advance
     \/ DbUpdates /\ Call("stats_update_real")
  /\ Keep("ok") /\ UNCHANGED data

\* The events since the last time or, for a server without idle, the state of
\* the outputs; both without the lock.
Watch ==
  /\ Here = "watch"
  /\ \/ /\ {"idle", "outputs"} \cap cache # {} /\ conn # None
        /\ conn' \in Answers
        /\ Skip(IF "idle" \in cache THEN 1 ELSE 2)
     \/ /\ {"idle", "outputs"} \cap cache = {}
        /\ stack' = <<Frame("server_update_outputs")>> \o After(2)
        /\ UNCHANGED conn
  /\ Keep("ok")
  /\ UNCHANGED <<connected, lock, status, cache>>

StatsIfDatabase ==
  /\ Here = "stats_if_database"
  /\ \/ Advance
     \/ Call("stats_update_real")
  /\ Keep("ok") /\ UNCHANGED data

-----------------------------------------------------------------------------
(* Reading what is cached *)

UsesStatus == {"status_value", "record", "compare"}

ReadValue ==
  /\ \/ Here \in {"status_value", "record"} /\ status # "none"
     \/ Here = "stats_value" /\ "stats" \in cache
  /\ Advance /\ Keep(result)
  /\ UNCHANGED data

\* The player is asked for its state again unless the first answer was the
\* one looked for.
AskAgain ==
  /\ Here = "ask_again"
  /\ \/ result = "ok" /\ Advance
     \/ Call("player_get_state")
  /\ Keep(result) /\ UNCHANGED data

IfPlaying ==
  /\ Here \in {"if_playing", "if_not_stopped"}
  /\ \/ Advance /\ Keep(result)
     \/ result = "ok" /\ Return("failed")
  /\ UNCHANGED data

\* A player that is stopped is sent nothing.
Pause ==
  /\ Here = "pause"
  /\ \/ /\ result = "ok" /\ conn # None
        /\ conn' \in Answers
        /\ status' \in {"stale", status}
     \/ UNCHANGED <<conn, status>>
  /\ Advance /\ Keep("ok")
  /\ UNCHANGED <<connected, lock, cache>>

IfNotCached ==
  /\ Here \in {"if_no_song", "if_no_handlers"}
  /\ IF \/ Here = "if_no_song" /\ "song" \in cache
        \/ Here = "if_no_handlers" /\ "handlers" \in cache
     THEN Return("ok") ELSE Advance /\ Keep("ok")
  /\ UNCHANGED data

\* The song is compared with the status when there is one.
DropOldSong ==
  /\ Here = "drop_old_song" /\ ("song" \in cache => status # "none")
  /\ cache' \in {cache, cache \ {"song"}}
  /\ Advance /\ Keep("ok")
  /\ UNCHANGED <<connected, lock, conn, status>>

KeepSong ==
  /\ Here = "keep_song"
  /\ cache' = cache \cup {"song"}
  /\ Advance /\ Keep("ok")
  /\ UNCHANGED <<connected, lock, conn, status>>

-----------------------------------------------------------------------------
(* Errors a function deals with itself *)

Cleared == [conn EXCEPT !.error = "NONE"]

\* mpd_playlist_load looks at errorCode alone.
LoadFailed ==
  /\ Here = "load_failed"
  /\ IF conn.code = "NO_EXIST" THEN conn' = Cleared /\ Become("ends_as_failed") ELSE UNCHANGED conn /\ Advance
  /\ Keep("ok")
  /\ UNCHANGED <<connected, lock, status, cache>>

NameExists ==
  /\ Here = "name_exists"
  /\ IF conn.error = "ACK" /\ conn.code = "EXIST" THEN conn' = Cleared /\ Become("ends_as_failed")
     ELSE UNCHANGED conn /\ Advance
  /\ Keep("ok")
  /\ UNCHANGED <<connected, lock, status, cache>>

\* What does not exist is an empty answer.
Forgive ==
  /\ Here = "forgive"
  /\ conn' = IF conn.error = "ACK" /\ conn.code = "NO_EXIST" THEN Cleared ELSE conn
  /\ Advance /\ Keep("ok")
  /\ UNCHANGED <<connected, lock, status, cache>>

-----------------------------------------------------------------------------
(* The end of the program *)

UsesNull ==
  \/ Here \in Exchanges \cup {"clear_error"} /\ conn = None
  \/ Here = "watch" /\ {"idle", "outputs"} \cap cache # {} /\ conn = None
  \/ Here \in UsesStatus /\ status = "none"
  \/ Here = "drop_old_song" /\ "song" \in cache /\ status = "none"
  \/ Here = "stats_value" /\ "stats" \notin cache

Crash ==
  /\ UsesNull
  /\ stack' = <<>>
  /\ UNCHANGED <<data, result>>

Function ==
  \/ CallFunction \/ Returns \/ OrFail
  \/ CheckConnected \/ CheckVersion \/ CheckCommandAllowed \/ LockConn \/ UnlockConn
  \/ Exchange
  \/ LookForError \/ ErrorCallback \/ Obey
  \/ Leave \/ Open \/ Accept \/ Close \/ FreeCommands \/ SignalConnected \/ SignalStatus
  \/ ForgetStatus \/ Need \/ Compare \/ ClearServerError \/ StatsIfStopped \/ Watch \/ StatsIfDatabase
  \/ ReadValue \/ AskAgain \/ IfPlaying \/ Pause \/ IfNotCached \/ DropOldSong \/ KeepSong
  \/ LoadFailed \/ NameExists \/ Forgive
  \/ Crash

Next == CallOperation \/ CallbackReturns \/ Function

Spec == Init /\ [][Next]_vars

-----------------------------------------------------------------------------
(* Properties *)

\* The program is in its main loop.
Idle == Len(stack) = 1

\* No function leaves the lock taken on a connection that is there, whatever
\* failed in it and whatever its callbacks did: the next call is not refused.
UnlockedWhenIdle == Idle /\ connected => ~lock

\* A session that is over has left nothing behind: no connection, no status,
\* no song, statistics, outputs or commands of the server it was with.
DisconnectForgets == Idle /\ ~connected => conn = None /\ status = "none" /\ cache = {}

\* A function that changes something does not leave a status from before the
\* change to be handed out ("update status, because we changed it").
FreshWhenIdle == Idle => status # "stale"

\* No function uses a connection, a status or statistics that are not there.
NoNullUsed == stack # <<>>

Sends == Here \in Exchanges \cup {"clear_error", "watch"} /\ conn # None

\* The error of a function that sends one command between its lock and its
\* unlock is looked at before the next command wipes it out (the error signal
\* is given "when an error has occurred in the communication with mpd"), and
\* no command is sent to a connection that such a function left in the middle
\* of a reply, the rest of which would answer it ("so we can't have to
\* commands competing with eachother").
NoErrorLost ==
  Sends => /\ conn.by = "one" => conn.error = "NONE"
           /\ conn.late # "one"

\* There is a status when mpd_status_check says so ("returns TRUE when status
\* is availible").
CheckedStatusIsThere == stack # <<>> /\ Top.op = "status_check" /\ Here = "return" => status # "none"

\* The connection before is closed when another takes its place: "you should
\* use mpd_closeConnection, when your done with the connection, even if an
\* error has occurred".
ClosedBeforeOpened == Here = "open" => conn = None

=============================================================================
