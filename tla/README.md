# Verification of libmpd

TLA+ models of libmpd, the C library that programs use to control a Music
Player Daemon, the TLC runs that check them and the theorems about them that
TLAPS proves.  Paths such as `libmpd.c:515` are below `src/src/`.

## 1. The system

libmpd is two layers in one thread.

* **libmpdclient** (`libmpdclient.c`) keeps an `mpd_Connection`: a socket, a line
  buffer and a few flags.  A command is written by a `mpd_send...` function and
  its reply is read line by line, by getters, until `OK` or `ACK`.
* **libmpd** (`libmpd.c`, `libmpd-status.c`, `libmpd-player.c`,
  `libmpd-playlist.c`, `libmpd-database.c`, `libmpd-sticker.c`) keeps an `MpdObj`:
  one connection, a flag that "locks" it, what is cached of the server, a queue of
  commands, a search in progress and the callbacks of the program.

| Component | State | Operations | What makes it correct |
|---|---|---|---|
| Protocol connection | `doneProcessing`, `commandList`, `listOks`, `doneListOk`, `error`, `returnElement`, the socket | open, close, send, command lists, next element, finish | each line is read as part of the answer to the command it answers; reading ends; nothing of one reply gets into the next |
| Receive buffer | `buffer`, `bufstart`, `buflen`, `bufferCheck` | receive, find a line, move down | the lines handed up are those that arrived; only a line that is too long is an overrun |
| Request writers | none | one `mpd_send...` function per command | the server reads what the program asked for; the text fits the room counted for it |
| Reply parsers | `returnElement` | `mpd_get...` and the loops of libmpd around them | what is given is what the reply says, whole, and the reply is read to its end |
| Session and lock | `connected`, `connection_lock`, `connection`, `error` | connect, disconnect, lock, unlock, check error | the lock is never left taken; errors are reported; nothing outlives the session |
| Callbacks | the call stack | error, connection_changed, status_changed | whatever a callback calls, the function that made it can go on |
| Status and statistics | `status`, `stats`, `CurrentState`, `OldState`, `output_states` | update, check, forget, getters | present when used, renewed when outdated; each difference and each event is told |
| Player, play queue, database, stickers | none of their own | one function per command | lock, exchange and unlock on every path |
| Command queue | a doubly linked list | queue, commit, free | each command once, in order; no node lost |
| Search | `search_type`, `search_field`, `connection->request` | start, constrain, commit | the answer is read as what was asked |
| Data list | nodes with `next`, `prev`, `first` | append, first, next, concatenate, delete, free | links and firsts agree; every node freed once |
| Outputs, tag types, url handlers, commands, version | arrays and lists in the `MpdObj` | ask, look up | belong to the server that is connected; looked up within their bounds |
| Song formatting | none | `mpd_song_markup` | the text is what the format means; it is whole or fills its room, and is written no further |
| Debug output, examples | none | printing, programs | - |

Functions call each other directly.  The layers meet in `mpd_unlock_conn`,
which calls `mpd_check_error`: an `ACK` is cleared and reported, any other error
is reported and then `mpd_disconnect` frees the connection and everything cached.

What is hard here:

* **Re-entrancy.**  There is one thread, but a callback is made in the middle
  of a function and may call anything, `mpd_disconnect` included.  What runs
  after a callback or an unlock has to look again at what it read before.
* **The lock is a flag.**  Taking it twice is an error, not a wait; an early return
  without the unlock makes every later call fail.
* **Order is the only link between command and answer.**  After a timeout or a
  send that failed half way the order is lost.
* **Failure of one exchange of several**, in `mpd_connect` and `mpd_status_update`.
* **Two records of one thing**: the search, the place and the links in a list.

## 2. The modules

| Module | Models |
|---|---|
| `MpdConnection` | the connection of libmpdclient and the server it talks to |
| `MpdConnection_proofs` | theorems about it |
| `LineSpec` | the abstract promise of the receive buffer: the lines of a stream of bytes, in order |
| `MpdLines`, `MCMpdLines` | the buffer, byte by byte; streams for TLC |
| `MpdLines_proofs` | its invariant and that it implements `LineSpec` |
| `MpdRequestTable` | the requests, their arguments and the room for their text |
| `MpdRequests` | arguments, escaped and quoted, sent in pieces and read by the server |
| `MpdReplies` | the lines of a reply and the getters and loops that make lists and records of them |
| `MpdMessages_proofs` | that every text fits and arrives as it was asked; that replies are over, that nothing incomplete is given and all of a reply in order |
| `MpdStrfsong` | `mpd_song_markup`, and what a format means |
| `MpdSongs` | a program that reads replies and prints the song it got |
| `MpdOperations` | the body of every function of libmpd that works on the `MpdObj`, but for those of a search (`MpdSearch`), as a sequence of steps |
| `MpdSession` | the `MpdObj` and the steps; a program that calls functions from its main loop and its callbacks |
| `MCMpdSession` | sets of functions for TLC |
| `MpdSession_proofs` | theorems about the lock, what a session leaves behind, the age of the status, errors and what is used |
| `MpdStatus` | what changed at the server and what the program is told of it |
| `MpdStatus_proofs` | that it is told |
| `CommandQueueSpec` | what the command queue promises |
| `CommandQueue`, `MCCommandQueue` | the linked list that implements it |
| `CommandQueue_proofs` | that it does, and loses no node |
| `MpdDataSpec` | what the data lists promise |
| `MpdData` | the linked nodes that implement them |
| `MpdData_proofs` | that they do |
| `MpdSearch` | the two records of a search |
| `MpdSearch_proofs` | theorems about it |

`MpdSession` extends `MpdOperations`, `MpdRequests` extends `MpdRequestTable`, `MpdSongs`
composes `MpdReplies` with `MpdStrfsong`; `CommandQueue`, `MpdData` and `MpdLines`
instantiate their specifications under refinement mappings.

How the levels fit.  `MpdLines` makes lines of bytes; `MpdConnection` takes lines
as they are and tells apart their kinds; `MpdReplies` takes the lines of one
reply and tells apart names and values.  `MpdRequests` is below the send of
`MpdConnection`.  All of it is what the action `Exchange` of `MpdSession`
abstracts: a command whose reply ends with `OK`, with `ACK`, or with an error
after which a part of it may still come (`late`).  `MpdStatus` has the calls of
`MpdSession` that look for changes, with values in the place of `"fresh"` and
`"stale"`.  `CommandQueue` and `MpdSearch` take from the session only whether there
is a connection and whether its lock is free.

### MpdConnection

The first seven variables are the fields of `mpd_Connection`.  The server is a
queue of command lines (`wire`), the list it is collecting and a queue of reply
lines (`stream`).  Lines are reduced to the kinds the code tells apart: `OK`, `ACK`,
`list_OK`, a `name: value` element, a line without colon, a malformed one and
one that does not fit the buffer.  `current` and `abandoned` are history: the number
of the last command, and whether the client gave a reply up or a send failed
half way.  `SendCommand`, `SendCommandListBegin`, `SendCommandListOkBegin` and
`SendCommandListEnd` go through `ExecuteCommand` (`mpd_executeCommand`) with its
three outcomes; `GetNext` and `FinishCommand` through `GetNextReturnElement`, with
a line, an overlong line, a closed connection or a timeout.  The server may
send any number of lines up to a bound, answer anything with `ACK`, and go away
at any time, with a part of what it sent still arriving.

### MpdLines

`buffer`, `bufstart`, `buflen` and `check` are the fields of the same names; the byte
that ends the string is in the buffer like any other, because the code looks for
lines with `strchr`.  The welcome line is read by a loop of its own, with less
to it: it never makes room, so that a full buffer looks like a closed connection.  `LineFound`, `Compact`, `Overrun` and `LineReceive`
are the turns of the loop in `mpd_getNextReturnElement`, in its order of tests; each
`recv()` takes as many bytes as it likes.  A timeout leaves what was received, and the
next call goes on with it.  Under the refinement mapping the abstract stream is what is
between `bufstart` and `buflen` and what is not yet received.

### MpdRequestTable and MpdRequests

A row of the table is a `mpd_send...` function that writes a text: the word, the kinds
of its arguments and the word whose length it counts, which three functions take from
another command.  `Request` is the text, cut like `snprintf` cuts it.  The server reads
bytes into words like MPD's tokenizer does and takes whole lines.  A send fails at any
byte, and the disconnect that follows makes the server forget half a line.  The
specification is called `RequestSpec`, and its parts alike, so that one module of proofs can
extend this module and `MpdReplies`.

### MpdReplies, MpdStrfsong, MpdSongs

The lines of a reply are made up one by one as the getters ask for them and kept in
`said`, from which `Meaning` says what the function should give: it takes the lines as a whole,
the places something starts at (`Ascending`) and the lines up to the next (`Parts`), where the getters
go from one line to the next.  One function stands for
each way to go through a reply: two for lists of entities (one that looks at
the result of the unlock and one that does not), one song, named values, outputs and
records.  `MpdStrfsong` has the one walk of `_strfsong`, with its skips and the buffers it writes
(their text, and how far they were written, the byte 0 that `strncat` ends a text with
included: `reach`, the farthest in any of the buffers, which all have `max` bytes), and beside it
`MeaningOfFormat`, which first finds the structure of a format and then gives it a value.

### MpdOperations and MpdSession

`Code` gives for each function its steps, under the function's name: `"lock"`,
`"exec"`, `"unlock"`, the names of the functions it calls, `"or_fail"` where the
result of the call before is looked at.  Each kind of step is an action of
`MpdSession`, on a call stack.  A callback is a step after which either the
function goes on or a frame of the program is on top, from which it may call any
function; the stack is the interleaving.  The cached status is `"none"`,
`"fresh"` or `"stale"`, the last after a command that changes what it says.  Whether
something changed between two states is left open: both ways are taken.
`SendOne` is the exchange of a function that sends one command; the connection
remembers who sent (`by`) and whose reply may still come (`late`).  `CheckVersion` may
find the server too old where `OldServer` is `TRUE`.
Using a pointer that is `NULL` empties the stack, and the program is over.

### MpdStatus

`current` and `old` are `CurrentState` and `OldState`, field by field; of the status only
`updating_db` is kept, as the rest is stored before anything else can happen.  The calls
under way are on `stack`, each with the bits it has collected.  `mpd_status_update`
is cut where something else can come in between: the exchange of the status
(`StatusUpdate`), the statistics when an update of the database ended (`StatsReal`), the
outputs or the events of idle (`WatchOutputs`, `FetchOutputs`, `WatchEvents`) and the callback
(`Signal`).  The server changes between any two steps.  `told` is what a program would
believe that believes its callbacks, `owed` the bits of events that were read and not yet told,
`silent` whether an update was noted and not told.

### CommandQueue, MpdData, MpdSearch

`CommandQueue` and `MpdData` keep the links as functions from nodes to nodes; a
freed node loses its links, so that whoever still follows it gets nowhere.  In
`CommandQueue` the loops of a commit and of `mpd_free_queue_ob` take a step per
node, and `mpd_playlist_add` is two steps.  `MpdData` has one step per function.
`MpdSearch` counts in `depth` the error callbacks under way, from which a program may
start another search before `mpd_disconnect` follows.

## 3. What is checked

| Run | Question | Bounds |
|---|---|---|
| `connection_safety` | Is a reply ever taken for another's, is anything owed or left when it is over, does `mpd_finishCommand` come back? | 3 commands and 1 line before the terminator of each reply |
| `lines_framing` | Are the lines handed up those that arrived, however they were cut, and does each arrive? | a buffer of 4 bytes, every stream of up to 7 bytes |
| `requests` | Does the server read what the program asked for, or nothing? | every request; names of up to 2 bytes, of 4 kinds; numbers of one digit and of the most |
| `songs` | Is what a function gives what the reply says, and what is printed what the format means, or does its length show that it was cut? | replies of 4 lines before their end, formats of 6 bytes, rooms of 1 to 3 bytes and one for everything |
| `status_changes` | Is a change or an event found and then lost on the way to the program, and is all told in the end? | 2 fields, 3 events, 2 outputs, 3 changes or failures at the server, callbacks two deep |
| `session_callbacks` | Lock, leftovers and staleness when callbacks call back | 5 functions, one level of callbacks, an update of the database |
| `session_all` | Lock, leftovers, connections, `NULL` pointers, errors that are not seen, late replies | every function (one for all that have the same steps), servers of any age, callbacks that make no calls |
| `queue_safety` | Does the linked list implement a queue without losing nodes, and do its loops end? | 3 nodes, one path, an id of each sign |
| `data_safety` | Do the nodes implement lists? | 2 handles, 5 nodes |
| `search_safety` | Is an answer read as what was asked? | 2 fields, 2 constraints, 2 error callbacks |
| `session_update` | *violated*: no `NULL` pointer is used | `mpd_status_update` when the update of the database is over |
| `stats_untold` | *violated*: a program is told of every update of the database that libmpd has seen | `mpd_stats_update` |

Why the bounds are enough.  A command list needs three commands (begin, command,
end) and a misread reply two; the theorems hold for any number.  A buffer of 4 bytes
holds two lines or a part of one, and 7 bytes fill it, move it and fill it again;
those theorems hold for any size too.  Two bytes make every pair of quote, backslash
and plain byte in a name, and room is counted byte by byte.  Four lines are
two entities with a field each, or one whose last line is not the end of anything, and
six bytes a pair of brackets, an operator and what stands on both sides of it.
`nextsongid` and `nextsongpos` share a bit, which is where fields can go wrong
together; three changes let one happen before, one during and one after a call, and
with two levels a callback is interrupted by a callback.  Three nodes are a
first, a middle and a last one, and what is done to them depends on their
neighbours only; five in two lists let lists of two and three be joined and cut in
the middle.  With one level of callbacks a function is interrupted by any
other at each of its callbacks; the functions of `session_callbacks` are those
that connect, disconnect, forget the status, renew it and renew the statistics.
Two constraints and two callbacks exceed what any action looks at.

Type invariants are checked where they say more than types or carry a theorem; in `CommandQueue`
and `MpdData` they are a part of `NoLeak` and `WellLinked`, that of `MpdSearch` is proved.  So are the
strengthenings `IInv` of `MpdConnection` and `MpdLines`.

`CHECK_DEADLOCK FALSE` stands where the program may be over because libmpd used a
`NULL` pointer or an output that is not there (`session_callbacks`, `status_changes`), in
the run of `stats_untold`, and where nothing comes after the end of the stream
(`lines_framing`).  The other runs check that nothing stops.

**Fairness.**

* `MpdConnection`: `WF_vars(FinishCommand)`.  `mpd_finishCommand` is a loop that does
  nothing else, and `select()` returns with data, an error or, after the connection's
  timeout, a timeout.  Every function of libmpd that sends a command calls it before
  its unlock.
* `CommandQueue`: `WF_vars(Inside)`.  A call that has begun runs on.
* `MpdLines`: weak fairness of the turns of the loop.  What is on its way arrives, and
  the loop turns until it returns.
* `MpdRequests`: `WF_requestVars(SendSome)`.  A server that reads lets `send()` take bytes; if
  it does not, `select()` times out, which ends the sending too.
* `MpdStatus`: weak fairness of the library's steps, which run on; strong fairness
  of callbacks that return and of a program that polls when it is back in its main loop,
  which is how libmpd is used (every example calls `mpd_status_update` from a timer).
  Strong, because other calls may come first again and again.

### What the violated runs show

* `session_update`: `mpd_status_update` reads `mi->status` after statistics it asked for
  lost the connection (`libmpd-status.c:241`).
* `stats_untold`: `mpd_stats_update_real` tests
  `(mi->the_status_changed_callback != NULL) & what_changed_here` (`libmpd-status.c:705`),
  which is `1 & 0x0008` and so never true.  The getters of statistics that are not there
  store the time of an update and nobody is told; nothing differs afterwards.
  `TellsAll` therefore excepts what was found that way (`silent`).

### Exceptions the properties make

* `CheckedStatusIsThere` and `NoNullUsed` are checked where callbacks make no calls and no
  update of the database ends.  Otherwise `mpd_status_check` may succeed without a
  status: when a program sets something in status_changed, `mpd_status_queue_update` frees
  the new status (`libmpd-status.c:342`).
* `NoErrorLost` speaks of the functions that send one command.
  `mpd_server_get_allowed_commands` sends `notcommands` without looking at the error of `commands`
  (`libmpd.c:494`): after a timeout the rest of the first reply is read as the second.
  Other functions go on sending under one lock after a send that failed.
* `NothingHalf` speaks of the functions that look at the result of the unlock.
  `mpd_database_get_directory`, the finds, the lists of artists, albums and tag types and some
  more do not, and give a list that is cut off.
* `ReplyIsOver` excepts records with a line without colon: `mpd_getSearchStats` and its
  like leave the rest of such a reply unread (`libmpdclient.c:975`).
* `EventuallyTold` leaves the statistics out: an event for the database is skipped when
  the statistics were fetched in the same call (`libmpd-status.c:293`), although the
  update may have ended after that.
* No property says that an output is looked up within `output_states`, because one may not be:
  `WatchNoOutputs` is the step in which an answer without outputs becomes an output with the
  number -10 (`libmpdclient.c:1762`), which `mpd_status_update` uses as an index, and the number
  of an output that was added is one past the end (`libmpd-status.c:259`).
* `PrintsWhatIsMeant` is about formats with balanced brackets, `FullOrWhole` about all.
  `FullOrWhole` does not say that nothing is written beyond the room, because the code does write
  there: the loop of `_strfsong` goes on while `length < max` and cuts what it
  appends to `max - length` bytes, and `strncat` writes a byte 0 behind that.  A text that
  fills its room is ended in `s[max]` (`libmpd-strfsong.c:237`, also 113, 136 and 145), although
  `libmpd-strfsong.h:33` calls `max` the length of the buffer.  For the text of a bracket the
  buffer is `g_malloc0(max)` (line 110), so a caller that keeps a byte spare keeps it for the
  outermost text only.  What holds is that it is this one byte, and only when the text is
  full: once a bracket of any depth fills its buffer all those around it are filled too, so
  a text shorter than `max` was written without it, and is whole.  Nothing is said
  of the content of a full text: the walk stops before the operators that follow, so it
  need not be the beginning of what is meant.
* `ClosedBeforeOpened` is checked where callbacks make no calls; a `mpd_connect` in the error
  callback of a failing one does overwrite its connection.
* `NothingElseArrives` ends with the send that failed: `MpdRequests` sends nothing
  more, while functions that send several commands under one lock go on.
* In `MpdSearch` the answers read inside the error callback of a refused search are
  excepted from `ReadAsAsked`: there the type was already set for the refused search.

### Seen while modelling

Not turned into runs: `mpd_connect` ignores the results of asking for tag types and
outputs, so that the program hears FALSE and then TRUE when one of them loses the connection
(`libmpd.c:713`); `mpd_playlist_load` tests `errorCode`, which is never
reset (`libmpd-playlist.c:812`); `mpd_disconnect` leaves `single` and `consume` of
`CurrentState` (`libmpd.c:547`); `mpd_playlist_set_priority` hands over id and priority in the
other order (`libmpd-playlist.c:356`); two lines of a genre are not joined as those
of other tags are (`libmpdclient.c:1244`); an `ACK` in a list_OK list leaves `listOks` and spoils
the next `OK` (libmpd does not use these lists); a command list begun while a reply is read is
sent (`MayBegin`); a song whose `mpd_playlist_add` was refused stays queued; `mpd_player_pause`
asks for the state with the lock taken and sends nothing when there is no status; a
`mpd_connect` in the error callback of a failing `mpd_connect` overwrites its
connection; `mpd_data_delete_item` returns the previous item where `libmpd.c:883`
says next; a second commit after `mpd_database_search_stats_commit` costs the connection.

## 4. What is proved

`MpdConnection_proofs`, for any number of commands and lines:

* `TypeCorrect`: `TypeOK`, in particular that `listOks` never goes below zero.
* `LinesAligned`, `DoneMeansNothingOwed`: `Aligned` and `NothingOwed`, for a caller that
  begins no command list while a reply is pending (`BeginsWhenDone`).
  Neither is inductive: that the client is done says nothing of the server unless
  the terminator is the last line of a reply (`TerminatorLast`) and the server's
  side is known.  `IInv` adds what may be on the wire when a list is being written
  (`ListOnWire`) and when a request is being processed (`RequestOnWire`), that no
  reply is read while a list is written, that no line is torn and that a server that
  is gone has taken its lines with it.  `InvStep` has one lemma per action.
* `NothingLeftOver`: `NoLeftoverElement`, with `TypeOK`.
* `OkLeavesNoError`: `OkMeansNoError` for a caller that uses no list_OK lists.  The
  invariants are that no list_OK is expected and that nothing can be read before the
  connection is open.

`MpdSearch_proofs`, for any set of fields, number of constraints and depth of callbacks:
`TypeCorrect`, `SearchReadAsAsked`, `NoSearchLeftBehind` and `SearchHasRequest`, each
inductive with `TypeOK`.

`MpdLines_proofs`, for any size of the buffer and any streams:

* `TypeCorrect` and `Invariant`: `TypeOK` and `IInv`.  That lines come out right is not
  inductive.  `IInv` says that the bytes between `bufstart` and `buflen` are the next of the
  stream and the string ends there (`BufferIsStream`), that they were all received
  (`BufferWithin`), that no line ends before `check`, where the search goes on (`NoLineBefore`), and that an overrun is
  only reported of a full buffer that starts with the line (`OverrunIsFull`).
* `OverrunMeansLong`: a line is called too long only if it is.
* `LinesAreTheStream`: `MpdLines` implements `LineSpec`; each step of the buffer hands up the
  next line of the stream or leaves the abstract state alone.

`MpdMessages_proofs`, for arguments and replies of any length:

* `EveryTextFits`: the text of every request with its end is no longer than the room counted
  for it.
* `RequestRead`: the server reads every request as the word and the arguments that were
  asked, whatever bytes a name has and however many; the way of a name through
  `mpd_sanitizeArg`, the quotes and the server's reading, and back.  It rests on `LeadsName`,
  that what is escaped leads the server to the word as it was (`LeadsEscaped`, byte by
  byte), on `ArgumentsRead`, the same for the arguments one after another, and on
  `EveryTextFits`, for the end of the line to be there.
* `StreamIsRequest`, `ArrivesWhole` and `NothingElse`: `RequestInv`, `ArrivesAsAsked` and
  `NothingElseArrives`, for sends of any sizes.  The invariant says that what the server
  has and what is still to be sent is, put together, the rest of what was asked (`Left`), so that
  it does not matter where a send ends, and that what was taken is its beginning (`Taken`).
* The folds and recursive functions (`FlattenSeq`, `Parsed`) are reasoned about by a set of the numbers for
  which something holds (`Least`, `Every`), not by the induction theorems.
* `TypeCorrect`, `NothingIncomplete` and `RepliesEnd`: `TypeOK`, `NothingHalf` and `ReplyIsOver`.
  These are about `MpdReplies`.  They speak of a function that has returned, and the invariant
  of how it got there: what the connection knows of the lines so far, that there is an error
  exactly if one of them was an `ACK`, was malformed or never came, or if a getter refused one (`Reading`), what each place in a
  getter has seen (`Place`), that the places behind the loops are reached with the reply at its
  end, with an error, or at a line without colon (`Over`), and that what is then looked at is
  emptied (`NothingGiven`).
* `NothingLeftOut` and `EveryReplyIsGiven`: `MeaningInv` and `AllIsGiven`.  `AllIsGiven` speaks of
  a whole reply, so the invariant says for each place in a getter what `Meaning` makes of the
  lines so far and where that is: all of it in `result` (`Between`, before an element is begun), all but
  the last in `result` and the last in `built` (`Inside`), or what is wanted in `result` (`Given`, behind the loops).
  It says so of replies that are in order up to there (`Good`), and of one that asks for a
  status and has no state that the function refuses it (`Stateless`).  One lemma per action
  (`MeansEnter` to `MeansUnlock`) rests on what `Meaning` is with one more line at the end:
  another entity or output, or a longer last one (`EntitiesMore`, `OutputsMore`), another value
  (`ValuesMore`), a field set (`RecordMore`).  Those come from `PartsMore`, how the lines are
  cut up with one more, and from `AscendingMore`, that there is one ascending order of
  some numbers and a greater one comes at its end.

`MpdSession_proofs`, for any set of functions the program may call, any depth of its
callbacks, any codes of errors and servers of any age:

* `TypeCorrect`, `Unlocked` and `Forgets`: `TypeOK`, `UnlockedWhenIdle` and
  `DisconnectForgets`.  They are about the end of a call, and hold because of what is true in
  the middle of it, so the invariant `IInv` is one over the call stack.  A connection
  whose lock is taken, or one that is there and not accepted, is odd (`Odd`); somebody sees to
  it: the running function, which holds the lock (`SeesToIt`), or one that waits.  Only
  two wait with something odd in their hands, `mpd_player_pause` for the state of the player
  (`Pausing`) and `mpd_connect_real` for `mpd_check_error` (`Opening`).  While the first
  waits, nothing runs but the functions it asks (`Undisturbed`), none of which comes to a
  callback, because `mpd_status_update` is refused the lock.  Whoever holds the lock has it and a connection
  (`HasLock`), and what a function has looked at is still so where it needs it (`IsSure`).
* What the functions have in common is in `Sound`: for each step of a body, whether the lock is held
  there and which steps may follow.  It is proved of every function in `Code` by its form
  (`EverySound`), and `StepFacts` reads it at a frame of the stack.  A function that calls
  another does so without the lock, the two excepted (`Steady` and `Links`).
* Steps are of thirteen kinds (`Kinds`): every action is shown to be of one of them
  (`StepsAreKinds`) and each kind to keep the invariant (`KindsKeep`).
* `NoneCompete`: each exchange under a lock is by the function that took it ("so we can't have to
  commands competing with eachother", `libmpd-internal.h:126`).
* `StatusIsRenewed`: `FreshWhenIdle`, of programs that call none of the functions in `LeavesStale`,
  at no depth: these six change the play queue and keep the cached status, which the code does
  not renew, nor does it say that it would.  The invariant, `Renews`, is that a status which is old has a function on
  the stack that renews or drops it before any connection is opened (`Covered`), and that while the lock of a session is
  taken the status is not old but in the hands of the function that took it or of a waiting
  `mpd_player_pause`.  That a function does get to its renewal is a fact of its body:
  between a command that changes the status and the renewal there is nothing but a test for the connection, the
  lock and the questions of `mpd_player_pause` (`Renewing`, proved of every body).

and, for a program whose callbacks make no calls of their own (`MaxNesting = 1`, as in the run
`session_all`; any functions, codes and servers):

* `BeforeIsClosed`, `CheckIsTrue` and `ErrorsAreSeen`: `ClosedBeforeOpened`, `CheckedStatusIsThere` and
  `NoErrorLost`; and, if no update of the database finishes, `NoneIsNull`: `NoNullUsed`.  Of a program without these
  restrictions they are false or not claimed: a callback may disconnect or drop the status under the
  function that called it, and the run `session_update` shows what the end of an update does.
* `Careful` is the counterpart of `Sound`: what a step of a body uses was asked for before, or shown to be
  there, and nothing since takes it away (`There`); what is exchanged under a lock
  is looked at by the unlock (`Cleans`); a function that sends one command sends no other.  It is proved of
  every body (`EveryCareful`).
* The invariant, `Mindful`, is again one over the call stack.  Callers and called fit (`Orderly`), so
  what runs for a caller is known from its step.  What the running function
  relies on is there (`Knows`): the status it had `mpd_status_check` look for, or the one it
  fetched if the unlock after it found no error.  While `mpd_status_update` looks for changes nothing runs
  that drops the status of a session (`Quiet`, `Watching`).  An error nobody has looked at is about to be looked at by the
  running function (`Cleaner`), and a reply that is late is that of the last command on a connection that is
  lost (`LateIsLast`).
* A step is one of six turns of the stack (`Turns`), each with what it may do to the connection, the
  status and the statistics (`Treats`); every action is shown to be one (`StepsAreTurns`) and each turn
  to keep the invariant (`TurnsKeep`).

`MpdStatus_proofs`, for any fields, events, number of outputs and depth of callbacks:

* `TypeCorrect` and `EventsTold`: `TypeOK` and `EventsAreTold`.
* `FollowedTold` and `AllTold`: `TellsAll` of the fields that `mpd_disconnect` resets, all but `single` and
  `consume`.  Of these two it is false: a bit told after a disconnect is told with the old
  value, and the next connection resets the value without telling.  `AllTold` is
  `TellsAll` itself, for `Fields` without the two.
* `IInv` says that what the program was not told is in the bits some call under way has collected,
  field by field (`FieldsCollected`), for the time of the update (`StatusCollected`), the outputs
  (`OutputsCollected`) and the events (`EventsCollected`); that only calls which have read a
  status have bits (`Shape`); and that what a disconnect forgets is forgotten (`Forgotten`).

`CommandQueue_proofs`, for any nodes, paths and ids:

* `NothingLeaks`: `NoLeak`.  It does not survive a step by itself: a walk that frees nodes has to
  be at the first of those that are left.  `IInv` says that the allocated nodes are a part of
  the order they were made in, from the walk's place on (`ListIsOrder`), and that
  `mi->queue` is at that place (`QueueIsPlace`, `PlaceOfPc`).  `pos`, the place, is history.
* `ListIsQueue`: the list implements `CommandQueueSpec`; sending the command at the place is the
  head of the promised queue going out, and all that moves pointers is a stutter.

`MpdData_proofs`, for any handles and any number of nodes:

* `ListsAreLinked`, `NodesAreKept` and `ListsAreAsPromised`: `WellLinked`, `NothingLost`, and that
  `MpdData` implements `MpdDataSpec`.  `WellLinked` is not inductive: a list that runs in a circle has
  it, and a walk along it would not end.  `IInv` says that the heap holds (`Holds`) a sequence of nodes per
  handle: no node is in two or twice in one (`Distinct`), the links are those of the sequences
  (`Linked`), every node that was not freed is in one (`Covers`) and each handle is at its place
  (`Pointed`).
* The operators of the model follow links until `NULL`; that they find such a sequence and nothing
  else is an induction along it, by the least place at which the two differ (`Least`,
  `WalkIsPath`, `ChainIsPath`).  So the sequences a heap holds are the ones it is mapped to
  (`HoldsLists`).
* One lemma says what each kind of change does to the sequences (`AppendHolds`, `FreeHolds`,
  `TakeHolds`, `JoinHolds`, `DeleteHolds`), and one per operation that the code makes that change
  (`AppendStep` to `DeleteStep`), which gives the invariant and the abstract step at once.

Assumptions: the constants have the types their modules state; the `NULL` pointer is
no field, request, node or connection; there are finitely many nodes; the server sends no byte 0.

Model-checked only: liveness; `MpdStrfsong` and `MpdSongs`, which are recursive like the code.

## 5. What is not modelled

* Conversions: numbers are not parsed, host names not resolved (one of the ways to fail
  of `NewConnection`), version numbers not compared (both outcomes are taken).
* Which field a tag of a format or a name of an element stands for: of those treated alike one
  stands for all.  `supported_tags` and the permissions of single commands.
* Names with an end of line, which the code sends as they are.
* Outputs that come and go while a program is connected.
* Memory that cannot be allocated; debug output, which changes nothing the library
  reads but its own level; the example programs, whose calls are those of the models.

`select()` interrupted by a signal is a timeout, which is what the code makes of it.

The server is external: `ServerCollects`, `ServerLine`, `ServerListOk`, `ServerEndsReply` and
`PeerCloses` of `MpdConnection`, `Parsed` and `ServerTakesLine` of `MpdRequests`, the lines of `MpdReplies`
and `Environment` of `MpdStatus` say of it what the client's code relies on.  The program is
external too, and restricted by the bounds, by the guards of its actions (in `MpdStatus` it does
not connect from a callback of a `mpd_connect` that is under way, see `Program`) and by
the exceptions of section 3.

## 6. Plan

1. Done: the connection, the session, the command queue, the data list and the search; the
   receive buffer, requests, replies, song formatting and the detection of changes.
2. Models left: outputs that come and go; `mpd_server_check_version` and `supported_tags` as
   operators checked against references.
3. Proofs left: that `Exchange` of `MpdSession` is implemented by `MpdConnection`.
