------------------------------ MODULE MpdReplies ------------------------------
(***************************************************************************)
(* From the lines of one reply to what a function of libmpd gives to the   *)
(* program: the mpd_get...() functions of libmpdclient.c that assemble     *)
(* songs, outputs, names and numbers from the elements                     *)
(* mpd_getNextReturnElement() leaves in returnElement, and the loops of    *)
(* libmpd around them, up to the unlock.                                   *)
(*                                                                         *)
(* A line is a name and a value.  "OK", "ACK" and "lost" (a timeout or the *)
(* end of the connection) end a reply, "" stands for a line without colon  *)
(* and "malformed" for one with a colon and no space.  Of names that are   *)
(* treated alike one stands for all, and so do a few values.               *)
(***************************************************************************)
EXTENDS Integers, Sequences, FiniteSets, SequencesExt

CONSTANT MaxLines  \* bound: lines of a reply before its end
ASSUME MaxLinesType == MaxLines \in Nat

VARIABLES
  call,     \* the function of libmpd
  pc,       \* where it is
  said,     \* the lines of the reply so far
  element,  \* returnElement
  done,     \* doneProcessing
  error,    \* connection->error
  built,    \* what is being put together
  result    \* what the function will give; <<>> is NULL

vars == <<call, pc, said, element, done, error, built, result>>

None      == "none"
NoElement == [name |-> None, value |-> None]

-----------------------------------------------------------------------------
(* Functions. *)

\* Those that go through a list of entities: mpd_playlist_get_changes() and
\* mpd_database_get_directory() stand for two kinds, those that look at the
\* result of the unlock and those that do not.
Entities == {"playlist_get_changes", "database_get_directory"}

\* Those that want one song.
FirstEntity == {"playlist_get_song"}

\* Those that go through values of one name, here tags of type "tagtype".
NamedElements == {"server_get_tag_types"}

\* Those that go through outputs.
Outputs == {"server_get_output_devices"}

\* Those that fill in one record.
Records == {"status_update", "stats_update", "search_stats_commit"}

\* Those that keep the songs among the entities.
SongsOnly == {"playlist_get_changes"} \cup FirstEntity

Calls == Entities \cup FirstEntity \cup NamedElements \cup Outputs \cup Records

\* Mutation: the unlock may fail and the data is returned all the same.
ChecksUnlockOnce == FirstEntity \cup Outputs \cup Records

\* Give nothing when the unlock fails.
ChecksUnlock == {"playlist_get_changes"} \cup FirstEntity \cup Outputs \cup Records

\* Mutation: no mpd_finishCommand() after the one song.
FinishesLists == Entities \cup NamedElements \cup Outputs

\* Call mpd_finishCommand().
Finishes == Entities \cup FirstEntity \cup NamedElements \cup Outputs

-----------------------------------------------------------------------------
(* Lines. *)

Starts == {"file", "directory", "playlist", "cpos"}

\* What stands for each kind of name, by what is asked.
LinesFor(c) ==
  CASE c \in Entities \cup FirstEntity ->
         [name : Starts, value : {"x"}]
           \cup [name : {"Artist", "Album"}, value : {"", "x", "y"}]
           \cup [name : {"Pos", "Prio", "Last-Modified"}, value : {"x", "y"}]
    [] c \in NamedElements -> [name : {"tagtype", "other"}, value : {"x", "y"}]
    [] c \in Outputs       -> [name : {"outputid", "outputname", "outputenabled"}, value : {"x", "y"}]
    [] OTHER               -> [name : {"volume", "state", "other"}, value : {"x", "y"}]

Bad  == {[name |-> "", value |-> ""], [name |-> "malformed", value |-> ""]}
Ends == {[name |-> n, value |-> ""] : n \in {"OK", "ACK", "lost"}}

\* Mutation: the last element is not freed.
ElementOfKept(line) == IF line \in Bad \cup Ends THEN element ELSE line

\* returnElement after a line.
ElementOf(line) == IF line \in Bad \cup Ends THEN NoElement ELSE line

\* connection->error after a line.
ErrorAfter(line) == IF line.name \in {"ACK", "lost", "malformed"} THEN line.name ELSE error

\* mpd_getNextReturnElement
Reads(then) ==
  \E line \in Ends \cup (IF Len(said) < MaxLines THEN LinesFor(call) \cup Bad ELSE {}) :
    /\ said' = Append(said, line)
    /\ element' = ElementOf(line)
    /\ done' = (line \in Ends)
    /\ error' = ErrorAfter(line)
    /\ pc' = then
    /\ UNCHANGED <<call, built, result>>

-----------------------------------------------------------------------------
(* What is put together. *)

\* mpd_newSong(), mpd_newDirectory(), mpd_newPlaylistFile(), with the value
\* of the line that starts it.
NewEntity(line) ==
  [type   |-> IF line.name = "cpos" THEN "file" ELSE line.name,
   path   |-> IF line.name = "cpos" THEN None ELSE line.value,
   pos    |-> IF line.name = "cpos" THEN line.value ELSE None,
   artist |-> <<>>, album |-> None, prio |-> None, mtime |-> None]

\* Mutation: the second artist replaces the first.
ArtistsAfterLast(artists, value) == <<value>>

\* Artists, composers and performers are joined.
ArtistsAfter(artists, value) == Append(artists, value)

\* A line within an entity: the first album, title, position..., the last
\* priority.
EntityAfter(entity, line) ==
  IF entity.type = "file" /\ line.value # ""
  THEN CASE line.name = "Artist"                      -> [entity EXCEPT !.artist = ArtistsAfter(@, line.value)]
         [] line.name = "Album" /\ entity.album = None -> [entity EXCEPT !.album = line.value]
         [] line.name = "Pos" /\ entity.pos = None     -> [entity EXCEPT !.pos = line.value]
         [] line.name = "Prio"                        -> [entity EXCEPT !.prio = line.value]
         [] OTHER                                     -> entity
  ELSE IF entity.type = "playlist" /\ line.name = "Last-Modified" /\ entity.mtime = None
  THEN [entity EXCEPT !.mtime = line.value]
  ELSE entity

NewOutput == [outputid |-> None, outputname |-> None, outputenabled |-> None]

NewRecord == [volume |-> None, state |-> None]

\* Of a record or an output a later line replaces an earlier one.
FieldAfter(fields, line) ==
  IF line.name \in DOMAIN fields THEN [fields EXCEPT ![line.name] = line.value] ELSE fields

-----------------------------------------------------------------------------
(* The getters. *)

\* The command has been sent.
Call(c) ==
  /\ pc = "idle"
  /\ call' = c
  /\ pc' = "enter"
  /\ said' = <<>>
  /\ element' = NoElement
  /\ done' = FALSE
  /\ error' = None
  /\ built' = None
  /\ result' = <<>>

\* A getter gives NULL.
GivesNull ==
  /\ pc' = IF call \in Finishes THEN "finish" ELSE "unlock"
  /\ UNCHANGED <<call, said, element, done, error, built, result>>

\* A getter gives what it has; a list is continued.
Gives(what) ==
  /\ result' = IF call \in SongsOnly /\ what.type # "file" THEN result ELSE Append(result, what)
  /\ pc' = IF call \in Entities \cup NamedElements \cup Outputs THEN "enter"
           ELSE IF call \in Finishes THEN "finish" ELSE "unlock"
  /\ UNCHANGED <<call, said, element, done, error, built>>

\* The element a getter stopped at is the first of the next.
KeepsElement == element # NoElement /\ call \notin NamedElements

\* The tests a getter begins with, and the first element.
Enter ==
  /\ pc = "enter"
  /\ \/ (done \/ (call \in Outputs /\ error # None)) /\ GivesNull
     \/ /\ ~done /\ ~(call \in Outputs /\ error # None)
        /\ IF KeepsElement
           THEN pc' = "first" /\ UNCHANGED <<call, said, element, done, error, built, result>>
           ELSE Reads("first")

\* mpd_getNextInfoEntity, the line an entity starts with.
EntityStarts ==
  /\ pc = "first" /\ call \in Entities \cup FirstEntity
  /\ \/ element = NoElement /\ GivesNull
     \/ /\ element # NoElement /\ element.name \notin Starts
        /\ error' = "parse"
        /\ pc' = "finish"
        /\ UNCHANGED <<call, said, element, done, built, result>>
     \/ /\ element # NoElement /\ element.name \in Starts
        /\ built' = NewEntity(element)
        /\ pc' = "read"
        /\ UNCHANGED <<call, said, element, done, error, result>>

\* mpd_getNextInfoEntity, the lines after it.
EntityContinues ==
  /\ pc = "more" /\ call \in Entities \cup FirstEntity
  /\ IF element = NoElement \/ element.name \in Starts
     THEN Gives(built)
     ELSE /\ built' = EntityAfter(built, element)
          /\ pc' = "read"
          /\ UNCHANGED <<call, said, element, done, error, result>>

\* mpd_getNextReturnElementNamed
NamedElement ==
  /\ pc \in {"first", "more"} /\ call \in NamedElements
  /\ \/ element = NoElement /\ GivesNull
     \/ element # NoElement /\ element.name = "tagtype" /\ Gives(element.value)
     \/ /\ element # NoElement /\ element.name # "tagtype"
        /\ pc' = "read"
        /\ UNCHANGED <<call, said, element, done, error, built, result>>

\* mpd_getNextOutput; an answer without outputs gives one without an id.
OutputStarts ==
  /\ pc = "first" /\ call \in Outputs
  /\ built' = NewOutput
  /\ pc' = "more"
  /\ UNCHANGED <<call, said, element, done, error, result>>

OutputContinues ==
  /\ pc = "more" /\ call \in Outputs
  /\ IF element = NoElement \/ (element.name = "outputid" /\ built.outputid # None)
     THEN Gives(built)
     ELSE /\ built' = FieldAfter(built, element)
          /\ pc' = "read"
          /\ UNCHANGED <<call, said, element, done, error, result>>

\* mpd_getStatus, mpd_getStats, mpd_getSearchStats
RecordStarts ==
  /\ pc = "first" /\ call \in Records
  /\ \/ error # None /\ GivesNull
     \/ /\ error = None
        /\ built' = NewRecord
        /\ pc' = "more"
        /\ UNCHANGED <<call, said, element, done, error, result>>

\* A status has to have a state.
RecordContinues ==
  /\ pc = "more" /\ call \in Records
  /\ \/ /\ element # NoElement
        /\ built' = FieldAfter(built, element)
        /\ pc' = "read"
        /\ UNCHANGED <<call, said, element, done, error, result>>
     \/ /\ element = NoElement /\ call = "status_update" /\ built.state = None
        /\ error' = "parse"
        /\ pc' = "unlock"
        /\ UNCHANGED <<call, said, element, done, built, result>>
     \/ /\ element = NoElement /\ ~(call = "status_update" /\ built.state = None)
        /\ Gives(built)

\* The next element; records and outputs look at the error at once.
ReadMore ==
  \/ pc = "read" /\ Reads(IF call \in Records \cup Outputs THEN "check" ELSE "more")
  \/ /\ pc = "check"
     /\ IF error # None THEN GivesNull
        ELSE pc' = "more" /\ UNCHANGED <<call, said, element, done, error, built, result>>

\* mpd_finishCommand
FinishCommand ==
  /\ pc = "finish"
  /\ IF done THEN pc' = "unlock" /\ UNCHANGED <<call, said, element, done, error, built, result>>
     ELSE Reads("finish")

\* mpd_unlock_conn, and what is looked at after it.
Unlock ==
  /\ pc = "unlock"
  /\ result' = IF error # None /\ call \in ChecksUnlock THEN <<>> ELSE result
  /\ pc' = "returned"
  /\ UNCHANGED <<call, said, element, done, error, built>>

\* The program has what it wanted, and calls again.
Returned ==
  /\ pc = "returned"
  /\ pc' = "idle"
  /\ call' = None /\ said' = <<>> /\ element' = NoElement /\ done' = TRUE
  /\ error' = None /\ built' = None /\ result' = <<>>

Init ==
  /\ pc = "idle"
  /\ call = None /\ said = <<>> /\ element = NoElement /\ done = TRUE
  /\ error = None /\ built = None /\ result = <<>>

Next ==
  \/ \E c \in Calls : Call(c)
  \/ Enter
  \/ EntityStarts \/ EntityContinues
  \/ NamedElement
  \/ OutputStarts \/ OutputContinues
  \/ RecordStarts \/ RecordContinues
  \/ ReadMore
  \/ FinishCommand
  \/ Unlock
  \/ Returned

Spec == Init /\ [][Next]_vars

-----------------------------------------------------------------------------
(* What a reply says, without regard to how it is read. *)

Body == Front(said)

\* The numbers of a set, from the least on.
Ascending(S) ==
  CHOOSE p \in [1 .. Cardinality(S) -> S] : \A i, j \in DOMAIN p : i < j => p[i] < p[j]

\* What a sequence has at some places.
Picked(seq, places) == LET p == Ascending(places) IN [k \in DOMAIN p |-> seq[p[k]]]

ValuesOf(lines, name) ==
  LET chosen == Picked(lines, {i \in DOMAIN lines : lines[i].name = name /\ lines[i].value # ""})
  IN [i \in DOMAIN chosen |-> chosen[i].value]

FirstOf(values) == IF values = <<>> THEN None ELSE Head(values)
LastOf(values)  == IF values = <<>> THEN None ELSE Last(values)

\* An entity with the lines that belong to it.
Described(start, lines) ==
  LET song == start.name \in {"file", "cpos"}
  IN [type   |-> IF song THEN "file" ELSE start.name,
      path   |-> IF start.name = "cpos" THEN None ELSE start.value,
      pos    |-> IF start.name = "cpos" THEN start.value ELSE IF song THEN FirstOf(ValuesOf(lines, "Pos")) ELSE None,
      artist |-> IF song THEN ValuesOf(lines, "Artist") ELSE <<>>,
      album  |-> IF song THEN FirstOf(ValuesOf(lines, "Album")) ELSE None,
      prio   |-> IF song THEN LastOf(ValuesOf(lines, "Prio")) ELSE None,
      mtime  |-> IF start.name = "playlist" THEN FirstOf(ValuesOf(lines, "Last-Modified")) ELSE None]

\* The lines that something starts with, each with the lines up to the next.
Parts(lines, names) ==
  LET places == Ascending({i \in DOMAIN lines : lines[i].name \in names})
      end(k) == IF k = Len(places) THEN Len(lines) ELSE places[k + 1] - 1
  IN [k \in DOMAIN places |-> [start |-> lines[places[k]], rest |-> SubSeq(lines, places[k] + 1, end(k))]]

AllEntities(lines) ==
  LET parts == Parts(lines, Starts)
  IN [k \in DOMAIN parts |-> Described(parts[k].start, parts[k].rest)]

Songs(entities) == Picked(entities, {i \in DOMAIN entities : entities[i].type = "file"})

\* An output with the lines that belong to it.
Output(start, lines) ==
  [outputid      |-> start.value,
   outputname    |-> LastOf(ValuesOf(lines, "outputname")),
   outputenabled |-> LastOf(ValuesOf(lines, "outputenabled"))]

AllOutputs(lines) ==
  LET parts == Parts(lines, {"outputid"})
  IN [k \in DOMAIN parts |-> Output(parts[k].start, parts[k].rest)]

Record(lines) == [volume |-> LastOf(ValuesOf(lines, "volume")), state |-> LastOf(ValuesOf(lines, "state"))]

Meaning ==
  CASE call = "playlist_get_changes"   -> Songs(AllEntities(Body))
    [] call = "database_get_directory" -> AllEntities(Body)
    [] call \in FirstEntity   -> IF AllEntities(Body) = <<>> THEN <<>> ELSE Songs(<<Head(AllEntities(Body))>>)
    [] call \in NamedElements -> ValuesOf(Body, "tagtype")
    [] call \in Outputs       -> AllOutputs(Body)
    [] OTHER                  -> <<Record(Body)>>

\* The reply was cut by nothing and is one of the kind that was asked for.
InOrder ==
  /\ Last(said).name = "OK"
  /\ \A i \in DOMAIN Body : Body[i] \notin Bad
  /\ call \in Entities \cup FirstEntity => Body = <<>> \/ Body[1].name \in Starts
  /\ call \in Outputs => Body # <<>> /\ Body[1].name = "outputid"
  /\ call = "status_update" => \E i \in DOMAIN Body : Body[i].name = "state"

-----------------------------------------------------------------------------
\* A call has an element only in a reply, something put together only after
\* the first line, and a reply ends once.
TypeOK ==
  /\ call \in Calls \cup {None}
  /\ pc \in {"idle", "enter", "first", "read", "check", "more", "finish", "unlock", "returned"}
  /\ element = NoElement \/ element = Last(said)
  /\ error \in {None, "ACK", "lost", "malformed", "parse"}
  /\ \A i \in DOMAIN said : said[i] \in Ends => i = Len(said)
  /\ (pc # "idle" => done = (said # <<>> /\ Last(said) \in Ends))

\* A reply that is in order is understood: every song, directory, playlist,
\* output and value that is asked for is given, in order, each with its own
\* lines and nothing of its neighbours', all artists, the first album and
\* position and the last priority.
AllIsGiven == pc = "returned" /\ said # <<>> /\ InOrder => error = None /\ result = Meaning

\* But for mpd_database_get_directory() and its like, which do not look at the result
\* of the unlock, and the lists of names, what is given was not cut by
\* an error or a lost connection: its reply went to its OK, and no line that
\* could not be understood was in it.
NothingHalf ==
  pc = "returned" /\ call \notin {"database_get_directory", "server_get_tag_types"} /\ result # <<>>
    => \A i \in DOMAIN said : said[i].name \notin {"ACK", "lost", "malformed"}

\* A connection that is not given up has its reply read to the end, or the
\* next command is refused.  A line without colon ends a record, and after
\* records there is no mpd_finishCommand().
ReplyIsOver ==
  pc = "returned" /\ error = None
    => done \/ (call \in Records /\ \E i \in DOMAIN said : said[i].name = "")

=============================================================================
