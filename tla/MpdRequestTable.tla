--------------------------- MODULE MpdRequestTable ---------------------------
(***************************************************************************)
(* The requests libmpdclient.c writes: the word, what its arguments are,   *)
(* and the room the text is written to.  A number is written with %i or    *)
(* %lld, a name in quotes, a tag without; snprintf() cuts what has no room,*)
(* and the end of the line is the first thing to go.                       *)
(***************************************************************************)
EXTENDS Integers, Sequences

\* Mutation: no byte for the sign.
IntLenUnsigned == 11

\* Bytes set aside for a number of 32 or 64 bits, and the most it has.
IntLen  == (32 + 1) \div 3 + 1
LongLen == (64 + 1) \div 3 + 1
MaxDigits == [int |-> 11, long |-> 20]

\* A request whose room is counted from the word it writes, of `length' bytes.
Writes(word, length, args) == [word |-> word, length |-> length, counted |-> length, args |-> args]

\* One whose room is counted from another word.
Counts(word, length, counted, args) == [word |-> word, length |-> length, counted |-> counted, args |-> args]

\* Constant texts, sent from where they are.
Plain == {"status", "stats", "currentsong", "shuffle", "clear", "stop", "next", "previous", "outputs",
          "commands", "notcommands", "urlhandlers", "tagtypes", "clearerror", "idle", "listplaylists",
          "replay_gain_status", "command_list_begin", "command_list_ok_begin", "command_list_end"}

AskForSongs ==
  {Writes("playlistinfo", 12, <<"int">>),    Writes("playlistid", 10, <<"int">>),
   Writes("plchanges", 9, <<"long">>),       Writes("plchangesposid", 14, <<"long">>),
   Writes("listall", 7, <<"name">>),         Writes("listallinfo", 11, <<"name">>),
   Writes("lsinfo", 6, <<"name">>),          Writes("list", 4, <<"tag">>),
   Writes("list", 4, <<"tag", "name">>)}

EditQueue ==
  {Writes("add", 3, <<"name">>),             Writes("addid", 5, <<"name">>),
   Writes("delete", 6, <<"int">>),           Writes("deleteid", 8, <<"int">>),
   Writes("save", 4, <<"name">>),            Writes("load", 4, <<"name">>),
   Writes("rm", 2, <<"name">>),              Writes("rename", 6, <<"name", "name">>)}

Play ==
  {Writes("play", 4, <<"int">>),             Writes("playid", 6, <<"int">>),
   Writes("pause", 5, <<"int">>),            Writes("move", 4, <<"int", "int">>),
   Writes("moveid", 6, <<"int", "int">>),    Writes("swap", 4, <<"int", "int">>),
   Writes("swapid", 6, <<"int", "int">>),    Writes("seek", 4, <<"int", "int">>),
   Writes("seekid", 6, <<"int", "int">>),    Writes("update", 6, <<"name">>)}

SetPlayer ==
  {Counts("single", 6, 6, <<"int">>),        Counts("consume", 7, 6, <<"int">>),
   Writes("repeat", 6, <<"int">>),           Writes("random", 6, <<"int">>),
   Writes("setvol", 6, <<"int">>),           Writes("crossfade", 9, <<"int">>),
   Writes("password", 8, <<"name">>)}

SetOutput == {Writes("enableoutput", 12, <<"int">>), Writes("disableoutput", 13, <<"int">>)}

\* A search with one constraint.
Search == {Writes("list", 4, <<"tag", "tag", "name">>)} \cup
          {Writes(w, IF w = "find" THEN 4 ELSE IF w = "count" THEN 5 ELSE IF w = "search" THEN 6
                     ELSE IF w = "playlistfind" THEN 12 ELSE 14, <<"tag", "name">>) :
             w \in {"find", "search", "count", "playlistfind", "playlistsearch"}}

EditStored ==
  {Writes("listplaylistinfo", 16, <<"name">>), Writes("listplaylist", 12, <<"name">>),
   Writes("playlistclear", 13, <<"name">>),    Writes("playlistadd", 11, <<"name", "name">>),
   Writes("playlistmove", 12, <<"name", "int", "int">>),
   Writes("playlistdelete", 14, <<"name", "int">>)}

\* The words of a sticker command count as one.
SetSticker ==
  {Writes("sticker_get_song", 16, <<"name", "name">>),
   Writes("sticker_set_song", 16, <<"name", "name", "name">>),
   Writes("replay_gain_mode", 16, <<"name">>)}

SetPriority == {Writes("prioid", 6, <<"int", "int">>), Counts("prio", 4, 6, <<"int", "int">>)}

Rows == AskForSongs \cup EditQueue \cup Play \cup SetPlayer \cup SetOutput \cup Search
        \cup EditStored \cup SetSticker \cup SetPriority

-----------------------------------------------------------------------------
\* What an argument of n bytes takes in the text and in the room for it.
Around(kind)     == IF kind = "tag" THEN 1 ELSE 3
ArgLength(kind, n) == n + Around(kind)
ArgRoom(kind, n) == (CASE kind = "int" -> IntLen [] kind = "long" -> LongLen [] OTHER -> n) + Around(kind)

\* At most three arguments.
Total(Of(_, _), args, lengths) ==
  LET At(i) == IF i \in DOMAIN args THEN Of(args[i], lengths[i]) ELSE 0
  IN At(1) + At(2) + At(3)

\* The text with the end of the line, and the room with the end of the string.
TextLength(row, lengths) == row.length + Total(ArgLength, row.args, lengths) + 1
Room(row, lengths)       == row.counted + 2 + Total(ArgRoom, row.args, lengths)

\* The lengths arguments may have; names are as long as they like.
Lengths(args) ==
  {lengths \in [DOMAIN args -> Nat] :
     \A i \in DOMAIN args : args[i] \in DOMAIN MaxDigits => lengths[i] <= MaxDigits[args[i]]}

=============================================================================
