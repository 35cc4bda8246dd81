------------------------------- MODULE MpdSongs -------------------------------
(***************************************************************************)
(* A program that reads replies and prints the song mpd_playlist_get_song  *)
(* gave it with formats of its own.                                        *)
(***************************************************************************)
EXTENDS MpdReplies, MpdStrfsong

CONSTANTS
  Bytes,      \* bytes of a format
  MaxFormat,  \* bound: the longest format
  Room        \* a room some texts do not fit

ASSUME SongConstants == MaxFormat \in Nat /\ Room \in Nat \ {0} /\ Bytes \cap Tags = {}

VARIABLES
  song,   \* the song that is printed, as its tags, or NoSong
  format  \* how

NoSong == {"no song"}

songVars == <<vars, song, format>>

\* Enough room for every text.
Enough == 2 * MaxFormat + 1

TagsOf(entity) ==
  {t \in {"artist", "album"} : CASE t = "artist" -> entity.artist # <<>> [] OTHER -> entity.album # None}

\* The program takes the song and lets the reply go.
TakeSong ==
  /\ song = NoSong
  /\ pc = "returned" /\ call \in FirstEntity
  /\ result # <<>>
  /\ song' = TagsOf(result[1])
  /\ Returned
  /\ UNCHANGED format

\* It thinks of a longer format.
Extend(byte) ==
  /\ song # NoSong
  /\ Len(format) < MaxFormat
  /\ byte \in Tags /\ format # <<>> => ~Plainly(format, Len(format), {"#"})
  /\ format' = Append(format, byte)
  /\ UNCHANGED <<vars, song>>

HasPrinted ==
  /\ song # NoSong
  /\ song' = NoSong
  /\ format' = <<>>
  /\ UNCHANGED vars

SongsInit == Init /\ song = NoSong /\ format = <<>>

SongsNext ==
  \/ song = NoSong /\ Next /\ UNCHANGED <<song, format>>
  \/ TakeSong
  \/ \E byte \in Bytes \cup Tags : Extend(byte)
  \/ HasPrinted

SongsSpec == SongsInit /\ [][SongsNext]_songVars

-----------------------------------------------------------------------------
\* mpd_song_markup(), which walks the format once and skips what does not
\* count, gives what the structure of the format means, for every format
\* with balanced brackets.
PrintsWhatIsMeant ==
  song # NoSong /\ Balanced(format) => Markup(format, song, Enough).text = MeaningOfFormat(format, song)

\* The rooms that are tried: those that some or most texts do not fit.
Rooms == 1 .. Room

\* _strfsong() keeps the length beside the string, through the cuts of values
\* and of what brackets gave, and the program can tell from it what it got,
\* whatever brackets and # are in the format.  A text that does not fill its
\* room is the whole text, and neither it nor what any bracket in it gave was
\* cut or written beyond that room.  One that does has exactly as many bytes
\* as there is room for and may be a part of the text; strncat() ends it, or
\* the text of a bracket in its own buffer, one byte behind the buffer, and
\* nothing is ever written beyond that byte.
FullOrWhole ==
  song # NoSong =>
    LET whole == Markup(format, song, Enough)
    IN \A max \in Rooms :
         LET printed == Markup(format, song, max)
         IN /\ printed.last <= Len(format) + 1
            /\ \/ Len(printed.text) < max /\ printed.text = whole.text /\ printed.reach = max
               \/ Len(printed.text) = max /\ printed.reach = max + 1

=============================================================================
