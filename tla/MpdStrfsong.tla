------------------------------ MODULE MpdStrfsong ------------------------------
(***************************************************************************)
(* mpd_song_markup(): a format and a song give a text (libmpd-strfsong.c). *)
(* In a format  %tag%  stands for the value, which may be missing,  [..]   *)
(* is left out unless something in it is there,  |  stands between         *)
(* alternatives,  &  between things that are there together, and  #  takes *)
(* the meaning from the next byte.                                         *)
(*                                                                         *)
(* A format is a sequence of bytes and of tags; no # is put before a tag,  *)
(* which it would take apart.  A song is the set of the tags it has, each  *)
(* with a value of two bytes.                                              *)
(***************************************************************************)
EXTENDS Integers, Sequences, FiniteSets

CONSTANT Tags
ASSUME TagsAreNoBytes == Tags \cap {"[", "]", "|", "&", "#", "_", " "} = {}

Value(tag) == <<tag, "_">>

Spaced(text) == [i \in DOMAIN text |-> IF text[i] = "_" THEN " " ELSE text[i]]

-----------------------------------------------------------------------------
(* The code: one walk over the format, that skips what does not count. *)

\* Mutation: brackets are not counted.
RECURSIVE SkipFlat(_, _, _)
SkipFlat(format, p, stack) ==
  IF p > Len(format) THEN p
  ELSE IF format[p] = "#" /\ p < Len(format) THEN SkipFlat(format, p + 2, stack)
  ELSE IF format[p] \in {"&", "|", "]"} THEN p
  ELSE SkipFlat(format, p + 1, stack)

\* skip(): to the next operator or bracket outside brackets.
RECURSIVE Skip(_, _, _)
Skip(format, p, stack) ==
  IF p > Len(format) THEN p
  ELSE IF format[p] = "#" /\ p < Len(format) THEN Skip(format, p + 2, stack)
  ELSE IF format[p] = "[" THEN Skip(format, p + 1, stack + 1)
  ELSE IF stack > 0 THEN Skip(format, p + 1, IF format[p] = "]" THEN stack - 1 ELSE stack)
  ELSE IF format[p] \in {"&", "|", "]"} THEN p
  ELSE Skip(format, p + 1, stack)

\* A buffer of `max' bytes: the text in it, and how many bytes were written
\* from its start, the byte that ends the text included.
\* memset(s, 0, max), g_malloc0(max)
Cleared(max) == [text |-> <<>>, reach |-> max]

Farther(a, b) == IF a > b THEN a ELSE b

\* strncat(s, more, n), which puts the byte that ends the text behind it.
Strncat(buffer, more, n) ==
  LET text == buffer.text \o SubSeq(more, 1, IF Len(more) > n THEN n ELSE Len(more))
  IN [text |-> text, reach |-> Farther(buffer.reach, Len(text) + 1)]

\* Mutation: the whole text, whatever the room.
AppendedAll(buffer, more, max) == Strncat(buffer, more, Len(more))

\* Mutation: a byte is left for the end of a text that is appended, while the
\* loop goes on as if there was none.
AppendedButOne(buffer, more, max) == Strncat(buffer, more, max - Len(buffer.text) - 1)

\* What there is room for of the text of a value or of a bracket.
Appended(buffer, more, max) == Strncat(buffer, more, max - Len(buffer.text))

\* The loop of _strfsong(), with room for `max' bytes: at p, with `buffer'
\* written and a value found in it or not.  Gives the text, how far this and
\* the buffers of inner walks, all of them of `max' bytes, were written, and
\* where it ended; only a text that is not ended by a bracket has its spaces.
RECURSIVE Walk(_, _, _, _, _, _)
Walk(format, song, max, p, buffer, found) ==
  IF p > Len(format) \/ Len(buffer.text) >= max
  THEN [text |-> Spaced(buffer.text), reach |-> buffer.reach, last |-> p]
  ELSE
    CASE format[p] = "|" ->
           IF found THEN Walk(format, song, max, Skip(format, p + 1, 0), buffer, TRUE)
                    ELSE Walk(format, song, max, p + 1, [buffer EXCEPT !.text = <<>>], FALSE)
      [] format[p] = "&" ->
           IF found THEN Walk(format, song, max, p + 1, buffer, FALSE)
                    ELSE Walk(format, song, max, Skip(format, p + 1, 0), buffer, FALSE)
      [] format[p] = "[" ->
           LET inner == Walk(format, song, max, p + 1, Cleared(max), FALSE)
               outer == IF inner.text # <<>> THEN Appended(buffer, inner.text, max) ELSE buffer
           IN Walk(format, song, max, inner.last, [outer EXCEPT !.reach = Farther(@, inner.reach)],
                   found \/ inner.text # <<>>)
      [] format[p] = "]" -> [text |-> IF found THEN buffer.text ELSE <<>>, reach |-> buffer.reach, last |-> p + 1]
      [] format[p] = "#" ->
           IF p < Len(format) THEN Walk(format, song, max, p + 2, Strncat(buffer, <<format[p + 1]>>, 1), found)
                              ELSE Walk(format, song, max, p + 1, buffer, found)
      [] format[p] \in Tags ->
           IF format[p] \in song THEN Walk(format, song, max, p + 1, Appended(buffer, Value(format[p]), max), TRUE)
                                 ELSE Walk(format, song, max, p + 1, buffer, found)
      [] OTHER -> Walk(format, song, max, p + 1, Strncat(buffer, <<format[p]>>, 1), found)

\* mpd_song_markup
Markup(format, song, max) == Walk(format, song, max, 1, Cleared(max), FALSE)

-----------------------------------------------------------------------------
(* What a format means, by its structure. *)

\* # takes the meaning of what follows, unless it was taken from it.
Escaped(format) ==
  LET escaped[k \in 0 .. Len(format)] == k > 1 /\ format[k - 1] = "#" /\ ~escaped[k - 1]
  IN escaped

Plainly(format, k, bytes) == format[k] \in bytes /\ ~Escaped(format)[k]

\* Brackets open from `from' up to before k.
Open(format, from, k) ==
  Cardinality({i \in from .. k - 1 : Plainly(format, i, {"["})})
    - Cardinality({i \in from .. k - 1 : Plainly(format, i, {"]"})})

Balanced(format) ==
  /\ Open(format, 1, Len(format) + 1) = 0
  /\ \A k \in 1 .. Len(format) : Open(format, 1, k) >= 0

\* The bracket that closes the one at k.
Closing(format, k) ==
  CHOOSE c \in k + 1 .. Len(format) :
    /\ Plainly(format, c, {"]"}) /\ Open(format, k, c + 1) = 0
    /\ \A d \in k + 1 .. c - 1 : Open(format, k, d + 1) > 0

\* What stands from lo to hi: operators bind alike, from the left.  With |
\* the left side counts if a value is in it, and else the right side; with &
\* the right side counts only if a value is on the left.  In between, values
\* and brackets follow each other.
RECURSIVE MeaningOf(_, _, _, _)
MeaningOf(format, song, lo, hi) ==
  LET operators == {k \in lo .. hi : Plainly(format, k, {"&", "|"}) /\ Open(format, lo, k) = 0}
  IN IF operators # {}
     THEN LET k     == CHOOSE k \in operators : \A j \in operators : j <= k
              left  == MeaningOf(format, song, lo, k - 1)
              right == MeaningOf(format, song, k + 1, hi)
          IN CASE format[k] = "|" /\ left.found  -> left
               [] format[k] = "|" /\ ~left.found -> right
               [] format[k] = "&" /\ left.found  -> [text |-> left.text \o right.text, found |-> right.found]
               [] format[k] = "&" /\ ~left.found -> left
     ELSE IF lo > hi THEN [text |-> <<>>, found |-> FALSE]
     ELSE LET next == CASE Plainly(format, lo, {"["}) -> Closing(format, lo) + 1
                        [] Plainly(format, lo, {"#"}) -> lo + 2
                        [] OTHER                      -> lo + 1
              inner == MeaningOf(format, song, lo + 1, next - 2)
              first == CASE Plainly(format, lo, {"["}) -> IF inner.found THEN inner.text ELSE <<>>
                         [] Plainly(format, lo, {"#"}) -> IF lo < hi THEN <<format[lo + 1]>> ELSE <<>>
                         [] format[lo] \in Tags        -> IF format[lo] \in song THEN Value(format[lo]) ELSE <<>>
                         [] OTHER                      -> <<format[lo]>>
              rest  == MeaningOf(format, song, next, hi)
          IN [text  |-> first \o rest.text,
              found |-> rest.found \/ (first # <<>> /\ (format[lo] \in Tags \/ Plainly(format, lo, {"["})))]

MeaningOfFormat(format, song) == Spaced(MeaningOf(format, song, 1, Len(format)).text)

=============================================================================
