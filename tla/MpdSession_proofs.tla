--------------------------- MODULE MpdSession_proofs ---------------------------
(***************************************************************************)
(* For any functions the program calls, any depth of its callbacks and any *)
(* errors of the server: the lock of the connection is held by the         *)
(* function that is to give it back and by nobody else, and a session that *)
(* is over has left nothing behind.                                        *)
(*                                                                         *)
(* The argument has three parts: what can be read off the bodies in Code,  *)
(* one position at a time (Sound); what the calls under way say of the     *)
(* connection (IInv); and what a step of any function amounts to for those *)
(* two (Kinds), so that the invariant is proved for the dozen kinds of     *)
(* step there are and not for every action.                                *)
(*                                                                         *)
(* The next part is about the age of the status: whoever changed something *)
(* is about to renew it (Renewing, Renews), which is proved for the same   *)
(* kinds of step.                                                          *)
(*                                                                         *)
(* The last part is about a program whose callbacks make no calls of their *)
(* own: what a function uses is there, what it asked for it was given, and *)
(* its errors are looked at (Careful, Mindful, Turns, in the same way).    *)
(***************************************************************************)
EXTENDS MpdSession, SequenceTheorems, FiniteSetTheorems, TLAPS

-----------------------------------------------------------------------------
(* The bodies of the functions *)

\* From step n on the lock is given back, and not taken before: whoever is
\* there holds it.
Holds(b, n) ==
  /\ \E k \in n .. Len(b) : b[k] = "unlock"
  /\ \A k \in n .. Len(b) : b[k] \notin {"lock", "open"}

\* What a function does while it holds the lock; none of it calls anything.
HeldSteps == Exchanges \cup {"load_failed", "name_exists", "forgive", "pause", "status_value"}

\* What may end a function.
Ends == {"return", "return_failed", "return_result"}
Tests == {"or_fail", "connected", "if_connected", "version", "command_allowed", "lock", "look",
          "if_playing", "if_not_stopped", "if_no_song", "if_no_handlers"}

\* Calls that succeed only with a connection, and the steps behind which
\* there is one.
Confirms == {"unlock", "need_status", "status_check", "playlist_get_song"}
Confirmed(b, i) ==
  \/ b[i] \in {"connected", "if_connected", "accept"}
  \/ b[i] = "or_fail" /\ i > 1 /\ b[i - 1] \in Confirms

\* Steps that neither call nor disconnect.
Plain == {"version", "command_allowed", "if_no_handlers", "free_commands"}

\* Step n is reached only with a connection.
Sure(b, n) == \E i \in 1 .. n - 1 : Confirmed(b, i) /\ \A j \in i + 1 .. n - 1 : b[j] \in Plain

\* What is true of the body b of function op at each of its steps.
Sound(op, b) ==
  /\ Len(b) \in Nat \ {0} /\ DOMAIN b = 1 .. Len(b)
  /\ Holds(b, 1) => op = "ends_as_failed"
  /\ \A n \in 1 .. Len(b) :
       /\ b[n] \notin Ends => n + 1 \in 1 .. Len(b)
       /\ b[n] = "watch" => op = "status_update" /\ n = 10
       /\ b[n] \in {"lock", "open"} => Holds(b, n + 1)
       /\ Holds(b, n) => \/ b[n] = "unlock"
                         \/ b[n] \in HeldSteps /\ Holds(b, n + 1)
                         \/ op = "connect" /\ n \in 3 .. 5
                         \/ op = "player_pause" /\ n = 3
       /\ Holds(b, n + 1) => (Holds(b, n) /\ b[n] # "unlock") \/ b[n] \in {"lock", "open"}
       /\ b[n] \in Exchanges \cup {"load_failed", "name_exists", "forgive", "pause", "unlock"} => Holds(b, n)
       /\ b[n] \in {"lock", "keep_song"} => Sure(b, n)
       /\ b[n] = "look" => op = "check_error" /\ n = 1
       /\ b[n] = "close" => op = "disconnect" /\ n = 1
       /\ b[n] = "open" => op = "connect" /\ n = 2
       /\ b[n] = "check_error" => op = "connect" /\ n = 3
       /\ b[n] = "accept" => op = "connect" /\ n = 5
       /\ b[n] \in {"load_failed", "name_exists"} => op \in {"playlist_load", "database_save_playlist"}
       /\ b[n] \in HeldSteps \cup {"clear_error", "watch"} => op \notin {"connect", "check_error"}
       /\ b[n] # "ends_as_failed"

LEMMA Cat2_1 == ASSUME NEW a, NEW b, NEW c
  PROVE  <<a, b>> \o <<c>> = <<a, b, c>>
<1> DEFINE S == {a, b, c}
<1>1. <<a, b>> \in Seq(S) /\ <<c>> \in Seq(S) /\ <<a, b, c>> \in Seq(S)
  OBVIOUS
<1>2. /\ <<a, b>> \o <<c>> \in Seq(S) /\ Len(<<a, b>> \o <<c>>) = 3
      /\ \A x \in 1 .. 3 : (<<a, b>> \o <<c>>)[x] = <<a, b, c>>[x]
  BY <1>1, ConcatProperties
<1> QED BY <1>1, <1>2, SeqEqual

LEMMA Cat2_2 == ASSUME NEW a, NEW b, NEW c, NEW d
  PROVE  <<a, b>> \o <<c, d>> = <<a, b, c, d>>
<1> DEFINE S == {a, b, c, d}
<1>1. <<a, b>> \in Seq(S) /\ <<c, d>> \in Seq(S) /\ <<a, b, c, d>> \in Seq(S)
  OBVIOUS
<1>2. /\ <<a, b>> \o <<c, d>> \in Seq(S) /\ Len(<<a, b>> \o <<c, d>>) = 4
      /\ \A x \in 1 .. 4 : (<<a, b>> \o <<c, d>>)[x] = <<a, b, c, d>>[x]
  BY <1>1, ConcatProperties
<1> QED BY <1>1, <1>2, SeqEqual

LEMMA Cat2_4 == ASSUME NEW a, NEW b, NEW c, NEW d, NEW e, NEW f
  PROVE  <<a, b>> \o <<c, d, e, f>> = <<a, b, c, d, e, f>>
<1> DEFINE S == {a, b, c, d, e, f}
<1>1. <<a, b>> \in Seq(S) /\ <<c, d, e, f>> \in Seq(S) /\ <<a, b, c, d, e, f>> \in Seq(S)
  OBVIOUS
<1>2. /\ <<a, b>> \o <<c, d, e, f>> \in Seq(S) /\ Len(<<a, b>> \o <<c, d, e, f>>) = 6
      /\ \A x \in 1 .. 6 : (<<a, b>> \o <<c, d, e, f>>)[x] = <<a, b, c, d, e, f>>[x]
  BY <1>1, ConcatProperties
<1> QED BY <1>1, <1>2, SeqEqual

LEMMA Cat2_5 == ASSUME NEW a, NEW b, NEW c, NEW d, NEW e, NEW f, NEW g
  PROVE  <<a, b>> \o <<c, d, e, f, g>> = <<a, b, c, d, e, f, g>>
<1> DEFINE S == {a, b, c, d, e, f, g}
<1>1. <<a, b>> \in Seq(S) /\ <<c, d, e, f, g>> \in Seq(S) /\ <<a, b, c, d, e, f, g>> \in Seq(S)
  OBVIOUS
<1>2. /\ <<a, b>> \o <<c, d, e, f, g>> \in Seq(S) /\ Len(<<a, b>> \o <<c, d, e, f, g>>) = 7
      /\ \A x \in 1 .. 7 : (<<a, b>> \o <<c, d, e, f, g>>)[x] = <<a, b, c, d, e, f, g>>[x]
  BY <1>1, ConcatProperties
<1> QED BY <1>1, <1>2, SeqEqual

LEMMA Cat2_7 == ASSUME NEW a, NEW b, NEW c, NEW d, NEW e, NEW f, NEW g, NEW h, NEW i
  PROVE  <<a, b>> \o <<c, d, e, f, g, h, i>> = <<a, b, c, d, e, f, g, h, i>>
<1> DEFINE S == {a, b, c, d, e, f, g, h, i}
<1>1. <<a, b>> \in Seq(S) /\ <<c, d, e, f, g, h, i>> \in Seq(S) /\ <<a, b, c, d, e, f, g, h, i>> \in Seq(S)
  OBVIOUS
<1>2. /\ <<a, b>> \o <<c, d, e, f, g, h, i>> \in Seq(S) /\ Len(<<a, b>> \o <<c, d, e, f, g, h, i>>) = 9
      /\ \A x \in 1 .. 9 : (<<a, b>> \o <<c, d, e, f, g, h, i>>)[x] = <<a, b, c, d, e, f, g, h, i>>[x]
  BY <1>1, ConcatProperties
<1> QED BY <1>1, <1>2, SeqEqual

LEMMA Cat3_1 == ASSUME NEW a, NEW b, NEW c, NEW d
  PROVE  <<a, b, c>> \o <<d>> = <<a, b, c, d>>
<1> DEFINE S == {a, b, c, d}
<1>1. <<a, b, c>> \in Seq(S) /\ <<d>> \in Seq(S) /\ <<a, b, c, d>> \in Seq(S)
  OBVIOUS
<1>2. /\ <<a, b, c>> \o <<d>> \in Seq(S) /\ Len(<<a, b, c>> \o <<d>>) = 4
      /\ \A x \in 1 .. 4 : (<<a, b, c>> \o <<d>>)[x] = <<a, b, c, d>>[x]
  BY <1>1, ConcatProperties
<1> QED BY <1>1, <1>2, SeqEqual

LEMMA Cat3_2 == ASSUME NEW a, NEW b, NEW c, NEW d, NEW e
  PROVE  <<a, b, c>> \o <<d, e>> = <<a, b, c, d, e>>
<1> DEFINE S == {a, b, c, d, e}
<1>1. <<a, b, c>> \in Seq(S) /\ <<d, e>> \in Seq(S) /\ <<a, b, c, d, e>> \in Seq(S)
  OBVIOUS
<1>2. /\ <<a, b, c>> \o <<d, e>> \in Seq(S) /\ Len(<<a, b, c>> \o <<d, e>>) = 5
      /\ \A x \in 1 .. 5 : (<<a, b, c>> \o <<d, e>>)[x] = <<a, b, c, d, e>>[x]
  BY <1>1, ConcatProperties
<1> QED BY <1>1, <1>2, SeqEqual

LEMMA Cat3_5 == ASSUME NEW a, NEW b, NEW c, NEW d, NEW e, NEW f, NEW g, NEW h
  PROVE  <<a, b, c>> \o <<d, e, f, g, h>> = <<a, b, c, d, e, f, g, h>>
<1> DEFINE S == {a, b, c, d, e, f, g, h}
<1>1. <<a, b, c>> \in Seq(S) /\ <<d, e, f, g, h>> \in Seq(S) /\ <<a, b, c, d, e, f, g, h>> \in Seq(S)
  OBVIOUS
<1>2. /\ <<a, b, c>> \o <<d, e, f, g, h>> \in Seq(S) /\ Len(<<a, b, c>> \o <<d, e, f, g, h>>) = 8
      /\ \A x \in 1 .. 8 : (<<a, b, c>> \o <<d, e, f, g, h>>)[x] = <<a, b, c, d, e, f, g, h>>[x]
  BY <1>1, ConcatProperties
<1> QED BY <1>1, <1>2, SeqEqual

LEMMA Cat4_1 == ASSUME NEW a, NEW b, NEW c, NEW d, NEW e
  PROVE  <<a, b, c, d>> \o <<e>> = <<a, b, c, d, e>>
<1> DEFINE S == {a, b, c, d, e}
<1>1. <<a, b, c, d>> \in Seq(S) /\ <<e>> \in Seq(S) /\ <<a, b, c, d, e>> \in Seq(S)
  OBVIOUS
<1>2. /\ <<a, b, c, d>> \o <<e>> \in Seq(S) /\ Len(<<a, b, c, d>> \o <<e>>) = 5
      /\ \A x \in 1 .. 5 : (<<a, b, c, d>> \o <<e>>)[x] = <<a, b, c, d, e>>[x]
  BY <1>1, ConcatProperties
<1> QED BY <1>1, <1>2, SeqEqual

LEMMA Cat4_2 == ASSUME NEW a, NEW b, NEW c, NEW d, NEW e, NEW f
  PROVE  <<a, b, c, d>> \o <<e, f>> = <<a, b, c, d, e, f>>
<1> DEFINE S == {a, b, c, d, e, f}
<1>1. <<a, b, c, d>> \in Seq(S) /\ <<e, f>> \in Seq(S) /\ <<a, b, c, d, e, f>> \in Seq(S)
  OBVIOUS
<1>2. /\ <<a, b, c, d>> \o <<e, f>> \in Seq(S) /\ Len(<<a, b, c, d>> \o <<e, f>>) = 6
      /\ \A x \in 1 .. 6 : (<<a, b, c, d>> \o <<e, f>>)[x] = <<a, b, c, d, e, f>>[x]
  BY <1>1, ConcatProperties
<1> QED BY <1>1, <1>2, SeqEqual

LEMMA Cat4_3 == ASSUME NEW a, NEW b, NEW c, NEW d, NEW e, NEW f, NEW g
  PROVE  <<a, b, c, d>> \o <<e, f, g>> = <<a, b, c, d, e, f, g>>
<1> DEFINE S == {a, b, c, d, e, f, g}
<1>1. <<a, b, c, d>> \in Seq(S) /\ <<e, f, g>> \in Seq(S) /\ <<a, b, c, d, e, f, g>> \in Seq(S)
  OBVIOUS
<1>2. /\ <<a, b, c, d>> \o <<e, f, g>> \in Seq(S) /\ Len(<<a, b, c, d>> \o <<e, f, g>>) = 7
      /\ \A x \in 1 .. 7 : (<<a, b, c, d>> \o <<e, f, g>>)[x] = <<a, b, c, d, e, f, g>>[x]
  BY <1>1, ConcatProperties
<1> QED BY <1>1, <1>2, SeqEqual

LEMMA Cat5_1 == ASSUME NEW a, NEW b, NEW c, NEW d, NEW e, NEW f
  PROVE  <<a, b, c, d, e>> \o <<f>> = <<a, b, c, d, e, f>>
<1> DEFINE S == {a, b, c, d, e, f}
<1>1. <<a, b, c, d, e>> \in Seq(S) /\ <<f>> \in Seq(S) /\ <<a, b, c, d, e, f>> \in Seq(S)
  OBVIOUS
<1>2. /\ <<a, b, c, d, e>> \o <<f>> \in Seq(S) /\ Len(<<a, b, c, d, e>> \o <<f>>) = 6
      /\ \A x \in 1 .. 6 : (<<a, b, c, d, e>> \o <<f>>)[x] = <<a, b, c, d, e, f>>[x]
  BY <1>1, ConcatProperties
<1> QED BY <1>1, <1>2, SeqEqual

LEMMA Cat5_2 == ASSUME NEW a, NEW b, NEW c, NEW d, NEW e, NEW f, NEW g
  PROVE  <<a, b, c, d, e>> \o <<f, g>> = <<a, b, c, d, e, f, g>>
<1> DEFINE S == {a, b, c, d, e, f, g}
<1>1. <<a, b, c, d, e>> \in Seq(S) /\ <<f, g>> \in Seq(S) /\ <<a, b, c, d, e, f, g>> \in Seq(S)
  OBVIOUS
<1>2. /\ <<a, b, c, d, e>> \o <<f, g>> \in Seq(S) /\ Len(<<a, b, c, d, e>> \o <<f, g>>) = 7
      /\ \A x \in 1 .. 7 : (<<a, b, c, d, e>> \o <<f, g>>)[x] = <<a, b, c, d, e, f, g>>[x]
  BY <1>1, ConcatProperties
<1> QED BY <1>1, <1>2, SeqEqual

LEMMA Cat5_3 == ASSUME NEW a, NEW b, NEW c, NEW d, NEW e, NEW f, NEW g, NEW h
  PROVE  <<a, b, c, d, e>> \o <<f, g, h>> = <<a, b, c, d, e, f, g, h>>
<1> DEFINE S == {a, b, c, d, e, f, g, h}
<1>1. <<a, b, c, d, e>> \in Seq(S) /\ <<f, g, h>> \in Seq(S) /\ <<a, b, c, d, e, f, g, h>> \in Seq(S)
  OBVIOUS
<1>2. /\ <<a, b, c, d, e>> \o <<f, g, h>> \in Seq(S) /\ Len(<<a, b, c, d, e>> \o <<f, g, h>>) = 8
      /\ \A x \in 1 .. 8 : (<<a, b, c, d, e>> \o <<f, g, h>>)[x] = <<a, b, c, d, e, f, g, h>>[x]
  BY <1>1, ConcatProperties
<1> QED BY <1>1, <1>2, SeqEqual

LEMMA Cat5_4 == ASSUME NEW a, NEW b, NEW c, NEW d, NEW e, NEW f, NEW g, NEW h, NEW i
  PROVE  <<a, b, c, d, e>> \o <<f, g, h, i>> = <<a, b, c, d, e, f, g, h, i>>
<1> DEFINE S == {a, b, c, d, e, f, g, h, i}
<1>1. <<a, b, c, d, e>> \in Seq(S) /\ <<f, g, h, i>> \in Seq(S) /\ <<a, b, c, d, e, f, g, h, i>> \in Seq(S)
  OBVIOUS
<1>2. /\ <<a, b, c, d, e>> \o <<f, g, h, i>> \in Seq(S) /\ Len(<<a, b, c, d, e>> \o <<f, g, h, i>>) = 9
      /\ \A x \in 1 .. 9 : (<<a, b, c, d, e>> \o <<f, g, h, i>>)[x] = <<a, b, c, d, e, f, g, h, i>>[x]
  BY <1>1, ConcatProperties
<1> QED BY <1>1, <1>2, SeqEqual

LEMMA Cat6_1 == ASSUME NEW a, NEW b, NEW c, NEW d, NEW e, NEW f, NEW g
  PROVE  <<a, b, c, d, e, f>> \o <<g>> = <<a, b, c, d, e, f, g>>
<1> DEFINE S == {a, b, c, d, e, f, g}
<1>1. <<a, b, c, d, e, f>> \in Seq(S) /\ <<g>> \in Seq(S) /\ <<a, b, c, d, e, f, g>> \in Seq(S)
  OBVIOUS
<1>2. /\ <<a, b, c, d, e, f>> \o <<g>> \in Seq(S) /\ Len(<<a, b, c, d, e, f>> \o <<g>>) = 7
      /\ \A x \in 1 .. 7 : (<<a, b, c, d, e, f>> \o <<g>>)[x] = <<a, b, c, d, e, f, g>>[x]
  BY <1>1, ConcatProperties
<1> QED BY <1>1, <1>2, SeqEqual

LEMMA Cat6_2 == ASSUME NEW a, NEW b, NEW c, NEW d, NEW e, NEW f, NEW g, NEW h
  PROVE  <<a, b, c, d, e, f>> \o <<g, h>> = <<a, b, c, d, e, f, g, h>>
<1> DEFINE S == {a, b, c, d, e, f, g, h}
<1>1. <<a, b, c, d, e, f>> \in Seq(S) /\ <<g, h>> \in Seq(S) /\ <<a, b, c, d, e, f, g, h>> \in Seq(S)
  OBVIOUS
<1>2. /\ <<a, b, c, d, e, f>> \o <<g, h>> \in Seq(S) /\ Len(<<a, b, c, d, e, f>> \o <<g, h>>) = 8
      /\ \A x \in 1 .. 8 : (<<a, b, c, d, e, f>> \o <<g, h>>)[x] = <<a, b, c, d, e, f, g, h>>[x]
  BY <1>1, ConcatProperties
<1> QED BY <1>1, <1>2, SeqEqual

LEMMA Cat7_2 == ASSUME NEW a, NEW b, NEW c, NEW d, NEW e, NEW f, NEW g, NEW h, NEW i
  PROVE  <<a, b, c, d, e, f, g>> \o <<h, i>> = <<a, b, c, d, e, f, g, h, i>>
<1> DEFINE S == {a, b, c, d, e, f, g, h, i}
<1>1. <<a, b, c, d, e, f, g>> \in Seq(S) /\ <<h, i>> \in Seq(S) /\ <<a, b, c, d, e, f, g, h, i>> \in Seq(S)
  OBVIOUS
<1>2. /\ <<a, b, c, d, e, f, g>> \o <<h, i>> \in Seq(S) /\ Len(<<a, b, c, d, e, f, g>> \o <<h, i>>) = 9
      /\ \A x \in 1 .. 9 : (<<a, b, c, d, e, f, g>> \o <<h, i>>)[x] = <<a, b, c, d, e, f, g, h, i>>[x]
  BY <1>1, ConcatProperties
<1> QED BY <1>1, <1>2, SeqEqual

LEMMA Cat7_7 == ASSUME NEW a, NEW b, NEW c, NEW d, NEW e, NEW f, NEW g, NEW h, NEW i, NEW j, NEW k, NEW l, NEW m, NEW n
  PROVE  <<a, b, c, d, e, f, g>> \o <<h, i, j, k, l, m, n>> = <<a, b, c, d, e, f, g, h, i, j, k, l, m, n>>
<1> DEFINE S == {a, b, c, d, e, f, g, h, i, j, k, l, m, n}
<1>1. <<a, b, c, d, e, f, g>> \in Seq(S) /\ <<h, i, j, k, l, m, n>> \in Seq(S) /\ <<a, b, c, d, e, f, g, h, i, j, k, l, m, n>> \in Seq(S)
  OBVIOUS
<1>2. /\ <<a, b, c, d, e, f, g>> \o <<h, i, j, k, l, m, n>> \in Seq(S) /\ Len(<<a, b, c, d, e, f, g>> \o <<h, i, j, k, l, m, n>>) = 14
      /\ \A x \in 1 .. 14 : (<<a, b, c, d, e, f, g>> \o <<h, i, j, k, l, m, n>>)[x] = <<a, b, c, d, e, f, g, h, i, j, k, l, m, n>>[x]
  BY <1>1, ConcatProperties
<1> QED BY <1>1, <1>2, SeqEqual

LEMMA Cat8_1 == ASSUME NEW a, NEW b, NEW c, NEW d, NEW e, NEW f, NEW g, NEW h, NEW i
  PROVE  <<a, b, c, d, e, f, g, h>> \o <<i>> = <<a, b, c, d, e, f, g, h, i>>
<1> DEFINE S == {a, b, c, d, e, f, g, h, i}
<1>1. <<a, b, c, d, e, f, g, h>> \in Seq(S) /\ <<i>> \in Seq(S) /\ <<a, b, c, d, e, f, g, h, i>> \in Seq(S)
  OBVIOUS
<1>2. /\ <<a, b, c, d, e, f, g, h>> \o <<i>> \in Seq(S) /\ Len(<<a, b, c, d, e, f, g, h>> \o <<i>>) = 9
      /\ \A x \in 1 .. 9 : (<<a, b, c, d, e, f, g, h>> \o <<i>>)[x] = <<a, b, c, d, e, f, g, h, i>>[x]
  BY <1>1, ConcatProperties
<1> QED BY <1>1, <1>2, SeqEqual

LEMMA LockedOne == ASSUME NEW t PROVE Locked(<<t>>) = <<"connected", "lock", t, "unlock">>
<1>1. <<"connected", "lock">> \o <<t>> = <<"connected", "lock", t>>
  BY Cat2_1
<1>2. <<"connected", "lock", t>> \o <<"unlock">> = <<"connected", "lock", t, "unlock">>
  BY Cat3_1
<1> QED BY <1>1, <1>2 DEF Locked

LEMMA LockedTwo == ASSUME NEW t, NEW u PROVE Locked(<<t, u>>) = <<"connected", "lock", t, u, "unlock">>
<1>1. <<"connected", "lock">> \o <<t, u>> = <<"connected", "lock", t, u>>
  BY Cat2_2
<1>2. <<"connected", "lock", t, u>> \o <<"unlock">> = <<"connected", "lock", t, u, "unlock">>
  BY Cat4_1
<1> QED BY <1>1, <1>2 DEF Locked

\* The bodies that are put together, for any function that could have them.
LEMMA SoundBodies ==
  ASSUME NEW op, op \notin {"connect", "check_error"}
  PROVE  /\ Sound(op, ServerUpdateOutputs)
         /\ Sound(op, ServerGetOutputDevices) /\ Sound(op, PlaylistGetSong)
         /\ Sound(op, PlaylistGetSongFromPos) /\ Sound(op, PlaylistGetChanges)
         /\ Sound(op, PlaylistGetChangesPosid) /\ Sound(op, DatabaseGetFileinfo)
         /\ Sound(op, ServerSetOutputDevice)
         /\ Sound(op, ServerGetTagTypes) /\ Sound(op, ServerGetReplaygainMode)
         /\ Sound(op, DatabaseGetArtists) /\ Sound(op, DatabaseGetAlbums)
         /\ Sound(op, DatabaseGetComplete) /\ Sound(op, DatabaseFind)
         /\ Sound(op, DatabaseGetDirectory) /\ Sound(op, DatabaseGetDirectoryRecursive)
         /\ Sound(op, DatabaseDeletePlaylist) /\ Sound(op, DatabasePlaylistMove)
         /\ Sound(op, DatabasePlaylistList)
         /\ Sound(op, ServerSetReplaygainMode)
         /\ Sound(op, StatusSetVolume)
         /\ Sound(op, StatusSetCrossfade) /\ Sound(op, PlayerSetSingle)
         /\ Sound(op, PlayerSetConsume) /\ Sound(op, PlayerSetRepeat)
         /\ Sound(op, PlayerSetRandom)
         /\ Sound(op, StatsUpdate) /\ Sound(op, StatsUpdateReal)
         /\ Sound(op, PlayerGetNextSongId) /\ Sound(op, PlayerGetNextSongPos)
         /\ Sound(op, PlayerGetCurrentSongId) /\ Sound(op, PlayerGetCurrentSongPos)
         /\ Sound(op, PlayerPlayId) /\ Sound(op, PlayerStop) /\ Sound(op, PlayerNext)
         /\ Sound(op, PlayerPrev)
         /\ Sound(op, PlaylistGetCurrentSong)
         /\ Sound(op, PlaylistClear) /\ Sound(op, PlaylistQueueCommit)
         /\ Sound(op, DatabaseUpdateDir)
         /\ Sound(op, PlaylistShuffle) /\ Sound(op, PlaylistMoveId) /\ Sound(op, PlaylistMovePos)
         /\ Sound(op, PlaylistAddGetId)
         /\ Sound(op, PlaylistSetPriority)
         /\ Sound(op, DatabaseGetPlaylistContent)
         /\ Sound(op, StickerSongGet)
         /\ Sound(op, StickerSongSet)
<1>1. /\ Sound(op, ServerUpdateOutputs)
  <2>1. <<"connected", "lock", "outputs", "unlock">> \o <<"return_result">>
         = <<"connected", "lock", "outputs", "unlock", "return_result">>
    BY Cat4_1
  <2>2. Sound(op, <<"connected", "lock", "outputs", "unlock", "return_result">>)
    BY DEF Sound, Holds, Sure, Confirmed, Plain, Confirms, Ends, HeldSteps, Exchanges, ListSteps
  <2> QED BY <2>1, <2>2, LockedOne
         DEF ServerUpdateOutputs
<1>2. /\ Sound(op, ServerGetOutputDevices) /\ Sound(op, PlaylistGetSong)
       /\ Sound(op, PlaylistGetSongFromPos) /\ Sound(op, PlaylistGetChanges)
       /\ Sound(op, PlaylistGetChangesPosid) /\ Sound(op, DatabaseGetFileinfo)
  <2>1. <<"connected", "lock", "exec", "unlock">> \o <<"or_fail", "return">>
         = <<"connected", "lock", "exec", "unlock", "or_fail", "return">>
    BY Cat4_2
  <2>2. Sound(op, <<"connected", "lock", "exec", "unlock", "or_fail", "return">>)
    BY DEF Sound, Holds, Sure, Confirmed, Plain, Confirms, Ends, HeldSteps, Exchanges, ListSteps
  <2> QED BY <2>1, <2>2, LockedOne
         DEF ServerGetOutputDevices, PlaylistGetSong, PlaylistGetSongFromPos, PlaylistGetChanges, PlaylistGetChangesPosid, DatabaseGetFileinfo, Checked
<1>3. /\ Sound(op, ServerSetOutputDevice)
  <2>1. <<"connected", "lock", "exec", "unlock">> \o <<"status_queue_update", "return">>
         = <<"connected", "lock", "exec", "unlock", "status_queue_update", "return">>
    BY Cat4_2
  <2>2. Sound(op, <<"connected", "lock", "exec", "unlock", "status_queue_update", "return">>)
    BY DEF Sound, Holds, Sure, Confirmed, Plain, Confirms, Ends, HeldSteps, Exchanges, ListSteps
  <2> QED BY <2>1, <2>2, LockedOne
         DEF ServerSetOutputDevice
<1>4. /\ Sound(op, ServerGetTagTypes) /\ Sound(op, ServerGetReplaygainMode)
       /\ Sound(op, DatabaseGetArtists) /\ Sound(op, DatabaseGetAlbums)
       /\ Sound(op, DatabaseGetComplete) /\ Sound(op, DatabaseFind)
       /\ Sound(op, DatabaseGetDirectory) /\ Sound(op, DatabaseGetDirectoryRecursive)
       /\ Sound(op, DatabaseDeletePlaylist) /\ Sound(op, DatabasePlaylistMove)
       /\ Sound(op, DatabasePlaylistList)
  <2>1. <<"connected", "lock", "exec", "unlock">> \o <<"return">>
         = <<"connected", "lock", "exec", "unlock", "return">>
    BY Cat4_1
  <2>2. Sound(op, <<"connected", "lock", "exec", "unlock", "return">>)
    BY DEF Sound, Holds, Sure, Confirmed, Plain, Confirms, Ends, HeldSteps, Exchanges, ListSteps
  <2> QED BY <2>1, <2>2, LockedOne
         DEF ServerGetTagTypes, ServerGetReplaygainMode, DatabaseGetArtists, DatabaseGetAlbums, DatabaseGetComplete, DatabaseFind, DatabaseGetDirectory, DatabaseGetDirectoryRecursive, DatabaseDeletePlaylist, DatabasePlaylistMove, DatabasePlaylistList, OK
<1>5. /\ Sound(op, ServerSetReplaygainMode)
  <2>1. <<"connected", "lock", "exec", "unlock">> \o <<"return_result">>
         = <<"connected", "lock", "exec", "unlock", "return_result">>
    BY Cat4_1
  <2>2. Sound(op, <<"connected", "lock", "exec", "unlock", "return_result">>)
    BY DEF Sound, Holds, Sure, Confirmed, Plain, Confirms, Ends, HeldSteps, Exchanges, ListSteps
  <2> QED BY <2>1, <2>2, LockedOne
         DEF ServerSetReplaygainMode
<1>6. /\ Sound(op, StatusSetVolume)
  <2>1. <<"connected", "lock", "set", "unlock">> \o <<"status_queue_update", "status_get_volume", "return_result">>
         = <<"connected", "lock", "set", "unlock", "status_queue_update", "status_get_volume", "return_result">>
    BY Cat4_3
  <2>2. Sound(op, <<"connected", "lock", "set", "unlock", "status_queue_update", "status_get_volume", "return_result">>)
    BY DEF Sound, Holds, Sure, Confirmed, Plain, Confirms, Ends, HeldSteps, Exchanges, ListSteps
  <2> QED BY <2>1, <2>2, LockedOne
         DEF StatusSetVolume
<1>7. /\ Sound(op, StatusSetCrossfade) /\ Sound(op, PlayerSetSingle)
       /\ Sound(op, PlayerSetConsume) /\ Sound(op, PlayerSetRepeat) /\ Sound(op, PlayerSetRandom)
  <2>1. <<"connected", "lock", "set", "unlock">> \o <<"status_queue_update", "return">>
         = <<"connected", "lock", "set", "unlock", "status_queue_update", "return">>
    BY Cat4_2
  <2>2. Sound(op, <<"connected", "lock", "set", "unlock", "status_queue_update", "return">>)
    BY DEF Sound, Holds, Sure, Confirmed, Plain, Confirms, Ends, HeldSteps, Exchanges, ListSteps
  <2> QED BY <2>1, <2>2, LockedOne
         DEF StatusSetCrossfade, PlayerSetSingle, PlayerSetter, PlayerSetConsume, PlayerSetRepeat, PlayerSetRandom
<1>8. /\ Sound(op, StatsUpdate) /\ Sound(op, StatsUpdateReal)
  <2>1. <<"connected", "lock", "fetch_stats", "unlock">> \o <<"or_fail", "return">>
         = <<"connected", "lock", "fetch_stats", "unlock", "or_fail", "return">>
    BY Cat4_2
  <2>2. Sound(op, <<"connected", "lock", "fetch_stats", "unlock", "or_fail", "return">>)
    BY DEF Sound, Holds, Sure, Confirmed, Plain, Confirms, Ends, HeldSteps, Exchanges, ListSteps
  <2> QED BY <2>1, <2>2, LockedOne
         DEF StatsUpdate, StatsUpdateReal, Checked
<1>9. /\ Sound(op, PlayerGetNextSongId) /\ Sound(op, PlayerGetNextSongPos)
       /\ Sound(op, PlayerGetCurrentSongId) /\ Sound(op, PlayerGetCurrentSongPos)
  <2>1. <<"connected", "status_check", "or_fail">> \o <<"player_get_state", "ask_again">>
         = <<"connected", "status_check", "or_fail", "player_get_state", "ask_again">>
    BY Cat3_2
  <2>2. <<"connected", "status_check", "or_fail", "player_get_state", "ask_again">> \o <<"or_fail", "if_playing", "status_value", "return">>
         = <<"connected", "status_check", "or_fail", "player_get_state", "ask_again", "or_fail", "if_playing", "status_value", "return">>
    BY Cat5_4
  <2>3. Sound(op, <<"connected", "status_check", "or_fail", "player_get_state", "ask_again", "or_fail", "if_playing", "status_value", "return">>)
    BY DEF Sound, Holds, Sure, Confirmed, Plain, Confirms, Ends, HeldSteps, Exchanges, ListSteps
  <2> QED BY <2>1, <2>2, <2>3
         DEF PlayerGetNextSongId, PlayingValue, PlayerGetNextSongPos, PlayerGetCurrentSongId, PlayerGetCurrentSongPos, AskState
<1>10. /\ Sound(op, PlayerPlayId) /\ Sound(op, PlayerStop) /\ Sound(op, PlayerNext)
        /\ Sound(op, PlayerPrev)
  <2>1. <<"connected", "lock", "set", "unlock">> \o <<"status_update", "or_fail", "return">>
         = <<"connected", "lock", "set", "unlock", "status_update", "or_fail", "return">>
    BY Cat4_3
  <2>2. Sound(op, <<"connected", "lock", "set", "unlock", "status_update", "or_fail", "return">>)
    BY DEF Sound, Holds, Sure, Confirmed, Plain, Confirms, Ends, HeldSteps, Exchanges, ListSteps
  <2> QED BY <2>1, <2>2, LockedOne
         DEF PlayerPlayId, PlayerCommand, PlayerStop, PlayerNext, PlayerPrev
<1>11. /\ Sound(op, PlaylistGetCurrentSong)
  <2>1. <<"connected", "status_check", "or_fail", "drop_old_song", "if_no_song">> \o <<"player_get_state", "ask_again">>
         = <<"connected", "status_check", "or_fail", "drop_old_song", "if_no_song", "player_get_state", "ask_again">>
    BY Cat5_2
  <2>2. <<"connected", "status_check", "or_fail", "drop_old_song", "if_no_song", "player_get_state", "ask_again">> \o <<"if_not_stopped", "player_get_current_song_id", "or_fail", "playlist_get_song", "or_fail", "keep_song", "return">>
         = <<"connected", "status_check", "or_fail", "drop_old_song", "if_no_song", "player_get_state", "ask_again", "if_not_stopped", "player_get_current_song_id", "or_fail", "playlist_get_song", "or_fail", "keep_song", "return">>
    BY Cat7_7
  <2>3. Sound(op, <<"connected", "status_check", "or_fail", "drop_old_song", "if_no_song", "player_get_state", "ask_again", "if_not_stopped", "player_get_current_song_id", "or_fail", "playlist_get_song", "or_fail", "keep_song", "return">>)
    BY DEF Sound, Holds, Sure, Confirmed, Plain, Confirms, Ends, HeldSteps, Exchanges, ListSteps
  <2> QED BY <2>1, <2>2, <2>3
         DEF PlaylistGetCurrentSong, AskState
<1>12. /\ Sound(op, PlaylistClear) /\ Sound(op, PlaylistQueueCommit)
        /\ Sound(op, DatabaseUpdateDir)
  <2>1. <<"connected", "lock", "set", "unlock">> \o <<"status_update", "return">>
         = <<"connected", "lock", "set", "unlock", "status_update", "return">>
    BY Cat4_2
  <2>2. Sound(op, <<"connected", "lock", "set", "unlock", "status_update", "return">>)
    BY DEF Sound, Holds, Sure, Confirmed, Plain, Confirms, Ends, HeldSteps, Exchanges, ListSteps
  <2> QED BY <2>1, <2>2, LockedOne
         DEF PlaylistClear, PlaylistQueueCommit, DatabaseUpdateDir
<1>13. /\ Sound(op, PlaylistShuffle) /\ Sound(op, PlaylistMoveId) /\ Sound(op, PlaylistMovePos)
        /\ Sound(op, PlaylistAddGetId)
  <2>1. <<"connected", "lock", "set", "unlock">> \o <<"return">>
         = <<"connected", "lock", "set", "unlock", "return">>
    BY Cat4_1
  <2>2. Sound(op, <<"connected", "lock", "set", "unlock", "return">>)
    BY DEF Sound, Holds, Sure, Confirmed, Plain, Confirms, Ends, HeldSteps, Exchanges, ListSteps
  <2> QED BY <2>1, <2>2, LockedOne
         DEF PlaylistShuffle, PlaylistMoveId, PlaylistMovePos, PlaylistAddGetId, OK
<1>14. /\ Sound(op, PlaylistSetPriority)
  <2>1. <<"connected", "command_allowed">> \o <<"connected", "lock", "set", "unlock">>
         = <<"connected", "command_allowed", "connected", "lock", "set", "unlock">>
    BY Cat2_4
  <2>2. <<"connected", "command_allowed", "connected", "lock", "set", "unlock">> \o <<"return">>
         = <<"connected", "command_allowed", "connected", "lock", "set", "unlock", "return">>
    BY Cat6_1
  <2>3. Sound(op, <<"connected", "command_allowed", "connected", "lock", "set", "unlock", "return">>)
    BY DEF Sound, Holds, Sure, Confirmed, Plain, Confirms, Ends, HeldSteps, Exchanges, ListSteps
  <2> QED BY <2>1, <2>2, <2>3, LockedOne
         DEF PlaylistSetPriority, OK
<1>15. /\ Sound(op, DatabaseGetPlaylistContent)
  <2>1. <<"connected", "version", "command_allowed">> \o <<"connected", "lock", "exec", "forgive", "unlock">>
         = <<"connected", "version", "command_allowed", "connected", "lock", "exec", "forgive", "unlock">>
    BY Cat3_5
  <2>2. <<"connected", "version", "command_allowed", "connected", "lock", "exec", "forgive", "unlock">> \o <<"return">>
         = <<"connected", "version", "command_allowed", "connected", "lock", "exec", "forgive", "unlock", "return">>
    BY Cat8_1
  <2>3. Sound(op, <<"connected", "version", "command_allowed", "connected", "lock", "exec", "forgive", "unlock", "return">>)
    BY DEF Sound, Holds, Sure, Confirmed, Plain, Confirms, Ends, HeldSteps, Exchanges, ListSteps
  <2> QED BY <2>1, <2>2, <2>3, LockedTwo
         DEF DatabaseGetPlaylistContent, OK
<1>16. /\ Sound(op, StickerSongGet)
  <2>1. <<"connected", "command_allowed">> \o <<"connected", "lock", "exec", "forgive", "unlock">>
         = <<"connected", "command_allowed", "connected", "lock", "exec", "forgive", "unlock">>
    BY Cat2_5
  <2>2. <<"connected", "command_allowed", "connected", "lock", "exec", "forgive", "unlock">> \o <<"or_fail", "return">>
         = <<"connected", "command_allowed", "connected", "lock", "exec", "forgive", "unlock", "or_fail", "return">>
    BY Cat7_2
  <2>3. Sound(op, <<"connected", "command_allowed", "connected", "lock", "exec", "forgive", "unlock", "or_fail", "return">>)
    BY DEF Sound, Holds, Sure, Confirmed, Plain, Confirms, Ends, HeldSteps, Exchanges, ListSteps
  <2> QED BY <2>1, <2>2, <2>3, LockedTwo
         DEF StickerSongGet, Checked
<1>17. /\ Sound(op, StickerSongSet)
  <2>1. <<"connected", "command_allowed">> \o <<"connected", "lock", "exec", "unlock">>
         = <<"connected", "command_allowed", "connected", "lock", "exec", "unlock">>
    BY Cat2_4
  <2>2. <<"connected", "command_allowed", "connected", "lock", "exec", "unlock">> \o <<"or_fail", "return">>
         = <<"connected", "command_allowed", "connected", "lock", "exec", "unlock", "or_fail", "return">>
    BY Cat6_2
  <2>3. Sound(op, <<"connected", "command_allowed", "connected", "lock", "exec", "unlock", "or_fail", "return">>)
    BY DEF Sound, Holds, Sure, Confirmed, Plain, Confirms, Ends, HeldSteps, Exchanges, ListSteps
  <2> QED BY <2>1, <2>2, <2>3, LockedOne
         DEF StickerSongSet, Checked
<1> QED BY <1>1, <1>2, <1>3, <1>4, <1>5, <1>6, <1>7, <1>8, <1>9, <1>10, <1>11, <1>12, <1>13, <1>14, <1>15, <1>16, <1>17

LEMMA PlaylistLoadSound == Sound("playlist_load", PlaylistLoad)
<1>1. <<"connected", "lock", "set", "load_failed", "unlock">> \o <<"or_fail", "return">>
       = <<"connected", "lock", "set", "load_failed", "unlock", "or_fail", "return">>
  BY Cat5_2
<1>2. Sound("playlist_load", <<"connected", "lock", "set", "load_failed", "unlock", "or_fail", "return">>)
  BY DEF Sound, Holds, Sure, Confirmed, Plain, Confirms, Ends, HeldSteps, Exchanges, ListSteps
<1> QED BY <1>1, <1>2, LockedTwo DEF PlaylistLoad, Checked

LEMMA DatabaseSavePlaylistSound == Sound("database_save_playlist", DatabaseSavePlaylist)
<1>1. <<"connected", "lock", "exec", "name_exists", "unlock">> \o <<"return">>
       = <<"connected", "lock", "exec", "name_exists", "unlock", "return">>
  BY Cat5_1
<1>2. Sound("database_save_playlist", <<"connected", "lock", "exec", "name_exists", "unlock", "return">>)
  BY DEF Sound, Holds, Sure, Confirmed, Plain, Confirms, Ends, HeldSteps, Exchanges, ListSteps
<1> QED BY <1>1, <1>2, LockedTwo DEF DatabaseSavePlaylist, OK

LEMMA PlayerPauseSound == Sound("player_pause", PlayerPause)
<1>1. <<"connected", "lock", "player_get_state", "pause", "unlock">> \o <<"status_update", "or_fail", "return">>
       = <<"connected", "lock", "player_get_state", "pause", "unlock", "status_update", "or_fail", "return">>
  BY Cat5_3
<1>2. Sound("player_pause", <<"connected", "lock", "player_get_state", "pause", "unlock", "status_update", "or_fail", "return">>)
  BY DEF Sound, Holds, Sure, Confirmed, Plain, Confirms, Ends, HeldSteps, Exchanges, ListSteps
<1> QED BY <1>1, <1>2, LockedTwo DEF PlayerPause

LEMMA PlayerSeekSound == Sound("player_seek", PlayerSeek)
<1>1. <<"connected", "lock", "set", "unlock">> \o <<"status_update", "or_fail", "return">>
       = <<"connected", "lock", "set", "unlock", "status_update", "or_fail", "return">>
  BY Cat4_3
<1>2. <<"player_get_current_song_pos", "or_fail">> \o <<"connected", "lock", "set", "unlock", "status_update", "or_fail", "return">>
       = <<"player_get_current_song_pos", "or_fail", "connected", "lock", "set", "unlock", "status_update", "or_fail", "return">>
  BY Cat2_7
<1>3. Sound("player_seek", <<"player_get_current_song_pos", "or_fail", "connected", "lock", "set", "unlock", "status_update", "or_fail", "return">>)
  BY DEF Sound, Holds, Sure, Confirmed, Plain, Confirms, Ends, HeldSteps, Exchanges, ListSteps
<1> QED BY <1>1, <1>2, <1>3, LockedOne DEF PlayerSeek, PlayerCommand

\* The bodies that are written out.
LEMMA SoundLiterals ==
  /\ Sound("check_error", CheckError)
  /\ Sound("ack_error", AckError)
  /\ Sound("fatal_error", FatalError)
  /\ Sound("disconnect", Disconnect)
  /\ Sound("connect", Connect)
  /\ Sound("send_password", SendPassword)
  /\ Sound("set_connection_timeout", SetConnectionTimeout)
  /\ Sound("server_get_allowed_commands", ServerGetAllowedCommands)
  /\ Sound("server_get_url_handlers", ServerGetUrlHandlers)
  /\ Sound("server_get_database_update_time", ServerGetDatabaseUpdateTime)
  /\ Sound("status_queue_update", StatusQueueUpdate)
  /\ Sound("status_update", StatusUpdate)
  /\ Sound("status_check", StatusCheck)
  /\ Sound("status_getter", StatusGetter)
  /\ Sound("current_getter", CurrentGetter)
  /\ Sound("status_get_volume", StatusGetVolume)
  /\ Sound("stats_check", StatsCheck)
  /\ Sound("stats_getter", StatsGetter)
  /\ Sound("player_get_state", PlayerGetState)
  /\ Sound("playlist_get_song_from_pos_range", PlaylistGetSongFromPosRange)
  /\ Sound("ends_as_failed", EndsAsFailed)
  /\ Sound("database_playlist_clear", DatabasePlaylistClear)
  /\ Sound("database_playlist_list_delete", DatabasePlaylistListDelete)
  /\ Sound("database_playlist_list_add", DatabasePlaylistListAdd)
  /\ Sound("database_playlist_rename", DatabasePlaylistRename)
<1>1. Sound("check_error", CheckError)
  BY DEF CheckError, Sound, Holds, Sure, Confirmed, Plain, Confirms, Ends, HeldSteps, Exchanges, ListSteps
<1>2. Sound("ack_error", AckError)
  BY DEF AckError, Sound, Holds, Sure, Confirmed, Plain, Confirms, Ends, HeldSteps, Exchanges, ListSteps
<1>3. Sound("fatal_error", FatalError)
  BY DEF FatalError, Sound, Holds, Sure, Confirmed, Plain, Confirms, Ends, HeldSteps, Exchanges, ListSteps
<1>4. Sound("disconnect", Disconnect)
  BY DEF Disconnect, Sound, Holds, Sure, Confirmed, Plain, Confirms, Ends, HeldSteps, Exchanges, ListSteps
<1>5. Sound("set_connection_timeout", SetConnectionTimeout)
  BY DEF SetConnectionTimeout, Sound, Holds, Sure, Confirmed, Plain, Confirms, Ends, HeldSteps, Exchanges, ListSteps
<1>6. Sound("server_get_allowed_commands", ServerGetAllowedCommands)
  BY DEF ServerGetAllowedCommands, Sound, Holds, Sure, Confirmed, Plain, Confirms, Ends, HeldSteps, Exchanges, ListSteps
<1>7. Sound("server_get_url_handlers", ServerGetUrlHandlers)
  BY DEF ServerGetUrlHandlers, Sound, Holds, Sure, Confirmed, Plain, Confirms, Ends, HeldSteps, Exchanges, ListSteps
<1>8. Sound("server_get_database_update_time", ServerGetDatabaseUpdateTime)
  BY DEF ServerGetDatabaseUpdateTime, Sound, Holds, Sure, Confirmed, Plain, Confirms, Ends, HeldSteps, Exchanges, ListSteps
<1>9. Sound("status_queue_update", StatusQueueUpdate)
  BY DEF StatusQueueUpdate, Sound, Holds, Sure, Confirmed, Plain, Confirms, Ends, HeldSteps, Exchanges, ListSteps
<1>10. Sound("status_update", StatusUpdate)
  BY DEF StatusUpdate, Sound, Holds, Sure, Confirmed, Plain, Confirms, Ends, HeldSteps, Exchanges, ListSteps
<1>11. Sound("status_check", StatusCheck)
  BY DEF StatusCheck, Sound, Holds, Sure, Confirmed, Plain, Confirms, Ends, HeldSteps, Exchanges, ListSteps
<1>12. Sound("status_getter", StatusGetter)
  BY DEF StatusGetter, Sound, Holds, Sure, Confirmed, Plain, Confirms, Ends, HeldSteps, Exchanges, ListSteps
<1>13. Sound("current_getter", CurrentGetter)
  BY DEF CurrentGetter, Sound, Holds, Sure, Confirmed, Plain, Confirms, Ends, HeldSteps, Exchanges, ListSteps
<1>14. Sound("status_get_volume", StatusGetVolume)
  BY DEF StatusGetVolume, Sound, Holds, Sure, Confirmed, Plain, Confirms, Ends, HeldSteps, Exchanges, ListSteps
<1>15. Sound("stats_check", StatsCheck)
  BY DEF StatsCheck, Sound, Holds, Sure, Confirmed, Plain, Confirms, Ends, HeldSteps, Exchanges, ListSteps
<1>16. Sound("stats_getter", StatsGetter)
  BY DEF StatsGetter, Sound, Holds, Sure, Confirmed, Plain, Confirms, Ends, HeldSteps, Exchanges, ListSteps
<1>17. Sound("player_get_state", PlayerGetState)
  BY DEF PlayerGetState, Sound, Holds, Sure, Confirmed, Plain, Confirms, Ends, HeldSteps, Exchanges, ListSteps
<1>18. Sound("playlist_get_song_from_pos_range", PlaylistGetSongFromPosRange)
  BY DEF PlaylistGetSongFromPosRange, Sound, Holds, Sure, Confirmed, Plain, Confirms, Ends, HeldSteps, Exchanges, ListSteps
<1>19. Sound("ends_as_failed", EndsAsFailed)
  BY DEF EndsAsFailed, Sound, Holds, Sure, Confirmed, Plain, Confirms, Ends, HeldSteps, Exchanges, ListSteps
<1>20. Sound("database_playlist_clear", DatabasePlaylistClear)
  BY DEF DatabasePlaylistClear, StoredPlaylistEdit, Sound, Holds, Sure, Confirmed, Plain, Confirms, Ends, HeldSteps, Exchanges, ListSteps
<1>21. Sound("database_playlist_list_delete", DatabasePlaylistListDelete)
  BY DEF DatabasePlaylistListDelete, StoredPlaylistEdit, Sound, Holds, Sure, Confirmed, Plain, Confirms, Ends, HeldSteps, Exchanges, ListSteps
<1>22. Sound("database_playlist_list_add", DatabasePlaylistListAdd)
  BY DEF DatabasePlaylistListAdd, StoredPlaylistEdit, Sound, Holds, Sure, Confirmed, Plain, Confirms, Ends, HeldSteps, Exchanges, ListSteps
<1>23. Sound("database_playlist_rename", DatabasePlaylistRename)
  BY DEF DatabasePlaylistRename, StoredPlaylistEdit, Sound, Holds, Sure, Confirmed, Plain, Confirms, Ends, HeldSteps, Exchanges, ListSteps
<1>24. Sound("connect", Connect)
  <2>1. CASE HasPassword
    BY <2>1 DEF Connect, OK, Sound, Holds, Sure, Confirmed, Plain, Confirms, Ends, HeldSteps, Exchanges, ListSteps
  <2>2. CASE ~HasPassword
    BY <2>2 DEF Connect, OK, Sound, Holds, Sure, Confirmed, Plain, Confirms, Ends, HeldSteps, Exchanges, ListSteps
  <2> QED BY <2>1, <2>2
<1>25. Sound("send_password", SendPassword)
  <2>1. CASE HasPassword
    BY <2>1 DEF SendPassword, OK, Sound, Holds, Sure, Confirmed, Plain, Confirms, Ends, HeldSteps, Exchanges, ListSteps
  <2>2. CASE ~HasPassword
    BY <2>2 DEF SendPassword, OK, Sound, Holds, Sure, Confirmed, Plain, Confirms, Ends, HeldSteps, Exchanges, ListSteps
  <2> QED BY <2>1, <2>2
<1> QED BY <1>1, <1>2, <1>3, <1>4, <1>5, <1>6, <1>7, <1>8, <1>9, <1>10, <1>11, <1>12, <1>13, <1>14, <1>15, <1>16, <1>17, <1>18, <1>19, <1>20, <1>21, <1>22, <1>23, <1>24, <1>25

LEMMA EverySound == \A op \in DOMAIN Code : Sound(op, Code[op])
<1>1. \A op \in {"server_update_outputs", "server_get_output_devices", "playlist_get_song",
                "playlist_get_song_from_pos", "playlist_get_changes", "playlist_get_changes_posid",
                "database_get_fileinfo", "server_set_output_device", "server_get_tag_types",
                "server_get_replaygain_mode", "database_get_artists", "database_get_albums",
                "database_get_complete", "database_find", "database_get_directory",
                "database_get_directory_recursive"} :
       Sound(op, Code[op])
  BY SoundBodies DEF Code
<1>2. \A op \in {"database_delete_playlist", "database_playlist_move", "database_playlist_list",
                "server_set_replaygain_mode", "status_set_volume", "status_set_crossfade",
                "player_set_single", "player_set_consume", "player_set_repeat", "player_set_random",
                "stats_update", "stats_update_real", "player_get_next_song_id",
                "player_get_next_song_pos", "player_get_current_song_id",
                "player_get_current_song_pos"} :
       Sound(op, Code[op])
  BY SoundBodies DEF Code
<1>3. \A op \in {"player_play_id", "player_stop", "player_next", "player_prev",
                "playlist_get_current_song", "playlist_clear", "playlist_queue_commit",
                "database_update_dir", "playlist_shuffle", "playlist_move_id", "playlist_move_pos",
                "playlist_add_get_id", "playlist_set_priority", "database_get_playlist_content",
                "sticker_song_get", "sticker_song_set"} :
       Sound(op, Code[op])
  BY SoundBodies DEF Code
<1>4. \A op \in {"playlist_load", "database_save_playlist", "player_pause", "player_seek"} : Sound(op, Code[op])
  BY PlaylistLoadSound, DatabaseSavePlaylistSound, PlayerPauseSound, PlayerSeekSound DEF Code
<1>5. \A op \in {"check_error", "ack_error", "fatal_error", "disconnect", "connect", "send_password",
                "set_connection_timeout", "server_get_allowed_commands", "server_get_url_handlers",
                "server_get_database_update_time", "status_queue_update", "status_update",
                "status_check", "status_getter", "current_getter", "status_get_volume",
                "stats_check", "stats_getter", "player_get_state",
                "playlist_get_song_from_pos_range", "ends_as_failed", "database_playlist_clear",
                "database_playlist_list_delete", "database_playlist_list_add",
                "database_playlist_rename"} :
       Sound(op, Code[op])
  BY SoundLiterals DEF Code
<1> QED BY <1>1, <1>2, <1>3, <1>4, <1>5 DEF Code

-----------------------------------------------------------------------------
(* The call stack *)

\* A running function is at one of its steps.
Placed == {f \in Frames : f.op # "user" => f.at \in 1 .. Len(Code[f.op])}

Cons(f, s) == <<f>> \o s
On(f, n)   == [f EXCEPT !.at = @ + n]

Body(f)   == Code[f.op]
Step(f)   == Body(f)[f.at]
Before(f) == Body(f)[f.at - 1]

\* mpd_player_pause waits for the state, with the lock, and what it calls for it.
Pauser(f) == f.op = "player_pause" /\ f.at = 4
Asks(f) ==
  \/ f.op \in {"player_get_state", "status_check"}
  \/ f.op = "status_update" /\ f.at \in {1, 2}

\* mpd_connect_real waits for the error of the connection it has opened and
\* not accepted; one that failed is not closed yet.
Opener(f)   == f.op = "connect" /\ f.at = 4
Opens(f, g) == Opener(g) /\ (f.op = "check_error" \/ (f.op = "fatal_error" /\ f.at \in {1, 2}))

Pausing(s)     == \E i \in 1 .. Len(s) : Pauser(s[i])
Opening(s)     == \E i \in 1 .. Len(s) - 1 : Opens(s[i], s[i + 1])
Undisturbed(s) == \A i \in 1 .. Len(s) : Pauser(s[i]) => \A j \in 1 .. i - 1 : Asks(s[j])

\* Steps that call nothing.
Steady == {"lock", "open", "look", "connected", "if_connected", "accept", "or_fail"} \cup Plain \cup HeldSteps

\* Function op may run for step s of its caller.
Serves(op, s) ==
  /\ s \in {"unlock", "check_error"} => op \in {"check_error", "ack_error", "fatal_error"}
  /\ s = "need_status" => op = "status_update"
  /\ s \in {"status_check", "playlist_get_song", "player_get_state"} => op = s

Links(f, g) == g.op # "user" => g.at > 1 /\ Before(g) \notin Steady /\ Serves(f.op, Before(g))

\* The program is at the bottom, and whoever waits waits for a call it made.
Shape(s) ==
  /\ s \in Seq(Placed) /\ Len(s) > 0 /\ s[Len(s)].op = "user"
  /\ \A i \in 1 .. Len(s) - 1 : Links(s[i], s[i + 1])

LEMMA ConsProperties ==
  ASSUME NEW s \in Seq(Placed), NEW f \in Placed
  PROVE  /\ Cons(f, s) \in Seq(Placed) /\ Len(Cons(f, s)) = Len(s) + 1
         /\ Cons(f, s)[1] = f /\ \A i \in 1 .. Len(s) : Cons(f, s)[i + 1] = s[i]
         /\ \A i \in 2 .. Len(s) + 1 : Cons(f, s)[i] = s[i - 1]
         /\ Head(Cons(f, s)) = f /\ Tail(Cons(f, s)) = s /\ Cons(f, s) # <<>>
<1>1. <<f>> \in Seq(Placed) /\ Len(<<f>>) = 1 /\ <<f>>[1] = f
  OBVIOUS
<1>2. /\ Cons(f, s) \in Seq(Placed) /\ Len(Cons(f, s)) = 1 + Len(s)
      /\ \A i \in 1 .. 1 + Len(s) : Cons(f, s)[i] = IF i <= 1 THEN <<f>>[i] ELSE s[i - 1]
  BY <1>1, ConcatProperties DEF Cons
<1>3. Len(s) \in Nat
  OBVIOUS
<1>4. Cons(f, s)[1] = f
  BY <1>1, <1>2, <1>3
<1>5. \A i \in 1 .. Len(s) : Cons(f, s)[i + 1] = s[i]
  BY <1>2, <1>3
<1>6. \A i \in 2 .. Len(s) + 1 : Cons(f, s)[i] = s[i - 1]
  BY <1>2, <1>3
<1>7. Head(Cons(f, s)) = f /\ Cons(f, s) # <<>>
  BY <1>2, <1>3, <1>4
<1>8. Tail(Cons(f, s)) = s
  <2> DEFINE t == Tail(Cons(f, s))
  <2>1. t \in Seq(Placed) /\ Len(t) = Len(s) /\ \A i \in 1 .. Len(t) : t[i] = Cons(f, s)[i + 1]
    BY <1>2, <1>3, <1>7, HeadTailProperties
  <2> HIDE DEF t
  <2>2. \A i \in 1 .. Len(t) : t[i] = s[i]
    BY <1>5, <2>1
  <2>3. t = s
    BY <2>1, <2>2, SeqEqual
  <2> QED BY <2>3 DEF t
<1> QED BY <1>2, <1>3, <1>4, <1>5, <1>6, <1>7, <1>8

\* A stack that is not empty is its first frame and the rest.
LEMMA Apart ==
  ASSUME NEW s \in Seq(Placed), s # <<>>
  PROVE  /\ Head(s) \in Placed /\ Tail(s) \in Seq(Placed) /\ s = Cons(Head(s), Tail(s))
         /\ Len(Tail(s)) = Len(s) - 1 /\ s[1] = Head(s)
         /\ Len(s) > 1 => Tail(s) # <<>> /\ Head(Tail(s)) = s[2]
<1> DEFINE h == Head(s)
           r == Tail(s)
           t == Cons(h, r)
<1>1. /\ Len(s) \in Nat /\ Len(s) > 0 /\ h = s[1] /\ h \in Placed
      /\ r \in Seq(Placed) /\ Len(r) = Len(s) - 1
      /\ \A i \in 1 .. Len(r) : r[i] = s[i + 1]
  BY HeadTailProperties
<1>2. /\ t \in Seq(Placed) /\ Len(t) = Len(r) + 1 /\ t[1] = h
      /\ \A i \in 1 .. Len(r) : t[i + 1] = r[i]
  <2> HIDE DEF h, r
  <2> QED BY <1>1, ConsProperties
<1>3. s = t
  <2> HIDE DEF h, r, t
  <2>1. ASSUME NEW i \in 1 .. Len(s) PROVE t[i] = s[i]
    <3>1. CASE i = 1
      BY <1>1, <1>2, <3>1
    <3>2. CASE i # 1
      <4>1. i - 1 \in 1 .. Len(r) /\ (i - 1) + 1 = i
        BY <1>1, <3>2
      <4>2. t[(i - 1) + 1] = r[i - 1] /\ r[i - 1] = s[(i - 1) + 1]
        BY <1>1, <1>2, <4>1
      <4> QED BY <4>1, <4>2
    <3> QED BY <3>1, <3>2
  <2> QED BY <1>1, <1>2, <2>1, SeqEqual
<1>4. Len(s) > 1 => r # <<>> /\ Head(r) = s[2]
  <2> HIDE DEF h, r
  <2>1. ASSUME Len(s) > 1 PROVE r # <<>> /\ Head(r) = s[2]
    <3>1. Len(r) > 0 /\ 1 \in 1 .. Len(r)
      BY <1>1, <2>1
    <3>2. r # <<>> /\ Head(r) = r[1] /\ r[1] = s[1 + 1]
      BY <1>1, <3>1
    <3> QED BY <3>2
  <2> QED BY <2>1
<1> QED BY <1>1, <1>3, <1>4 DEF h, r, t

\* What one more frame makes of the stack.
LEMMA ConsFacts ==
  ASSUME NEW s \in Seq(Placed), NEW f \in Placed
  PROVE  /\ Pausing(Cons(f, s)) <=> Pauser(f) \/ Pausing(s)
         /\ Undisturbed(Cons(f, s)) <=> Undisturbed(s) /\ (Pausing(s) => Asks(f))
         /\ s # <<>> => (Opening(Cons(f, s)) <=> Opens(f, Head(s)) \/ Opening(s))
         /\ s # <<>> => (Shape(Cons(f, s)) <=> Shape(s) /\ Links(f, Head(s)))
         /\ s = <<>> => ~Opening(Cons(f, s)) /\ (Shape(Cons(f, s)) <=> f.op = "user")
<1> DEFINE t == Cons(f, s)
<1>1. /\ t \in Seq(Placed) /\ Len(t) = Len(s) + 1 /\ t[1] = f
      /\ \A i \in 1 .. Len(s) : t[i + 1] = s[i]
      /\ \A i \in 2 .. Len(s) + 1 : t[i] = s[i - 1]
  BY ConsProperties
<1>2. Len(s) \in Nat
  OBVIOUS
<1> HIDE DEF t
<1>3. /\ 1 \in 1 .. Len(t)
      /\ \A i \in 1 .. Len(s) : i + 1 \in 1 .. Len(t)
      /\ \A i \in 1 .. Len(t) : i = 1 \/ (i - 1 \in 1 .. Len(s) /\ t[i] = s[i - 1])
  BY <1>1, <1>2
<1>4. Pausing(t) <=> Pauser(f) \/ Pausing(s)
  BY <1>1, <1>3 DEF Pausing
<1>5. Undisturbed(t) <=> Undisturbed(s) /\ (Pausing(s) => Asks(f))
  <2>1. ASSUME Undisturbed(t) PROVE Undisturbed(s) /\ (Pausing(s) => Asks(f))
    <3>1. ASSUME NEW i \in 1 .. Len(s), Pauser(s[i]), NEW j \in 1 .. i - 1 PROVE Asks(s[j])
      <4>1. i + 1 \in 1 .. Len(t) /\ t[i + 1] = s[i] /\ j + 1 \in 1 .. (i + 1) - 1 /\ t[j + 1] = s[j]
        BY <1>1, <1>2
      <4> QED BY <2>1, <3>1, <4>1 DEF Undisturbed
    <3>2. ASSUME NEW i \in 1 .. Len(s), Pauser(s[i]) PROVE Asks(f)
      <4>1. i + 1 \in 1 .. Len(t) /\ t[i + 1] = s[i] /\ 1 \in 1 .. (i + 1) - 1
        BY <1>1, <1>2
      <4> QED BY <1>1, <2>1, <3>2, <4>1 DEF Undisturbed
    <3> QED BY <3>1, <3>2 DEF Undisturbed, Pausing
  <2>2. ASSUME Undisturbed(s), Pausing(s) => Asks(f) PROVE Undisturbed(t)
    <3>1. ASSUME NEW i \in 1 .. Len(t), Pauser(t[i]), NEW j \in 1 .. i - 1 PROVE Asks(t[j])
      <4>1. i # 1 /\ i - 1 \in 1 .. Len(s) /\ t[i] = s[i - 1]
        BY <1>1, <1>2, <3>1
      <4>2. CASE j = 1
        BY <1>1, <2>2, <3>1, <4>1, <4>2 DEF Pausing
      <4>3. CASE j # 1
        <5>1. j - 1 \in 1 .. (i - 1) - 1 /\ t[j] = s[j - 1]
          BY <1>1, <1>2, <4>1, <4>3
        <5> QED BY <2>2, <3>1, <4>1, <5>1 DEF Undisturbed
      <4> QED BY <4>2, <4>3
    <3> QED BY <3>1 DEF Undisturbed
  <2> QED BY <2>1, <2>2
<1>6. CASE s # <<>>
  <2>1. Len(s) > 0 /\ Head(s) = s[1] /\ t[1 + 1] = s[1]
    BY <1>1, <1>2, <1>6
  <2>2. Opening(t) <=> Opens(f, Head(s)) \/ Opening(s)
    <3>1. ASSUME NEW i \in 1 .. Len(t) - 1, Opens(t[i], t[i + 1]) PROVE Opens(f, Head(s)) \/ Opening(s)
      <4>1. CASE i = 1
        BY <1>1, <2>1, <3>1, <4>1
      <4>2. CASE i # 1
        <5>1. i - 1 \in 1 .. Len(s) - 1 /\ t[i] = s[i - 1] /\ t[i + 1] = s[(i - 1) + 1]
          BY <1>1, <1>2, <4>2
        <5> QED BY <3>1, <5>1 DEF Opening
      <4> QED BY <4>1, <4>2
    <3>2. Opens(f, Head(s)) => Opening(t)
      <4>1. 1 \in 1 .. Len(t) - 1
        BY <1>1, <1>2, <2>1
      <4> QED BY <1>1, <2>1, <4>1 DEF Opening
    <3>3. ASSUME NEW i \in 1 .. Len(s) - 1, Opens(s[i], s[i + 1]) PROVE Opening(t)
      <4>1. i + 1 \in 1 .. Len(t) - 1 /\ t[i + 1] = s[i] /\ t[(i + 1) + 1] = s[i + 1]
        BY <1>1, <1>2
      <4> QED BY <3>3, <4>1 DEF Opening
    <3> QED BY <3>1, <3>2, <3>3 DEF Opening
  <2>3. t[Len(t)] = s[Len(s)]
    BY <1>1, <1>2, <2>1
  <2>4. (\A i \in 1 .. Len(t) - 1 : Links(t[i], t[i + 1]))
          <=> Links(f, Head(s)) /\ \A i \in 1 .. Len(s) - 1 : Links(s[i], s[i + 1])
    <3>1. ASSUME \A i \in 1 .. Len(t) - 1 : Links(t[i], t[i + 1])
          PROVE  Links(f, Head(s)) /\ \A i \in 1 .. Len(s) - 1 : Links(s[i], s[i + 1])
      <4>1. 1 \in 1 .. Len(t) - 1
        BY <1>1, <1>2, <2>1
      <4>2. ASSUME NEW i \in 1 .. Len(s) - 1 PROVE Links(s[i], s[i + 1])
        <5>1. i + 1 \in 1 .. Len(t) - 1 /\ t[i + 1] = s[i] /\ t[(i + 1) + 1] = s[i + 1]
          BY <1>1, <1>2
        <5> QED BY <3>1, <5>1
      <4> QED BY <1>1, <2>1, <3>1, <4>1, <4>2
    <3>2. ASSUME Links(f, Head(s)), \A i \in 1 .. Len(s) - 1 : Links(s[i], s[i + 1]),
                 NEW i \in 1 .. Len(t) - 1
          PROVE  Links(t[i], t[i + 1])
      <4>1. CASE i = 1
        BY <1>1, <2>1, <3>2, <4>1
      <4>2. CASE i # 1
        <5>1. i - 1 \in 1 .. Len(s) - 1 /\ t[i] = s[i - 1] /\ t[i + 1] = s[(i - 1) + 1]
          BY <1>1, <1>2, <4>2
        <5> QED BY <3>2, <5>1
      <4> QED BY <4>1, <4>2
    <3> QED BY <3>1, <3>2
  <2>5. Shape(t) <=> Shape(s) /\ Links(f, Head(s))
    BY <1>1, <1>2, <2>1, <2>3, <2>4 DEF Shape
  <2> QED BY <1>4, <1>5, <1>6, <2>2, <2>5 DEF t
<1>7. CASE s = <<>>
  <2>1. Len(t) = 1
    BY <1>1, <1>7
  <2>2. ~Opening(t) /\ (Shape(t) <=> f.op = "user")
    BY <1>1, <2>1 DEF Opening, Shape
  <2> QED BY <1>4, <1>5, <1>7, <2>2 DEF t
<1> QED BY <1>6, <1>7

-----------------------------------------------------------------------------
(* The invariant *)

\* The running function holds the lock, or is certain of the connection.
Holder(f) == f.op # "user" /\ Holds(Body(f), f.at)
SureAt(f) == f.op # "user" /\ Sure(Body(f), f.at)

\* What is only so while a function is at it: a connection whose lock is
\* taken, or one that is there and not accepted.
Odd == IF connected THEN lock ELSE conn # None

\* The running function sees to it: it holds the lock, or it is mpd_disconnect.
SeesToIt(f) ==
  /\ f.op # "user"
  /\ \/ Holder(f) /\ ~(Opener(f) /\ result # "ok")
     \/ Step(f) = "close"

\* Who holds the lock has it and a connection; mpd_connect_real has one of its own.
HasLock(f) == Holder(f) /\ (f.op = "connect" => f.at = 6) => connected /\ lock

HasOpened(f, g) ==
  /\ f.op = "connect" /\ f.at = 3 => conn # None /\ lock /\ conn.error # "ACK"
  /\ f.op = "connect" /\ (f.at = 5 \/ (f.at = 4 /\ result = "ok")) => conn # None /\ lock
  /\ f.op = "check_error" /\ Opener(g) => conn # None /\ lock /\ (f.at = 1 => conn.error # "ACK")

\* What the running function knows of the connection.
IsSure(f, g) ==
  /\ SureAt(f) => connected
  /\ f.op # "user" /\ f.at > 1 /\ Before(f) \in Confirms /\ Step(f) = "or_fail" /\ result = "ok" => connected
  /\ f.op = "check_error" /\ ~Opener(g) => connected

Calls(s) ==
  /\ Shape(s) /\ Undisturbed(s)
  /\ Pausing(Tail(s)) => connected /\ lock
  /\ Odd => Pausing(Tail(s)) \/ Opening(s) \/ SeesToIt(Head(s))
  /\ HasLock(Head(s)) /\ HasOpened(Head(s), Head(Tail(s))) /\ IsSure(Head(s), Head(Tail(s)))

Typed ==
  /\ connected \in BOOLEAN /\ lock \in BOOLEAN
  /\ conn \in Connections \cup {None}
  /\ status \in Statuses /\ cache \subseteq Cacheable
  /\ result \in {"ok", "failed", "disconnect"}

\* A session has a connection, and what is known of the server came by it.
Known ==
  /\ connected => conn # None
  /\ ~connected => status = "none" /\ cache = {}

IInv == Typed /\ Known /\ (stack # <<>> => Calls(stack))

-----------------------------------------------------------------------------
(* What a frame's step says *)

\* Where a call that succeeded ends.
Successes == {"return", "return_result", "if_connected", "if_no_song", "if_no_handlers"}

LEMMA OnFacts ==
  ASSUME NEW f \in Placed, NEW n \in {1, 2}
  PROVE  /\ f.at \in Nat \ {0} /\ f.op \in DOMAIN Code \cup {"user"}
         /\ On(f, n).op = f.op /\ On(f, n).at = f.at + n /\ On(f, n) \in Frames
         /\ Body(On(f, n)) = Body(f)
         /\ f.op # "user" => f.op \in DOMAIN Code /\ f.at \in 1 .. Len(Body(f)) /\ Sound(f.op, Body(f))
<1>1. f \in [op : DOMAIN Code \cup {"user"}, at : Nat \ {0}]
  BY DEF Placed, Frames
<1>2. f.at \in Nat \ {0} /\ f.op \in DOMAIN Code \cup {"user"}
  BY <1>1
<1>3. On(f, n).op = f.op /\ On(f, n).at = f.at + n /\ On(f, n) \in Frames
  BY <1>1 DEF On, Frames
<1>4. Body(On(f, n)) = Body(f)
  BY <1>3 DEF Body
<1>5. f.op # "user" => f.op \in DOMAIN Code /\ f.at \in 1 .. Len(Body(f)) /\ Sound(f.op, Body(f))
  BY <1>2, EverySound DEF Placed, Body
<1> QED BY <1>2, <1>3, <1>4, <1>5

\* The first step of a function, or of the program.
LEMMA FrameFacts ==
  ASSUME NEW op \in DOMAIN Code \cup {"user"}
  PROVE  /\ Frame(op) \in Placed /\ Frame(op).op = op /\ Frame(op).at = 1
         /\ ~SureAt(Frame(op)) /\ (Holder(Frame(op)) => op = "ends_as_failed")
<1>1. Frame(op) \in Frames /\ Frame(op).op = op /\ Frame(op).at = 1
  BY DEF Frame, Frames
<1>2. op # "user" => Len(Code[op]) \in Nat \ {0} /\ (Holds(Code[op], 1) => op = "ends_as_failed")
  BY EverySound DEF Sound
<1>3. Frame(op) \in Placed
  BY <1>1, <1>2 DEF Placed
<1>4. ~SureAt(Frame(op))
  BY <1>1 DEF SureAt, Sure
<1>5. Holder(Frame(op)) => op = "ends_as_failed"
  BY <1>1, <1>2 DEF Holder, Body
<1> QED BY <1>1, <1>3, <1>4, <1>5

\* The bodies that the invariant speaks of by name.
LEMMA Bodies ==
  /\ Code["check_error"] = <<"look", "return">>
  /\ Code["ack_error"] = <<"error_callback", "obey", "return_failed">>
  /\ Code["fatal_error"] = <<"error_callback", "disconnect", "return_failed">>
  /\ Code["ends_as_failed"] = <<"unlock", "return_failed">>
  /\ Code["disconnect"] = <<"close", "return">>
  /\ Code["status_check"] = <<"connected", "need_status", "or_fail", "return">>
  /\ Code["player_get_state"] = <<"connected", "status_check", "or_fail", "status_value", "return">>
  /\ Code["status_update"] = StatusUpdate
  /\ Code["connect"] = Connect
  /\ Code["player_pause"] = <<"connected", "lock", "player_get_state", "pause", "unlock",
                              "status_update", "or_fail", "return">>
  /\ Code["playlist_get_song"] = <<"connected", "lock", "exec", "unlock", "or_fail", "return">>
<1>1. <<"connected", "lock", "player_get_state", "pause", "unlock">> \o <<"status_update", "or_fail", "return">>
       = <<"connected", "lock", "player_get_state", "pause", "unlock", "status_update", "or_fail", "return">>
  BY Cat5_3
<1>2. <<"connected", "lock", "exec", "unlock">> \o <<"or_fail", "return">>
       = <<"connected", "lock", "exec", "unlock", "or_fail", "return">>
  BY Cat4_2
<1>3. PlayerPause = <<"connected", "lock", "player_get_state", "pause", "unlock",
                      "status_update", "or_fail", "return">>
  BY <1>1, LockedTwo DEF PlayerPause
<1>4. PlaylistGetSong = <<"connected", "lock", "exec", "unlock", "or_fail", "return">>
  BY <1>2, LockedOne DEF PlaylistGetSong, Checked
<1>5. /\ Code["player_pause"] = PlayerPause /\ Code["playlist_get_song"] = PlaylistGetSong
      /\ Code["connect"] = Connect /\ Code["status_update"] = StatusUpdate
  BY DEF Code
<1>6. /\ Code["check_error"] = CheckError /\ Code["ack_error"] = AckError /\ Code["fatal_error"] = FatalError
      /\ Code["ends_as_failed"] = EndsAsFailed /\ Code["disconnect"] = Disconnect
      /\ Code["status_check"] = StatusCheck /\ Code["player_get_state"] = PlayerGetState
  BY DEF Code
<1> QED BY <1>3, <1>4, <1>5, <1>6
        DEF CheckError, AckError, FatalError, EndsAsFailed, Disconnect, StatusCheck, PlayerGetState

LEMMA FunctionNames ==
  /\ {"check_error", "ack_error", "fatal_error", "ends_as_failed", "disconnect", "status_check",
      "player_get_state", "status_update", "connect", "player_pause", "playlist_get_song",
      "stats_update", "stats_update_real", "server_update_outputs"} \subseteq DOMAIN Code
  /\ "user" \notin DOMAIN Code
  /\ DOMAIN Code \cap (Steady \cup Ends \cup Tests) = {}
  /\ \A s \in DOMAIN Code : s \notin {"open", "accept", "unlock", "close", "watch", "need_status"}
BY DEF Code, Steady, Ends, Tests, Plain, HeldSteps, Exchanges, ListSteps

\* Sound, at the step a frame is at.
LEMMA StepFacts ==
  ASSUME NEW f \in Placed, f.op # "user"
  PROVE  /\ Step(f) \notin Ends => On(f, 1) \in Placed
         /\ Step(f) \in {"lock", "open"} => Holder(On(f, 1))
         /\ Holder(f) => \/ Step(f) = "unlock"
                         \/ Step(f) \in HeldSteps /\ Holder(On(f, 1))
                         \/ f.op = "connect" /\ f.at \in 3 .. 5
                         \/ f.op = "player_pause" /\ f.at = 3
         /\ Holder(On(f, 1)) => (Holder(f) /\ Step(f) # "unlock") \/ Step(f) \in {"lock", "open"}
         /\ Step(f) \in Exchanges \cup {"load_failed", "name_exists", "forgive", "pause", "unlock"} => Holder(f)
         /\ Step(f) \in {"lock", "keep_song"} => SureAt(f)
         /\ Step(f) = "look" => f.op = "check_error" /\ f.at = 1
         /\ Step(f) = "close" => f.op = "disconnect" /\ f.at = 1
         /\ Step(f) = "open" => f.op = "connect" /\ f.at = 2
         /\ Step(f) = "check_error" => f.op = "connect" /\ f.at = 3
         /\ Step(f) = "accept" => f.op = "connect" /\ f.at = 5
         /\ Step(f) = "watch" => f.op = "status_update" /\ f.at = 10
         /\ Step(f) \in {"load_failed", "name_exists"} => f.op \in {"playlist_load", "database_save_playlist"}
         /\ Step(f) \in HeldSteps \cup {"clear_error", "watch"} => f.op \notin {"connect", "check_error"}
         /\ Step(f) # "ends_as_failed"
<1> DEFINE b == Body(f)
           n == f.at
           h == On(f, 1)
<1>1. /\ h.op = f.op /\ h.at = n + 1 /\ h \in Frames /\ Body(h) = b
      /\ n \in 1 .. Len(b) /\ n \in Nat \ {0} /\ Sound(f.op, b) /\ Code[f.op] = b
  BY OnFacts DEF Body
<1>2. /\ Holder(f) <=> Holds(b, n)
      /\ Holder(h) <=> Holds(b, n + 1)
      /\ SureAt(f) <=> Sure(b, n)
      /\ Step(f) = b[n]
  BY <1>1 DEF Holder, SureAt, Step
<1> HIDE DEF b, n, h
<1>3. b[n] \notin Ends => h \in Placed
  <2>1. b[n] \notin Ends => n + 1 \in 1 .. Len(b)
    BY <1>1 DEF Sound
  <2> QED BY <1>1, <2>1 DEF Placed
<1>4. /\ b[n] \in {"lock", "open"} => Holds(b, n + 1)
      /\ Holds(b, n) => \/ b[n] = "unlock"
                        \/ b[n] \in HeldSteps /\ Holds(b, n + 1)
                        \/ f.op = "connect" /\ n \in 3 .. 5
                        \/ f.op = "player_pause" /\ n = 3
      /\ Holds(b, n + 1) => (Holds(b, n) /\ b[n] # "unlock") \/ b[n] \in {"lock", "open"}
      /\ b[n] \in Exchanges \cup {"load_failed", "name_exists", "forgive", "pause", "unlock"} => Holds(b, n)
      /\ b[n] \in {"lock", "keep_song"} => Sure(b, n)
  BY <1>1 DEF Sound
<1>5. /\ b[n] = "look" => f.op = "check_error" /\ n = 1
      /\ b[n] = "close" => f.op = "disconnect" /\ n = 1
      /\ b[n] = "open" => f.op = "connect" /\ n = 2
      /\ b[n] = "check_error" => f.op = "connect" /\ n = 3
      /\ b[n] = "accept" => f.op = "connect" /\ n = 5
      /\ b[n] = "watch" => f.op = "status_update" /\ n = 10
      /\ b[n] \in {"load_failed", "name_exists"} => f.op \in {"playlist_load", "database_save_playlist"}
      /\ b[n] \in HeldSteps \cup {"clear_error", "watch"} => f.op \notin {"connect", "check_error"}
      /\ b[n] # "ends_as_failed"
  BY <1>1 DEF Sound
<1> QED BY <1>2, <1>3, <1>4, <1>5 DEF h, n

\* What a function at its next step is certain of was so before, or is by the
\* step it has made.
LEMMA SureFacts ==
  ASSUME NEW f \in Placed, f.op # "user", SureAt(On(f, 1))
  PROVE  \/ Step(f) \in {"connected", "if_connected", "accept"}
         \/ Step(f) = "or_fail" /\ f.at > 1 /\ Before(f) \in Confirms
         \/ SureAt(f) /\ Step(f) \in Plain
<1>1. /\ On(f, 1).op = f.op /\ On(f, 1).at = f.at + 1 /\ Body(On(f, 1)) = Body(f)
      /\ f.at \in Nat \ {0}
  BY OnFacts
<1>2. PICK i \in 1 .. f.at : Confirmed(Body(f), i) /\ \A j \in i + 1 .. f.at : Body(f)[j] \in Plain
  <2>1. (f.at + 1) - 1 = f.at
    BY <1>1
  <2> QED BY <1>1, <2>1 DEF SureAt, Sure
<1>3. CASE i = f.at
  BY <1>2, <1>3 DEF Confirmed, Step, Before
<1>4. CASE i # f.at
  <2>1. i \in 1 .. f.at - 1 /\ f.at \in i + 1 .. f.at /\ \A j \in i + 1 .. f.at - 1 : j \in i + 1 .. f.at
    BY <1>1, <1>4
  <2>2. Step(f) \in Plain /\ Sure(Body(f), f.at)
    BY <1>2, <2>1 DEF Step, Sure
  <2> QED BY <2>2 DEF SureAt
<1> QED BY <1>3, <1>4

\* The functions the invariant speaks of by name.
LEMMA NamedSteps ==
  ASSUME NEW f \in Placed, f.op # "user"
  PROVE  /\ f.op = "check_error" => (Step(f) = "look" /\ f.at = 1) \/ (Step(f) = "return" /\ f.at = 2)
         /\ f.op = "fatal_error" => \/ f.at = 1 /\ Step(f) = "error_callback"
                                    \/ f.at = 2 /\ Step(f) = "disconnect"
                                    \/ f.at = 3 /\ Step(f) = "return_failed"
         /\ f.op = "ack_error" => Step(f) \in {"error_callback", "obey", "return_failed"}
         /\ f.op = "connect" => /\ f.at = 3 => Step(f) = "check_error"
                                /\ f.at = 4 => Step(f) = "or_fail" /\ Before(f) = "check_error"
                                /\ f.at = 5 => Step(f) = "accept"
                                /\ f.at = 6 => Step(f) = "unlock"
                                /\ f.at = 2 => Step(f) = "open"
                                /\ Before(f) \notin Steady /\ f.at > 1 => f.at # 3 /\ f.at # 5 /\ f.at # 6
         /\ f.op = "player_pause" => /\ f.at = 3 => Step(f) = "player_get_state"
                                     /\ f.at = 4 => Before(f) = "player_get_state"
         /\ f.op = "status_check" => /\ Step(f) \in {"connected", "need_status", "or_fail", "return"}
                                     /\ Step(f) = "return" => SureAt(f)
         /\ f.op = "player_get_state" =>
              Step(f) \in {"connected", "status_check", "or_fail", "status_value", "return"}
         /\ f.op = "status_update" => /\ f.at = 1 => Step(f) = "connected"
                                      /\ f.at = 2 => Step(f) = "lock"
                                      /\ Step(f) \in Successes => SureAt(f)
         /\ f.op = "playlist_get_song" /\ Step(f) \in Successes => SureAt(f)
<1>1. f.at \in 1 .. Len(Body(f)) /\ Body(f) = Code[f.op]
  BY OnFacts DEF Body
<1>2. f.op = "check_error" => (Step(f) = "look" /\ f.at = 1) \/ (Step(f) = "return" /\ f.at = 2)
  BY <1>1, Bodies DEF Step
<1>3. f.op = "fatal_error" => \/ f.at = 1 /\ Step(f) = "error_callback"
                              \/ f.at = 2 /\ Step(f) = "disconnect"
                              \/ f.at = 3 /\ Step(f) = "return_failed"
  BY <1>1, Bodies DEF Step
<1>4. f.op = "ack_error" => Step(f) \in {"error_callback", "obey", "return_failed"}
  BY <1>1, Bodies DEF Step
<1>5. f.op = "connect" => /\ f.at = 3 => Step(f) = "check_error"
                          /\ f.at = 4 => Step(f) = "or_fail" /\ Before(f) = "check_error"
                          /\ f.at = 5 => Step(f) = "accept"
                          /\ f.at = 6 => Step(f) = "unlock"
                          /\ f.at = 2 => Step(f) = "open"
                          /\ Before(f) \notin Steady /\ f.at > 1 => f.at # 3 /\ f.at # 5 /\ f.at # 6
  BY <1>1, Bodies DEF Step, Before, Connect, Steady
<1>6. f.op = "player_pause" => /\ f.at = 3 => Step(f) = "player_get_state"
                               /\ f.at = 4 => Before(f) = "player_get_state"
  BY <1>1, Bodies DEF Step, Before
<1>7. f.op = "status_check" => /\ Step(f) \in {"connected", "need_status", "or_fail", "return"}
                               /\ Step(f) = "return" => SureAt(f)
  <2> SUFFICES ASSUME f.op = "status_check"
               PROVE  /\ Step(f) \in {"connected", "need_status", "or_fail", "return"}
                      /\ Step(f) = "return" => SureAt(f)
    OBVIOUS
  <2>1. Body(f) = <<"connected", "need_status", "or_fail", "return">>
    BY <1>1, Bodies
  <2>2. Step(f) \in {"connected", "need_status", "or_fail", "return"} /\ (Step(f) = "return" => f.at = 4)
    BY <1>1, <2>1 DEF Step
  <2>3. Confirmed(Body(f), 3)
    BY <2>1 DEF Confirmed, Confirms
  <2>4. Sure(Body(f), 4)
    BY <2>3 DEF Sure
  <2> QED BY <2>2, <2>4 DEF SureAt
<1>8. f.op = "player_get_state" =>
        Step(f) \in {"connected", "status_check", "or_fail", "status_value", "return"}
  BY <1>1, Bodies DEF Step
<1>9. f.op = "status_update" => /\ f.at = 1 => Step(f) = "connected"
                                /\ f.at = 2 => Step(f) = "lock"
                                /\ Step(f) \in Successes => SureAt(f)
  <2> SUFFICES ASSUME f.op = "status_update"
               PROVE  /\ f.at = 1 => Step(f) = "connected"
                      /\ f.at = 2 => Step(f) = "lock"
                      /\ Step(f) \in Successes => SureAt(f)
    OBVIOUS
  <2>1. Body(f) = StatusUpdate
    BY <1>1, Bodies
  <2>2. /\ f.at = 1 => Step(f) = "connected"
        /\ f.at = 2 => Step(f) = "lock"
        /\ Step(f) \in Successes => f.at = 14
    BY <1>1, <2>1 DEF Step, StatusUpdate, Successes
  <2>3. Confirmed(Body(f), 13)
    BY <2>1 DEF Confirmed, StatusUpdate
  <2>4. Sure(Body(f), 14)
    BY <2>3 DEF Sure
  <2> QED BY <2>2, <2>4 DEF SureAt
<1>10. f.op = "playlist_get_song" /\ Step(f) \in Successes => SureAt(f)
  <2> SUFFICES ASSUME f.op = "playlist_get_song", Step(f) \in Successes PROVE SureAt(f)
    OBVIOUS
  <2>1. Body(f) = <<"connected", "lock", "exec", "unlock", "or_fail", "return">>
    BY <1>1, Bodies
  <2>2. f.at = 6
    BY <1>1, <2>1 DEF Step, Successes
  <2>3. Confirmed(Body(f), 5)
    BY <2>1 DEF Confirmed, Confirms
  <2>4. Sure(Body(f), 6)
    BY <2>3 DEF Sure
  <2> QED BY <2>2, <2>4 DEF SureAt
<1> QED BY <1>2, <1>3, <1>4, <1>5, <1>6, <1>7, <1>8, <1>9, <1>10

\* mpd_status_update leaves out what it need not ask for.
LEMMA WatchFacts ==
  ASSUME NEW f \in Placed, f.op # "user", Step(f) = "watch"
  PROVE  /\ On(f, 2) \in Placed /\ ~Holder(On(f, 2)) /\ ~SureAt(On(f, 2))
         /\ Step(On(f, 2)) = "signal_status" /\ Before(On(f, 2)) = "stats_if_database"
<1>1. /\ f.op = "status_update" /\ f.at = 10 /\ On(f, 2).op = "status_update" /\ On(f, 2).at = 12
      /\ On(f, 2) \in Frames /\ Body(On(f, 2)) = StatusUpdate
  BY StepFacts, OnFacts, Bodies DEF Body
<1>2. Code["status_update"] = StatusUpdate
  BY Bodies
<1>3. Len(StatusUpdate) = 14 /\ \A k \in 12 .. 14 : StatusUpdate[k] # "unlock"
  BY DEF StatusUpdate
<1>4. On(f, 2) \in Placed /\ ~Holder(On(f, 2))
  <2>1. On(f, 2).at \in 1 .. Len(Body(On(f, 2)))
    <3>1. On(f, 2).at = 12
      BY <1>1
    <3>2. Body(On(f, 2)) = StatusUpdate
      BY <1>1
    <3>3. Len(Body(On(f, 2))) = 14
      BY <1>3, <3>2
    <3>4. 12 \in 1 .. 14
      OBVIOUS
    <3> QED BY <3>1, <3>3, <3>4
  <2>2. ~Holds(StatusUpdate, 12)
    BY <1>3 DEF Holds
  <2> QED BY <1>1, <2>1, <2>2 DEF Placed, Holder, Body
<1>5. ~SureAt(On(f, 2))
  BY <1>1 DEF SureAt, Sure, Confirmed, Confirms, Plain, StatusUpdate
<1>6. Step(On(f, 2)) = "signal_status" /\ Before(On(f, 2)) = "stats_if_database"
  BY <1>1 DEF Step, Before, StatusUpdate
<1> QED BY <1>3, <1>4, <1>5, <1>6

-----------------------------------------------------------------------------
(* The kinds of step *)

\* The rest of the stack below the running function, and it one step on.
Rest == Tail(stack)
Next1 == On(Top, 1)

\* The session stays what it was, but for what is known of the server.
Gentle ==
  /\ connected' = connected /\ lock' = lock /\ (conn' = None <=> conn = None)
  /\ Top.op \in {"connect", "check_error"} => conn' = conn
  /\ ~connected /\ status = "none" /\ cache = {} => status' = "none" /\ cache' = {}

\* The steps that take, give back, begin or end something.
Special == {"lock", "unlock", "open", "accept", "close"}

Starts ==
  /\ Top.op = "user"
  /\ \E op \in Operations : stack' = Cons(Frame(op), stack)
  /\ UNCHANGED data

Resumes ==
  /\ Top.op = "user" /\ Rest # <<>> /\ stack' = Rest
  /\ UNCHANGED data

Dies == stack' = <<>> /\ UNCHANGED data

Proceeds ==
  /\ Here \notin Ends \cup Special \cup DOMAIN Code
  /\ Here \in {"connected", "if_connected"} => connected
  /\ Here = "or_fail" => result = "ok"
  /\ Here = "need_status" => status # "none"
  /\ Here = "leave" => ~connected
  /\ stack' = Cons(Next1, Rest)
  /\ Gentle

SkipsOutputs ==
  /\ Here = "watch"
  /\ \/ stack' = Cons(On(Top, 2), Rest)
     \/ stack' = Cons(Frame("server_update_outputs"), Cons(On(Top, 2), Rest))
  /\ Gentle

Takes ==
  /\ Here = "lock" /\ lock' = TRUE
  /\ stack' = Cons(Next1, Rest)
  /\ ~lock /\ UNCHANGED <<connected, conn, status, cache>>

GivesBack ==
  /\ Here = "unlock" /\ lock' = FALSE
  /\ stack' = Cons(Frame("check_error"), Cons(Next1, Rest))
  /\ UNCHANGED <<connected, conn, status, cache>>

Begins ==
  /\ Here = "open" /\ lock' = TRUE /\ conn' # None /\ conn'.error # "ACK"
  /\ stack' = Cons(Next1, Rest)
  /\ UNCHANGED <<connected, status, cache>>

Accepts ==
  /\ Here = "accept" /\ connected' = TRUE
  /\ stack' = Cons(Next1, Rest)
  /\ UNCHANGED <<lock, conn, status, cache>>

Closes ==
  /\ Here = "close"
  /\ connected' = FALSE /\ conn' = None /\ status' = "none" /\ cache' = {}
  /\ \/ stack' = Cons(Next1, Rest)
     \/ stack' = Cons(Frame("user"), Cons(Next1, Rest))

\* The steps that let another run and are not named after it, and who it may be.
Lending == {"error_callback", "obey", "leave", "need_status", "need_stats", "ask_again", "stats_if_stopped",
            "stats_if_database", "signal_connected", "signal_status"}
Lent    == {"user", "disconnect", "status_update", "stats_update", "stats_update_real", "player_get_state"}

\* A step of the running function that is not in Steady lets another run.
CallsOn ==
  /\ Here \notin Steady \cup Ends \cup Special
  /\ \E op \in DOMAIN Code \cup {"user"} :
       /\ Here \notin DOMAIN Code => Here \in Lending /\ op \in Lent
       /\ Here = "leave" => op = "disconnect"
       /\ Serves(op, Here) /\ op # "ends_as_failed"
       /\ op = "check_error" => Here = "check_error"
       /\ Here \in DOMAIN Code => op = Here
       /\ stack' = Cons(Frame(op), Cons(Next1, Rest))
  /\ UNCHANGED data

Becomes ==
  /\ \E op \in DOMAIN Code :
       /\ stack' = Cons(Frame(op), Rest)
       /\ \/ Here = "look" /\ conn # None /\ op = "ack_error" /\ conn.error = "ACK"
          \/ Here = "look" /\ conn # None /\ op = "fatal_error"
          \/ Here \in {"load_failed", "name_exists"} /\ op = "ends_as_failed"
  /\ conn' = None <=> conn = None
  /\ UNCHANGED <<connected, lock, status, cache>>

Returned ==
  /\ Here \in Ends \cup Tests
  /\ Here = "lock" => lock
  /\ Here = "connected" => ~connected
  /\ Here = "look" => conn = None
  /\ Here = "or_fail" => result # "ok"
  /\ result' = "ok" => Here \in Successes
  /\ Here = "return" => result' = "ok"
  /\ stack' = Rest
  /\ UNCHANGED data

Kinds ==
  \/ Starts \/ Resumes \/ Dies
  \/ /\ Top.op # "user"
     /\ \/ Proceeds \/ SkipsOutputs \/ Takes \/ GivesBack \/ Begins \/ Accepts \/ Closes
        \/ CallsOn \/ Becomes \/ Returned

-----------------------------------------------------------------------------
(* Every kind of step keeps the invariant *)

\* What the invariant says when a function runs.
LEMMA TopFacts ==
  ASSUME Calls(stack), stack # <<>>
  PROVE  /\ Top \in Placed /\ Rest \in Seq(Placed) /\ stack = Cons(Top, Rest)
         /\ Top.op # "user" => Rest # <<>>
         /\ Rest # <<>> =>
              /\ Shape(Rest) /\ Undisturbed(Rest) /\ Links(Top, Head(Rest))
              /\ Pausing(Rest) => Asks(Top) /\ connected /\ lock
              /\ Odd => Pausing(Rest) \/ Opening(Rest) \/ Opens(Top, Head(Rest)) \/ SeesToIt(Top)
              /\ Head(Rest) \in Placed
         /\ Top.op # "user" => Here = Step(Top)
<1>1. /\ Top \in Placed /\ Rest \in Seq(Placed) /\ stack = Cons(Top, Rest)
      /\ Len(Rest) = Len(stack) - 1 /\ stack[1] = Top /\ Len(stack) > 0 /\ Len(stack) \in Nat
  BY Apart DEF Calls, Shape, Top, Rest
<1>2. Top.op # "user" => Rest # <<>>
  <2>1. ASSUME Rest = <<>> PROVE Top.op = "user"
    <3>1. Len(stack) = 1
      BY <1>1, <2>1
    <3> QED BY <1>1, <3>1 DEF Calls, Shape
  <2> QED BY <2>1
<1>3. ASSUME Rest # <<>>
      PROVE  /\ Shape(Rest) /\ Undisturbed(Rest) /\ Links(Top, Head(Rest))
             /\ Pausing(Rest) => Asks(Top) /\ connected /\ lock
             /\ Odd => Pausing(Rest) \/ Opening(Rest) \/ Opens(Top, Head(Rest)) \/ SeesToIt(Top)
             /\ Head(Rest) \in Placed
  <2>1. /\ Undisturbed(stack) <=> Undisturbed(Rest) /\ (Pausing(Rest) => Asks(Top))
        /\ Opening(stack) <=> Opens(Top, Head(Rest)) \/ Opening(Rest)
        /\ Shape(stack) <=> Shape(Rest) /\ Links(Top, Head(Rest))
    BY <1>1, <1>3, ConsFacts
  <2>2. /\ Shape(stack) /\ Undisturbed(stack) /\ (Pausing(Rest) => connected /\ lock)
        /\ Odd => Pausing(Rest) \/ Opening(stack) \/ SeesToIt(Top)
    BY DEF Calls, Rest, Top
  <2>3. Head(Rest) \in Placed
    BY <1>1, <1>3, Apart
  <2> QED BY <2>1, <2>2, <2>3
<1>4. Top.op # "user" => Here = Step(Top)
  BY DEF Here, Step, Body
<1> QED BY <1>1, <1>2, <1>3, <1>4

\* Function f.op runs: it was called by g, on the stack s, and h is its next
\* step.
Runs(f, s, g, h) ==
  /\ IInv /\ stack # <<>> /\ Top.op # "user"
  /\ f = Top /\ s = Rest /\ g = Head(s) /\ h = On(f, 1)

LEMMA RunsFacts ==
  ASSUME NEW f, NEW s, NEW g, NEW h, Runs(f, s, g, h)
  PROVE  /\ f \in Placed /\ f.op # "user" /\ f.op \in DOMAIN Code /\ f.at \in Nat \ {0} /\ g \in Placed
         /\ h.op = f.op /\ h.at = f.at + 1 /\ Body(h) = Body(f) /\ Before(h) = Step(f)
         /\ s \in Seq(Placed) /\ s # <<>> /\ Here = Step(f) /\ Rest = s /\ Next1 = h
         /\ Shape(s) /\ Undisturbed(s) /\ Links(f, g) /\ Links(h, g)
         /\ Pausing(s) => Asks(f) /\ connected /\ lock
         /\ Odd => Pausing(s) \/ Opening(s) \/ Opens(f, g) \/ SeesToIt(f)
         /\ HasLock(f) /\ HasOpened(f, g) /\ IsSure(f, g) /\ Known
<1>1. IInv /\ stack # <<>> /\ f = Top /\ f.op # "user" /\ s = Rest /\ g = Head(s) /\ h = On(f, 1)
  BY DEF Runs
<1>2. Calls(stack) /\ Known
  BY <1>1 DEF IInv
<1>3. /\ f \in Placed /\ s \in Seq(Placed) /\ s # <<>> /\ Here = Step(f)
      /\ Shape(s) /\ Undisturbed(s) /\ Links(f, g) /\ g \in Placed
      /\ Pausing(s) => Asks(f) /\ connected /\ lock
      /\ Odd => Pausing(s) \/ Opening(s) \/ Opens(f, g) \/ SeesToIt(f)
  BY <1>1, <1>2, TopFacts
<1>4. HasLock(f) /\ HasOpened(f, g) /\ IsSure(f, g)
  BY <1>1, <1>2 DEF Calls, Rest, Top
<1>5. /\ h.op = f.op /\ h.at = f.at + 1 /\ f.at \in Nat \ {0} /\ Body(h) = Body(f)
      /\ f.op \in DOMAIN Code
  BY <1>1, <1>3, OnFacts
<1>6. Before(h) = Step(f)
  BY <1>5 DEF Before, Step
<1>7. Links(h, g)
  BY <1>3, <1>5 DEF Links
<1> QED BY <1>1, <1>2, <1>3, <1>4, <1>5, <1>6, <1>7 DEF Next1

\* The invariant of a stack whose first frame is f, from that of the rest.
LEMMA Pushed ==
  ASSUME NEW f, f \in Placed, NEW s, s \in Seq(Placed), s # <<>>, stack' = Cons(f, s),
         Shape(s), Undisturbed(s), Links(f, Head(s)),
         Pausing(s) => Asks(f) /\ connected' /\ lock',
         Odd' => Pausing(s) \/ Opening(s) \/ Opens(f, Head(s)) \/ SeesToIt(f)',
         HasLock(f)', HasOpened(f, Head(s))', IsSure(f, Head(s))'
  PROVE  (Calls(stack))'
<1>1. Head(stack') = f /\ Tail(stack') = s
  BY ConsProperties
<1>2. Shape(stack') /\ Undisturbed(stack') /\ (Opens(f, Head(s)) \/ Opening(s) => Opening(stack'))
  BY ConsFacts
<1>3. /\ Shape(stack') /\ Undisturbed(stack') /\ (Pausing(Tail(stack')) => connected' /\ lock')
      /\ Odd' => Pausing(Tail(stack')) \/ Opening(stack') \/ SeesToIt(Head(stack))'
  BY <1>1, <1>2 DEF SeesToIt
<1>4. HasLock(Head(stack))' /\ HasOpened(Head(stack), Head(Tail(stack)))'
  BY <1>1 DEF HasLock, HasOpened
<1>5. IsSure(Head(stack), Head(Tail(stack)))'
  BY <1>1 DEF IsSure
<1> QED BY <1>3, <1>4, <1>5 DEF Calls


\* The invariant when function f, now at h, waits for op.
LEMMA Waits ==
  ASSUME NEW op \in DOMAIN Code \cup {"user"}, op # "ends_as_failed",
         NEW h \in Placed, NEW s \in Seq(Placed), s # <<>>, NEW g, g = Head(s),
         stack' = Cons(Frame(op), Cons(h, s)),
         Shape(s), Undisturbed(s), Links(h, g), Links(Frame(op), h),
         Pausing(s) => Asks(h) /\ Asks(Frame(op)) /\ connected' /\ lock',
         Pauser(h) => Asks(Frame(op)) /\ connected' /\ lock',
         Odd' => \/ Pausing(s) \/ Pauser(h) \/ Opening(s) \/ Opens(h, g) \/ Opens(Frame(op), h)
                 \/ op = "disconnect",
         op = "check_error" => IF Opener(h) THEN conn' # None /\ lock' /\ conn'.error # "ACK" ELSE connected'
  PROVE  Calls(stack)'
<1> SUFFICES ASSUME NEW f, f = Frame(op), NEW t, t = Cons(h, s) PROVE Calls(stack)'
  OBVIOUS
<1>1. /\ f \in Placed /\ f.op = op /\ f.at = 1 /\ ~SureAt(f)
      /\ Holder(f) => op = "ends_as_failed"
  BY FrameFacts
<1>2. t \in Seq(Placed) /\ t # <<>> /\ Head(t) = h
  BY ConsProperties
<1>3. /\ Pausing(t) <=> Pauser(h) \/ Pausing(s)
      /\ Undisturbed(t) <=> Undisturbed(s) /\ (Pausing(s) => Asks(h))
      /\ Opening(t) <=> Opens(h, g) \/ Opening(s)
      /\ Shape(t) <=> Shape(s) /\ Links(h, g)
  BY ConsFacts
<1>4. Shape(t) /\ Undisturbed(t) /\ Links(f, h) /\ (Pausing(t) => Asks(f) /\ connected' /\ lock')
  BY <1>3
<1>5. Odd' => Pausing(t) \/ Opening(t) \/ Opens(f, h) \/ SeesToIt(f)'
  <2>1. op = "disconnect" => Step(f) = "close"
    BY <1>1, Bodies DEF Step, Body
  <2> QED BY <1>1, <1>3, <2>1 DEF SeesToIt
<1>6. HasLock(f)'
  BY <1>1 DEF HasLock
<1>7. HasOpened(f, h)'
  BY <1>1 DEF HasOpened
<1>8. IsSure(f, h)'
  BY <1>1 DEF IsSure
<1> QED BY <1>1, <1>2, <1>4, <1>5, <1>6, <1>7, <1>8, Pushed

\* The step a frame has made.
LEMMA BackFacts ==
  ASSUME NEW g \in Placed, g.op # "user", g.at > 1, Before(g) \notin Steady
  PROVE  /\ ~SureAt(g) /\ g.op # "check_error"
         /\ g.op = "connect" => g.at \notin {3, 5, 6} /\ (g.at = 4 => Before(g) = "check_error")
         /\ Holder(g) => g.op = "connect" \/ Pauser(g)
<1>1. PICK e : e = [op |-> g.op, at |-> g.at - 1]
  OBVIOUS
<1>2. g \in [op : DOMAIN Code \cup {"user"}, at : Nat \ {0}] /\ g.at \in 1 .. Len(Code[g.op]) /\ g.op \in DOMAIN Code
  BY DEF Placed, Frames
<1>3. e.op = g.op /\ e.at = g.at - 1 /\ e.at \in Nat \ {0} /\ e.at + 1 = g.at /\ e \in Frames
  BY <1>1, <1>2 DEF Frames
<1>4. Sound(g.op, Code[g.op])
  BY <1>2, EverySound
<1>5. e.at \in 1 .. Len(Code[e.op])
  BY <1>2, <1>3, <1>4 DEF Sound
<1>6. e \in Placed /\ Step(e) = Before(g)
  BY <1>3, <1>5 DEF Placed, Step, Before, Body
<1>7. On(e, 1) = g
  BY <1>1, <1>2 DEF On
<1>8. ~SureAt(g)
  <2>1. Step(e) \notin {"connected", "if_connected", "accept", "or_fail"} \cup Plain
    BY <1>6 DEF Steady
  <2> QED BY <1>3, <1>6, <1>7, <2>1, SureFacts
<1>9. g.op # "check_error"
  <2>1. e.op = "check_error" => Step(e) \in {"look", "return"} /\ (Step(e) = "look" \/ e.at = 2)
    BY <1>3, <1>6, NamedSteps
  <2>2. g.op = "check_error" => g.at = 1 \/ g.at = 2
    BY NamedSteps
  <2> QED BY <1>3, <1>6, <2>1, <2>2 DEF Steady
<1>10. g.op = "connect" => g.at \notin {3, 5, 6} /\ (g.at = 4 => Before(g) = "check_error")
  BY NamedSteps
<1>11. Holder(g) => g.op = "connect" \/ Pauser(g)
  <2>1. Holder(g) => (Holder(e) /\ Step(e) # "unlock") \/ Step(e) \in {"lock", "open"}
    BY <1>3, <1>6, <1>7, StepFacts
  <2>2. Holder(e) => \/ Step(e) = "unlock" \/ Step(e) \in HeldSteps \/ e.op = "connect"
                     \/ e.op = "player_pause" /\ e.at = 3
    BY <1>3, <1>6, StepFacts
  <2> QED BY <1>3, <1>6, <2>1, <2>2 DEF Steady, Pauser
<1> QED BY <1>8, <1>9, <1>10, <1>11

\* The invariant when f is over and g goes on.
LEMMA Popped ==
  ASSUME NEW f, NEW s \in Seq(Placed), s # <<>>, NEW g, g = Head(s), stack' = s,
         Shape(s), Undisturbed(s), Links(f, g),
         Pausing(s) => connected' /\ lock',
         Odd' => Pausing(s) \/ Opening(s) \/ SeesToIt(g)',
         Opener(g) /\ result' = "ok" => conn' # None /\ lock',
         g.op # "user" /\ Before(g) \in Confirms /\ Step(g) = "or_fail" /\ result' = "ok" => connected'
  PROVE  Calls(stack)'
<1> SUFFICES ASSUME NEW q, q = Tail(s) PROVE Calls(stack)'
  OBVIOUS
<1>1. g \in Placed /\ q \in Seq(Placed) /\ s = Cons(g, q) /\ Head(s) = g /\ Tail(s) = q
  BY Apart
<1>2. Pausing(s) <=> Pauser(g) \/ Pausing(q)
  BY <1>1, ConsFacts
<1>3. g.op # "user" => /\ ~SureAt(g) /\ g.op # "check_error"
                       /\ g.op = "connect" => g.at \notin {3, 5, 6}
                       /\ Holder(g) => g.op = "connect" \/ Pauser(g)
  BY <1>1, BackFacts DEF Links
<1>4. Pauser(g) => SeesToIt(g)'
  <2>1. Pauser(g) => g.op = "player_pause" /\ Holder(g)
    <3>1. Holds(Code["player_pause"], 4)
      BY Bodies DEF Holds
    <3> QED BY <3>1 DEF Pauser, Holder, Body
  <2> QED BY <2>1 DEF SeesToIt, Opener
<1>5. Odd' => Pausing(q) \/ Opening(s) \/ SeesToIt(g)'
  BY <1>2, <1>4
<1>6. HasLock(g)'
  <2>1. Holder(g) => g.op # "user"
    BY DEF Holder
  <2> QED BY <1>2, <1>3, <2>1 DEF HasLock
<1>7. HasOpened(g, Head(q))'
  <2>1. g.op = "connect" => g.at # 3 /\ g.at # 5
    BY <1>3
  <2>2. g.op # "check_error"
    BY <1>3
  <2>3. g.op = "connect" /\ g.at = 4 /\ result' = "ok" => conn' # None /\ lock'
    BY DEF Opener
  <2> QED BY <2>1, <2>2, <2>3 DEF HasOpened
<1>8. IsSure(g, Head(q))'
  <2>1. ~SureAt(g)
    BY <1>3 DEF SureAt
  <2>2. g.op # "check_error"
    BY <1>3
  <2> QED BY <2>1, <2>2 DEF IsSure
<1>9. /\ Shape(stack)' /\ Undisturbed(stack)' /\ (Pausing(Tail(stack))' => connected' /\ lock')
      /\ Odd' => Pausing(Tail(stack))' \/ Opening(stack)' \/ SeesToIt(Head(stack))'
  BY <1>1, <1>2, <1>5
<1> QED BY <1>1, <1>6, <1>7, <1>8, <1>9 DEF Calls
LEMMA ProceedsKeeps ==
  ASSUME NEW f, NEW s, NEW g, NEW h, Runs(f, s, g, h), Proceeds
  PROVE  Known' /\ Calls(stack)'
<1>1. /\ f \in Placed /\ f.op # "user" /\ s \in Seq(Placed) /\ s # <<>> /\ Here = Step(f)
      /\ Shape(s) /\ Undisturbed(s) /\ Links(f, g) /\ g = Head(s)
      /\ Pausing(s) => Asks(f) /\ connected /\ lock
      /\ Odd => Pausing(s) \/ Opening(s) \/ Opens(f, g) \/ SeesToIt(f)
  BY RunsFacts DEF Runs
<1>2. /\ h.op = f.op /\ h.at = f.at + 1 /\ f.at \in Nat \ {0} /\ Body(h) = Body(f) /\ h = On(f, 1)
      /\ f.op \in DOMAIN Code
  BY RunsFacts DEF Runs
<1>3. /\ Step(f) \notin Ends \cup Special \cup DOMAIN Code
      /\ Step(f) \in {"connected", "if_connected"} => connected
      /\ Step(f) = "or_fail" => result = "ok"
      /\ Step(f) = "need_status" => status # "none"
      /\ stack' = Cons(h, s) /\ Gentle
  BY RunsFacts DEF Proceeds
<1>4. HasLock(f) /\ HasOpened(f, g) /\ IsSure(f, g) /\ Known
  BY RunsFacts
<1>5. h \in Placed
  BY <1>1, <1>2, <1>3, StepFacts
<1>6. Links(h, g)
  BY <1>1, <1>2 DEF Links
<1>7. Step(f) \notin {"check_error", "player_get_state", "disconnect"}
  BY <1>3, FunctionNames
<1>8. Known'
  BY <1>3, <1>4 DEF Known, Gentle
<1>9. Pausing(s) => Asks(h) /\ connected' /\ lock'
  <2>1. f.op = "status_update" /\ f.at = 2 => Step(f) = "lock"
    BY <1>1, <1>2, NamedSteps
  <2>2. Asks(f) => Asks(h)
    BY <1>2, <1>3, <2>1 DEF Asks, Special
  <2> QED BY <1>1, <1>3, <2>2 DEF Gentle
<1>10. Odd' => Pausing(s) \/ Opening(s) \/ Opens(h, g) \/ SeesToIt(h)'
  <2>1. Odd' => Odd
    BY <1>3 DEF Odd, Gentle
  <2>2. Opens(f, g) => Opens(h, g)
    <3>1. f.op = "fatal_error" /\ f.at = 2 => Step(f) = "disconnect"
      BY <1>1, <1>2, NamedSteps
    <3> QED BY <1>2, <1>7, <3>1 DEF Opens
  <2>3. ASSUME SeesToIt(f) PROVE SeesToIt(h)'
    <3>1. Step(f) # "close" /\ Step(f) # "unlock"
      BY <1>3 DEF Special
    <3>2. Holder(f)
      BY <2>3, <3>1 DEF SeesToIt
    <3>3. /\ f.op = "connect" => /\ f.at = 3 => Step(f) = "check_error"
                                 /\ f.at = 5 => Step(f) = "accept"
          /\ f.op = "player_pause" /\ f.at = 3 => Step(f) = "player_get_state"
      BY <1>1, <1>2, NamedSteps
    <3>4. Holder(h)
      <4>1. CASE f.op = "connect" /\ f.at = 4
        <5>1. Body(f) = Connect
          BY <1>2, <4>1, Bodies DEF Body
        <5>2. Holds(Connect, 5)
          BY DEF Holds, Connect
        <5> QED BY <1>2, <4>1, <5>1, <5>2 DEF Holder
      <4>2. CASE ~(f.op = "connect" /\ f.at = 4)
        BY <1>1, <1>2, <1>3, <1>7, <3>1, <3>2, <3>3, <4>2, StepFacts DEF Special
      <4> QED BY <4>1, <4>2
    <3>5. ~Opener(h)
      BY <1>2, <1>7, <3>3 DEF Opener
    <3> QED BY <1>2, <3>4, <3>5 DEF SeesToIt, Holder
  <2> QED BY <1>1, <2>1, <2>2, <2>3
<1>11. HasLock(h)'
  <2>1. ASSUME Holder(h), h.op = "connect" => h.at = 6 PROVE connected' /\ lock'
    <3>1. Holder(f)
      BY <1>1, <1>2, <1>3, <2>1, StepFacts DEF Special
    <3>2. f.op = "connect" => f.at = 5
      BY <1>2, <2>1
    <3>3. f.op # "connect"
      BY <1>1, <1>2, <1>3, <3>2, NamedSteps DEF Special
    <3> QED BY <1>3, <1>4, <3>1, <3>3 DEF HasLock, Gentle
  <2> QED BY <2>1 DEF HasLock, Holder
<1>12. HasOpened(h, g)'
  <2>1. f.op = "connect" => f.at # 2 /\ f.at # 3 /\ (f.at = 4 => result = "ok")
    BY <1>1, <1>2, <1>3, <1>7, NamedSteps DEF Special
  <2>2. h.op = "connect" => h.at # 3 /\ h.at # 4 /\ (h.at = 5 => f.at = 4)
    BY <1>2, <2>1
  <2>3. h.op = "connect" /\ h.at = 5 => conn' # None /\ lock'
    BY <1>2, <1>3, <1>4, <2>1, <2>2 DEF HasOpened, Gentle
  <2>4. h.op = "check_error" /\ Opener(g) => conn' # None /\ lock' /\ h.at # 1
    BY <1>2, <1>3, <1>4 DEF HasOpened, Gentle
  <2> QED BY <2>2, <2>3, <2>4 DEF HasOpened
<1>13. IsSure(h, g)'
  <2>1. ASSUME SureAt(h) PROVE connected'
    <3>1. \/ Step(f) \in {"connected", "if_connected", "accept"}
          \/ Step(f) = "or_fail" /\ f.at > 1 /\ Before(f) \in Confirms
          \/ SureAt(f)
      BY <1>1, <1>2, <2>1, SureFacts DEF SureAt
    <3> QED BY <1>2, <1>3, <1>4, <3>1, FunctionNames DEF IsSure, Gentle, Special
  <2>2. ASSUME Before(h) \in Confirms PROVE connected'
    <3>1. Before(h) = Step(f)
      BY <1>2 DEF Before, Step
    <3>2. Step(f) = "need_status"
      BY <1>3, <2>2, <3>1, FunctionNames DEF Confirms, Special
    <3> QED BY <1>3, <1>4, <3>2 DEF Known, Gentle
  <2>3. h.op = "check_error" /\ ~Opener(g) => connected'
    BY <1>2, <1>3, <1>4 DEF IsSure, Gentle
  <2> QED BY <2>1, <2>2, <2>3 DEF IsSure, SureAt
<1> QED BY <1>1, <1>3, <1>5, <1>6, <1>8, <1>9, <1>10, <1>11, <1>12, <1>13, Pushed


LEMMA CallsOnKeeps ==
  ASSUME NEW f, NEW s, NEW g, NEW h, Runs(f, s, g, h), CallsOn
  PROVE  Known' /\ Calls(stack)'
<1>1. /\ f \in Placed /\ f.op # "user" /\ s \in Seq(Placed) /\ s # <<>> /\ Here = Step(f) /\ g = Head(s)
      /\ Shape(s) /\ Undisturbed(s) /\ Links(h, g) /\ f.at \in Nat \ {0}
      /\ h.op = f.op /\ h.at = f.at + 1 /\ Before(h) = Step(f) /\ h = On(f, 1)
      /\ Pausing(s) => Asks(f) /\ connected /\ lock
      /\ Odd => Pausing(s) \/ Opening(s) \/ Opens(f, g) \/ SeesToIt(f)
      /\ HasLock(f) /\ HasOpened(f, g) /\ Known
  BY RunsFacts DEF Runs
<1>2. PICK op \in DOMAIN Code \cup {"user"} :
        /\ Serves(op, Step(f)) /\ op # "ends_as_failed"
        /\ op = "check_error" => Step(f) = "check_error"
        /\ Step(f) \in DOMAIN Code => op = Step(f)
        /\ stack' = Cons(Frame(op), Cons(h, s))
  BY RunsFacts DEF CallsOn
<1>3. Step(f) \notin Steady \cup Ends \cup Special /\ UNCHANGED data
  BY <1>1 DEF CallsOn
<1>4. Frame(op).op = op /\ Frame(op).at = 1
  BY FrameFacts
<1>5. h \in Placed
  BY <1>1, <1>3, StepFacts
<1>6. Links(Frame(op), h)
  BY <1>1, <1>2, <1>3, <1>4 DEF Links
<1>7. Asks(f) => Asks(h) /\ Asks(Frame(op))
  <2>1. /\ f.op = "status_check" => Step(f) \in {"connected", "need_status", "or_fail", "return"}
        /\ f.op = "player_get_state" =>
              Step(f) \in {"connected", "status_check", "or_fail", "status_value", "return"}
        /\ f.op = "status_update" /\ f.at = 1 => Step(f) = "connected"
        /\ f.op = "status_update" /\ f.at = 2 => Step(f) = "lock"
    BY <1>1, NamedSteps
  <2>2. Step(f) \notin {"connected", "or_fail", "status_value", "return", "lock"}
    BY <1>3 DEF Steady, Ends, HeldSteps
  <2>3. Asks(f) => \/ f.op = "status_check" /\ op = "status_update"
                   \/ f.op = "player_get_state" /\ op = "status_check"
    BY <1>2, <2>1, <2>2 DEF Asks, Serves
  <2> QED BY <1>1, <1>4, <2>3 DEF Asks
<1>8. Pauser(h) => Asks(Frame(op)) /\ connected /\ lock
  <2> SUFFICES ASSUME Pauser(h) PROVE Asks(Frame(op)) /\ connected /\ lock
    OBVIOUS
  <2>1. f.op = "player_pause" /\ f.at = 3
    BY <1>1 DEF Pauser
  <2>2. Step(f) = "player_get_state"
    BY <1>1, <2>1, NamedSteps
  <2>3. op = "player_get_state"
    BY <1>2, <2>2 DEF Serves
  <2>4. Holder(f)
    <3>1. Holds(Code["player_pause"], 3)
      BY Bodies DEF Holds
    <3> QED BY <2>1, <3>1 DEF Holder, Body
  <2> QED BY <1>1, <1>4, <2>1, <2>3, <2>4 DEF Asks, HasLock
<1>9. Odd => \/ Pausing(s) \/ Pauser(h) \/ Opening(s) \/ Opens(h, g) \/ Opens(Frame(op), h)
             \/ op = "disconnect"
  <2>1. ASSUME Opens(f, g) PROVE Opens(h, g) \/ op = "disconnect"
    <3>1. f.op = "check_error" => Step(f) \in {"look", "return"}
      BY <1>1, NamedSteps
    <3>2. f.op = "fatal_error" /\ f.at \in {1, 2}
      BY <1>3, <2>1, <3>1 DEF Opens, Steady, Ends
    <3>3. f.at = 2 => Step(f) = "disconnect"
      BY <1>1, <3>2, NamedSteps
    <3>4. f.at = 2 => op = "disconnect"
      BY <1>2, <3>3, FunctionNames
    <3> QED BY <1>1, <2>1, <3>2, <3>4 DEF Opens
  <2>2. ASSUME SeesToIt(f) PROVE Pauser(h) \/ Opens(Frame(op), h)
    <3>1. Step(f) \notin {"close", "unlock"} /\ Step(f) \notin HeldSteps
      BY <1>3 DEF Special, Steady
    <3>2. Holder(f)
      BY <2>2, <3>1 DEF SeesToIt
    <3>3. (f.op = "connect" /\ f.at \in 3 .. 5) \/ (f.op = "player_pause" /\ f.at = 3)
      BY <1>1, <3>1, <3>2, StepFacts
    <3>4. f.op = "connect" => f.at # 4 /\ f.at # 5
      <4>1. f.op = "connect" => (f.at = 4 => Step(f) = "or_fail") /\ (f.at = 5 => Step(f) = "accept")
        BY <1>1, NamedSteps
      <4> QED BY <1>3, <4>1 DEF Steady
    <3>5. CASE f.op = "player_pause" /\ f.at = 3
      BY <1>1, <3>5 DEF Pauser
    <3>6. CASE f.op = "connect" /\ f.at = 3
      <4>1. Step(f) = "check_error"
        BY <1>1, <3>6, NamedSteps
      <4>2. op = "check_error"
        BY <1>2, <4>1, FunctionNames
      <4> QED BY <1>1, <1>4, <3>6, <4>2 DEF Opens, Opener
    <3> QED BY <3>3, <3>4, <3>5, <3>6
  <2> QED BY <1>1, <2>1, <2>2
<1>10. op = "check_error" => Opener(h) /\ conn # None /\ lock /\ conn.error # "ACK"
  <2>1. op = "check_error" => f.op = "connect" /\ f.at = 3
    BY <1>1, <1>2, StepFacts
  <2> QED BY <1>1, <2>1 DEF Opener, HasOpened
<1>11. connected' = connected /\ lock' = lock /\ conn' = conn /\ Odd' = Odd /\ Known'
  BY <1>1, <1>3 DEF data, Odd, Known
<1> QED BY <1>1, <1>2, <1>5, <1>6, <1>7, <1>8, <1>9, <1>10, <1>11, Waits

LEMMA GivesBackKeeps ==
  ASSUME NEW f, NEW s, NEW g, NEW h, Runs(f, s, g, h), GivesBack
  PROVE  Known' /\ Calls(stack)'
<1>1. /\ f \in Placed /\ f.op # "user" /\ s \in Seq(Placed) /\ s # <<>> /\ Here = Step(f) /\ g = Head(s)
      /\ Shape(s) /\ Undisturbed(s) /\ Links(h, g) /\ f.at \in Nat \ {0}
      /\ h.op = f.op /\ h.at = f.at + 1 /\ Before(h) = Step(f) /\ h = On(f, 1)
      /\ Pausing(s) => Asks(f) /\ connected /\ lock
      /\ HasLock(f) /\ Known
  BY RunsFacts DEF Runs
<1>2. Step(f) = "unlock" /\ stack' = Cons(Frame("check_error"), Cons(h, s)) /\ lock' = FALSE
      /\ connected' = connected /\ conn' = conn /\ status' = status /\ cache' = cache
  BY RunsFacts DEF GivesBack
<1>3. Frame("check_error").op = "check_error" /\ Frame("check_error").at = 1
  BY FrameFacts, FunctionNames
<1>4. h \in Placed
  BY <1>1, <1>2, StepFacts DEF Ends
<1>5. Links(Frame("check_error"), h)
  BY <1>1, <1>2, <1>3 DEF Links, Serves, Steady, Plain, HeldSteps, Exchanges, ListSteps
<1>6. ~Pausing(s)
  <2>1. ~Asks(f)
    BY <1>1, <1>2, NamedSteps DEF Asks
  <2> QED BY <1>1, <2>1
<1>7. ~Pauser(h) /\ ~Opener(h)
  <2>1. /\ f.op = "connect" /\ f.at = 3 => Step(f) = "check_error"
        /\ f.op = "player_pause" /\ f.at = 3 => Step(f) = "player_get_state"
    BY <1>1, NamedSteps
  <2> QED BY <1>1, <1>2, <2>1 DEF Pauser, Opener
<1>8. connected
  <2>1. Holder(f)
    BY <1>1, <1>2, StepFacts
  <2>2. f.op = "connect" => f.at = 6
    <3>1. f.op = "connect" => f.at \in 1 .. Len(Connect) /\ Step(f) = Connect[f.at]
      BY <1>1, OnFacts, Bodies DEF Body, Step
    <3>2. \A i \in 1 .. Len(Connect) : Connect[i] = "unlock" => i = 6
      BY DEF Connect
    <3> QED BY <1>2, <3>1, <3>2
  <2> QED BY <1>1, <2>1, <2>2 DEF HasLock
<1>9. ~Odd' /\ Known'
  BY <1>1, <1>2, <1>8 DEF Odd, Known
<1>10. "check_error" \in DOMAIN Code \cup {"user"}
  BY FunctionNames
<1> QED BY <1>1, <1>2, <1>4, <1>5, <1>6, <1>7, <1>8, <1>9, <1>10, Waits

LEMMA ClosesKeeps ==
  ASSUME NEW f, NEW s, NEW g, NEW h, Runs(f, s, g, h), Closes
  PROVE  Known' /\ Calls(stack)'
<1>1. /\ f \in Placed /\ f.op # "user" /\ s \in Seq(Placed) /\ s # <<>> /\ Here = Step(f) /\ g = Head(s)
      /\ Shape(s) /\ Undisturbed(s) /\ Links(h, g) /\ f.at \in Nat \ {0}
      /\ h.op = f.op /\ h.at = f.at + 1 /\ Before(h) = Step(f) /\ h = On(f, 1)
      /\ Pausing(s) => Asks(f) /\ connected /\ lock
  BY RunsFacts DEF Runs
<1>2. /\ Step(f) = "close" /\ connected' = FALSE /\ conn' = None /\ status' = "none" /\ cache' = {}
      /\ \/ stack' = Cons(h, s)
         \/ stack' = Cons(Frame("user"), Cons(h, s))
  BY RunsFacts DEF Closes
<1>3. f.op = "disconnect" /\ f.at = 1
  BY <1>1, <1>2, StepFacts
<1>4. h \in Placed
  BY <1>1, <1>2, StepFacts DEF Ends
<1>5. ~Pausing(s) /\ ~Pauser(h) /\ ~Odd' /\ Known'
  BY <1>1, <1>2, <1>3 DEF Asks, Pauser, Odd, Known
<1>6. CASE stack' = Cons(h, s)
  <2>1. ~Holder(h)
    <3>1. ~Holder(f)
      BY <1>1, <1>2, <1>3, StepFacts DEF HeldSteps, Exchanges, ListSteps
    <3> QED BY <1>1, <1>2, <3>1, StepFacts
  <2>2. ~SureAt(h)
    BY <1>1, <1>2, SureFacts DEF SureAt, Plain
  <2>3. HasLock(h)'
    BY <2>1 DEF HasLock
  <2>4. HasOpened(h, g)'
    BY <1>1, <1>3 DEF HasOpened
  <2>5. IsSure(h, g)'
    BY <1>1, <1>2, <1>3, <2>2 DEF IsSure, Confirms
  <2> QED BY <1>1, <1>4, <1>5, <1>6, <2>3, <2>4, <2>5, Pushed
<1>7. CASE stack' = Cons(Frame("user"), Cons(h, s))
  <2>1. Frame("user").op = "user"
    BY FrameFacts
  <2>2. Links(Frame("user"), h)
    BY <1>1, <1>2, <1>3, <2>1 DEF Links, Serves, Steady, Plain, HeldSteps, Exchanges, ListSteps
  <2>3. "user" \in DOMAIN Code \cup {"user"} /\ "user" # "ends_as_failed" /\ "user" # "check_error"
    OBVIOUS
  <2> QED BY <1>1, <1>4, <1>5, <1>7, <2>2, <2>3, Waits
<1> QED BY <1>2, <1>5, <1>6, <1>7

LEMMA TakesKeeps ==
  ASSUME NEW f, NEW s, NEW g, NEW h, Runs(f, s, g, h), Takes
  PROVE  Known' /\ Calls(stack)'
<1>1. /\ f \in Placed /\ f.op # "user" /\ s \in Seq(Placed) /\ s # <<>> /\ Here = Step(f) /\ g = Head(s)
      /\ Shape(s) /\ Undisturbed(s) /\ Links(h, g) /\ f.at \in Nat \ {0}
      /\ h.op = f.op /\ h.at = f.at + 1 /\ Before(h) = Step(f) /\ h = On(f, 1)
      /\ Pausing(s) => Asks(f) /\ connected /\ lock
      /\ IsSure(f, g) /\ Known
  BY RunsFacts DEF Runs
<1>2. /\ Step(f) = "lock" /\ lock' = TRUE /\ ~lock /\ stack' = Cons(h, s)
      /\ connected' = connected /\ conn' = conn /\ status' = status /\ cache' = cache
  BY RunsFacts DEF Takes
<1>3. h \in Placed /\ Holder(h)
  BY <1>1, <1>2, StepFacts DEF Ends
<1>4. connected
  BY <1>1, <1>2, StepFacts DEF IsSure
<1>5. f.op = "connect" => f.at \notin {2, 3, 4}
  BY <1>1, <1>2, NamedSteps
<1>6. f.op # "check_error"
  BY <1>1, <1>2, NamedSteps
<1>7. SeesToIt(h)'
  BY <1>1, <1>3, <1>5 DEF SeesToIt, Opener
<1>8. HasLock(h)'
  BY <1>2, <1>4 DEF HasLock
<1>9. HasOpened(h, g)'
  BY <1>1, <1>5, <1>6 DEF HasOpened
<1>10. IsSure(h, g)'
  BY <1>2, <1>4 DEF IsSure
<1>11. ~Pausing(s) /\ Known'
  BY <1>1, <1>2 DEF Known
<1> QED BY <1>1, <1>2, <1>3, <1>7, <1>8, <1>9, <1>10, <1>11, Pushed

LEMMA BeginsKeeps ==
  ASSUME NEW f, NEW s, NEW g, NEW h, Runs(f, s, g, h), Begins
  PROVE  Known' /\ Calls(stack)'
<1>1. /\ f \in Placed /\ f.op # "user" /\ s \in Seq(Placed) /\ s # <<>> /\ Here = Step(f) /\ g = Head(s)
      /\ Shape(s) /\ Undisturbed(s) /\ Links(h, g) /\ f.at \in Nat \ {0}
      /\ h.op = f.op /\ h.at = f.at + 1 /\ Before(h) = Step(f) /\ h = On(f, 1)
      /\ Pausing(s) => Asks(f) /\ connected /\ lock
      /\ Known
  BY RunsFacts DEF Runs
<1>2. /\ Step(f) = "open" /\ lock' = TRUE /\ stack' = Cons(h, s) /\ conn' # None /\ conn'.error # "ACK"
      /\ connected' = connected /\ status' = status /\ cache' = cache
  BY RunsFacts DEF Begins
<1>3. h \in Placed /\ Holder(h)
  BY <1>1, <1>2, StepFacts DEF Ends
<1>4. f.op = "connect" /\ f.at = 2 /\ h.op = "connect" /\ h.at = 3
  BY <1>1, <1>2, StepFacts
<1>5. ~SureAt(h)
  BY <1>1, <1>2, SureFacts DEF SureAt, Plain
<1>6. SeesToIt(h)'
  BY <1>3, <1>4 DEF SeesToIt, Opener
<1>7. HasLock(h)'
  BY <1>4 DEF HasLock
<1>8. HasOpened(h, g)'
  BY <1>2, <1>4 DEF HasOpened
<1>9. IsSure(h, g)'
  BY <1>1, <1>2, <1>4, <1>5 DEF IsSure, Confirms
<1>10. ~Pausing(s) /\ Known'
  BY <1>1, <1>2, <1>4 DEF Known, Asks
<1> QED BY <1>1, <1>2, <1>3, <1>6, <1>7, <1>8, <1>9, <1>10, Pushed

LEMMA AcceptsKeeps ==
  ASSUME NEW f, NEW s, NEW g, NEW h, Runs(f, s, g, h), Accepts
  PROVE  Known' /\ Calls(stack)'
<1>1. /\ f \in Placed /\ f.op # "user" /\ s \in Seq(Placed) /\ s # <<>> /\ Here = Step(f) /\ g = Head(s)
      /\ Shape(s) /\ Undisturbed(s) /\ Links(h, g) /\ f.at \in Nat \ {0}
      /\ h.op = f.op /\ h.at = f.at + 1 /\ Before(h) = Step(f) /\ h = On(f, 1) /\ Body(h) = Body(f)
      /\ Pausing(s) => Asks(f) /\ connected /\ lock
      /\ HasOpened(f, g) /\ Known
  BY RunsFacts DEF Runs
<1>2. /\ Step(f) = "accept" /\ connected' = TRUE /\ stack' = Cons(h, s)
      /\ lock' = lock /\ conn' = conn /\ status' = status /\ cache' = cache
  BY RunsFacts DEF Accepts
<1>3. h \in Placed
  BY <1>1, <1>2, StepFacts DEF Ends
<1>4. f.op = "connect" /\ f.at = 5 /\ h.op = "connect" /\ h.at = 6
  BY <1>1, <1>2, StepFacts
<1>5. Holder(h)
  <2>1. Holds(Code["connect"], 6)
    BY Bodies DEF Holds, Connect
  <2> QED BY <1>4, <2>1 DEF Holder, Body
<1>6. lock /\ conn # None
  BY <1>1, <1>4 DEF HasOpened
<1>7. SeesToIt(h)'
  BY <1>4, <1>5 DEF SeesToIt, Opener
<1>8. HasLock(h)'
  BY <1>2, <1>6 DEF HasLock
<1>9. HasOpened(h, g)'
  BY <1>4 DEF HasOpened
<1>10. IsSure(h, g)'
  BY <1>2 DEF IsSure
<1>11. ~Pausing(s) /\ Known'
  BY <1>1, <1>2, <1>4, <1>6 DEF Known, Asks
<1> QED BY <1>1, <1>2, <1>3, <1>7, <1>8, <1>9, <1>10, <1>11, Pushed

LEMMA BecomesKeeps ==
  ASSUME NEW f, NEW s, NEW g, NEW h, Runs(f, s, g, h), Becomes
  PROVE  Known' /\ Calls(stack)'
<1>1. /\ f \in Placed /\ f.op # "user" /\ s \in Seq(Placed) /\ s # <<>> /\ Here = Step(f) /\ g = Head(s)
      /\ Shape(s) /\ Undisturbed(s) /\ Links(f, g)
      /\ Pausing(s) => Asks(f) /\ connected /\ lock
      /\ Odd => Pausing(s) \/ Opening(s) \/ Opens(f, g) \/ SeesToIt(f)
      /\ HasLock(f) /\ HasOpened(f, g) /\ Known
  BY RunsFacts DEF Runs
<1>2. PICK op \in DOMAIN Code :
        /\ stack' = Cons(Frame(op), s)
        /\ \/ Step(f) = "look" /\ conn # None /\ op = "ack_error" /\ conn.error = "ACK"
           \/ Step(f) = "look" /\ conn # None /\ op = "fatal_error"
           \/ Step(f) \in {"load_failed", "name_exists"} /\ op = "ends_as_failed"
  BY RunsFacts DEF Becomes
<1>3. /\ conn' = None <=> conn = None
      /\ connected' = connected /\ lock' = lock /\ status' = status /\ cache' = cache
  BY DEF Becomes
<1> SUFFICES ASSUME NEW k, k = Frame(op) PROVE Known' /\ Calls(stack)'
  OBVIOUS
<1>4. /\ k \in Placed /\ k.op = op /\ k.at = 1 /\ ~SureAt(k)
      /\ Holder(k) => op = "ends_as_failed"
  BY FrameFacts
<1>5. /\ Step(f) = "look" => f.op = "check_error" /\ f.at = 1
      /\ Step(f) \in {"load_failed", "name_exists"} =>
            Holder(f) /\ f.op \in {"playlist_load", "database_save_playlist"}
  BY <1>1, StepFacts
<1>6. op \in {"ack_error", "fatal_error", "ends_as_failed"} /\ op # "user"
  BY <1>2
<1>7. Links(k, g)
  <2>1. \/ f.op = "check_error" /\ op \in {"ack_error", "fatal_error"}
        \/ f.op \in {"playlist_load", "database_save_playlist"}
    BY <1>2, <1>5
  <2> QED BY <1>1, <1>4, <2>1 DEF Links, Serves
<1>8. ~Pausing(s)
  <2>1. ~Asks(f)
    BY <1>2, <1>5 DEF Asks
  <2> QED BY <1>1, <2>1
<1>9. Odd' => Opening(s) \/ Opens(k, g) \/ SeesToIt(k)'
  <2>1. Odd' => Odd
    BY <1>3 DEF Odd
  <2>2. CASE Step(f) = "look"
    <3>1. ~SeesToIt(f)
      <4>1. ~Holder(f)
        BY <1>1, <1>5, <2>2, StepFacts DEF HeldSteps, Exchanges, ListSteps
      <4> QED BY <2>2, <4>1 DEF SeesToIt
    <3>2. Opens(f, g) => Opens(k, g)
      <4>1. Opens(f, g) => Opener(g) /\ conn.error # "ACK"
        BY <1>1, <1>5, <2>2 DEF Opens, HasOpened
      <4>2. Opens(f, g) => op = "fatal_error"
        BY <1>2, <2>2, <4>1
      <4> QED BY <1>4, <4>1, <4>2 DEF Opens
    <3> QED BY <1>1, <1>8, <2>1, <3>1, <3>2
  <2>3. CASE Step(f) \in {"load_failed", "name_exists"}
    <3>1. Holder(k)
      <4>1. Holds(Code["ends_as_failed"], 1)
        BY Bodies DEF Holds
      <4>2. op = "ends_as_failed"
        BY <1>2, <2>3
      <4> QED BY <1>4, <4>1, <4>2 DEF Holder, Body
    <3>2. SeesToIt(k)'
      BY <1>4, <1>6, <3>1 DEF SeesToIt, Opener
    <3> QED BY <3>2
  <2> QED BY <1>2, <2>2, <2>3
<1>10. HasLock(k)'
  <2>1. Holder(k) => Holder(f) /\ f.op # "connect"
    BY <1>2, <1>4, <1>5
  <2> QED BY <1>1, <1>3, <2>1 DEF HasLock
<1>11. HasOpened(k, g)'
  BY <1>4, <1>6 DEF HasOpened
<1>12. IsSure(k, g)'
  BY <1>4, <1>6 DEF IsSure
<1>13. Known'
  BY <1>1, <1>3 DEF Known
<1> QED BY <1>1, <1>2, <1>4, <1>7, <1>8, <1>9, <1>10, <1>11, <1>12, <1>13, Pushed

LEMMA SkipsOutputsKeeps ==
  ASSUME NEW f, NEW s, NEW g, NEW h, Runs(f, s, g, h), SkipsOutputs
  PROVE  Known' /\ Calls(stack)'
<1> SUFFICES ASSUME NEW i, i = On(f, 2) PROVE Known' /\ Calls(stack)'
  OBVIOUS
<1>1. /\ f \in Placed /\ f.op # "user" /\ s \in Seq(Placed) /\ s # <<>> /\ Here = Step(f) /\ g = Head(s)
      /\ Shape(s) /\ Undisturbed(s) /\ Links(f, g) /\ f.at \in Nat \ {0}
      /\ Pausing(s) => Asks(f) /\ connected /\ lock
      /\ Odd => Pausing(s) \/ Opening(s) \/ Opens(f, g) \/ SeesToIt(f)
      /\ Known /\ Rest = s /\ Top = f
  BY RunsFacts DEF Runs
<1>2. /\ Step(f) = "watch" /\ Gentle
      /\ \/ stack' = Cons(i, s)
         \/ stack' = Cons(Frame("server_update_outputs"), Cons(i, s))
  BY <1>1 DEF SkipsOutputs
<1>3. f.op = "status_update" /\ f.at = 10
  BY <1>1, <1>2, StepFacts
<1>4. i \in Placed /\ ~Holder(i) /\ ~SureAt(i) /\ Before(i) = "stats_if_database"
  BY <1>1, <1>2, WatchFacts
<1>5. i.op = "status_update" /\ i.at = 12
  BY <1>1, <1>3, OnFacts
<1>6. Links(i, g)
  BY <1>1, <1>3, <1>5 DEF Links
<1>7. ~Pausing(s)
  BY <1>1, <1>3 DEF Asks
<1>8. Odd' => Opening(s)
  <2>1. Odd' => Odd
    BY <1>2 DEF Odd, Gentle
  <2>2. ~Opens(f, g)
    BY <1>3 DEF Opens
  <2>3. ~Holder(f)
    BY <1>1, <1>2, <1>3, StepFacts DEF HeldSteps, Exchanges, ListSteps
  <2> QED BY <1>1, <1>2, <1>7, <2>1, <2>2, <2>3 DEF SeesToIt
<1>9. Known'
  BY <1>1, <1>2 DEF Known, Gentle
<1>10. CASE stack' = Cons(i, s)
  <2>1. HasLock(i)'
    BY <1>4 DEF HasLock
  <2>2. HasOpened(i, g)'
    BY <1>5 DEF HasOpened
  <2>3. IsSure(i, g)'
    BY <1>4, <1>5 DEF IsSure, Confirms
  <2> QED BY <1>1, <1>4, <1>6, <1>7, <1>8, <1>9, <1>10, <2>1, <2>2, <2>3, Pushed
<1>11. CASE stack' = Cons(Frame("server_update_outputs"), Cons(i, s))
  <2> SUFFICES ASSUME NEW op, op = "server_update_outputs" PROVE Known' /\ Calls(stack)'
    OBVIOUS
  <2>1. op \in DOMAIN Code \cup {"user"} /\ op # "ends_as_failed" /\ op # "check_error"
    BY FunctionNames
  <2>2. Frame(op).op = op
    BY <2>1, FrameFacts
  <2>3. Links(Frame(op), i)
    BY <1>4, <1>5, <2>2 DEF Links, Serves, Steady, Plain, HeldSteps, Exchanges, ListSteps
  <2>4. ~Pauser(i)
    BY <1>5 DEF Pauser
  <2> QED BY <1>1, <1>4, <1>6, <1>7, <1>8, <1>9, <1>11, <2>1, <2>3, <2>4, Waits
<1> QED BY <1>2, <1>10, <1>11

LEMMA ReturnedKeeps ==
  ASSUME NEW f, NEW s, NEW g, NEW h, Runs(f, s, g, h), Returned
  PROVE  Known' /\ Calls(stack)'
<1>1. /\ f \in Placed /\ f.op # "user" /\ s \in Seq(Placed) /\ s # <<>> /\ Here = Step(f) /\ g = Head(s)
      /\ Shape(s) /\ Undisturbed(s) /\ Links(f, g) /\ f.at \in Nat \ {0} /\ g \in Placed
      /\ Pausing(s) => connected /\ lock
      /\ Odd => Pausing(s) \/ Opening(s) \/ Opens(f, g) \/ SeesToIt(f)
      /\ HasOpened(f, g) /\ IsSure(f, g) /\ Known
  BY RunsFacts DEF Runs
<1>2. /\ Step(f) \in Ends \cup Tests
      /\ Step(f) = "look" => conn = None
      /\ Step(f) = "or_fail" => result # "ok"
      /\ result' = "ok" => Step(f) \in Successes
      /\ Step(f) = "return" => result' = "ok"
      /\ stack' = s
      /\ connected' = connected /\ lock' = lock /\ conn' = conn /\ status' = status /\ cache' = cache
  BY RunsFacts DEF Returned, data
<1>3. /\ f.op = "check_error" => (Step(f) = "look" /\ f.at = 1) \/ (Step(f) = "return" /\ f.at = 2)
      /\ f.op = "fatal_error" => Step(f) \in {"error_callback", "disconnect", "return_failed"}
      /\ f.op = "fatal_error" /\ f.at \in {1, 2} => Step(f) \in {"error_callback", "disconnect"}
      /\ f.op = "ack_error" => Step(f) \in {"error_callback", "obey", "return_failed"}
      /\ f.op = "status_check" => /\ Step(f) \in {"connected", "need_status", "or_fail", "return"}
                                  /\ Step(f) = "return" => SureAt(f)
      /\ f.op = "status_update" => (Step(f) \in Successes => SureAt(f))
      /\ f.op = "playlist_get_song" => (Step(f) \in Successes => SureAt(f))
  BY <1>1, NamedSteps
<1>4. Opener(g) /\ g.at > 1 => Before(g) = "check_error"
  BY <1>1, BackFacts DEF Links, Opener
<1>5. Opener(g) => Before(g) = "check_error" /\ f.op \in {"check_error", "ack_error", "fatal_error"}
  <2>1. Opener(g) => g.op # "user" /\ g.at > 1
    BY DEF Opener
  <2> QED BY <1>1, <1>4, <2>1 DEF Links, Serves
<1>6. Opener(g) /\ result' = "ok" => conn' # None /\ lock'
  <2>1. Opener(g) /\ result' = "ok" => f.op = "check_error"
    BY <1>2, <1>3, <1>5 DEF Successes
  <2> QED BY <1>1, <1>2, <2>1 DEF HasOpened
<1>7. Odd' => Pausing(s) \/ Opening(s) \/ SeesToIt(g)'
  <2>1. Odd' => Odd
    BY <1>2 DEF Odd
  <2>2. ASSUME Opens(f, g) PROVE SeesToIt(g)'
    <3>1. Opener(g) /\ f.op = "check_error"
      BY <1>2, <1>3, <2>2 DEF Opens, Ends, Tests
    <3>2. Step(f) # "look"
      BY <1>1, <1>2, <3>1 DEF HasOpened
    <3>3. result' = "ok"
      BY <1>2, <1>3, <3>1, <3>2
    <3>4. Holder(g)
      <4>1. Holds(Code["connect"], 4)
        BY Bodies DEF Holds, Connect
      <4> QED BY <3>1, <4>1 DEF Opener, Holder, Body
    <3> QED BY <3>1, <3>3, <3>4 DEF SeesToIt, Opener
  <2>3. ~SeesToIt(f)
    <3>1. Step(f) # "close" /\ Step(f) # "unlock" /\ Step(f) \notin HeldSteps
      BY <1>2 DEF Ends, Tests, HeldSteps, Exchanges, ListSteps
    <3>2. Step(f) \notin {"check_error", "accept", "player_get_state"}
      BY <1>2 DEF Ends, Tests
    <3>3. Holder(f) => (f.op = "connect" /\ f.at \in 3 .. 5) \/ (f.op = "player_pause" /\ f.at = 3)
      BY <1>1, <3>1, StepFacts
    <3>4. Holder(f) => f.op = "connect" /\ f.at = 4
      <4>1. /\ f.op = "connect" /\ f.at = 3 => Step(f) = "check_error"
            /\ f.op = "connect" /\ f.at = 5 => Step(f) = "accept"
            /\ f.op = "player_pause" /\ f.at = 3 => Step(f) = "player_get_state"
        BY <1>1, NamedSteps
      <4> QED BY <1>1, <3>2, <3>3, <4>1
    <3>5. f.op = "connect" /\ f.at = 4 => result # "ok"
      <4>1. f.op = "connect" /\ f.at = 4 => Step(f) = "or_fail"
        BY <1>1, NamedSteps
      <4> QED BY <1>2, <4>1
    <3> QED BY <3>1, <3>4, <3>5 DEF SeesToIt, Opener
  <2> QED BY <1>1, <2>1, <2>2, <2>3
<1>8. g.op # "user" /\ Before(g) \in Confirms /\ Step(g) = "or_fail" /\ result' = "ok" => connected'
  <2> SUFFICES ASSUME g.op # "user", Before(g) \in Confirms, result' = "ok" PROVE connected
    BY <1>2
  <2>1. Serves(f.op, Before(g)) /\ Step(f) \in Successes
    BY <1>1, <1>2 DEF Links
  <2>2. CASE Before(g) = "unlock"
    <3>1. f.op = "check_error"
      BY <1>3, <2>1, <2>2 DEF Serves, Successes
    <3>2. ~Opener(g)
      BY <1>5, <2>2
    <3> QED BY <1>1, <3>1, <3>2 DEF IsSure
  <2>3. CASE Before(g) \in {"need_status", "status_check", "playlist_get_song"}
    <3>1. SureAt(f)
      BY <1>3, <2>1, <2>3 DEF Serves, Successes
    <3> QED BY <1>1, <3>1 DEF IsSure
  <2> QED BY <2>2, <2>3 DEF Confirms
<1>9. Known'
  BY <1>1, <1>2 DEF Known
<1>10. Pausing(s) => connected' /\ lock'
  BY <1>1, <1>2
<1> QED BY <1>1, <1>2, <1>6, <1>7, <1>8, <1>9, <1>10, Popped

LEMMA StartsKeeps ==
  ASSUME IInv, stack # <<>>, Starts
  PROVE  Known' /\ Calls(stack)'
<1>1. PICK op \in Operations : stack' = Cons(Frame(op), stack)
  BY DEF Starts
<1>2. op \in DOMAIN Code /\ op \notin {"user", "ends_as_failed", "check_error", "fatal_error", "ack_error"}
  BY SessionAssumption, FunctionNames DEF Public, Internal
<1>3. Calls(stack) /\ Known /\ UNCHANGED data /\ Top.op = "user"
  BY DEF IInv, Starts
<1> SUFFICES ASSUME NEW s, s = stack, NEW f, f = Top, NEW k, k = Frame(op)
             PROVE  Known' /\ Calls(stack)'
  OBVIOUS
<1>4. /\ k \in Placed /\ k.op = op /\ k.at = 1 /\ ~SureAt(k)
      /\ Holder(k) => op = "ends_as_failed"
  BY <1>2, FrameFacts
<1>5. /\ f \in Placed /\ Rest \in Seq(Placed) /\ s = Cons(f, Rest) /\ f = Head(s)
      /\ s \in Seq(Placed) /\ s # <<>> /\ Shape(s) /\ Undisturbed(s)
      /\ Rest # <<>> => (Pausing(Rest) => Asks(f))
      /\ Pausing(s) <=> Pauser(f) \/ Pausing(Rest)
  <2>1. Top \in Placed /\ Rest \in Seq(Placed) /\ stack = Cons(Top, Rest)
    BY <1>3, TopFacts
  <2>2. Rest # <<>> => (Pausing(Rest) => Asks(f))
    BY <1>3, TopFacts
  <2>3. Pausing(Cons(Top, Rest)) <=> Pauser(Top) \/ Pausing(Rest)
    BY <2>1, ConsFacts
  <2>4. stack \in Seq(Placed) /\ Shape(stack) /\ Undisturbed(stack)
    BY <1>3 DEF Calls, Shape
  <2> QED BY <2>1, <2>2, <2>3, <2>4 DEF Top
<1>6. ~Pausing(s)
  <2>1. ~Pauser(f) /\ ~Asks(f)
    BY <1>3 DEF Pauser, Asks
  <2>2. Rest = <<>> => ~Pausing(Rest)
    BY DEF Pausing
  <2> QED BY <1>5, <2>1, <2>2
<1>7. Odd' => Opening(s)
  <2>1. Odd' => Odd
    BY <1>3 DEF Odd, data
  <2>2. ~SeesToIt(f)
    BY <1>3 DEF SeesToIt
  <2>3. Pausing(Rest) => Pausing(s)
    BY <1>5
  <2> QED BY <1>3, <1>6, <2>1, <2>2, <2>3 DEF Calls, Rest, Top
<1>8. Links(k, f)
  BY <1>3 DEF Links
<1>9. HasLock(k)'
  BY <1>2, <1>4 DEF HasLock
<1>10. HasOpened(k, f)'
  BY <1>2, <1>4 DEF HasOpened
<1>11. IsSure(k, f)'
  BY <1>2, <1>4 DEF IsSure
<1>12. Known'
  BY <1>3 DEF Known, data
<1> QED BY <1>1, <1>4, <1>5, <1>6, <1>7, <1>8, <1>9, <1>10, <1>11, <1>12, Pushed

LEMMA ResumesKeeps ==
  ASSUME IInv, stack # <<>>, Resumes
  PROVE  Known' /\ Calls(stack)'
<1> SUFFICES ASSUME NEW s, s = Rest, NEW f, f = Top, NEW g, g = Head(s)
             PROVE  Known' /\ Calls(stack)'
  OBVIOUS
<1>1. f.op = "user" /\ s # <<>> /\ stack' = s /\ UNCHANGED data /\ Calls(stack) /\ Known
  BY DEF Resumes, IInv
<1>2. /\ f \in Placed /\ s \in Seq(Placed) /\ Shape(s) /\ Undisturbed(s) /\ Links(f, g) /\ g \in Placed
      /\ Pausing(s) => connected /\ lock
      /\ Odd => Pausing(s) \/ Opening(s) \/ Opens(f, g) \/ SeesToIt(f)
  BY <1>1, TopFacts
<1>3. ~Opens(f, g) /\ ~SeesToIt(f)
  BY <1>1 DEF Opens, SeesToIt
<1>4. Odd' => Pausing(s) \/ Opening(s) \/ SeesToIt(g)'
  <2>1. Odd' => Odd
    BY <1>1 DEF Odd, data
  <2> QED BY <1>2, <1>3, <2>1
<1>5. g.op # "user" => Before(g) \notin Confirms /\ Before(g) # "check_error"
  BY <1>1, <1>2, FunctionNames DEF Links, Serves, Confirms
<1>6. ~Opener(g)
  <2>1. Opener(g) => g.op # "user" /\ g.at > 1 /\ g.at = 4 /\ g.op = "connect"
    BY DEF Opener
  <2> QED BY <1>2, <1>5, <2>1, BackFacts DEF Links
<1>7. Known' /\ (Pausing(s) => connected' /\ lock')
  BY <1>1, <1>2 DEF Known, data
<1> QED BY <1>1, <1>2, <1>4, <1>5, <1>6, <1>7, Popped

\* Whatever the kind of step, the invariant is there again.
LEMMA KindsKeep ==
  ASSUME IInv, stack # <<>>, Kinds
  PROVE  Known' /\ (stack' # <<>> => Calls(stack)')
<1>1. CASE Starts
  BY <1>1, StartsKeeps
<1>2. CASE Resumes
  BY <1>2, ResumesKeeps
<1>3. CASE Dies
  BY <1>3 DEF Dies, IInv, Known, data
<1>4. ASSUME Top.op # "user",
             \/ Proceeds \/ SkipsOutputs \/ Takes \/ GivesBack \/ Begins \/ Accepts \/ Closes
             \/ CallsOn \/ Becomes \/ Returned
      PROVE  Known' /\ Calls(stack)'
  <2> SUFFICES ASSUME NEW f, f = Top, NEW s, s = Rest, NEW g, g = Head(s), NEW h, h = On(f, 1)
               PROVE  Known' /\ Calls(stack)'
    OBVIOUS
  <2>1. Runs(f, s, g, h)
    BY <1>4 DEF Runs
  <2> QED BY <1>4, <2>1, ProceedsKeeps, SkipsOutputsKeeps, TakesKeeps, GivesBackKeeps, BeginsKeeps,
             AcceptsKeeps, ClosesKeeps, CallsOnKeeps, BecomesKeeps, ReturnedKeeps
<1> QED BY <1>1, <1>2, <1>3, <1>4 DEF Kinds

-----------------------------------------------------------------------------
(* Every step is of one of the kinds *)

\* The steps that are not functions.
Steps ==
  Steady \cup Ends \cup Tests \cup Special \cup
    {"error_callback", "obey", "leave", "signal_connected", "signal_status", "forget_status",
     "need_status", "need_stats", "compare", "clear_error", "stats_if_stopped", "watch",
     "stats_if_database", "record", "stats_value", "ask_again", "drop_old_song", "keep_song"}

LEMMA StepNames == DOMAIN Code \cap Steps = {} /\ "user" \notin Steps
BY DEF Code, Steps, Steady, Ends, Tests, Special, Plain, HeldSteps, Exchanges, ListSteps

\* What a step may rely on.
LEMMA HereFacts ==
  ASSUME IInv, stack # <<>>, Here # "user"
  PROVE  /\ Top.op # "user" /\ Typed /\ Known
         /\ After(1) = Cons(Next1, Rest) /\ After(2) = Cons(On(Top, 2), Rest)
         /\ Here \in Exchanges \cup {"load_failed", "name_exists", "forgive", "pause", "unlock"} =>
               connected /\ lock /\ conn # None
         /\ Here \in {"lock", "keep_song"} => connected
         /\ Here \in HeldSteps \cup {"clear_error", "watch"} => Top.op \notin {"connect", "check_error"}
<1>1. Typed /\ Known /\ Calls(stack)
  BY DEF IInv
<1>2. Top.op # "user"
  BY DEF Here
<1> SUFFICES ASSUME NEW f, f = Top
             PROVE  /\ Here \in Exchanges \cup {"load_failed", "name_exists", "forgive", "pause", "unlock"} =>
                          connected /\ lock /\ conn # None
                    /\ Here \in {"lock", "keep_song"} => connected
                    /\ Here \in HeldSteps \cup {"clear_error", "watch"} => f.op \notin {"connect", "check_error"}
  BY <1>1, <1>2 DEF After, Cons, On, Next1, Rest, HeldSteps, Exchanges, ListSteps
<1>3. f \in Placed /\ f.op # "user" /\ Here = Step(f)
  BY <1>1, <1>2, TopFacts
<1>4. HasLock(f) /\ (SureAt(f) => connected)
  BY <1>1 DEF Calls, Top, IsSure
<1>5. Here \in HeldSteps \cup {"clear_error", "watch"} => f.op \notin {"connect", "check_error"}
  BY <1>3, StepFacts
<1>6. f.op = "connect" /\ Here = "unlock" => f.at = 6
  <2>1. f.op = "connect" => f.at \in 1 .. Len(Connect) /\ Step(f) = Connect[f.at]
    BY <1>3, OnFacts, Bodies DEF Body, Step
  <2>2. \A i \in 1 .. Len(Connect) : Connect[i] \in {"unlock", "load_failed", "name_exists"} => i = 6
    BY DEF Connect
  <2> QED BY <1>3, <2>1, <2>2
<1>7. Here \in Exchanges \cup {"load_failed", "name_exists", "forgive", "pause", "unlock"} => connected /\ lock
  <2>1. Here \in Exchanges \cup {"load_failed", "name_exists", "forgive", "pause", "unlock"} => Holder(f)
    BY <1>3, StepFacts
  <2>2. Here \in Exchanges \cup {"load_failed", "name_exists", "forgive", "pause"} => f.op # "connect"
    BY <1>5 DEF HeldSteps
  <2> QED BY <1>4, <1>6, <2>1, <2>2 DEF HasLock
<1>8. Here \in {"lock", "keep_song"} => connected
  BY <1>3, <1>4, StepFacts
<1> QED BY <1>1, <1>5, <1>7, <1>8 DEF Known

\* The next step, with the session as it was.
LEMMA Goes ==
  ASSUME IInv, stack # <<>>, Here \in Steps \ (Ends \cup Special), stack' = After(1), Gentle,
         Here \in {"connected", "if_connected"} => connected,
         Here = "or_fail" => result = "ok",
         Here = "need_status" => status # "none",
         Here = "leave" => ~connected
  PROVE  Kinds
<1>1. Here # "user" /\ Here \notin DOMAIN Code
  BY StepNames
<1> QED BY <1>1, HereFacts DEF Kinds, Proceeds

LEMMA Stays ==
  ASSUME UNCHANGED data
  PROVE  Gentle
BY DEF data, Gentle

\* A call of another function.
LEMMA Lets ==
  ASSUME IInv, stack # <<>>, NEW op \in DOMAIN Code \cup {"user"},
         Here \notin Steady \cup Ends \cup Special, Here # "user",
         Serves(op, Here), op # "ends_as_failed",
         op = "check_error" => Here = "check_error",
         Here \in DOMAIN Code => op = Here,
         Here \notin DOMAIN Code => Here \in Lending /\ op \in Lent,
         Here = "leave" => op = "disconnect",
         stack' = <<Frame(op)>> \o After(1), UNCHANGED data
  PROVE  Kinds
<1>1. stack' = Cons(Frame(op), Cons(Next1, Rest))
  BY HereFacts DEF Cons
<1> QED BY <1>1, HereFacts DEF Kinds, CallsOn

\* The end of a function.
LEMMA Leaves ==
  ASSUME IInv, stack # <<>>, Here \in Ends \cup Tests, NEW r, Return(r), UNCHANGED data,
         Here = "lock" => lock,
         Here = "connected" => ~connected,
         Here = "look" => conn = None,
         Here = "or_fail" => result # "ok",
         r = "ok" => Here \in Successes,
         Here = "return" => r = "ok"
  PROVE  Kinds
<1>1. Here # "user"
  BY DEF Ends, Tests
<1> QED BY <1>1, HereFacts DEF Kinds, Returned, Return, Rest

\* Steps that are about the stack alone.
LEMMA StackSteps ==
  ASSUME IInv, stack # <<>>,
         \/ CallFunction \/ Returns \/ OrFail \/ CheckConnected \/ CheckVersion \/ CheckCommandAllowed
         \/ ErrorCallback \/ Obey \/ Leave \/ SignalConnected \/ SignalStatus \/ Need
         \/ StatsIfStopped \/ StatsIfDatabase \/ ReadValue \/ AskAgain \/ IfPlaying \/ IfNotCached
  PROVE  Kinds /\ Typed'
<1>1. UNCHANGED data /\ Gentle
  <2>1. UNCHANGED data
    BY DEF CallFunction, Returns, OrFail, CheckConnected, CheckVersion, CheckCommandAllowed,
       ErrorCallback, Obey, Leave, SignalConnected, SignalStatus, Need, StatsIfStopped, StatsIfDatabase,
       ReadValue, AskAgain, IfPlaying, IfNotCached
  <2> QED BY <2>1, Stays
<1>2. Typed
  BY DEF IInv
<1>3. result' \in {"ok", "failed", "disconnect"} => Typed'
  BY <1>1, <1>2 DEF Typed, data
<1>4. CASE CallFunction
  <2>1. Here \in DOMAIN Code /\ stack' = <<Frame(Here)>> \o After(1) /\ result' = result
    BY <1>4 DEF CallFunction, Call
  <2>2. Here \notin Steady \cup Ends \cup Special /\ Here # "user" /\ Here # "leave"
    BY <2>1, StepNames, FunctionNames DEF Steps
  <2>3. Here # "ends_as_failed"
    <3>1. Calls(stack) /\ Top.op # "user"
      BY <2>2 DEF IInv, Here
    <3>2. Top \in Placed /\ Here = Step(Top)
      BY <3>1, TopFacts
    <3> QED BY <3>1, <3>2, StepFacts
  <2>4. Serves(Here, Here)
    BY <2>1, FunctionNames DEF Serves
  <2> QED BY <1>1, <1>2, <1>3, <2>1, <2>2, <2>3, <2>4, Lets DEF Typed
<1>5. CASE Returns
  <2>1. /\ Here \in Ends /\ Here \in Ends \cup Tests /\ Here \notin {"lock", "look", "or_fail", "connected"}
        /\ \E r \in {"ok", "failed", "disconnect"} :
              /\ Return(r) /\ (r = "ok" => Here \in Successes) /\ (Here = "return" => r = "ok")
    BY <1>2, <1>5 DEF Returns, Ends, Successes, Typed
  <2>2. result' \in {"ok", "failed", "disconnect"}
    BY <2>1 DEF Return
  <2> QED BY <1>1, <1>3, <2>1, <2>2, Leaves
<1>6. CASE OrFail
  <2>1. Here = "or_fail" /\ Here \in Tests /\ Here \in Steps \ (Ends \cup Special)
    BY <1>6 DEF OrFail, Tests, Steps, Ends, Special
  <2>2. CASE result = "ok"
    <3>1. stack' = After(1) /\ result' = "ok"
      BY <1>6, <2>2 DEF OrFail, Advance, Skip, Keep
    <3> QED BY <1>1, <1>3, <2>1, <2>2, <3>1, Goes
  <2>3. CASE result # "ok"
    <3>1. Return("failed") /\ result' = "failed"
      BY <1>6, <2>3 DEF OrFail, Return
    <3> QED BY <1>1, <1>3, <2>1, <2>3, <3>1, Leaves
  <2> QED BY <2>2, <2>3
<1>7. CASE CheckConnected
  <2>1. Here \in {"connected", "if_connected"} /\ Here \in Tests /\ Here \in Steps \ (Ends \cup Special)
    BY <1>7 DEF CheckConnected, Tests, Steps, Ends, Special
  <2>2. CASE connected
    <3>1. stack' = After(1) /\ result' = "ok"
      BY <1>7, <2>2 DEF CheckConnected, Advance, Skip, Keep
    <3> QED BY <1>1, <1>3, <2>1, <2>2, <3>1, Goes
  <2>3. CASE ~connected
    <3>1. \E r \in {"ok", "failed"} : Return(r) /\ (r = "ok" => Here \in Successes) /\ result' = r
      BY <1>7, <2>1, <2>3 DEF CheckConnected, Return, Successes
    <3> QED BY <1>1, <1>3, <2>1, <2>3, <3>1, Leaves
  <2> QED BY <2>2, <2>3
<1>8. CASE CheckVersion \/ CheckCommandAllowed \/ IfPlaying
  <2>1. /\ Here \in {"version", "command_allowed", "if_playing", "if_not_stopped"}
        /\ Here \in Tests /\ Here \in Steps \ (Ends \cup Special)
    BY <1>8 DEF CheckVersion, CheckCommandAllowed, IfPlaying, Tests, Steps, Ends, Special
  <2>2. (stack' = After(1) /\ result' = result) \/ (Return("failed") /\ result' = "failed")
    BY <1>8 DEF CheckVersion, CheckCommandAllowed, IfPlaying, Advance, Skip, Keep, Return
  <2>3. CASE stack' = After(1) /\ result' = result
    BY <1>1, <1>2, <1>3, <2>1, <2>3, Goes DEF Typed
  <2>4. CASE Return("failed") /\ result' = "failed"
    BY <1>1, <1>3, <2>1, <2>4, Leaves
  <2> QED BY <2>2, <2>3, <2>4
<1>9. CASE IfNotCached
  <2>1. /\ Here \in {"if_no_song", "if_no_handlers"}
        /\ Here \in Tests /\ Here \in Successes /\ Here \in Steps \ (Ends \cup Special)
    BY <1>9 DEF IfNotCached, Tests, Steps, Ends, Special, Successes
  <2>2. (stack' = After(1) /\ result' = "ok") \/ (Return("ok") /\ result' = "ok")
    BY <1>9 DEF IfNotCached, Advance, Skip, Keep, Return
  <2>3. CASE stack' = After(1) /\ result' = "ok"
    BY <1>1, <1>3, <2>1, <2>3, Goes
  <2>4. CASE Return("ok") /\ result' = "ok"
    BY <1>1, <1>3, <2>1, <2>4, Leaves
  <2> QED BY <2>2, <2>3, <2>4
<1>10. CASE ErrorCallback \/ SignalConnected \/ SignalStatus
  <2>1. /\ Here \in {"error_callback", "signal_connected", "signal_status"}
        /\ Here \in Steps \ (Ends \cup Special) /\ Here \notin Steady /\ Here \notin DOMAIN Code
    BY <1>10, StepNames DEF ErrorCallback, SignalConnected, SignalStatus, Steps, Ends, Special,
       Steady, Plain, HeldSteps, Exchanges, ListSteps
  <2>2. /\ stack' = After(1) \/ stack' = <<Frame("user")>> \o After(1)
        /\ result' \in {"ok", "failed", "disconnect"}
    BY <1>10 DEF ErrorCallback, SignalConnected, SignalStatus, CallBack, Advance, Skip, Keep
  <2>3. CASE stack' = After(1)
    BY <1>1, <1>3, <2>1, <2>2, <2>3, Goes
  <2>4. CASE stack' = <<Frame("user")>> \o After(1)
    BY <1>1, <1>3, <2>1, <2>2, <2>4, Lets DEF Serves, Lending, Lent
  <2> QED BY <2>2, <2>3, <2>4
<1>11. CASE Obey \/ Leave \/ StatsIfStopped \/ StatsIfDatabase \/ AskAgain
  <2>1. /\ Here \in {"obey", "leave", "stats_if_stopped", "stats_if_database", "ask_again"}
        /\ Here \in Steps \ (Ends \cup Special) /\ Here \notin Steady /\ Here \notin DOMAIN Code
    BY <1>11, StepNames DEF Obey, Leave, StatsIfStopped, StatsIfDatabase, AskAgain, Steps, Ends, Special,
       Steady, Plain, HeldSteps, Exchanges, ListSteps
  <2>2. /\ \/ stack' = After(1) /\ (Here = "leave" => ~connected)
           \/ \E op \in {"disconnect", "stats_update_real", "player_get_state"} :
                /\ Here = "leave" => op = "disconnect"
                /\ stack' = <<Frame(op)>> \o After(1)
        /\ result' \in {"ok", result}
    BY <1>11 DEF Obey, Leave, StatsIfStopped, StatsIfDatabase, AskAgain, Advance, Skip, Keep, Call
  <2>3. result' \in {"ok", "failed", "disconnect"}
    BY <1>2, <2>2 DEF Typed
  <2>4. CASE stack' = After(1) /\ (Here = "leave" => ~connected)
    BY <1>1, <1>3, <2>1, <2>3, <2>4, Goes
  <2>5. ASSUME NEW op \in {"disconnect", "stats_update_real", "player_get_state"},
               Here = "leave" => op = "disconnect", stack' = <<Frame(op)>> \o After(1)
        PROVE  Kinds
    <3>1. op \in DOMAIN Code /\ Serves(op, Here) /\ op # "ends_as_failed" /\ op # "check_error"
      BY <2>1, FunctionNames DEF Serves
    <3>2. Here \in Lending /\ op \in Lent
      BY <2>1 DEF Lending, Lent
    <3> QED BY <1>1, <2>1, <2>5, <3>1, <3>2, Lets
  <2> QED BY <1>3, <2>2, <2>3, <2>4, <2>5
<1>12. CASE Need
  <2>1. /\ Here \in {"need_status", "need_stats"}
        /\ Here \in Steps \ (Ends \cup Special) /\ Here \notin Steady /\ Here \notin DOMAIN Code
    BY <1>12, StepNames DEF Need, Steps, Ends, Special, Steady, Plain, HeldSteps, Exchanges, ListSteps
  <2>2. /\ \/ stack' = After(1) /\ (Here = "need_status" => status # "none")
           \/ Here = "need_status" /\ stack' = <<Frame("status_update")>> \o After(1)
           \/ Here = "need_stats" /\ stack' = <<Frame("stats_update")>> \o After(1)
        /\ result' = "ok"
    BY <1>12 DEF Need, Advance, Skip, Keep, Call
  <2>3. CASE stack' = After(1) /\ (Here = "need_status" => status # "none")
    BY <1>1, <1>3, <2>1, <2>2, <2>3, Goes
  <2>4. CASE Here = "need_status" /\ stack' = <<Frame("status_update")>> \o After(1)
    BY <1>1, <1>3, <2>1, <2>2, <2>4, Lets, FunctionNames DEF Serves, Lending, Lent
  <2>5. CASE Here = "need_stats" /\ stack' = <<Frame("stats_update")>> \o After(1)
    BY <1>1, <1>3, <2>1, <2>2, <2>5, Lets, FunctionNames DEF Serves, Lending, Lent
  <2> QED BY <2>2, <2>3, <2>4, <2>5
<1>13. CASE ReadValue
  <2>1. /\ Here \in {"status_value", "record", "stats_value"}
        /\ Here \in Steps \ (Ends \cup Special)
    BY <1>13 DEF ReadValue, Steps, Ends, Special, Steady, HeldSteps
  <2>2. stack' = After(1) /\ result' = result
    BY <1>13 DEF ReadValue, Advance, Skip, Keep
  <2> QED BY <1>1, <1>2, <1>3, <2>1, <2>2, Goes DEF Typed
<1> QED BY <1>4, <1>5, <1>6, <1>7, <1>8, <1>9, <1>10, <1>11, <1>12, <1>13

\* Every answer of the server is a connection.
LEMMA AnswersAreConnections ==
  ASSUME conn \in Connections
  PROVE  /\ Answers \subseteq Connections
         /\ Cleared \in Connections
<1>1. Sender \in {"one", "more"} /\ conn.late \in {"no", "one", "more"}
  BY DEF Sender, Connections
<1>2. \A c \in Answers : c \in Connections
  BY <1>1 DEF Answers, Connections
<1>3. Cleared \in Connections
  BY DEF Cleared, Connections
<1> QED BY <1>2, <1>3

\* Steps that change what is known of the server, and no more.
LEMMA CacheSteps ==
  ASSUME IInv, stack # <<>>,
         FreeCommands \/ ForgetStatus \/ Compare \/ DropOldSong \/ KeepSong
  PROVE  Kinds /\ Typed'
<1>1. /\ Here \in {"free_commands", "forget_status", "compare", "drop_old_song", "keep_song"}
      /\ stack' = After(1) /\ result' = "ok"
      /\ connected' = connected /\ lock' = lock /\ conn' = conn
  BY DEF FreeCommands, ForgetStatus, Compare, DropOldSong, KeepSong, Advance, Skip, Keep
<1>2. Here # "user" /\ Here \in Steps \ (Ends \cup Special)
  BY <1>1 DEF Steps, Ends, Special, Steady, Plain
<1>3. Typed /\ (Here = "keep_song" => connected)
  BY <1>2, HereFacts
<1>4. /\ status' \in {status, "none"}
      /\ cache' \subseteq cache \/ (Here = "keep_song" /\ cache' = cache \cup {"song"})
  BY DEF FreeCommands, ForgetStatus, Compare, DropOldSong, KeepSong
<1>5. Gentle
  BY <1>1, <1>3, <1>4 DEF Gentle
<1>6. Typed'
  BY <1>1, <1>3, <1>4 DEF Typed, Statuses, Cacheable
<1> QED BY <1>1, <1>2, <1>5, <1>6, Goes

\* Steps that send a command and read the answer.
LEMMA SendingSteps ==
  ASSUME IInv, stack # <<>>,
         Exchange \/ ClearServerError \/ Watch \/ Pause \/ Forgive
  PROVE  Kinds /\ Typed'
<1>1. /\ Here \in Exchanges \cup {"clear_error", "watch", "pause", "forgive"}
      /\ result' = "ok" /\ connected' = connected /\ lock' = lock
  BY DEF Exchange, ClearServerError, Watch, Pause, Forgive, Keep
<1>2. Here # "user" /\ Here \in Steps \ (Ends \cup Special) /\ Here \notin {"connected", "if_connected", "or_fail", "need_status", "leave"}
  BY <1>1 DEF Steps, Ends, Special, Steady, HeldSteps, Exchanges, ListSteps
<1>3. /\ Typed /\ Top.op # "user" /\ Top.op \notin {"connect", "check_error"}
      /\ Here \in Exchanges \cup {"pause", "forgive"} => connected /\ conn # None
      /\ After(1) = Cons(Next1, Rest) /\ After(2) = Cons(On(Top, 2), Rest)
  BY <1>1, <1>2, HereFacts DEF HeldSteps
<1>4. CASE conn = None
  <2>1. UNCHANGED data /\ Here = "watch"
    BY <1>3, <1>4, NoneAssumption DEF Exchange, ClearServerError, Watch, Pause, Forgive, data
  <2>2. Gentle /\ Typed'
    BY <1>1, <1>3, <2>1, Stays DEF Typed, data
  <2>3. stack' = <<Frame("server_update_outputs")>> \o After(2)
    BY <1>4, <2>1 DEF Watch, Exchange, ClearServerError, Pause, Forgive, Exchanges, ListSteps
  <2> QED BY <1>3, <2>1, <2>2, <2>3 DEF Kinds, SkipsOutputs, Cons
<1>5. CASE conn # None
  <2>1. conn \in Connections
    BY <1>3, <1>5 DEF Typed
  <2>2. Answers \subseteq Connections /\ Cleared \in Connections
    BY <2>1, AnswersAreConnections
  <2>3. conn' \in Connections
    BY <2>1, <2>2 DEF Exchange, ClearServerError, Watch, Pause, Forgive
  <2>4. /\ Here \notin Exchanges \cup {"pause"} => status' = status /\ cache' = cache
        /\ status' \in Statuses
    <3>1. Here \notin Exchanges \cup {"pause"} => status' = status /\ cache' = cache
      BY DEF Exchange, ClearServerError, Watch, Pause, Forgive
    <3>2. CASE Exchange
      BY <1>3, <3>2 DEF Exchange, Typed, Statuses
    <3>3. CASE Pause
      BY <1>3, <3>3 DEF Pause, Typed, Statuses
    <3>4. CASE ClearServerError \/ Watch \/ Forgive
      BY <1>3, <3>4 DEF ClearServerError, Watch, Forgive, Typed
    <3> QED BY <3>1, <3>2, <3>3, <3>4
  <2>5. cache' \subseteq Cacheable
    <3>1. CASE Exchange
      <4>1. \A step \in ListSteps : \A kept \in ListKept(step) : kept \subseteq Cacheable
        BY DEF ListSteps, ListKept, Cacheable
      <4>2. \/ cache' \in {cache, cache \cup {"stats"}, cache \ {"stats"}}
            \/ Here \in ListSteps /\ \E kept \in ListKept(Here) : cache' = cache \cup kept
        BY <3>1 DEF Exchange
      <4> QED BY <1>3, <4>1, <4>2 DEF Typed, Cacheable
    <3>2. CASE ClearServerError \/ Watch \/ Pause \/ Forgive
      BY <1>3, <3>2 DEF ClearServerError, Watch, Pause, Forgive, Typed
    <3> QED BY <3>1, <3>2
  <2>6. Typed'
    BY <1>1, <1>3, <2>3, <2>4, <2>5 DEF Typed
  <2>7. conn' # None
    BY <2>3, NoneAssumption
  <2>8. Gentle
    BY <1>1, <1>3, <1>5, <2>4, <2>7 DEF Gentle
  <2>9. \/ stack' = After(1)
        \/ Here = "watch" /\ stack' = After(2)
        \/ Here = "watch" /\ stack' = <<Frame("server_update_outputs")>> \o After(2)
    BY DEF Exchange, ClearServerError, Watch, Pause, Forgive, Advance, Skip
  <2>10. CASE stack' = After(1)
    BY <1>2, <2>6, <2>8, <2>10, Goes
  <2>11. CASE Here = "watch" /\ (stack' = After(2) \/ stack' = <<Frame("server_update_outputs")>> \o After(2))
    BY <1>3, <2>6, <2>8, <2>11 DEF Kinds, SkipsOutputs, Cons
  <2> QED BY <2>9, <2>10, <2>11
<1> QED BY <1>4, <1>5

\* The lock, and the errors a function deals with itself.
LEMMA LockSteps ==
  ASSUME IInv, stack # <<>>,
         LockConn \/ UnlockConn \/ LookForError \/ LoadFailed \/ NameExists
  PROVE  Kinds /\ Typed'
<1>1. /\ Here \in {"lock", "unlock", "look", "load_failed", "name_exists"}
      /\ connected' = connected /\ status' = status /\ cache' = cache
  BY DEF LockConn, UnlockConn, LookForError, LoadFailed, NameExists
<1>2. Here # "user"
  BY <1>1
<1>3. /\ Typed /\ Top.op # "user"
      /\ Here \in {"unlock", "load_failed", "name_exists"} => connected /\ lock /\ conn # None
      /\ Here = "lock" => connected
      /\ After(1) = Cons(Next1, Rest)
  BY <1>2, HereFacts
<1>4. CASE LockConn
  <2>1. CASE lock
    <3>1. Return("failed") /\ UNCHANGED data /\ result' = "failed" /\ Here = "lock"
      BY <1>3, <1>4, <2>1 DEF LockConn, Return, data, Typed
    <3>2. Here \in Ends \cup Tests
      BY <3>1 DEF Tests
    <3>3. Typed'
      BY <1>3, <3>1 DEF Typed, data
    <3> QED BY <2>1, <3>1, <3>2, <3>3, Leaves
  <2>2. CASE ~lock
    <3>1. Takes /\ result' = "ok" /\ lock' = TRUE /\ conn' = conn
      BY <1>3, <1>4, <2>2 DEF LockConn, Takes, Advance, Skip, Keep
    <3>2. Typed'
      BY <1>1, <1>3, <3>1 DEF Typed
    <3> QED BY <1>3, <3>1, <3>2 DEF Kinds
  <2> QED BY <2>1, <2>2
<1>5. CASE UnlockConn
  <2>1. lock /\ Here = "unlock"
    BY <1>3, <1>5 DEF UnlockConn
  <2>2. GivesBack /\ result' = result /\ lock' = FALSE /\ conn' = conn
    BY <1>3, <1>5, <2>1 DEF UnlockConn, GivesBack, Call, Keep, Cons
  <2>3. Typed'
    BY <1>1, <1>3, <2>2 DEF Typed
  <2> QED BY <1>3, <2>2, <2>3 DEF Kinds
<1>6. CASE LookForError
  <2>1. Here = "look" /\ lock' = lock /\ Here \in Steps \ (Ends \cup Special) /\ Here \in Ends \cup Tests
    BY <1>6 DEF LookForError, Steps, Steady, Ends, Special, Tests
  <2>2. CASE conn = None /\ Return("failed") /\ UNCHANGED conn
    <3>1. UNCHANGED data /\ Typed'
      BY <1>1, <1>3, <2>1, <2>2 DEF data, Typed, Return
    <3> QED BY <2>1, <2>2, <3>1, Leaves
  <2>3. CASE conn # None /\ conn.error = "NONE" /\ Advance /\ Keep("ok") /\ UNCHANGED conn
    <3>1. UNCHANGED data /\ Typed' /\ stack' = After(1)
      BY <1>1, <1>3, <2>1, <2>3 DEF data, Typed, Advance, Skip, Keep
    <3> QED BY <2>1, <3>1, Goes, Stays
  <2>4. CASE /\ conn # None /\ conn.error = "ACK"
             /\ conn' = [conn EXCEPT !.error = "NONE"]
             /\ Become("ack_error") /\ Keep("ok")
    <3>1. conn \in Connections /\ conn' = Cleared
      BY <1>3, <2>4 DEF Typed, Cleared
    <3>2. conn' \in Connections /\ conn' # None
      BY <3>1, AnswersAreConnections, NoneAssumption
    <3>3. Typed'
      BY <1>1, <1>3, <2>1, <2>4, <3>2 DEF Typed, Keep
    <3>4. Becomes
      BY <1>1, <2>1, <2>4, <3>2, FunctionNames DEF Becomes, Become, Cons, Rest
    <3> QED BY <1>3, <3>3, <3>4 DEF Kinds
  <2>5. CASE /\ conn # None /\ conn.error = "FATAL"
             /\ Become("fatal_error") /\ Keep("ok") /\ UNCHANGED conn
    <3>1. Typed'
      BY <1>1, <1>3, <2>1, <2>5 DEF Typed, Keep
    <3>2. Becomes
      BY <1>1, <2>1, <2>5, FunctionNames DEF Becomes, Become, Cons, Rest
    <3> QED BY <1>3, <3>1, <3>2 DEF Kinds
  <2> QED BY <1>6, <2>2, <2>3, <2>4, <2>5 DEF LookForError
<1>7. CASE LoadFailed \/ NameExists
  <2>1. /\ Here \in {"load_failed", "name_exists"} /\ lock' = lock /\ result' = "ok"
        /\ \/ conn' = Cleared /\ Become("ends_as_failed")
           \/ conn' = conn /\ Advance
    BY <1>7 DEF LoadFailed, NameExists, Keep
  <2>2. conn \in Connections
    BY <1>3, <2>1 DEF Typed
  <2>3. conn' \in Connections /\ conn' # None
    BY <2>1, <2>2, AnswersAreConnections, NoneAssumption
  <2>4. Typed'
    BY <1>1, <1>3, <2>1, <2>3 DEF Typed
  <2>5. CASE Become("ends_as_failed")
    <3>1. Becomes
      BY <1>1, <1>3, <2>1, <2>3, <2>5, FunctionNames DEF Becomes, Become, Cons, Rest
    <3> QED BY <1>3, <2>4, <3>1 DEF Kinds
  <2>6. CASE conn' = conn /\ Advance
    <3>1. UNCHANGED data /\ stack' = After(1)
      BY <1>1, <2>1, <2>6 DEF data, Advance, Skip
    <3>2. Here \in Steps \ (Ends \cup Special)
      BY <2>1 DEF Steps, Steady, HeldSteps, Ends, Special
    <3> QED BY <2>1, <2>4, <3>1, <3>2, Goes, Stays
  <2> QED BY <2>1, <2>4, <2>5, <2>6
<1> QED BY <1>4, <1>5, <1>6, <1>7

\* A session begins and ends.
LEMMA SessionSteps ==
  ASSUME IInv, stack # <<>>, Close \/ Open \/ Accept
  PROVE  Kinds /\ Typed'
<1>1. /\ Here \in {"close", "open", "accept"} /\ result' = "ok"
  BY DEF Close, Open, Accept, Keep
<1>2. Here # "user"
  BY <1>1
<1>3. Typed /\ Top.op # "user" /\ After(1) = Cons(Next1, Rest)
  BY <1>2, HereFacts
<1>4. CASE Close
  <2>1. /\ Here = "close" /\ connected' = FALSE /\ lock' = TRUE /\ conn' = None /\ status' = "none" /\ cache' = {}
        /\ stack' = Cons(Next1, Rest) \/ stack' = Cons(Frame("user"), Cons(Next1, Rest))
    <3>1. KeptAfterDisconnect(cache) = {}
      BY <1>3 DEF Typed, KeptAfterDisconnect
    <3> QED BY <1>3, <1>4, <3>1 DEF Close, CallBack, Advance, Skip, Cons
  <2>2. Closes
    BY <2>1 DEF Closes
  <2>3. Typed'
    BY <1>1, <2>1 DEF Typed, Statuses
  <2> QED BY <1>3, <2>2, <2>3 DEF Kinds
<1>5. CASE Open
  <2>1. Opened("NONE") \in Connections /\ Opened("FATAL") \in Connections
    BY DEF Opened, Connections
  <2>2. /\ Here = "open" /\ lock' = TRUE /\ conn' \in Connections /\ conn' # None /\ conn'.error # "ACK"
        /\ stack' = Cons(Next1, Rest) /\ UNCHANGED <<connected, status, cache>>
    BY <1>3, <1>5, <2>1, NoneAssumption DEF Open, Opened, Advance, Skip
  <2>3. Typed'
    BY <1>1, <1>3, <2>2 DEF Typed
  <2> QED BY <1>3, <2>2, <2>3 DEF Kinds, Begins
<1>6. CASE Accept
  <2>1. Accepts
    BY <1>3, <1>6 DEF Accept, Accepts, Advance, Skip
  <2>2. Typed'
    BY <1>1, <1>3, <1>6 DEF Typed, Accept
  <2> QED BY <1>3, <2>1, <2>2 DEF Kinds
<1> QED BY <1>4, <1>5, <1>6

\* Every step the system takes is of one of the kinds.
LEMMA StepsAreKinds ==
  ASSUME IInv, stack # <<>>, Next
  PROVE  Kinds /\ Typed'
<1>1. CASE CallOperation
  <2>1. Top.op = "user" /\ UNCHANGED data /\ result' = "ok" /\ \E op \in Operations : stack' = Cons(Frame(op), stack)
    BY <1>1 DEF CallOperation, Keep, Cons
  <2>2. Typed'
    BY <2>1 DEF IInv, Typed, data
  <2> QED BY <2>1, <2>2 DEF Kinds, Starts
<1>2. CASE CallbackReturns
  <2>1. /\ Top.op = "user" /\ UNCHANGED data /\ result' \in {"ok", "disconnect"} /\ stack' = Rest
        /\ Len(stack) > 1
    BY <1>2 DEF CallbackReturns, Rest
  <2>2. Rest # <<>>
    <3>1. stack \in Seq(Placed)
      BY DEF IInv, Calls, Shape
    <3> QED BY <2>1, <3>1, Apart DEF Rest
  <2>3. Typed'
    BY <2>1 DEF IInv, Typed, data
  <2> QED BY <2>1, <2>2, <2>3 DEF Kinds, Resumes
<1>3. CASE Crash
  <2>1. stack' = <<>> /\ UNCHANGED data /\ result' = result
    BY <1>3 DEF Crash
  <2>2. Typed'
    BY <2>1 DEF IInv, Typed, data
  <2> QED BY <2>1, <2>2 DEF Kinds, Dies
<1> QED BY <1>1, <1>2, <1>3, StackSteps, CacheSteps, SendingSteps, LockSteps, SessionSteps DEF Next, Function

\* A program that has used a NULL pointer takes no step.
LEMMA NoStepAfterEnd ==
  ASSUME stack = <<>>
  PROVE  ~Next
<1>1. Here = "user" /\ "user" \notin DOMAIN Code
  BY FunctionNames DEF Here
<1>2. ~CallOperation /\ ~CallbackReturns
  BY DEF CallOperation, CallbackReturns
<1>3. ~Function
  <2>1. /\ ~CallFunction /\ ~Returns /\ ~OrFail /\ ~CheckConnected /\ ~CheckVersion /\ ~CheckCommandAllowed
        /\ ~LockConn /\ ~UnlockConn /\ ~Exchange /\ ~LookForError /\ ~ErrorCallback /\ ~Obey
    BY <1>1 DEF CallFunction, Returns, OrFail, CheckConnected, CheckVersion, CheckCommandAllowed,
       LockConn, UnlockConn, Exchange, Exchanges, ListSteps, LookForError, ErrorCallback, Obey
  <2>2. /\ ~Leave /\ ~Open /\ ~Accept /\ ~Close /\ ~FreeCommands /\ ~SignalConnected /\ ~SignalStatus
        /\ ~ForgetStatus /\ ~Need /\ ~Compare /\ ~ClearServerError /\ ~StatsIfStopped /\ ~Watch /\ ~StatsIfDatabase
    BY <1>1 DEF Leave, Open, Accept, Close, FreeCommands, SignalConnected, SignalStatus,
       ForgetStatus, Need, Compare, ClearServerError, StatsIfStopped, Watch, StatsIfDatabase
  <2>3. /\ ~ReadValue /\ ~AskAgain /\ ~IfPlaying /\ ~Pause /\ ~IfNotCached /\ ~DropOldSong /\ ~KeepSong
        /\ ~LoadFailed /\ ~NameExists /\ ~Forgive /\ ~Crash
    BY <1>1 DEF ReadValue, AskAgain, IfPlaying, Pause, IfNotCached, DropOldSong, KeepSong,
       LoadFailed, NameExists, Forgive, Crash, UsesNull, Exchanges, ListSteps, UsesStatus
  <2> QED BY <2>1, <2>2, <2>3 DEF Function
<1> QED BY <1>2, <1>3 DEF Next

-----------------------------------------------------------------------------
(* The theorems *)

LEMMA InitInv == Init => IInv
<1> SUFFICES ASSUME Init PROVE IInv
  OBVIOUS
<1>1. Typed /\ Known /\ ~Odd
  BY DEF Init, Typed, Known, Odd, Statuses
<1> SUFFICES ASSUME NEW f, f = Frame("user") PROVE Calls(stack)
  BY <1>1 DEF IInv
<1>2. f \in Placed /\ f.op = "user"
  BY FrameFacts
<1>3. <<>> \in Seq(Placed) /\ stack = Cons(f, <<>>)
  BY DEF Init, Cons
<1>4. Head(stack) = f /\ Tail(stack) = <<>>
  BY <1>2, <1>3, ConsProperties
<1>5. ~Pausing(<<>>) /\ Undisturbed(<<>>)
  BY DEF Pausing, Undisturbed
<1>6. Shape(stack) /\ Undisturbed(stack)
  BY <1>2, <1>3, <1>5, ConsFacts
<1>7. HasLock(f) /\ HasOpened(f, Head(<<>>)) /\ IsSure(f, Head(<<>>))
  BY <1>2 DEF HasLock, HasOpened, IsSure, Holder, SureAt
<1> QED BY <1>1, <1>4, <1>5, <1>6, <1>7 DEF Calls

LEMMA NextInv == IInv /\ [Next]_vars => IInv'
<1> SUFFICES ASSUME IInv, [Next]_vars PROVE IInv'
  OBVIOUS
<1>1. CASE Next
  <2>1. stack # <<>>
    BY <1>1, NoStepAfterEnd
  <2>2. Kinds /\ Typed'
    BY <1>1, <2>1, StepsAreKinds
  <2>3. Known' /\ (stack' # <<>> => Calls(stack)')
    BY <2>1, <2>2, KindsKeep
  <2> QED BY <2>2, <2>3 DEF IInv
<1>2. CASE UNCHANGED vars
  <2>1. /\ connected' = connected /\ lock' = lock /\ conn' = conn /\ status' = status /\ cache' = cache
        /\ stack' = stack /\ result' = result
    BY <1>2 DEF vars, data
  <2>2. Typed' /\ Known'
    BY <2>1 DEF IInv, Typed, Known
  <2>3. ASSUME stack # <<>> PROVE Calls(stack)'
    <3>1. Calls(stack)
      BY <2>3 DEF IInv
    <3> SUFFICES ASSUME NEW s, s = stack, NEW f, f = Head(s), NEW g, g = Head(Tail(s)) PROVE Calls(stack)'
      OBVIOUS
    <3>2. /\ Shape(s) /\ Undisturbed(s)
          /\ Pausing(Tail(s)) => connected /\ lock
          /\ Odd => Pausing(Tail(s)) \/ Opening(s) \/ SeesToIt(f)
          /\ HasLock(f) /\ HasOpened(f, g) /\ IsSure(f, g)
      BY <3>1 DEF Calls
    <3>3. /\ Odd' = Odd /\ SeesToIt(f)' = SeesToIt(f) /\ HasLock(f)' = HasLock(f)
          /\ HasOpened(f, g)' = HasOpened(f, g) /\ IsSure(f, g)' = IsSure(f, g)
      BY <2>1 DEF Odd, SeesToIt, HasLock, HasOpened, IsSure
    <3> QED BY <2>1, <3>2, <3>3 DEF Calls
  <2> QED BY <2>1, <2>2, <2>3 DEF IInv
<1> QED BY <1>1, <1>2

\* What is true of the connection and of the calls under way, for any program.
THEOREM Invariant == Spec => []IInv
<1>1. Init => IInv
  BY InitInv
<1>2. IInv /\ [Next]_vars => IInv'
  BY NextInv
<1> QED BY <1>1, <1>2, PTL DEF Spec

LEMMA StackTyped ==
  ASSUME IInv
  PROVE  TypeOK
<1>1. Typed
  BY DEF IInv
<1>2. CASE stack = <<>>
  BY <1>1, <1>2 DEF Typed, TypeOK
<1>3. CASE stack # <<>>
  <2>1. stack \in Seq(Placed)
    BY <1>3 DEF IInv, Calls, Shape
  <2>2. Placed \subseteq Frames
    BY DEF Placed
  <2>3. stack \in Seq(Frames)
    BY <2>1, <2>2
  <2>4. ASSUME NEW i \in DOMAIN stack, stack[i].op # "user" PROVE stack[i].at \in DOMAIN Code[stack[i].op]
    <3> SUFFICES ASSUME NEW f, f = stack[i] PROVE f.at \in DOMAIN Code[f.op]
      OBVIOUS
    <3>1. f \in Placed /\ f.op # "user"
      BY <2>1, <2>4
    <3>2. f.at \in 1 .. Len(Body(f)) /\ Sound(f.op, Body(f))
      BY <3>1, OnFacts
    <3> QED BY <3>2 DEF Sound, Body
  <2> QED BY <1>1, <2>3, <2>4 DEF Typed, TypeOK
<1> QED BY <1>2, <1>3

\* The types, and that a running function is always at one of its steps: no
\* function returns past its end and none jumps over it.
THEOREM TypeCorrect == Spec => []TypeOK
BY Invariant, StackTyped, PTL

\* In the main loop nothing is under way that could still hold the lock, or
\* have a connection that is not accepted.
LEMMA IdleFacts ==
  ASSUME IInv, Len(stack) = 1
  PROVE  ~Odd /\ Typed /\ Known
<1>1. Typed /\ Known
  BY DEF IInv
<1>2. stack # <<>>
  OBVIOUS
<1>3. Calls(stack) /\ stack \in Seq(Placed) /\ stack[Len(stack)].op = "user"
  BY <1>2 DEF IInv, Calls, Shape
<1>4. Head(stack).op = "user" /\ Len(Tail(stack)) = 0
  BY <1>2, <1>3, Apart
<1>5. ~Pausing(Tail(stack)) /\ ~Opening(stack) /\ ~SeesToIt(Head(stack))
  <2>1. ~Pausing(Tail(stack))
    BY <1>4 DEF Pausing
  <2>2. ~Opening(stack)
    BY DEF Opening
  <2>3. ~SeesToIt(Head(stack))
    BY <1>4 DEF SeesToIt
  <2> QED BY <2>1, <2>2, <2>3
<1> QED BY <1>1, <1>3, <1>5 DEF Calls

\* For any functions called, from the main loop and from callbacks of any
\* depth: when the program is back in its main loop the lock is not taken on a
\* connection that is there, so that the next call is not refused.
THEOREM Unlocked == Spec => []UnlockedWhenIdle
<1>1. IInv => UnlockedWhenIdle
  BY IdleFacts DEF UnlockedWhenIdle, Idle, Odd
<1> QED BY <1>1, Invariant, PTL

\* For any functions called: a program in its main loop without a session has
\* no connection and nothing of the server it was with.
THEOREM Forgets == Spec => []DisconnectForgets
<1>1. IInv => DisconnectForgets
  BY IdleFacts DEF DisconnectForgets, Idle, Odd, Known, Typed
<1> QED BY <1>1, Invariant, PTL

\* A command that needs the lock is sent by a function that has it, on a
\* connection that is there.
SendsLocked == stack # <<>> /\ Here \in Exchanges => connected /\ lock /\ conn # None

LEMMA SenderHasLock ==
  ASSUME IInv
  PROVE  SendsLocked
<1> SUFFICES ASSUME stack # <<>>, Here \in Exchanges PROVE connected /\ lock /\ conn # None
  BY DEF SendsLocked
<1>1. Here # "user"
  BY DEF Exchanges, ListSteps
<1> QED BY <1>1, HereFacts

\* No two commands compete: whatever the callbacks of a function do, it sends
\* a command of its own only while it holds the lock.
THEOREM NoneCompete == Spec => []SendsLocked
<1>1. IInv => SendsLocked
  BY SenderHasLock
<1> QED BY <1>1, Invariant, PTL

-----------------------------------------------------------------------------
(* The bodies that are put together *)

\* The bodies that are put together, written out.
LEMMA Unfolded ==
  /\ ServerUpdateOutputs = <<"connected", "lock", "outputs", "unlock", "return_result">>
  /\ ServerGetOutputDevices = <<"connected", "lock", "exec", "unlock", "or_fail", "return">>
  /\ PlaylistGetSong = <<"connected", "lock", "exec", "unlock", "or_fail", "return">>
  /\ PlaylistGetSongFromPos = <<"connected", "lock", "exec", "unlock", "or_fail", "return">>
  /\ PlaylistGetChanges = <<"connected", "lock", "exec", "unlock", "or_fail", "return">>
  /\ PlaylistGetChangesPosid = <<"connected", "lock", "exec", "unlock", "or_fail", "return">>
  /\ DatabaseGetFileinfo = <<"connected", "lock", "exec", "unlock", "or_fail", "return">>
  /\ ServerSetOutputDevice = <<"connected", "lock", "exec", "unlock", "status_queue_update", "return">>
  /\ ServerGetTagTypes = <<"connected", "lock", "exec", "unlock", "return">>
  /\ ServerGetReplaygainMode = <<"connected", "lock", "exec", "unlock", "return">>
  /\ DatabaseGetArtists = <<"connected", "lock", "exec", "unlock", "return">>
  /\ DatabaseGetAlbums = <<"connected", "lock", "exec", "unlock", "return">>
  /\ DatabaseGetComplete = <<"connected", "lock", "exec", "unlock", "return">>
  /\ DatabaseFind = <<"connected", "lock", "exec", "unlock", "return">>
  /\ DatabaseGetDirectory = <<"connected", "lock", "exec", "unlock", "return">>
  /\ DatabaseGetDirectoryRecursive = <<"connected", "lock", "exec", "unlock", "return">>
  /\ DatabaseDeletePlaylist = <<"connected", "lock", "exec", "unlock", "return">>
  /\ DatabasePlaylistMove = <<"connected", "lock", "exec", "unlock", "return">>
  /\ DatabasePlaylistList = <<"connected", "lock", "exec", "unlock", "return">>
  /\ ServerSetReplaygainMode = <<"connected", "lock", "exec", "unlock", "return_result">>
  /\ StatusSetVolume = <<"connected", "lock", "set", "unlock", "status_queue_update", "status_get_volume", "return_result">>
  /\ StatusSetCrossfade = <<"connected", "lock", "set", "unlock", "status_queue_update", "return">>
  /\ PlayerSetSingle = <<"connected", "lock", "set", "unlock", "status_queue_update", "return">>
  /\ PlayerSetConsume = <<"connected", "lock", "set", "unlock", "status_queue_update", "return">>
  /\ PlayerSetRepeat = <<"connected", "lock", "set", "unlock", "status_queue_update", "return">>
  /\ PlayerSetRandom = <<"connected", "lock", "set", "unlock", "status_queue_update", "return">>
  /\ StatsUpdate = <<"connected", "lock", "fetch_stats", "unlock", "or_fail", "return">>
  /\ StatsUpdateReal = <<"connected", "lock", "fetch_stats", "unlock", "or_fail", "return">>
  /\ PlayerGetNextSongId = <<"connected", "status_check", "or_fail", "player_get_state", "ask_again", "or_fail", "if_playing", "status_value", "return">>
  /\ PlayerGetNextSongPos = <<"connected", "status_check", "or_fail", "player_get_state", "ask_again", "or_fail", "if_playing", "status_value", "return">>
  /\ PlayerGetCurrentSongId = <<"connected", "status_check", "or_fail", "player_get_state", "ask_again", "or_fail", "if_playing", "status_value", "return">>
  /\ PlayerGetCurrentSongPos = <<"connected", "status_check", "or_fail", "player_get_state", "ask_again", "or_fail", "if_playing", "status_value", "return">>
  /\ PlayerPlayId = <<"connected", "lock", "set", "unlock", "status_update", "or_fail", "return">>
  /\ PlayerStop = <<"connected", "lock", "set", "unlock", "status_update", "or_fail", "return">>
  /\ PlayerNext = <<"connected", "lock", "set", "unlock", "status_update", "or_fail", "return">>
  /\ PlayerPrev = <<"connected", "lock", "set", "unlock", "status_update", "or_fail", "return">>
  /\ PlaylistGetCurrentSong = <<"connected", "status_check", "or_fail", "drop_old_song", "if_no_song", "player_get_state", "ask_again", "if_not_stopped", "player_get_current_song_id", "or_fail", "playlist_get_song", "or_fail", "keep_song", "return">>
  /\ PlaylistClear = <<"connected", "lock", "set", "unlock", "status_update", "return">>
  /\ PlaylistQueueCommit = <<"connected", "lock", "set", "unlock", "status_update", "return">>
  /\ DatabaseUpdateDir = <<"connected", "lock", "set", "unlock", "status_update", "return">>
  /\ PlaylistShuffle = <<"connected", "lock", "set", "unlock", "return">>
  /\ PlaylistMoveId = <<"connected", "lock", "set", "unlock", "return">>
  /\ PlaylistMovePos = <<"connected", "lock", "set", "unlock", "return">>
  /\ PlaylistAddGetId = <<"connected", "lock", "set", "unlock", "return">>
  /\ PlaylistSetPriority = <<"connected", "command_allowed", "connected", "lock", "set", "unlock", "return">>
  /\ DatabaseGetPlaylistContent = <<"connected", "version", "command_allowed", "connected", "lock", "exec", "forgive", "unlock", "return">>
  /\ StickerSongGet = <<"connected", "command_allowed", "connected", "lock", "exec", "forgive", "unlock", "or_fail", "return">>
  /\ StickerSongSet = <<"connected", "command_allowed", "connected", "lock", "exec", "unlock", "or_fail", "return">>
  /\ PlaylistLoad = <<"connected", "lock", "set", "load_failed", "unlock", "or_fail", "return">>
  /\ DatabaseSavePlaylist = <<"connected", "lock", "exec", "name_exists", "unlock", "return">>
  /\ PlayerPause = <<"connected", "lock", "player_get_state", "pause", "unlock", "status_update", "or_fail", "return">>
  /\ PlayerSeek = <<"player_get_current_song_pos", "or_fail", "connected", "lock", "set", "unlock", "status_update", "or_fail", "return">>
<1>1. /\ ServerUpdateOutputs = <<"connected", "lock", "outputs", "unlock", "return_result">>
  <2>1. <<"connected", "lock", "outputs", "unlock">> \o <<"return_result">>
         = <<"connected", "lock", "outputs", "unlock", "return_result">>
    BY Cat4_1
  <2> QED BY <2>1, LockedOne DEF ServerUpdateOutputs
<1>2. /\ ServerGetOutputDevices = <<"connected", "lock", "exec", "unlock", "or_fail", "return">>
      /\ PlaylistGetSong = <<"connected", "lock", "exec", "unlock", "or_fail", "return">>
      /\ PlaylistGetSongFromPos = <<"connected", "lock", "exec", "unlock", "or_fail", "return">>
      /\ PlaylistGetChanges = <<"connected", "lock", "exec", "unlock", "or_fail", "return">>
      /\ PlaylistGetChangesPosid = <<"connected", "lock", "exec", "unlock", "or_fail", "return">>
      /\ DatabaseGetFileinfo = <<"connected", "lock", "exec", "unlock", "or_fail", "return">>
  <2>1. <<"connected", "lock", "exec", "unlock">> \o <<"or_fail", "return">>
         = <<"connected", "lock", "exec", "unlock", "or_fail", "return">>
    BY Cat4_2
  <2> QED BY <2>1, LockedOne DEF ServerGetOutputDevices, PlaylistGetSong, PlaylistGetSongFromPos, PlaylistGetChanges, PlaylistGetChangesPosid, DatabaseGetFileinfo, Checked
<1>3. /\ ServerSetOutputDevice = <<"connected", "lock", "exec", "unlock", "status_queue_update", "return">>
  <2>1. <<"connected", "lock", "exec", "unlock">> \o <<"status_queue_update", "return">>
         = <<"connected", "lock", "exec", "unlock", "status_queue_update", "return">>
    BY Cat4_2
  <2> QED BY <2>1, LockedOne DEF ServerSetOutputDevice
<1>4. /\ ServerGetTagTypes = <<"connected", "lock", "exec", "unlock", "return">>
      /\ ServerGetReplaygainMode = <<"connected", "lock", "exec", "unlock", "return">>
      /\ DatabaseGetArtists = <<"connected", "lock", "exec", "unlock", "return">>
      /\ DatabaseGetAlbums = <<"connected", "lock", "exec", "unlock", "return">>
      /\ DatabaseGetComplete = <<"connected", "lock", "exec", "unlock", "return">>
      /\ DatabaseFind = <<"connected", "lock", "exec", "unlock", "return">>
      /\ DatabaseGetDirectory = <<"connected", "lock", "exec", "unlock", "return">>
      /\ DatabaseGetDirectoryRecursive = <<"connected", "lock", "exec", "unlock", "return">>
      /\ DatabaseDeletePlaylist = <<"connected", "lock", "exec", "unlock", "return">>
      /\ DatabasePlaylistMove = <<"connected", "lock", "exec", "unlock", "return">>
      /\ DatabasePlaylistList = <<"connected", "lock", "exec", "unlock", "return">>
  <2>1. <<"connected", "lock", "exec", "unlock">> \o <<"return">>
         = <<"connected", "lock", "exec", "unlock", "return">>
    BY Cat4_1
  <2> QED BY <2>1, LockedOne DEF ServerGetTagTypes, ServerGetReplaygainMode, DatabaseGetArtists, DatabaseGetAlbums, DatabaseGetComplete, DatabaseFind, DatabaseGetDirectory, DatabaseGetDirectoryRecursive, DatabaseDeletePlaylist, DatabasePlaylistMove, DatabasePlaylistList, OK
<1>5. /\ ServerSetReplaygainMode = <<"connected", "lock", "exec", "unlock", "return_result">>
  <2>1. <<"connected", "lock", "exec", "unlock">> \o <<"return_result">>
         = <<"connected", "lock", "exec", "unlock", "return_result">>
    BY Cat4_1
  <2> QED BY <2>1, LockedOne DEF ServerSetReplaygainMode
<1>6. /\ StatusSetVolume = <<"connected", "lock", "set", "unlock", "status_queue_update", "status_get_volume", "return_result">>
  <2>1. <<"connected", "lock", "set", "unlock">> \o <<"status_queue_update", "status_get_volume", "return_result">>
         = <<"connected", "lock", "set", "unlock", "status_queue_update", "status_get_volume", "return_result">>
    BY Cat4_3
  <2> QED BY <2>1, LockedOne DEF StatusSetVolume
<1>7. /\ StatusSetCrossfade = <<"connected", "lock", "set", "unlock", "status_queue_update", "return">>
      /\ PlayerSetSingle = <<"connected", "lock", "set", "unlock", "status_queue_update", "return">>
      /\ PlayerSetConsume = <<"connected", "lock", "set", "unlock", "status_queue_update", "return">>
      /\ PlayerSetRepeat = <<"connected", "lock", "set", "unlock", "status_queue_update", "return">>
      /\ PlayerSetRandom = <<"connected", "lock", "set", "unlock", "status_queue_update", "return">>
  <2>1. <<"connected", "lock", "set", "unlock">> \o <<"status_queue_update", "return">>
         = <<"connected", "lock", "set", "unlock", "status_queue_update", "return">>
    BY Cat4_2
  <2> QED BY <2>1, LockedOne DEF StatusSetCrossfade, PlayerSetSingle, PlayerSetter, PlayerSetConsume, PlayerSetRepeat, PlayerSetRandom
<1>8. /\ StatsUpdate = <<"connected", "lock", "fetch_stats", "unlock", "or_fail", "return">>
      /\ StatsUpdateReal = <<"connected", "lock", "fetch_stats", "unlock", "or_fail", "return">>
  <2>1. <<"connected", "lock", "fetch_stats", "unlock">> \o <<"or_fail", "return">>
         = <<"connected", "lock", "fetch_stats", "unlock", "or_fail", "return">>
    BY Cat4_2
  <2> QED BY <2>1, LockedOne DEF StatsUpdate, StatsUpdateReal, Checked
<1>9. /\ PlayerGetNextSongId = <<"connected", "status_check", "or_fail", "player_get_state", "ask_again", "or_fail", "if_playing", "status_value", "return">>
      /\ PlayerGetNextSongPos = <<"connected", "status_check", "or_fail", "player_get_state", "ask_again", "or_fail", "if_playing", "status_value", "return">>
      /\ PlayerGetCurrentSongId = <<"connected", "status_check", "or_fail", "player_get_state", "ask_again", "or_fail", "if_playing", "status_value", "return">>
      /\ PlayerGetCurrentSongPos = <<"connected", "status_check", "or_fail", "player_get_state", "ask_again", "or_fail", "if_playing", "status_value", "return">>
  <2>1. <<"connected", "status_check", "or_fail">> \o <<"player_get_state", "ask_again">>
         = <<"connected", "status_check", "or_fail", "player_get_state", "ask_again">>
    BY Cat3_2
  <2>2. <<"connected", "status_check", "or_fail", "player_get_state", "ask_again">> \o <<"or_fail", "if_playing", "status_value", "return">>
         = <<"connected", "status_check", "or_fail", "player_get_state", "ask_again", "or_fail", "if_playing", "status_value", "return">>
    BY Cat5_4
  <2> QED BY <2>1, <2>2 DEF PlayerGetNextSongId, PlayingValue, PlayerGetNextSongPos, PlayerGetCurrentSongId, PlayerGetCurrentSongPos, AskState
<1>10. /\ PlayerPlayId = <<"connected", "lock", "set", "unlock", "status_update", "or_fail", "return">>
       /\ PlayerStop = <<"connected", "lock", "set", "unlock", "status_update", "or_fail", "return">>
       /\ PlayerNext = <<"connected", "lock", "set", "unlock", "status_update", "or_fail", "return">>
       /\ PlayerPrev = <<"connected", "lock", "set", "unlock", "status_update", "or_fail", "return">>
  <2>1. <<"connected", "lock", "set", "unlock">> \o <<"status_update", "or_fail", "return">>
         = <<"connected", "lock", "set", "unlock", "status_update", "or_fail", "return">>
    BY Cat4_3
  <2> QED BY <2>1, LockedOne DEF PlayerPlayId, PlayerCommand, PlayerStop, PlayerNext, PlayerPrev
<1>11. /\ PlaylistGetCurrentSong = <<"connected", "status_check", "or_fail", "drop_old_song", "if_no_song", "player_get_state", "ask_again", "if_not_stopped", "player_get_current_song_id", "or_fail", "playlist_get_song", "or_fail", "keep_song", "return">>
  <2>1. <<"connected", "status_check", "or_fail", "drop_old_song", "if_no_song">> \o <<"player_get_state", "ask_again">>
         = <<"connected", "status_check", "or_fail", "drop_old_song", "if_no_song", "player_get_state", "ask_again">>
    BY Cat5_2
  <2>2. <<"connected", "status_check", "or_fail", "drop_old_song", "if_no_song", "player_get_state", "ask_again">> \o <<"if_not_stopped", "player_get_current_song_id", "or_fail", "playlist_get_song", "or_fail", "keep_song", "return">>
         = <<"connected", "status_check", "or_fail", "drop_old_song", "if_no_song", "player_get_state", "ask_again", "if_not_stopped", "player_get_current_song_id", "or_fail", "playlist_get_song", "or_fail", "keep_song", "return">>
    BY Cat7_7
  <2> QED BY <2>1, <2>2 DEF PlaylistGetCurrentSong, AskState
<1>12. /\ PlaylistClear = <<"connected", "lock", "set", "unlock", "status_update", "return">>
       /\ PlaylistQueueCommit = <<"connected", "lock", "set", "unlock", "status_update", "return">>
       /\ DatabaseUpdateDir = <<"connected", "lock", "set", "unlock", "status_update", "return">>
  <2>1. <<"connected", "lock", "set", "unlock">> \o <<"status_update", "return">>
         = <<"connected", "lock", "set", "unlock", "status_update", "return">>
    BY Cat4_2
  <2> QED BY <2>1, LockedOne DEF PlaylistClear, PlaylistQueueCommit, DatabaseUpdateDir
<1>13. /\ PlaylistShuffle = <<"connected", "lock", "set", "unlock", "return">>
       /\ PlaylistMoveId = <<"connected", "lock", "set", "unlock", "return">>
       /\ PlaylistMovePos = <<"connected", "lock", "set", "unlock", "return">>
       /\ PlaylistAddGetId = <<"connected", "lock", "set", "unlock", "return">>
  <2>1. <<"connected", "lock", "set", "unlock">> \o <<"return">>
         = <<"connected", "lock", "set", "unlock", "return">>
    BY Cat4_1
  <2> QED BY <2>1, LockedOne DEF PlaylistShuffle, PlaylistMoveId, PlaylistMovePos, PlaylistAddGetId, OK
<1>14. /\ PlaylistSetPriority = <<"connected", "command_allowed", "connected", "lock", "set", "unlock", "return">>
  <2>1. <<"connected", "command_allowed">> \o <<"connected", "lock", "set", "unlock">>
         = <<"connected", "command_allowed", "connected", "lock", "set", "unlock">>
    BY Cat2_4
  <2>2. <<"connected", "command_allowed", "connected", "lock", "set", "unlock">> \o <<"return">>
         = <<"connected", "command_allowed", "connected", "lock", "set", "unlock", "return">>
    BY Cat6_1
  <2> QED BY <2>1, <2>2, LockedOne DEF PlaylistSetPriority, OK
<1>15. /\ DatabaseGetPlaylistContent = <<"connected", "version", "command_allowed", "connected", "lock", "exec", "forgive", "unlock", "return">>
  <2>1. <<"connected", "version", "command_allowed">> \o <<"connected", "lock", "exec", "forgive", "unlock">>
         = <<"connected", "version", "command_allowed", "connected", "lock", "exec", "forgive", "unlock">>
    BY Cat3_5
  <2>2. <<"connected", "version", "command_allowed", "connected", "lock", "exec", "forgive", "unlock">> \o <<"return">>
         = <<"connected", "version", "command_allowed", "connected", "lock", "exec", "forgive", "unlock", "return">>
    BY Cat8_1
  <2> QED BY <2>1, <2>2, LockedTwo DEF DatabaseGetPlaylistContent, OK
<1>16. /\ StickerSongGet = <<"connected", "command_allowed", "connected", "lock", "exec", "forgive", "unlock", "or_fail", "return">>
  <2>1. <<"connected", "command_allowed">> \o <<"connected", "lock", "exec", "forgive", "unlock">>
         = <<"connected", "command_allowed", "connected", "lock", "exec", "forgive", "unlock">>
    BY Cat2_5
  <2>2. <<"connected", "command_allowed", "connected", "lock", "exec", "forgive", "unlock">> \o <<"or_fail", "return">>
         = <<"connected", "command_allowed", "connected", "lock", "exec", "forgive", "unlock", "or_fail", "return">>
    BY Cat7_2
  <2> QED BY <2>1, <2>2, LockedTwo DEF StickerSongGet, Checked
<1>17. /\ StickerSongSet = <<"connected", "command_allowed", "connected", "lock", "exec", "unlock", "or_fail", "return">>
  <2>1. <<"connected", "command_allowed">> \o <<"connected", "lock", "exec", "unlock">>
         = <<"connected", "command_allowed", "connected", "lock", "exec", "unlock">>
    BY Cat2_4
  <2>2. <<"connected", "command_allowed", "connected", "lock", "exec", "unlock">> \o <<"or_fail", "return">>
         = <<"connected", "command_allowed", "connected", "lock", "exec", "unlock", "or_fail", "return">>
    BY Cat6_2
  <2> QED BY <2>1, <2>2, LockedOne DEF StickerSongSet, Checked
<1>18. /\ PlaylistLoad = <<"connected", "lock", "set", "load_failed", "unlock", "or_fail", "return">>
  <2>1. <<"connected", "lock", "set", "load_failed", "unlock">> \o <<"or_fail", "return">>
         = <<"connected", "lock", "set", "load_failed", "unlock", "or_fail", "return">>
    BY Cat5_2
  <2> QED BY <2>1, LockedTwo DEF PlaylistLoad, Checked
<1>19. /\ DatabaseSavePlaylist = <<"connected", "lock", "exec", "name_exists", "unlock", "return">>
  <2>1. <<"connected", "lock", "exec", "name_exists", "unlock">> \o <<"return">>
         = <<"connected", "lock", "exec", "name_exists", "unlock", "return">>
    BY Cat5_1
  <2> QED BY <2>1, LockedTwo DEF DatabaseSavePlaylist, OK
<1>20. /\ PlayerPause = <<"connected", "lock", "player_get_state", "pause", "unlock", "status_update", "or_fail", "return">>
  <2>1. <<"connected", "lock", "player_get_state", "pause", "unlock">> \o <<"status_update", "or_fail", "return">>
         = <<"connected", "lock", "player_get_state", "pause", "unlock", "status_update", "or_fail", "return">>
    BY Cat5_3
  <2> QED BY <2>1, LockedTwo DEF PlayerPause
<1>21. /\ PlayerSeek = <<"player_get_current_song_pos", "or_fail", "connected", "lock", "set", "unlock", "status_update", "or_fail", "return">>
  <2>1. <<"connected", "lock", "set", "unlock">> \o <<"status_update", "or_fail", "return">>
         = <<"connected", "lock", "set", "unlock", "status_update", "or_fail", "return">>
    BY Cat4_3
  <2>2. <<"player_get_current_song_pos", "or_fail">> \o <<"connected", "lock", "set", "unlock", "status_update", "or_fail", "return">>
         = <<"player_get_current_song_pos", "or_fail", "connected", "lock", "set", "unlock", "status_update", "or_fail", "return">>
    BY Cat2_7
  <2> QED BY <2>1, <2>2, LockedOne DEF PlayerSeek, PlayerCommand
<1> QED BY <1>1, <1>2, <1>3, <1>4, <1>5, <1>6, <1>7, <1>8, <1>9, <1>10, <1>11, <1>12, <1>13, <1>14, <1>15, <1>16, <1>17, <1>18, <1>19, <1>20, <1>21

-----------------------------------------------------------------------------
(* The age of the status, for any program that leaves the queue as it is *)

\* The functions that change what the status says and leave it as it was.
LeavesStale == {"playlist_shuffle", "playlist_move_id", "playlist_move_pos", "playlist_set_priority",
                "playlist_add_get_id", "playlist_load"}

\* Steps after which a status is not old, and steps on the way to them that
\* do not end the function unless the session is over or its lock is taken.
Renewals == {"status_update", "status_queue_update", "fetch_status", "forget_status", "close"}
Passing  == {"connected", "lock", "unlock", "pause"}

\* From step n on the status is renewed.
Renewed(b, n) == \E k \in n .. Len(b) : b[k] \in Renewals /\ \A j \in n .. k - 1 : b[j] \in Passing

\* What changes something is renewed, but for the functions that do not.
Renewing(op, b) ==
  \A n \in 1 .. Len(b) :
    /\ b[n] \in {"set", "pause"} => op \in LeavesStale \/ Renewed(b, n + 1)
    /\ b[n] \notin LeavesStale

\* Renewing, one body of the same steps after the other.
LEMMA RenewingBodies ==
  ASSUME NEW op
  PROVE  /\ Renewing(op, ServerUpdateOutputs)
         /\ Renewing(op, ServerGetOutputDevices)
         /\ Renewing(op, PlaylistGetSong)
         /\ Renewing(op, PlaylistGetSongFromPos)
         /\ Renewing(op, PlaylistGetChanges)
         /\ Renewing(op, PlaylistGetChangesPosid)
         /\ Renewing(op, DatabaseGetFileinfo)
         /\ Renewing(op, ServerSetOutputDevice)
         /\ Renewing(op, ServerGetTagTypes)
         /\ Renewing(op, ServerGetReplaygainMode)
         /\ Renewing(op, DatabaseGetArtists)
         /\ Renewing(op, DatabaseGetAlbums)
         /\ Renewing(op, DatabaseGetComplete)
         /\ Renewing(op, DatabaseFind)
         /\ Renewing(op, DatabaseGetDirectory)
         /\ Renewing(op, DatabaseGetDirectoryRecursive)
         /\ Renewing(op, DatabaseDeletePlaylist)
         /\ Renewing(op, DatabasePlaylistMove)
         /\ Renewing(op, DatabasePlaylistList)
         /\ Renewing(op, ServerSetReplaygainMode)
         /\ Renewing(op, StatusSetVolume)
         /\ Renewing(op, StatusSetCrossfade)
         /\ Renewing(op, PlayerSetSingle)
         /\ Renewing(op, PlayerSetConsume)
         /\ Renewing(op, PlayerSetRepeat)
         /\ Renewing(op, PlayerSetRandom)
         /\ Renewing(op, StatsUpdate)
         /\ Renewing(op, StatsUpdateReal)
         /\ Renewing(op, PlayerGetNextSongId)
         /\ Renewing(op, PlayerGetNextSongPos)
         /\ Renewing(op, PlayerGetCurrentSongId)
         /\ Renewing(op, PlayerGetCurrentSongPos)
         /\ Renewing(op, PlayerPlayId)
         /\ Renewing(op, PlayerStop)
         /\ Renewing(op, PlayerNext)
         /\ Renewing(op, PlayerPrev)
         /\ Renewing(op, PlaylistGetCurrentSong)
         /\ Renewing(op, PlaylistClear)
         /\ Renewing(op, PlaylistQueueCommit)
         /\ Renewing(op, DatabaseUpdateDir)
         /\ Renewing(op, DatabaseGetPlaylistContent)
         /\ Renewing(op, StickerSongGet)
         /\ Renewing(op, StickerSongSet)
         /\ Renewing(op, DatabaseSavePlaylist)
         /\ Renewing(op, PlayerPause)
         /\ Renewing(op, PlayerSeek)
<1>1. Renewing(op, <<"connected", "lock", "outputs", "unlock", "return_result">>)
  BY DEF Renewing, Renewed, Renewals, Passing, LeavesStale
<1>2. Renewing(op, <<"connected", "lock", "exec", "unlock", "or_fail", "return">>)
  BY DEF Renewing, Renewed, Renewals, Passing, LeavesStale
<1>3. Renewing(op, <<"connected", "lock", "exec", "unlock", "status_queue_update", "return">>)
  BY DEF Renewing, Renewed, Renewals, Passing, LeavesStale
<1>4. Renewing(op, <<"connected", "lock", "exec", "unlock", "return">>)
  BY DEF Renewing, Renewed, Renewals, Passing, LeavesStale
<1>5. Renewing(op, <<"connected", "lock", "exec", "unlock", "return_result">>)
  BY DEF Renewing, Renewed, Renewals, Passing, LeavesStale
<1>6. Renewing(op, <<"connected", "lock", "set", "unlock", "status_queue_update", "status_get_volume", "return_result">>)
  BY DEF Renewing, Renewed, Renewals, Passing, LeavesStale
<1>7. Renewing(op, <<"connected", "lock", "set", "unlock", "status_queue_update", "return">>)
  BY DEF Renewing, Renewed, Renewals, Passing, LeavesStale
<1>8. Renewing(op, <<"connected", "lock", "fetch_stats", "unlock", "or_fail", "return">>)
  BY DEF Renewing, Renewed, Renewals, Passing, LeavesStale
<1>9. Renewing(op, <<"connected", "status_check", "or_fail", "player_get_state", "ask_again", "or_fail", "if_playing", "status_value", "return">>)
  BY DEF Renewing, Renewed, Renewals, Passing, LeavesStale
<1>10. Renewing(op, <<"connected", "lock", "set", "unlock", "status_update", "or_fail", "return">>)
  BY DEF Renewing, Renewed, Renewals, Passing, LeavesStale
<1>11. Renewing(op, <<"connected", "status_check", "or_fail", "drop_old_song", "if_no_song", "player_get_state", "ask_again", "if_not_stopped", "player_get_current_song_id", "or_fail", "playlist_get_song", "or_fail", "keep_song", "return">>)
  BY DEF Renewing, Renewed, Renewals, Passing, LeavesStale
<1>12. Renewing(op, <<"connected", "lock", "set", "unlock", "status_update", "return">>)
  BY DEF Renewing, Renewed, Renewals, Passing, LeavesStale
<1>13. Renewing(op, <<"connected", "version", "command_allowed", "connected", "lock", "exec", "forgive", "unlock", "return">>)
  BY DEF Renewing, Renewed, Renewals, Passing, LeavesStale
<1>14. Renewing(op, <<"connected", "command_allowed", "connected", "lock", "exec", "forgive", "unlock", "or_fail", "return">>)
  BY DEF Renewing, Renewed, Renewals, Passing, LeavesStale
<1>15. Renewing(op, <<"connected", "command_allowed", "connected", "lock", "exec", "unlock", "or_fail", "return">>)
  BY DEF Renewing, Renewed, Renewals, Passing, LeavesStale
<1>16. Renewing(op, <<"connected", "lock", "exec", "name_exists", "unlock", "return">>)
  BY DEF Renewing, Renewed, Renewals, Passing, LeavesStale
<1>17. Renewing(op, <<"connected", "lock", "player_get_state", "pause", "unlock", "status_update", "or_fail", "return">>)
  BY DEF Renewing, Renewed, Renewals, Passing, LeavesStale
<1>18. Renewing(op, <<"player_get_current_song_pos", "or_fail", "connected", "lock", "set", "unlock", "status_update", "or_fail", "return">>)
  BY DEF Renewing, Renewed, Renewals, Passing, LeavesStale
<1> QED BY Unfolded, <1>1, <1>2, <1>3, <1>4, <1>5, <1>6, <1>7, <1>8, <1>9, <1>10, <1>11, <1>12, <1>13, <1>14, <1>15, <1>16, <1>17, <1>18

LEMMA RenewingNot ==
  ASSUME NEW op, op \in LeavesStale
  PROVE  /\ Renewing(op, PlaylistShuffle)
         /\ Renewing(op, PlaylistMoveId)
         /\ Renewing(op, PlaylistMovePos)
         /\ Renewing(op, PlaylistAddGetId)
         /\ Renewing(op, PlaylistSetPriority)
         /\ Renewing(op, PlaylistLoad)
<1>1. Renewing(op, <<"connected", "lock", "set", "unlock", "return">>)
  BY DEF Renewing, Renewed, Renewals, Passing, LeavesStale
<1>2. Renewing(op, <<"connected", "command_allowed", "connected", "lock", "set", "unlock", "return">>)
  BY DEF Renewing, Renewed, Renewals, Passing, LeavesStale
<1>3. Renewing(op, <<"connected", "lock", "set", "load_failed", "unlock", "or_fail", "return">>)
  BY DEF Renewing, Renewed, Renewals, Passing, LeavesStale
<1> QED BY Unfolded, <1>1, <1>2, <1>3

LEMMA RenewingLiterals ==
  ASSUME NEW op
  PROVE  /\ Renewing(op, CheckError)
         /\ Renewing(op, AckError)
         /\ Renewing(op, FatalError)
         /\ Renewing(op, Disconnect)
         /\ Renewing(op, Connect)
         /\ Renewing(op, SendPassword)
         /\ Renewing(op, SetConnectionTimeout)
         /\ Renewing(op, ServerGetAllowedCommands)
         /\ Renewing(op, ServerGetUrlHandlers)
         /\ Renewing(op, ServerGetDatabaseUpdateTime)
         /\ Renewing(op, StatusQueueUpdate)
         /\ Renewing(op, StatusUpdate)
         /\ Renewing(op, StatusCheck)
         /\ Renewing(op, StatusGetter)
         /\ Renewing(op, CurrentGetter)
         /\ Renewing(op, StatusGetVolume)
         /\ Renewing(op, StatsCheck)
         /\ Renewing(op, StatsGetter)
         /\ Renewing(op, PlayerGetState)
         /\ Renewing(op, PlaylistGetSongFromPosRange)
         /\ Renewing(op, EndsAsFailed)
         /\ Renewing(op, DatabasePlaylistClear)
         /\ Renewing(op, DatabasePlaylistListDelete)
         /\ Renewing(op, DatabasePlaylistListAdd)
         /\ Renewing(op, DatabasePlaylistRename)
<1>1. Renewing(op, CheckError)
  BY DEF Renewing, Renewed, Renewals, Passing, LeavesStale, CheckError
<1>2. Renewing(op, AckError)
  BY DEF Renewing, Renewed, Renewals, Passing, LeavesStale, AckError
<1>3. Renewing(op, FatalError)
  BY DEF Renewing, Renewed, Renewals, Passing, LeavesStale, FatalError
<1>4. Renewing(op, Disconnect)
  BY DEF Renewing, Renewed, Renewals, Passing, LeavesStale, Disconnect
<1>5. Renewing(op, Connect)
  <2>1. CASE HasPassword
    BY <2>1 DEF Renewing, Renewed, Renewals, Passing, LeavesStale, OK, Connect
  <2>2. CASE ~HasPassword
    BY <2>2 DEF Renewing, Renewed, Renewals, Passing, LeavesStale, OK, Connect
  <2> QED BY <2>1, <2>2
<1>6. Renewing(op, SendPassword)
  <2>1. CASE HasPassword
    BY <2>1 DEF Renewing, Renewed, Renewals, Passing, LeavesStale, OK, SendPassword
  <2>2. CASE ~HasPassword
    BY <2>2 DEF Renewing, Renewed, Renewals, Passing, LeavesStale, OK, SendPassword
  <2> QED BY <2>1, <2>2
<1>7. Renewing(op, SetConnectionTimeout)
  BY DEF Renewing, Renewed, Renewals, Passing, LeavesStale, SetConnectionTimeout
<1>8. Renewing(op, ServerGetAllowedCommands)
  BY DEF Renewing, Renewed, Renewals, Passing, LeavesStale, ServerGetAllowedCommands
<1>9. Renewing(op, ServerGetUrlHandlers)
  BY DEF Renewing, Renewed, Renewals, Passing, LeavesStale, ServerGetUrlHandlers
<1>10. Renewing(op, ServerGetDatabaseUpdateTime)
  BY DEF Renewing, Renewed, Renewals, Passing, LeavesStale, ServerGetDatabaseUpdateTime
<1>11. Renewing(op, StatusQueueUpdate)
  BY DEF Renewing, Renewed, Renewals, Passing, LeavesStale, StatusQueueUpdate
<1>12. Renewing(op, StatusUpdate)
  BY DEF Renewing, Renewed, Renewals, Passing, LeavesStale, StatusUpdate
<1>13. Renewing(op, StatusCheck)
  BY DEF Renewing, Renewed, Renewals, Passing, LeavesStale, StatusCheck
<1>14. Renewing(op, StatusGetter)
  BY DEF Renewing, Renewed, Renewals, Passing, LeavesStale, StatusGetter
<1>15. Renewing(op, CurrentGetter)
  BY DEF Renewing, Renewed, Renewals, Passing, LeavesStale, CurrentGetter
<1>16. Renewing(op, StatusGetVolume)
  BY DEF Renewing, Renewed, Renewals, Passing, LeavesStale, StatusGetVolume
<1>17. Renewing(op, StatsCheck)
  BY DEF Renewing, Renewed, Renewals, Passing, LeavesStale, StatsCheck
<1>18. Renewing(op, StatsGetter)
  BY DEF Renewing, Renewed, Renewals, Passing, LeavesStale, StatsGetter
<1>19. Renewing(op, PlayerGetState)
  BY DEF Renewing, Renewed, Renewals, Passing, LeavesStale, PlayerGetState
<1>20. Renewing(op, PlaylistGetSongFromPosRange)
  BY DEF Renewing, Renewed, Renewals, Passing, LeavesStale, PlaylistGetSongFromPosRange
<1>21. Renewing(op, EndsAsFailed)
  BY DEF Renewing, Renewed, Renewals, Passing, LeavesStale, EndsAsFailed
<1>22. Renewing(op, DatabasePlaylistClear)
  BY DEF Renewing, Renewed, Renewals, Passing, LeavesStale, DatabasePlaylistClear, StoredPlaylistEdit
<1>23. Renewing(op, DatabasePlaylistListDelete)
  BY DEF Renewing, Renewed, Renewals, Passing, LeavesStale, DatabasePlaylistListDelete, StoredPlaylistEdit
<1>24. Renewing(op, DatabasePlaylistListAdd)
  BY DEF Renewing, Renewed, Renewals, Passing, LeavesStale, DatabasePlaylistListAdd, StoredPlaylistEdit
<1>25. Renewing(op, DatabasePlaylistRename)
  BY DEF Renewing, Renewed, Renewals, Passing, LeavesStale, DatabasePlaylistRename, StoredPlaylistEdit
<1> QED BY <1>1, <1>2, <1>3, <1>4, <1>5, <1>6, <1>7, <1>8, <1>9, <1>10, <1>11, <1>12, <1>13, <1>14, <1>15, <1>16, <1>17, <1>18, <1>19, <1>20, <1>21, <1>22, <1>23, <1>24, <1>25

LEMMA EveryRenewing == \A op \in DOMAIN Code : Renewing(op, Code[op])
<1>1. \A op \in {"server_update_outputs", "server_get_output_devices", "playlist_get_song",
                "playlist_get_song_from_pos", "playlist_get_changes",
                "playlist_get_changes_posid", "database_get_fileinfo",
                "server_set_output_device", "server_get_tag_types",
                "server_get_replaygain_mode", "database_get_artists", "database_get_albums",
                "database_get_complete", "database_find", "database_get_directory",
                "database_get_directory_recursive"} :
       Renewing(op, Code[op])
  BY RenewingBodies DEF Code
<1>2. \A op \in {"database_delete_playlist", "database_playlist_move",
                "database_playlist_list", "server_set_replaygain_mode", "status_set_volume",
                "status_set_crossfade", "player_set_single", "player_set_consume",
                "player_set_repeat", "player_set_random", "stats_update",
                "stats_update_real", "player_get_next_song_id", "player_get_next_song_pos",
                "player_get_current_song_id", "player_get_current_song_pos"} :
       Renewing(op, Code[op])
  BY RenewingBodies DEF Code
<1>3. \A op \in {"player_play_id", "player_stop", "player_next", "player_prev",
                "playlist_get_current_song", "playlist_clear", "playlist_queue_commit",
                "database_update_dir", "database_get_playlist_content", "sticker_song_get",
                "sticker_song_set", "database_save_playlist", "player_pause", "player_seek"} :
       Renewing(op, Code[op])
  BY RenewingBodies DEF Code
<1>4. \A op \in {"playlist_shuffle", "playlist_move_id", "playlist_move_pos",
                "playlist_add_get_id", "playlist_set_priority", "playlist_load"} :
       Renewing(op, Code[op])
  BY RenewingNot DEF Code, LeavesStale
<1>5. \A op \in {"check_error", "ack_error", "fatal_error", "disconnect", "connect",
                "send_password", "set_connection_timeout", "server_get_allowed_commands",
                "server_get_url_handlers", "server_get_database_update_time",
                "status_queue_update", "status_update", "status_check", "status_getter",
                "current_getter", "status_get_volume", "stats_check", "stats_getter",
                "player_get_state", "playlist_get_song_from_pos_range", "ends_as_failed",
                "database_playlist_clear", "database_playlist_list_delete",
                "database_playlist_list_add", "database_playlist_rename"} :
       Renewing(op, Code[op])
  BY RenewingLiterals DEF Code
<1> QED BY <1>1, <1>2, <1>3, <1>4, <1>5 DEF Code

\* Frame f renews the status on its way back.
Renewer(f) == f.op # "user" /\ Renewed(Body(f), f.at)

\* mpd_connect_real and mpd_disconnect behind the end of the session before.
Closer(f) == f.op \in {"connect", "disconnect"} /\ f.at = 2

\* Somebody on the stack renews the status before anybody opens a connection.
Covered(s) == \E i \in 1 .. Len(s) : Renewer(s[i]) /\ \A j \in 1 .. i - 1 : ~Closer(s[j])

\* No function runs that leaves a status old.
Tidy(s) == \A i \in 1 .. Len(s) : s[i].op \notin LeavesStale

\* The running function has the lock of a session and is to send or has sent.
Sending(f) == Holder(f) /\ f.op # "connect"

\* The invariant: an old status is about to be renewed, and where the lock is
\* taken it is not old, but for the function that has it and its questions.
Renews(s) ==
  /\ Tidy(s)
  /\ status = "stale" => Covered(s)
  /\ connected /\ lock /\ ~Pausing(Tail(s)) /\ ~Sending(Head(s)) => status # "stale"

FInv == stack # <<>> => Renews(stack)

\* What one more frame makes of it.
LEMMA RenewingStack ==
  ASSUME NEW s \in Seq(Placed), NEW f \in Placed
  PROVE  /\ Covered(Cons(f, s)) <=> Renewer(f) \/ (~Closer(f) /\ Covered(s))
         /\ Tidy(Cons(f, s)) <=> f.op \notin LeavesStale /\ Tidy(s)
<1> DEFINE t == Cons(f, s)
<1>1. /\ t \in Seq(Placed) /\ Len(t) = Len(s) + 1 /\ t[1] = f
      /\ \A i \in 1 .. Len(s) : t[i + 1] = s[i]
      /\ \A i \in 2 .. Len(s) + 1 : t[i] = s[i - 1]
  BY ConsProperties
<1>2. Len(s) \in Nat
  OBVIOUS
<1> HIDE DEF t
<1>3. Tidy(t) <=> f.op \notin LeavesStale /\ Tidy(s)
  <2>1. ASSUME Tidy(t) PROVE f.op \notin LeavesStale /\ Tidy(s)
    <3>1. f.op \notin LeavesStale
      BY <1>1, <1>2, <2>1 DEF Tidy
    <3>2. ASSUME NEW i \in 1 .. Len(s) PROVE s[i].op \notin LeavesStale
      <4>1. i + 1 \in 1 .. Len(t) /\ t[i + 1] = s[i]
        BY <1>1, <1>2
      <4> QED BY <2>1, <4>1 DEF Tidy
    <3> QED BY <3>1, <3>2 DEF Tidy
  <2>2. ASSUME f.op \notin LeavesStale, Tidy(s), NEW i \in 1 .. Len(t) PROVE t[i].op \notin LeavesStale
    <3>1. CASE i = 1
      BY <1>1, <2>2, <3>1
    <3>2. CASE i # 1
      <4>1. i - 1 \in 1 .. Len(s) /\ t[i] = s[i - 1]
        BY <1>1, <1>2, <3>2
      <4> QED BY <2>2, <4>1 DEF Tidy
    <3> QED BY <3>1, <3>2
  <2> QED BY <2>1, <2>2 DEF Tidy
<1>4. ASSUME Covered(t), ~Renewer(f) PROVE ~Closer(f) /\ Covered(s)
  <2>1. PICK i \in 1 .. Len(t) : Renewer(t[i]) /\ \A j \in 1 .. i - 1 : ~Closer(t[j])
    BY <1>4 DEF Covered
  <2>2. i # 1
    BY <1>1, <1>4, <2>1
  <2>3. i - 1 \in 1 .. Len(s) /\ t[i] = s[i - 1] /\ 1 \in 1 .. i - 1
    BY <1>1, <1>2, <2>2
  <2>4. ASSUME NEW j \in 1 .. (i - 1) - 1 PROVE ~Closer(s[j])
    <3>1. j + 1 \in 1 .. i - 1 /\ j \in 1 .. Len(s)
      BY <1>2, <2>3
    <3> QED BY <1>1, <2>1, <3>1
  <2> QED BY <1>1, <2>1, <2>3, <2>4 DEF Covered
<1>5. ASSUME Renewer(f) PROVE Covered(t)
  <2>1. 1 \in 1 .. Len(t) /\ 1 .. 1 - 1 = {}
    BY <1>1, <1>2
  <2> QED BY <1>1, <1>5, <2>1 DEF Covered
<1>6. ASSUME ~Closer(f), Covered(s) PROVE Covered(t)
  <2>1. PICK i \in 1 .. Len(s) : Renewer(s[i]) /\ \A j \in 1 .. i - 1 : ~Closer(s[j])
    BY <1>6 DEF Covered
  <2>2. i + 1 \in 1 .. Len(t) /\ t[i + 1] = s[i]
    BY <1>1, <1>2
  <2>3. ASSUME NEW j \in 1 .. (i + 1) - 1 PROVE ~Closer(t[j])
    <3>1. CASE j = 1
      BY <1>1, <1>6, <3>1
    <3>2. CASE j # 1
      <4>1. j - 1 \in 1 .. i - 1 /\ t[j] = s[j - 1]
        BY <1>1, <1>2, <3>2
      <4> QED BY <2>1, <4>1
    <3> QED BY <3>1, <3>2
  <2> QED BY <2>1, <2>2, <2>3 DEF Covered
<1> QED BY <1>3, <1>4, <1>5, <1>6 DEF t

\* The bodies the invariant speaks of.
LEMMA RenewingNamed ==
  /\ Renewed(Code["status_update"], 1) /\ Renewed(Code["status_queue_update"], 1)
  /\ Renewed(Code["disconnect"], 1) /\ Renewed(Code["player_pause"], 4)
  /\ Holds(Code["player_pause"], 4) /\ Holds(Code["ends_as_failed"], 1)
  /\ \A n \in 1 .. Len(Connect) : Connect[n] # "lock" /\ (Connect[n] = "leave" => n = 1)
<1>1. Code["status_queue_update"] = <<"connected", "forget_status", "return">>
  BY DEF Code, StatusQueueUpdate
<1>2. Renewed(StatusUpdate, 1)
  BY DEF StatusUpdate, Renewed, Renewals, Passing
<1>3. Renewed(<<"connected", "forget_status", "return">>, 1) /\ Renewed(<<"close", "return">>, 1)
  BY DEF Renewed, Renewals, Passing
<1>4. Renewed(<<"connected", "lock", "player_get_state", "pause", "unlock", "status_update", "or_fail", "return">>, 4)
  BY DEF Renewed, Renewals, Passing
<1>5. /\ Holds(<<"connected", "lock", "player_get_state", "pause", "unlock", "status_update", "or_fail", "return">>, 4)
      /\ Holds(<<"unlock", "return_failed">>, 1)
  BY DEF Holds
<1>6. \A n \in 1 .. Len(Connect) : Connect[n] # "lock" /\ (Connect[n] = "leave" => n = 1)
  BY DEF Connect
<1> QED BY <1>1, <1>2, <1>3, <1>4, <1>5, <1>6, Bodies

\* What a frame's step says of the age of the status.
LEMMA RenewerFacts ==
  ASSUME NEW f \in Placed, f.op # "user", NEW h, h = On(f, 1)
  PROVE  /\ Renewer(f) => Step(f) \in Renewals \/ (Step(f) \in Passing /\ Renewer(h))
         /\ Step(f) \in {"set", "pause"} => f.op \in LeavesStale \/ Renewer(h)
         /\ Step(f) \notin LeavesStale
         /\ Closer(h) => Step(f) \in {"leave", "close"}
         /\ Sending(f) => \/ Step(f) = "unlock"
                          \/ Step(f) \in HeldSteps /\ Sending(h)
                          \/ Pauser(h) /\ Step(f) = "player_get_state"
         /\ Step(f) = "lock" => Sending(h)
<1>1. /\ f.at \in Nat \ {0} /\ f.op \in DOMAIN Code /\ h.op = f.op /\ h.at = f.at + 1
      /\ Body(h) = Body(f) /\ f.at \in 1 .. Len(Body(f)) /\ Body(f) = Code[f.op]
      /\ Len(Body(f)) \in Nat
  BY OnFacts DEF Body, Sound
<1> DEFINE b == Body(f)
           n == f.at
<1> HIDE DEF b, n
<1>2. Renewed(b, n) => b[n] \in Renewals \/ (b[n] \in Passing /\ Renewed(b, n + 1))
  <2> SUFFICES ASSUME Renewed(b, n), b[n] \notin Renewals PROVE b[n] \in Passing /\ Renewed(b, n + 1)
    OBVIOUS
  <2>1. n \in Nat \ {0} /\ Len(b) \in Nat
    BY <1>1 DEF n, b
  <2>2. PICK k \in n .. Len(b) : b[k] \in Renewals /\ \A j \in n .. k - 1 : b[j] \in Passing
    BY DEF Renewed
  <2>3. k # n
    BY <2>2
  <2>4. k \in n + 1 .. Len(b) /\ n \in n .. k - 1 /\ \A j \in n + 1 .. k - 1 : j \in n .. k - 1
    BY <2>1, <2>3
  <2> QED BY <2>2, <2>4 DEF Renewed
<1>3. /\ b[n] \in {"set", "pause"} => f.op \in LeavesStale \/ Renewed(b, n + 1)
      /\ b[n] \notin LeavesStale
  <2>1. Renewing(f.op, b) /\ n \in 1 .. Len(b)
    BY <1>1, EveryRenewing DEF b, n
  <2> QED BY <2>1 DEF Renewing
<1>4. Closer(h) => Step(f) \in {"leave", "close"}
  <2>1. Closer(h) => f.at = 1 /\ f.op \in {"connect", "disconnect"}
    BY <1>1 DEF Closer
  <2>2. Code["connect"][1] = "leave" /\ Code["disconnect"][1] = "close"
    BY Bodies DEF Connect
  <2> QED BY <2>1, <2>2 DEF Step, Body
<1>5. Sending(f) => \/ Step(f) = "unlock"
                    \/ Step(f) \in HeldSteps /\ Sending(h)
                    \/ Pauser(h) /\ Step(f) = "player_get_state"
  <2>1. Sending(f) => \/ Step(f) = "unlock"
                      \/ Step(f) \in HeldSteps /\ Sending(h)
                      \/ f.op = "player_pause" /\ f.at = 3
    BY <1>1, StepFacts DEF Sending
  <2>2. f.op = "player_pause" /\ f.at = 3 => Pauser(h) /\ Step(f) = "player_get_state"
    BY <1>1, NamedSteps DEF Pauser
  <2> QED BY <2>1, <2>2
<1>6. Step(f) = "lock" => Sending(h)
  <2>1. Step(f) = "lock" => Holder(h)
    BY StepFacts
  <2>2. f.op = "connect" => Step(f) # "lock"
    BY <1>1, Bodies, RenewingNamed DEF Step
  <2> QED BY <1>1, <2>1, <2>2 DEF Sending
<1>7. /\ Renewer(f) <=> Renewed(b, n)
      /\ Renewer(h) <=> Renewed(b, n + 1)
      /\ Step(f) = b[n]
  BY <1>1 DEF Renewer, Step, b, n
<1> QED BY <1>2, <1>3, <1>4, <1>5, <1>6, <1>7

\* The functions that are called by no name of theirs.
LEMMA FirstFrames ==
  ASSUME NEW op \in DOMAIN Code \cup {"user"}
  PROVE  /\ ~Closer(Frame(op)) /\ ~Pauser(Frame(op))
         /\ op \in {"status_update", "status_queue_update", "disconnect"} => Renewer(Frame(op))
         /\ op # "ends_as_failed" => ~Sending(Frame(op))
         /\ op = "ends_as_failed" => Sending(Frame(op))
<1> SUFFICES ASSUME NEW f, f = Frame(op)
             PROVE  /\ ~Closer(f) /\ ~Pauser(f)
                    /\ op \in {"status_update", "status_queue_update", "disconnect"} => Renewer(f)
                    /\ op # "ends_as_failed" => ~Sending(f)
                    /\ op = "ends_as_failed" => Sending(f)
  OBVIOUS
<1>1. f.op = op /\ f.at = 1 /\ (Holder(f) => op = "ends_as_failed")
  BY FrameFacts
<1>2. ~Closer(f) /\ ~Pauser(f)
  BY <1>1 DEF Closer, Pauser
<1>3. op \in {"status_update", "status_queue_update", "disconnect"} => Renewer(f)
  BY <1>1, RenewingNamed DEF Renewer, Body
<1>4. op = "ends_as_failed" => Sending(f)
  BY <1>1, RenewingNamed DEF Sending, Holder, Body
<1> QED BY <1>1, <1>2, <1>3, <1>4 DEF Sending

\* While mpd_player_pause waits for the state, it will renew the status.
LEMMA PauserRenews ==
  ASSUME NEW s \in Seq(Placed), Pausing(s), Undisturbed(s)
  PROVE  Covered(s)
<1>1. PICK i \in 1 .. Len(s) : Pauser(s[i])
  BY DEF Pausing
<1>2. Renewer(s[i])
  BY <1>1, RenewingNamed DEF Pauser, Renewer, Body
<1>3. ASSUME NEW j \in 1 .. i - 1 PROVE ~Closer(s[j])
  BY <1>1, <1>3 DEF Undisturbed, Asks, Closer
<1> QED BY <1>1, <1>2, <1>3 DEF Covered

\* A status gets old by a command that changes something, and in no other way.
Ages ==
  status' = "stale" => \/ Here \in {"set", "pause"}
                       \/ status = "stale" /\ Here \notin {"fetch_status", "forget_status", "close"}

LEMMA StepsAge ==
  ASSUME Function, stack' # <<>>
  PROVE  Ages
<1>1. CASE UNCHANGED status /\ Here \notin {"fetch_status", "forget_status", "close"}
  BY <1>1 DEF Ages
<1>2. CASE CallFunction \/ Returns \/ OrFail \/ CheckConnected \/ CheckVersion \/ CheckCommandAllowed \/ LockConn \/ UnlockConn
  <2>1. UNCHANGED status
    BY <1>2 DEF CallFunction, Returns, OrFail, CheckConnected, CheckVersion, CheckCommandAllowed, LockConn, UnlockConn, data
  <2>2. Here \notin {"fetch_status", "forget_status", "close"}
    BY <1>2, StepNames DEF CallFunction, Returns, OrFail, CheckConnected, CheckVersion, CheckCommandAllowed,
       LockConn, UnlockConn, Steps, Steady, HeldSteps, Exchanges, Special
  <2> QED BY <1>1, <2>1, <2>2
<1>3. CASE \/ LookForError \/ ErrorCallback \/ Obey \/ Leave \/ Open \/ Accept \/ FreeCommands \/ SignalConnected
           \/ SignalStatus \/ Need \/ Compare \/ ClearServerError \/ StatsIfStopped \/ Watch \/ StatsIfDatabase
  BY <1>1, <1>3 DEF LookForError, ErrorCallback, Obey, Leave, Open, Accept, FreeCommands, SignalConnected,
     SignalStatus, Need, Compare, ClearServerError, StatsIfStopped, Watch, StatsIfDatabase, data
<1>4. CASE \/ ReadValue \/ AskAgain \/ IfPlaying \/ IfNotCached \/ DropOldSong \/ KeepSong
           \/ LoadFailed \/ NameExists \/ Forgive
  BY <1>1, <1>4 DEF ReadValue, AskAgain, IfPlaying, IfNotCached, DropOldSong, KeepSong, LoadFailed, NameExists, Forgive, data
<1>5. CASE Exchange
  <2>1. PICK c \in Answers :
          status' = CASE Here = "fetch_status" -> IF c.error = "NONE" THEN "fresh" ELSE "none"
                      [] Here = "set" /\ status # "none" /\ c.error # "ACK" -> "stale"
                      [] OTHER -> status
    BY <1>5 DEF Exchange
  <2>2. Here \in Exchanges
    BY <1>5 DEF Exchange
  <2>3. Here \notin {"forget_status", "close"}
    BY <2>2 DEF Exchanges, ListSteps
  <2> QED BY <2>1, <2>3 DEF Ages
<1>6. CASE Close \/ ForgetStatus \/ Pause
  BY <1>6 DEF Close, ForgetStatus, Pause, Ages
<1>7. CASE Crash
  BY <1>7 DEF Crash
<1> QED BY <1>2, <1>3, <1>4, <1>5, <1>6, <1>7 DEF Function

\* The invariant of the stack after a step, from that of its parts.
LEMMA RenewsNow ==
  ASSUME NEW f \in Placed, NEW s \in Seq(Placed), stack' = Cons(f, s), f.op \notin LeavesStale, Tidy(s),
         status' = "stale" => Renewer(f) \/ (~Closer(f) /\ Covered(s)),
         connected' /\ lock' /\ ~Pausing(s) /\ ~Sending(f) => status' # "stale"
  PROVE  Renews(stack)'
<1>1. Tidy(stack') /\ (Covered(stack') <=> Renewer(f) \/ (~Closer(f) /\ Covered(s)))
  BY RenewingStack
<1>2. Head(stack') = f /\ Tail(stack') = s
  BY ConsProperties
<1> QED BY <1>1, <1>2 DEF Renews

\* The same when f waits for op.
LEMMA RenewsBehind ==
  ASSUME NEW h \in Placed, NEW s \in Seq(Placed), NEW op \in DOMAIN Code \cup {"user"}, op # "ends_as_failed",
         stack' = Cons(Frame(op), Cons(h, s)), h.op \notin LeavesStale, op \notin LeavesStale, Tidy(s),
         status' = "stale" => \/ Renewer(Frame(op)) \/ Renewer(h)
                              \/ ~Closer(h) /\ Covered(s),
         connected' /\ lock' /\ ~Pausing(s) /\ ~Pauser(h) => status' # "stale"
  PROVE  Renews(stack)'
<1> SUFFICES ASSUME NEW f, f = Frame(op), NEW t, t = Cons(h, s) PROVE Renews(stack)'
  OBVIOUS
<1>1. f \in Placed /\ f.op = op /\ ~Closer(f) /\ ~Sending(f)
  BY FrameFacts, FirstFrames
<1>2. t \in Seq(Placed) /\ (Pausing(t) <=> Pauser(h) \/ Pausing(s))
  BY ConsProperties, ConsFacts
<1>3. Tidy(t) /\ (Covered(t) <=> Renewer(h) \/ (~Closer(h) /\ Covered(s)))
  BY RenewingStack
<1> QED BY <1>1, <1>2, <1>3, RenewsNow

\* What the invariant says of the running function.
Aging(f, s, g, h) == Runs(f, s, g, h) /\ Renews(stack) /\ Ages

LEMMA RenewsFacts ==
  ASSUME NEW f, NEW s, NEW g, NEW h, Aging(f, s, g, h)
  PROVE  /\ f \in Placed /\ f.op # "user" /\ s \in Seq(Placed) /\ s # <<>> /\ Here = Step(f) /\ h = On(f, 1)
         /\ h.op = f.op /\ f.op \notin LeavesStale /\ Tidy(s) /\ Rest = s /\ Next1 = h
         /\ status = "stale" => Renewer(f) \/ (~Closer(f) /\ Covered(s))
         /\ connected /\ lock /\ ~Pausing(s) /\ ~Sending(f) => status # "stale"
         /\ Renewer(f) => Step(f) \in Renewals \/ (Step(f) \in Passing /\ Renewer(h))
         /\ Step(f) \in {"set", "pause"} => Renewer(h)
         /\ Step(f) \notin LeavesStale
         /\ Closer(h) => Step(f) \in {"leave", "close"}
         /\ Sending(f) => \/ Step(f) = "unlock"
                          \/ Step(f) \in HeldSteps /\ Sending(h)
                          \/ Pauser(h) /\ Step(f) = "player_get_state"
         /\ Step(f) = "lock" => Sending(h)
         /\ Step(f) \notin Ends => h \in Placed
<1>1. Runs(f, s, g, h) /\ Renews(stack) /\ f = Top /\ h = On(f, 1) /\ IInv /\ stack # <<>>
  BY DEF Aging, Runs
<1>2. /\ f \in Placed /\ f.op # "user" /\ s \in Seq(Placed) /\ s # <<>> /\ Here = Step(f) /\ h.op = f.op
      /\ Rest = s /\ Next1 = h
  BY <1>1, RunsFacts
<1>3. stack = Cons(f, s)
  <2>1. Calls(stack)
    BY <1>1 DEF IInv
  <2> QED BY <1>1, <1>2, <2>1, TopFacts
<1>4. Head(stack) = f /\ Tail(stack) = s
  BY <1>2, <1>3, ConsProperties
<1>5. /\ f.op \notin LeavesStale /\ Tidy(s)
      /\ status = "stale" => Renewer(f) \/ (~Closer(f) /\ Covered(s))
      /\ connected /\ lock /\ ~Pausing(s) /\ ~Sending(f) => status # "stale"
  BY <1>1, <1>2, <1>3, <1>4, RenewingStack DEF Renews
<1>6. Step(f) \notin Ends => h \in Placed
  BY <1>1, <1>2, StepFacts
<1> QED BY <1>1, <1>2, <1>5, <1>6, RenewerFacts

LEMMA ProceedsRenews ==
  ASSUME NEW f, NEW s, NEW g, NEW h, Aging(f, s, g, h), Proceeds
  PROVE  Renews(stack)'
<1>1. /\ Here = Step(f) /\ Here \notin Ends \cup Special \cup DOMAIN Code
      /\ Here = "leave" => ~connected
      /\ stack' = Cons(h, s) /\ connected' = connected /\ lock' = lock
      /\ h \in Placed /\ s \in Seq(Placed) /\ h.op \notin LeavesStale /\ Tidy(s)
  BY RenewsFacts DEF Proceeds, Gentle
<1>2. Ages /\ (~connected => status = "none")
  BY RunsFacts DEF Aging, Known
<1>3. Here \in Renewals => Here \in {"fetch_status", "forget_status"}
  <2>1. {"status_update", "status_queue_update"} \subseteq DOMAIN Code
    BY DEF Code
  <2> QED BY <1>1, <2>1 DEF Renewals, Special
<1>4. ASSUME status' = "stale" PROVE Renewer(h) \/ (~Closer(h) /\ Covered(s))
  <2>1. CASE Here \in {"set", "pause"}
    BY <1>1, <2>1, RenewsFacts
  <2>2. CASE status = "stale" /\ Here \notin {"fetch_status", "forget_status", "close"}
    <3>1. Renewer(f) => Renewer(h)
      BY <1>1, <1>3, <2>2, RenewsFacts
    <3>2. ~Closer(h)
      BY <1>1, <1>2, <2>2, RenewsFacts
    <3> QED BY <2>2, <3>1, <3>2, RenewsFacts
  <2> QED BY <1>2, <1>4, <2>1, <2>2 DEF Ages
<1>5. ASSUME connected', lock', ~Pausing(s), ~Sending(h) PROVE status' # "stale"
  <2>1. Here # "unlock" /\ Here # "player_get_state"
    BY <1>1, FunctionNames DEF Special
  <2>2. ~Sending(f)
    BY <1>1, <1>5, <2>1, RenewsFacts
  <2>3. status # "stale"
    BY <1>1, <1>5, <2>2, RenewsFacts
  <2>4. Here \notin {"set", "pause"}
    <3>1. Here \in {"set", "pause"} => Holder(f) /\ f.op # "connect"
      BY <1>1, RenewsFacts, StepFacts DEF Exchanges, HeldSteps
    <3> QED BY <2>2, <3>1 DEF Sending
  <2> QED BY <1>2, <2>3, <2>4 DEF Ages
<1> QED BY <1>1, <1>4, <1>5, RenewsNow

LEMMA SkipsOutputsRenews ==
  ASSUME NEW f, NEW s, NEW g, NEW h, Aging(f, s, g, h), SkipsOutputs
  PROVE  Renews(stack)'
<1> SUFFICES ASSUME NEW k, k = On(f, 2) PROVE Renews(stack)'
  OBVIOUS
<1>1. /\ Here = "watch" /\ Step(f) = "watch" /\ connected' = connected /\ lock' = lock
      /\ s \in Seq(Placed) /\ Tidy(s) /\ f \in Placed /\ f.op # "user" /\ f.op \notin LeavesStale
  BY RenewsFacts DEF SkipsOutputs, Gentle
<1>2. stack' = Cons(k, s) \/ stack' = Cons(Frame("server_update_outputs"), Cons(k, s))
  <2>1. f = Top /\ s = Rest
    BY DEF Aging, Runs
  <2> QED BY <2>1 DEF SkipsOutputs
<1>3. f.op = "status_update" /\ f.at = 10 /\ k.op = "status_update" /\ k.at = 12 /\ k \in Frames
  <2>1. f.op = "status_update" /\ f.at = 10
    BY <1>1, StepFacts
  <2> QED BY <1>1, <2>1, OnFacts
<1>4. k \in Placed
  <2>1. 12 \in 1 .. Len(Code["status_update"])
    BY Bodies DEF StatusUpdate
  <2> QED BY <1>3, <2>1 DEF Placed
<1>5. /\ status' = "stale" => status = "stale"
      /\ ~Renewer(f) /\ ~Sending(f) /\ ~Closer(k) /\ ~Pauser(k)
  <2>1. status' = "stale" => status = "stale"
    BY <1>1 DEF Aging, Ages
  <2>2. ~Renewer(f)
    BY <1>1, RenewsFacts DEF Renewals, Passing
  <2>3. ~Sending(f)
    <3>1. ~Pauser(h)
      BY <1>3, RenewsFacts DEF Pauser
    <3> QED BY <1>1, <3>1, RenewsFacts DEF HeldSteps, Exchanges, ListSteps
  <2> QED BY <1>3, <2>1, <2>2, <2>3 DEF Closer, Pauser
<1>6. /\ status' = "stale" => Covered(s)
      /\ connected' /\ lock' /\ ~Pausing(s) => status' # "stale"
  BY <1>1, <1>5, RenewsFacts
<1>7. {"server_update_outputs", "status_update"} \subseteq DOMAIN Code /\ {"server_update_outputs", "status_update"} \cap LeavesStale = {}
  BY FunctionNames DEF LeavesStale
<1>8. CASE stack' = Cons(k, s)
  BY <1>1, <1>3, <1>4, <1>5, <1>6, <1>7, <1>8, RenewsNow
<1>9. CASE stack' = Cons(Frame("server_update_outputs"), Cons(k, s))
  BY <1>1, <1>3, <1>4, <1>5, <1>6, <1>7, <1>9, RenewsBehind
<1> QED BY <1>2, <1>8, <1>9

\* The lock, the connection and its error.
LEMMA TakesRenews ==
  ASSUME NEW f, NEW s, NEW g, NEW h, Aging(f, s, g, h), Takes
  PROVE  Renews(stack)'
<1>1. /\ Step(f) = "lock" /\ stack' = Cons(h, s) /\ status' = status
      /\ h \in Placed /\ s \in Seq(Placed) /\ h.op \notin LeavesStale /\ Tidy(s)
  BY RenewsFacts DEF Takes, Ends
<1>2. Sending(h) /\ ~Closer(h) /\ (Renewer(f) => Renewer(h))
  BY <1>1, RenewsFacts DEF Renewals, Passing
<1> QED BY <1>1, <1>2, RenewsFacts, RenewsNow

LEMMA GivesBackRenews ==
  ASSUME NEW f, NEW s, NEW g, NEW h, Aging(f, s, g, h), GivesBack
  PROVE  Renews(stack)'
<1>1. /\ Step(f) = "unlock" /\ ~lock' /\ stack' = Cons(Frame("check_error"), Cons(h, s)) /\ status' = status
      /\ h \in Placed /\ s \in Seq(Placed) /\ h.op \notin LeavesStale /\ Tidy(s)
  BY RenewsFacts DEF GivesBack, Ends
<1>2. ~Closer(h) /\ (Renewer(f) => Renewer(h))
  BY <1>1, RenewsFacts DEF Renewals, Passing
<1>3. "check_error" \in DOMAIN Code /\ "check_error" \notin LeavesStale
  BY FunctionNames DEF LeavesStale
<1>4. status' = "stale" => Renewer(h) \/ (~Closer(h) /\ Covered(s))
  BY <1>1, <1>2, RenewsFacts
<1> QED BY <1>1, <1>3, <1>4, RenewsBehind

LEMMA BeginsRenews ==
  ASSUME NEW f, NEW s, NEW g, NEW h, Aging(f, s, g, h), Begins
  PROVE  Renews(stack)'
<1>1. /\ Step(f) = "open" /\ stack' = Cons(h, s) /\ status' = status
      /\ f \in Placed /\ f.op # "user"
      /\ h \in Placed /\ s \in Seq(Placed) /\ h.op \notin LeavesStale /\ Tidy(s)
  BY RenewsFacts DEF Begins, Ends
<1>2. Closer(f)
  BY <1>1, StepFacts DEF Closer
<1>3. ~Renewer(f)
  BY <1>1, RenewsFacts DEF Renewals, Passing
<1>4. status' # "stale"
  BY <1>1, <1>2, <1>3, RenewsFacts
<1> QED BY <1>1, <1>4, RenewsNow

LEMMA AcceptsRenews ==
  ASSUME NEW f, NEW s, NEW g, NEW h, Aging(f, s, g, h), Accepts
  PROVE  Renews(stack)'
<1>1. /\ Step(f) = "accept" /\ stack' = Cons(h, s) /\ status' = status /\ lock' = lock
      /\ f \in Placed /\ f.op # "user" /\ h.op = f.op
      /\ h \in Placed /\ s \in Seq(Placed) /\ h.op \notin LeavesStale /\ Tidy(s)
  BY RenewsFacts DEF Accepts, Ends
<1>2. f.op = "connect"
  BY <1>1, StepFacts
<1>3. ~Renewer(f) /\ ~Closer(h)
  BY <1>1, RenewsFacts DEF Renewals, Passing
<1>4. status' = "stale" => Covered(s)
  BY <1>1, <1>3, RenewsFacts
<1>5. ~connected => status = "none"
  BY RunsFacts DEF Aging, Known
<1>6. lock' /\ ~Pausing(s) => status' # "stale"
  BY <1>1, <1>2, <1>5, RenewsFacts DEF Sending
<1> QED BY <1>1, <1>3, <1>4, <1>6, RenewsNow

LEMMA ClosesRenews ==
  ASSUME NEW f, NEW s, NEW g, NEW h, Aging(f, s, g, h), Closes
  PROVE  Renews(stack)'
<1>1. /\ Step(f) = "close" /\ status' = "none"
      /\ stack' = Cons(h, s) \/ stack' = Cons(Frame("user"), Cons(h, s))
      /\ h \in Placed /\ s \in Seq(Placed) /\ h.op \notin LeavesStale /\ Tidy(s)
  BY RenewsFacts DEF Closes, Ends
<1>2. "user" \notin LeavesStale /\ status' # "stale"
  BY <1>1 DEF LeavesStale
<1>3. CASE stack' = Cons(h, s)
  BY <1>1, <1>2, <1>3, RenewsNow
<1>4. CASE stack' = Cons(Frame("user"), Cons(h, s))
  BY <1>1, <1>2, <1>4, RenewsBehind
<1> QED BY <1>1, <1>3, <1>4

\* A call of another function, and its end.
LEMMA CallsOnRenews ==
  ASSUME NEW f, NEW s, NEW g, NEW h, Aging(f, s, g, h), CallsOn
  PROVE  Renews(stack)'
<1>1. PICK op \in DOMAIN Code \cup {"user"} :
        /\ Here \notin DOMAIN Code => Here \in Lending /\ op \in Lent
        /\ Here = "leave" => op = "disconnect"
        /\ op # "ends_as_failed"
        /\ Here \in DOMAIN Code => op = Here
        /\ stack' = Cons(Frame(op), Cons(Next1, Rest))
  BY DEF CallsOn
<1>2. /\ Here = Step(f) /\ Here \notin Steady \cup Ends \cup Special
      /\ stack' = Cons(Frame(op), Cons(h, s))
      /\ status' = status /\ connected' = connected /\ lock' = lock
      /\ h \in Placed /\ s \in Seq(Placed) /\ h.op \notin LeavesStale /\ Tidy(s)
  BY <1>1, RenewsFacts DEF CallsOn, data
<1>3. op \notin LeavesStale
  <2>1. Here \notin LeavesStale
    BY <1>2, RenewsFacts
  <2> QED BY <1>1, <2>1 DEF Lent, LeavesStale
<1>4. ASSUME status' = "stale" PROVE Renewer(Frame(op)) \/ Renewer(h) \/ (~Closer(h) /\ Covered(s))
  <2>1. CASE Renewer(f)
    <3>1. Here \notin Passing
      BY <1>2 DEF Passing, Steady, Special, HeldSteps
    <3>2. Here \in Renewals
      BY <1>2, <2>1, <3>1, RenewsFacts
    <3>3. Here \in {"status_update", "status_queue_update"}
      <4>1. Here # "fetch_status" /\ Here # "close"
        BY <1>2 DEF Special, Steady, HeldSteps, Exchanges
      <4>2. Here # "forget_status"
        BY <1>1, StepNames DEF Lending, Steps
      <4> QED BY <3>2, <4>1, <4>2 DEF Renewals
    <3>4. Here \in DOMAIN Code
      BY <3>3 DEF Code
    <3> QED BY <1>1, <3>3, <3>4, FirstFrames
  <2>2. CASE ~Renewer(f)
    <3>1. Covered(s)
      BY <1>2, <1>4, <2>2, RenewsFacts
    <3>2. Closer(h) => op = "disconnect"
      BY <1>1, <1>2, RenewsFacts DEF Special
    <3> QED BY <3>1, <3>2, FirstFrames
  <2> QED BY <2>1, <2>2
<1>5. ASSUME connected', lock', ~Pausing(s), ~Pauser(h) PROVE status' # "stale"
  <2>1. ~Sending(f)
    BY <1>2, <1>5, RenewsFacts DEF Special, Steady
  <2> QED BY <1>2, <1>5, <2>1, RenewsFacts
<1> QED BY <1>1, <1>2, <1>3, <1>4, <1>5, RenewsBehind

LEMMA BecomesRenews ==
  ASSUME NEW f, NEW s, NEW g, NEW h, Aging(f, s, g, h), Becomes
  PROVE  Renews(stack)'
<1>1. PICK op \in {"ack_error", "fatal_error", "ends_as_failed"} :
        /\ stack' = Cons(Frame(op), Rest)
        /\ \/ Here = "look" /\ op # "ends_as_failed"
           \/ Here \in {"load_failed", "name_exists"} /\ op = "ends_as_failed"
  BY DEF Becomes
<1> SUFFICES ASSUME NEW k, k = Frame(op) PROVE Renews(stack)'
  OBVIOUS
<1>2. /\ Here = Step(f) /\ f \in Placed /\ f.op # "user" /\ stack' = Cons(k, s)
      /\ status' = status /\ connected' = connected /\ lock' = lock
      /\ s \in Seq(Placed) /\ Tidy(s)
  BY <1>1, RenewsFacts DEF Becomes
<1>3. op \in DOMAIN Code /\ op \notin LeavesStale
  BY FunctionNames DEF LeavesStale
<1>4. k \in Placed /\ k.op = op /\ ~Closer(k) /\ (op = "ends_as_failed" => Sending(k))
  BY <1>3, FrameFacts, FirstFrames
<1>5. status = "stale" => Covered(s)
  <2>1. ~Renewer(f)
    BY <1>1, <1>2, RenewsFacts DEF Renewals, Passing
  <2> QED BY <2>1, RenewsFacts
<1>6. ASSUME connected', lock', ~Pausing(s), ~Sending(k) PROVE status' # "stale"
  <2>1. Here = "look"
    BY <1>1, <1>4, <1>6
  <2>2. ~Sending(f)
    BY <1>2, <2>1, RenewsFacts DEF HeldSteps, Exchanges, ListSteps
  <2> QED BY <1>2, <1>6, <2>2, RenewsFacts
<1> QED BY <1>2, <1>3, <1>4, <1>5, <1>6, RenewsNow

\* What is left when the frame on top is gone.
LEMMA RenewsUnder ==
  ASSUME NEW s \in Seq(Placed), s # <<>>, stack' = s, Tidy(s),
         status' = "stale" => Covered(s),
         connected' /\ lock' /\ ~Pausing(s) => status' # "stale"
  PROVE  Renews(stack)'
<1> SUFFICES ASSUME NEW g, g = Head(s), NEW q, q = Tail(s) PROVE Renews(stack)'
  OBVIOUS
<1>1. g \in Placed /\ q \in Seq(Placed) /\ s = Cons(g, q)
  BY Apart
<1>2. Pausing(s) <=> Pauser(g) \/ Pausing(q)
  BY <1>1, ConsFacts
<1>3. Pauser(g) => Sending(g)
  BY RenewingNamed DEF Pauser, Sending, Holder, Body
<1> QED BY <1>2, <1>3 DEF Renews

LEMMA ReturnedRenews ==
  ASSUME NEW f, NEW s, NEW g, NEW h, Aging(f, s, g, h), Returned
  PROVE  Renews(stack)'
<1>1. /\ Here = Step(f) /\ Here \in Ends \cup Tests /\ stack' = s
      /\ f \in Placed /\ f.op # "user"
      /\ Here = "lock" => lock
      /\ Here = "connected" => ~connected
      /\ status' = status /\ connected' = connected /\ lock' = lock
      /\ s \in Seq(Placed) /\ s # <<>> /\ Tidy(s)
  BY RenewsFacts DEF Returned, data
<1>2. /\ Undisturbed(s) /\ (SureAt(f) => connected)
      /\ ~connected => status = "none"
  BY RunsFacts DEF Aging, Known, IsSure
<1>3. ~Sending(f)
  <2>1. Here # "unlock" /\ Here \notin HeldSteps /\ Here # "player_get_state"
    BY <1>1 DEF Ends, Tests, HeldSteps, Exchanges, ListSteps
  <2> QED BY <1>1, <2>1, RenewsFacts
<1>4. connected /\ lock /\ ~Pausing(s) => status # "stale"
  BY <1>3, RenewsFacts
<1>5. ASSUME status = "stale" PROVE Covered(s)
  <2>1. CASE ~Renewer(f)
    BY <1>5, <2>1, RenewsFacts
  <2>2. CASE Renewer(f)
    <3>1. Here \in Passing
      BY <1>1, <2>2, RenewsFacts DEF Renewals, Ends, Tests
    <3>2. Here = "lock"
      BY <1>1, <1>2, <1>5, <3>1 DEF Passing, Ends, Tests
    <3>3. connected /\ lock
      BY <1>1, <1>2, <3>2, StepFacts
    <3>4. Pausing(s)
      BY <1>4, <1>5, <3>3
    <3> QED BY <1>1, <1>2, <3>4, PauserRenews
  <2> QED BY <2>1, <2>2
<1> QED BY <1>1, <1>4, <1>5, RenewsUnder

\* What the program does itself.
LEMMA ProgramRenews ==
  ASSUME IInv, stack # <<>>, Renews(stack), Operations \cap LeavesStale = {}, Starts \/ Resumes
  PROVE  Renews(stack)'
<1> SUFFICES ASSUME NEW f, f = Top, NEW s, s = Rest PROVE Renews(stack)'
  OBVIOUS
<1>1. /\ f.op = "user" /\ status' = status /\ connected' = connected /\ lock' = lock
  BY DEF Starts, Resumes, data
<1>2. f \in Placed /\ s \in Seq(Placed) /\ stack = Cons(f, s)
  BY TopFacts DEF IInv
<1>3. Head(stack) = f /\ Tail(stack) = s /\ stack \in Seq(Placed)
  BY <1>2, ConsProperties
<1>4. ~Renewer(f) /\ ~Sending(f) /\ ~Pauser(f)
  BY <1>1 DEF Renewer, Sending, Holder, Pauser
<1>5. /\ Tidy(stack) /\ (status = "stale" => Covered(stack))
      /\ connected /\ lock /\ ~Pausing(s) => status # "stale"
  BY <1>3, <1>4 DEF Renews
<1>6. /\ Covered(stack) <=> ~Closer(f) /\ Covered(s)
      /\ Tidy(stack) => Tidy(s)
      /\ Pausing(stack) <=> Pausing(s)
  BY <1>2, <1>4, RenewingStack, ConsFacts
<1>7. CASE Starts
  <2>1. PICK op \in Operations : stack' = Cons(Frame(op), stack)
    BY <1>7 DEF Starts
  <2> SUFFICES ASSUME NEW t, t = stack, NEW k, k = Frame(op) PROVE Renews(stack)'
    OBVIOUS
  <2>2. op \in DOMAIN Code /\ op # "ends_as_failed" /\ op \notin LeavesStale
    BY SessionAssumption DEF Public, Internal
  <2>3. k \in Placed /\ k.op = op /\ ~Closer(k) /\ ~Sending(k)
    BY <2>2, FrameFacts, FirstFrames
  <2>4. t \in Seq(Placed) /\ Tidy(t) /\ stack' = Cons(k, t) /\ (status' = "stale" => Covered(t))
        /\ (connected' /\ lock' /\ ~Pausing(t) => status' # "stale")
    BY <1>1, <1>3, <1>5, <1>6, <2>1
  <2> QED BY <2>2, <2>3, <2>4, RenewsNow
<1>8. CASE Resumes
  <2>1. s # <<>> /\ stack' = s
    BY <1>8 DEF Resumes
  <2> QED BY <1>1, <1>2, <1>5, <1>6, <2>1, RenewsUnder
<1> QED BY <1>7, <1>8

LEMMA InitRenews == Init => FInv
<1> SUFFICES ASSUME Init, NEW f, f = Frame("user") PROVE Renews(stack)
  BY DEF FInv
<1>1. f \in Placed /\ f.op = "user" /\ stack = Cons(f, <<>>) /\ <<>> \in Seq(Placed) /\ status = "none"
  BY FrameFacts DEF Init, Cons
<1>2. Tidy(<<>>) /\ f.op \notin LeavesStale
  BY <1>1 DEF Tidy, LeavesStale
<1>3. Tidy(stack)
  BY <1>1, <1>2, RenewingStack
<1> QED BY <1>1, <1>3 DEF Renews

LEMMA NextRenews ==
  ASSUME IInv, FInv, Operations \cap LeavesStale = {}, [Next]_vars
  PROVE  FInv'
<1>1. CASE UNCHANGED vars
  <2>1. connected' = connected /\ lock' = lock /\ status' = status /\ stack' = stack
    BY <1>1 DEF vars, data
  <2> QED BY <2>1 DEF FInv, Renews
<1>2. CASE Next
  <2> SUFFICES ASSUME stack' # <<>> PROVE Renews(stack)'
    BY DEF FInv
  <2>1. stack # <<>>
    BY <1>2, NoStepAfterEnd
  <2>2. Kinds /\ Renews(stack)
    BY <1>2, <2>1, StepsAreKinds DEF FInv
  <2>3. CASE Starts \/ Resumes
    BY <2>1, <2>2, <2>3, ProgramRenews
  <2>4. ASSUME Top.op # "user",
               \/ Proceeds \/ SkipsOutputs \/ Takes \/ GivesBack \/ Begins \/ Accepts \/ Closes
               \/ CallsOn \/ Becomes \/ Returned
        PROVE  Renews(stack)'
    <3> SUFFICES ASSUME NEW f, f = Top, NEW s, s = Rest, NEW g, g = Head(s), NEW h, h = On(f, 1)
                 PROVE  Renews(stack)'
      OBVIOUS
    <3>1. Function
      BY <1>2, <2>4 DEF Next, CallOperation, CallbackReturns
    <3>2. Ages
      BY <3>1, StepsAge
    <3>3. Aging(f, s, g, h)
      BY <2>1, <2>2, <2>4, <3>2 DEF Aging, Runs
    <3> QED BY <2>4, <3>3, ProceedsRenews, SkipsOutputsRenews, TakesRenews, GivesBackRenews, BeginsRenews,
               AcceptsRenews, ClosesRenews, CallsOnRenews, BecomesRenews, ReturnedRenews
  <2> QED BY <2>2, <2>3, <2>4 DEF Kinds, Dies
<1> QED BY <1>1, <1>2

\* In the main loop nobody is left who would renew the status.
LEMMA IdleIsFresh ==
  ASSUME IInv, FInv
  PROVE  FreshWhenIdle
<1> SUFFICES ASSUME Len(stack) = 1 PROVE status # "stale"
  BY DEF FreshWhenIdle, Idle
<1>1. stack # <<>>
  OBVIOUS
<1>2. stack \in Seq(Placed) /\ stack[Len(stack)].op = "user" /\ Renews(stack)
  BY <1>1 DEF IInv, Calls, Shape, FInv
<1>3. ~Covered(stack)
  BY <1>2 DEF Covered, Renewer
<1> QED BY <1>2, <1>3 DEF Renews

\* For any program that calls none of the functions that leave the queue's
\* status as it was, from its main loop and from callbacks of any depth: back
\* in the main loop no status is older than a change the program has made
\* ("update status, because we changed it").
THEOREM StatusIsRenewed == ASSUME Operations \cap LeavesStale = {} PROVE Spec => []FreshWhenIdle
<1>1. Init => FInv
  BY InitRenews
<1>2. IInv /\ FInv /\ [Next]_vars => FInv'
  BY NextRenews
<1>3. IInv /\ FInv => FreshWhenIdle
  BY IdleIsFresh
<1> QED BY <1>1, <1>2, <1>3, Invariant, PTL DEF Spec

-----------------------------------------------------------------------------
(* A program whose callbacks make no calls of their own *)

\* What a function asks for before it uses it: "status" or "stats".
Things == {"status", "stats"}

\* Whether it is there, what fetches it and what reads it.
Has(w)   == IF w = "status" THEN status # "none" ELSE "stats" \in cache
Fetch(w) == IF w = "status" THEN "fetch_status" ELSE "fetch_stats"
Uses(w)  == IF w = "status" THEN UsesStatus ELSE {"stats_value"}

\* Calls that succeed only if it is there.
Asking(w) ==
  IF w = "status" THEN {"need_status", "status_check", "player_get_state", "ask_again"}
  ELSE {"need_stats", "stats_check"}

\* Steps that leave it alone.
Keeping == {"lock", "if_playing", "drop_old_song", "clear_error"} \cup
           IF DbUpdates THEN {} ELSE {"stats_if_stopped"}

\* Behind step i of the body b it is there, and still is at step n.
Shown(b, i, w) ==
  \/ b[i] = "or_fail" /\ i > 1 /\ b[i - 1] \in Asking(w)
  \/ b[i] = "or_fail" /\ i > 2 /\ b[i - 1] = "unlock" /\ b[i - 2] = Fetch(w)
  \/ b[i] \in Uses(w)
There(b, n, w) == \E i \in 1 .. n - 1 : Shown(b, i, w) /\ \A j \in i + 1 .. n - 1 : b[j] \in Keeping

\* From step n on the lock is given back with the error as it is, or without it.
Cleans(b, n) == \E k \in n .. Len(b) : b[k] = "unlock" /\ \A j \in n .. k - 1 : b[j] \in {"forgive", "name_exists"}

\* The functions that succeed only when it is there.
Confirming == {"status_check", "player_get_state"}
Counting   == {"stats_check", "stats_update", "stats_update_real"}

\* What is true of the body b of function op at each of its steps.
Careful(op, b) ==
  \A n \in 1 .. Len(b) :
    /\ b[n] \in (UsesStatus \ {"record"}) \cup {"drop_old_song", "clear_error", "watch"} => There(b, n, "status")
    /\ b[n] = "record" /\ ~DbUpdates => There(b, n, "status")
    /\ b[n] = "stats_value" => There(b, n, "stats")
    /\ op \in Confirming /\ b[n] \in Successes => There(b, n, "status")
    /\ op \in Counting /\ b[n] \in Successes => There(b, n, "stats")
    /\ b[n] \in Exchanges => Cleans(b, n + 1) \/ op \in {"server_get_allowed_commands", "playlist_load"}
    /\ b[n] \in {"fetch_status", "clear_error", "stats_if_stopped", "stats_if_database"} => op = "status_update"
    /\ b[n] = "forget_status" => op = "status_queue_update"
    /\ b[n] = "leave" => op = "connect" /\ n = 1
    /\ b[n] = "obey" => op = "ack_error"
    /\ b[n] = "pause" => op = "player_pause"
    /\ b[n] = "need_stats" => op = "stats_check"
    /\ b[n] = "ask_again" => n > 1 /\ b[n - 1] = "player_get_state"
    /\ b[n] \notin {"connect", "playlist_load", "database_save_playlist", "user"}

\* Careful, one body of the same steps after the other.
LEMMA CarefulBodies ==
  ASSUME NEW op, op \notin Confirming \cup Counting
  PROVE  /\ Careful(op, ServerUpdateOutputs)
         /\ Careful(op, ServerGetOutputDevices)
         /\ Careful(op, PlaylistGetSong)
         /\ Careful(op, PlaylistGetSongFromPos)
         /\ Careful(op, PlaylistGetChanges)
         /\ Careful(op, PlaylistGetChangesPosid)
         /\ Careful(op, DatabaseGetFileinfo)
         /\ Careful(op, ServerSetOutputDevice)
         /\ Careful(op, ServerGetTagTypes)
         /\ Careful(op, ServerGetReplaygainMode)
         /\ Careful(op, DatabaseGetArtists)
         /\ Careful(op, DatabaseGetAlbums)
         /\ Careful(op, DatabaseGetComplete)
         /\ Careful(op, DatabaseFind)
         /\ Careful(op, DatabaseGetDirectory)
         /\ Careful(op, DatabaseGetDirectoryRecursive)
         /\ Careful(op, DatabaseDeletePlaylist)
         /\ Careful(op, DatabasePlaylistMove)
         /\ Careful(op, DatabasePlaylistList)
         /\ Careful(op, ServerSetReplaygainMode)
         /\ Careful(op, StatusSetVolume)
         /\ Careful(op, StatusSetCrossfade)
         /\ Careful(op, PlayerSetSingle)
         /\ Careful(op, PlayerSetConsume)
         /\ Careful(op, PlayerSetRepeat)
         /\ Careful(op, PlayerSetRandom)
         /\ Careful(op, PlayerGetNextSongId)
         /\ Careful(op, PlayerGetNextSongPos)
         /\ Careful(op, PlayerGetCurrentSongId)
         /\ Careful(op, PlayerGetCurrentSongPos)
         /\ Careful(op, PlayerPlayId)
         /\ Careful(op, PlayerStop)
         /\ Careful(op, PlayerNext)
         /\ Careful(op, PlayerPrev)
         /\ Careful(op, PlaylistGetCurrentSong)
         /\ Careful(op, PlaylistClear)
         /\ Careful(op, PlaylistQueueCommit)
         /\ Careful(op, DatabaseUpdateDir)
         /\ Careful(op, PlaylistShuffle)
         /\ Careful(op, PlaylistMoveId)
         /\ Careful(op, PlaylistMovePos)
         /\ Careful(op, PlaylistAddGetId)
         /\ Careful(op, PlaylistSetPriority)
         /\ Careful(op, DatabaseGetPlaylistContent)
         /\ Careful(op, StickerSongGet)
         /\ Careful(op, StickerSongSet)
         /\ Careful(op, DatabaseSavePlaylist)
         /\ Careful(op, PlayerSeek)
<1>1. Careful(op, <<"connected", "lock", "outputs", "unlock", "return_result">>)
  BY DEF Careful, There, Shown, Cleans, Asking, Uses, Fetch, UsesStatus, Keeping, Confirming, Counting, Successes, Exchanges, ListSteps
<1>2. Careful(op, <<"connected", "lock", "exec", "unlock", "or_fail", "return">>)
  BY DEF Careful, There, Shown, Cleans, Asking, Uses, Fetch, UsesStatus, Keeping, Confirming, Counting, Successes, Exchanges, ListSteps
<1>3. Careful(op, <<"connected", "lock", "exec", "unlock", "status_queue_update", "return">>)
  BY DEF Careful, There, Shown, Cleans, Asking, Uses, Fetch, UsesStatus, Keeping, Confirming, Counting, Successes, Exchanges, ListSteps
<1>4. Careful(op, <<"connected", "lock", "exec", "unlock", "return">>)
  BY DEF Careful, There, Shown, Cleans, Asking, Uses, Fetch, UsesStatus, Keeping, Confirming, Counting, Successes, Exchanges, ListSteps
<1>5. Careful(op, <<"connected", "lock", "exec", "unlock", "return_result">>)
  BY DEF Careful, There, Shown, Cleans, Asking, Uses, Fetch, UsesStatus, Keeping, Confirming, Counting, Successes, Exchanges, ListSteps
<1>6. Careful(op, <<"connected", "lock", "set", "unlock", "status_queue_update", "status_get_volume", "return_result">>)
  BY DEF Careful, There, Shown, Cleans, Asking, Uses, Fetch, UsesStatus, Keeping, Confirming, Counting, Successes, Exchanges, ListSteps
<1>7. Careful(op, <<"connected", "lock", "set", "unlock", "status_queue_update", "return">>)
  BY DEF Careful, There, Shown, Cleans, Asking, Uses, Fetch, UsesStatus, Keeping, Confirming, Counting, Successes, Exchanges, ListSteps
<1>8. Careful(op, <<"connected", "status_check", "or_fail", "player_get_state", "ask_again", "or_fail", "if_playing", "status_value", "return">>)
  BY DEF Careful, There, Shown, Cleans, Asking, Uses, Fetch, UsesStatus, Keeping, Confirming, Counting, Successes, Exchanges, ListSteps
<1>9. Careful(op, <<"connected", "lock", "set", "unlock", "status_update", "or_fail", "return">>)
  BY DEF Careful, There, Shown, Cleans, Asking, Uses, Fetch, UsesStatus, Keeping, Confirming, Counting, Successes, Exchanges, ListSteps
<1>10. Careful(op, <<"connected", "status_check", "or_fail", "drop_old_song", "if_no_song", "player_get_state", "ask_again", "if_not_stopped", "player_get_current_song_id", "or_fail", "playlist_get_song", "or_fail", "keep_song", "return">>)
  BY DEF Careful, There, Shown, Cleans, Asking, Uses, Fetch, UsesStatus, Keeping, Confirming, Counting, Successes, Exchanges, ListSteps
<1>11. Careful(op, <<"connected", "lock", "set", "unlock", "status_update", "return">>)
  BY DEF Careful, There, Shown, Cleans, Asking, Uses, Fetch, UsesStatus, Keeping, Confirming, Counting, Successes, Exchanges, ListSteps
<1>12. Careful(op, <<"connected", "lock", "set", "unlock", "return">>)
  BY DEF Careful, There, Shown, Cleans, Asking, Uses, Fetch, UsesStatus, Keeping, Confirming, Counting, Successes, Exchanges, ListSteps
<1>13. Careful(op, <<"connected", "command_allowed", "connected", "lock", "set", "unlock", "return">>)
  BY DEF Careful, There, Shown, Cleans, Asking, Uses, Fetch, UsesStatus, Keeping, Confirming, Counting, Successes, Exchanges, ListSteps
<1>14. Careful(op, <<"connected", "version", "command_allowed", "connected", "lock", "exec", "forgive", "unlock", "return">>)
  BY DEF Careful, There, Shown, Cleans, Asking, Uses, Fetch, UsesStatus, Keeping, Confirming, Counting, Successes, Exchanges, ListSteps
<1>15. Careful(op, <<"connected", "command_allowed", "connected", "lock", "exec", "forgive", "unlock", "or_fail", "return">>)
  BY DEF Careful, There, Shown, Cleans, Asking, Uses, Fetch, UsesStatus, Keeping, Confirming, Counting, Successes, Exchanges, ListSteps
<1>16. Careful(op, <<"connected", "command_allowed", "connected", "lock", "exec", "unlock", "or_fail", "return">>)
  BY DEF Careful, There, Shown, Cleans, Asking, Uses, Fetch, UsesStatus, Keeping, Confirming, Counting, Successes, Exchanges, ListSteps
<1>17. Careful(op, <<"connected", "lock", "exec", "name_exists", "unlock", "return">>)
  BY DEF Careful, There, Shown, Cleans, Asking, Uses, Fetch, UsesStatus, Keeping, Confirming, Counting, Successes, Exchanges, ListSteps
<1>18. Careful(op, <<"player_get_current_song_pos", "or_fail", "connected", "lock", "set", "unlock", "status_update", "or_fail", "return">>)
  BY DEF Careful, There, Shown, Cleans, Asking, Uses, Fetch, UsesStatus, Keeping, Confirming, Counting, Successes, Exchanges, ListSteps
<1> QED BY Unfolded, <1>1, <1>2, <1>3, <1>4, <1>5, <1>6, <1>7, <1>8, <1>9, <1>10, <1>11, <1>12, <1>13, <1>14, <1>15, <1>16, <1>17, <1>18

LEMMA CarefulNamed ==
  /\ Careful("player_pause", PlayerPause) /\ Careful("playlist_load", PlaylistLoad)
  /\ \A op \in {"stats_update", "stats_update_real"} : Careful(op, StatsUpdate) /\ Careful(op, StatsUpdateReal)
<1>1. Careful("player_pause", <<"connected", "lock", "player_get_state", "pause", "unlock", "status_update", "or_fail", "return">>)
  BY DEF Careful, There, Shown, Cleans, Asking, Uses, Fetch, UsesStatus, Keeping, Confirming, Counting, Successes, Exchanges, ListSteps
<1>2. Careful("playlist_load", <<"connected", "lock", "set", "load_failed", "unlock", "or_fail", "return">>)
  BY DEF Careful, There, Shown, Cleans, Asking, Uses, Fetch, UsesStatus, Keeping, Confirming, Counting, Successes, Exchanges, ListSteps
<1>3. \A op \in {"stats_update", "stats_update_real"} : Careful(op, <<"connected", "lock", "fetch_stats", "unlock", "or_fail", "return">>)
  BY DEF Careful, There, Shown, Cleans, Asking, Uses, Fetch, UsesStatus, Keeping, Confirming, Counting, Successes, Exchanges, ListSteps
<1> QED BY <1>1, <1>2, <1>3, Unfolded

LEMMA CarefulLiterals ==
  /\ Careful("check_error", CheckError)
  /\ Careful("ack_error", AckError)
  /\ Careful("fatal_error", FatalError)
  /\ Careful("disconnect", Disconnect)
  /\ Careful("connect", Connect)
  /\ Careful("send_password", SendPassword)
  /\ Careful("set_connection_timeout", SetConnectionTimeout)
  /\ Careful("server_get_allowed_commands", ServerGetAllowedCommands)
  /\ Careful("server_get_url_handlers", ServerGetUrlHandlers)
  /\ Careful("server_get_database_update_time", ServerGetDatabaseUpdateTime)
  /\ Careful("status_queue_update", StatusQueueUpdate)
  /\ Careful("status_update", StatusUpdate)
  /\ Careful("status_check", StatusCheck)
  /\ Careful("status_getter", StatusGetter)
  /\ Careful("current_getter", CurrentGetter)
  /\ Careful("status_get_volume", StatusGetVolume)
  /\ Careful("stats_check", StatsCheck)
  /\ Careful("stats_getter", StatsGetter)
  /\ Careful("player_get_state", PlayerGetState)
  /\ Careful("playlist_get_song_from_pos_range", PlaylistGetSongFromPosRange)
  /\ Careful("ends_as_failed", EndsAsFailed)
  /\ Careful("database_playlist_clear", DatabasePlaylistClear)
  /\ Careful("database_playlist_list_delete", DatabasePlaylistListDelete)
  /\ Careful("database_playlist_list_add", DatabasePlaylistListAdd)
  /\ Careful("database_playlist_rename", DatabasePlaylistRename)
<1>1. Careful("check_error", CheckError)
  BY DEF Careful, There, Shown, Cleans, Asking, Uses, Fetch, UsesStatus, Keeping, Confirming, Counting, Successes, Exchanges, ListSteps, CheckError
<1>2. Careful("ack_error", AckError)
  BY DEF Careful, There, Shown, Cleans, Asking, Uses, Fetch, UsesStatus, Keeping, Confirming, Counting, Successes, Exchanges, ListSteps, AckError
<1>3. Careful("fatal_error", FatalError)
  BY DEF Careful, There, Shown, Cleans, Asking, Uses, Fetch, UsesStatus, Keeping, Confirming, Counting, Successes, Exchanges, ListSteps, FatalError
<1>4. Careful("disconnect", Disconnect)
  BY DEF Careful, There, Shown, Cleans, Asking, Uses, Fetch, UsesStatus, Keeping, Confirming, Counting, Successes, Exchanges, ListSteps, Disconnect
<1>5. Careful("connect", Connect)
  <2>1. CASE HasPassword
    BY <2>1 DEF Careful, There, Shown, Cleans, Asking, Uses, Fetch, UsesStatus, Keeping, Confirming, Counting, Successes, Exchanges, ListSteps, OK, Connect
  <2>2. CASE ~HasPassword
    BY <2>2 DEF Careful, There, Shown, Cleans, Asking, Uses, Fetch, UsesStatus, Keeping, Confirming, Counting, Successes, Exchanges, ListSteps, OK, Connect
  <2> QED BY <2>1, <2>2
<1>6. Careful("send_password", SendPassword)
  <2>1. CASE HasPassword
    BY <2>1 DEF Careful, There, Shown, Cleans, Asking, Uses, Fetch, UsesStatus, Keeping, Confirming, Counting, Successes, Exchanges, ListSteps, OK, SendPassword
  <2>2. CASE ~HasPassword
    BY <2>2 DEF Careful, There, Shown, Cleans, Asking, Uses, Fetch, UsesStatus, Keeping, Confirming, Counting, Successes, Exchanges, ListSteps, OK, SendPassword
  <2> QED BY <2>1, <2>2
<1>7. Careful("set_connection_timeout", SetConnectionTimeout)
  BY DEF Careful, There, Shown, Cleans, Asking, Uses, Fetch, UsesStatus, Keeping, Confirming, Counting, Successes, Exchanges, ListSteps, SetConnectionTimeout
<1>8. Careful("server_get_allowed_commands", ServerGetAllowedCommands)
  BY DEF Careful, There, Shown, Cleans, Asking, Uses, Fetch, UsesStatus, Keeping, Confirming, Counting, Successes, Exchanges, ListSteps, ServerGetAllowedCommands
<1>9. Careful("server_get_url_handlers", ServerGetUrlHandlers)
  BY DEF Careful, There, Shown, Cleans, Asking, Uses, Fetch, UsesStatus, Keeping, Confirming, Counting, Successes, Exchanges, ListSteps, ServerGetUrlHandlers
<1>10. Careful("server_get_database_update_time", ServerGetDatabaseUpdateTime)
  BY DEF Careful, There, Shown, Cleans, Asking, Uses, Fetch, UsesStatus, Keeping, Confirming, Counting, Successes, Exchanges, ListSteps, ServerGetDatabaseUpdateTime
<1>11. Careful("status_queue_update", StatusQueueUpdate)
  BY DEF Careful, There, Shown, Cleans, Asking, Uses, Fetch, UsesStatus, Keeping, Confirming, Counting, Successes, Exchanges, ListSteps, StatusQueueUpdate
<1>12. Careful("status_update", StatusUpdate)
  BY DEF Careful, There, Shown, Cleans, Asking, Uses, Fetch, UsesStatus, Keeping, Confirming, Counting, Successes, Exchanges, ListSteps, StatusUpdate
<1>13. Careful("status_check", StatusCheck)
  BY DEF Careful, There, Shown, Cleans, Asking, Uses, Fetch, UsesStatus, Keeping, Confirming, Counting, Successes, Exchanges, ListSteps, StatusCheck
<1>14. Careful("status_getter", StatusGetter)
  BY DEF Careful, There, Shown, Cleans, Asking, Uses, Fetch, UsesStatus, Keeping, Confirming, Counting, Successes, Exchanges, ListSteps, StatusGetter
<1>15. Careful("current_getter", CurrentGetter)
  BY DEF Careful, There, Shown, Cleans, Asking, Uses, Fetch, UsesStatus, Keeping, Confirming, Counting, Successes, Exchanges, ListSteps, CurrentGetter
<1>16. Careful("status_get_volume", StatusGetVolume)
  BY DEF Careful, There, Shown, Cleans, Asking, Uses, Fetch, UsesStatus, Keeping, Confirming, Counting, Successes, Exchanges, ListSteps, StatusGetVolume
<1>17. Careful("stats_check", StatsCheck)
  BY DEF Careful, There, Shown, Cleans, Asking, Uses, Fetch, UsesStatus, Keeping, Confirming, Counting, Successes, Exchanges, ListSteps, StatsCheck
<1>18. Careful("stats_getter", StatsGetter)
  BY DEF Careful, There, Shown, Cleans, Asking, Uses, Fetch, UsesStatus, Keeping, Confirming, Counting, Successes, Exchanges, ListSteps, StatsGetter
<1>19. Careful("player_get_state", PlayerGetState)
  BY DEF Careful, There, Shown, Cleans, Asking, Uses, Fetch, UsesStatus, Keeping, Confirming, Counting, Successes, Exchanges, ListSteps, PlayerGetState
<1>20. Careful("playlist_get_song_from_pos_range", PlaylistGetSongFromPosRange)
  BY DEF Careful, There, Shown, Cleans, Asking, Uses, Fetch, UsesStatus, Keeping, Confirming, Counting, Successes, Exchanges, ListSteps, PlaylistGetSongFromPosRange
<1>21. Careful("ends_as_failed", EndsAsFailed)
  BY DEF Careful, There, Shown, Cleans, Asking, Uses, Fetch, UsesStatus, Keeping, Confirming, Counting, Successes, Exchanges, ListSteps, EndsAsFailed
<1>22. Careful("database_playlist_clear", DatabasePlaylistClear)
  BY DEF Careful, There, Shown, Cleans, Asking, Uses, Fetch, UsesStatus, Keeping, Confirming, Counting, Successes, Exchanges, ListSteps, DatabasePlaylistClear, StoredPlaylistEdit
<1>23. Careful("database_playlist_list_delete", DatabasePlaylistListDelete)
  BY DEF Careful, There, Shown, Cleans, Asking, Uses, Fetch, UsesStatus, Keeping, Confirming, Counting, Successes, Exchanges, ListSteps, DatabasePlaylistListDelete, StoredPlaylistEdit
<1>24. Careful("database_playlist_list_add", DatabasePlaylistListAdd)
  BY DEF Careful, There, Shown, Cleans, Asking, Uses, Fetch, UsesStatus, Keeping, Confirming, Counting, Successes, Exchanges, ListSteps, DatabasePlaylistListAdd, StoredPlaylistEdit
<1>25. Careful("database_playlist_rename", DatabasePlaylistRename)
  BY DEF Careful, There, Shown, Cleans, Asking, Uses, Fetch, UsesStatus, Keeping, Confirming, Counting, Successes, Exchanges, ListSteps, DatabasePlaylistRename, StoredPlaylistEdit
<1> QED BY <1>1, <1>2, <1>3, <1>4, <1>5, <1>6, <1>7, <1>8, <1>9, <1>10, <1>11, <1>12, <1>13, <1>14, <1>15, <1>16, <1>17, <1>18, <1>19, <1>20, <1>21, <1>22, <1>23, <1>24, <1>25

LEMMA EveryCareful == \A op \in DOMAIN Code : Careful(op, Code[op])
<1>1. \A op \in {"server_update_outputs", "server_get_output_devices", "playlist_get_song",
                "playlist_get_song_from_pos", "playlist_get_changes", "playlist_get_changes_posid",
                "database_get_fileinfo", "server_set_output_device", "server_get_tag_types",
                "server_get_replaygain_mode", "database_get_artists", "database_get_albums",
                "database_get_complete", "database_find", "database_get_directory",
                "database_get_directory_recursive"} :
       Careful(op, Code[op])
  BY CarefulBodies DEF Code, Confirming, Counting
<1>2. \A op \in {"database_delete_playlist", "database_playlist_move", "database_playlist_list",
                "server_set_replaygain_mode", "status_set_volume", "status_set_crossfade",
                "player_set_single", "player_set_consume", "player_set_repeat", "player_set_random",
                "database_save_playlist", "player_seek", "player_get_next_song_id",
                "player_get_next_song_pos", "player_get_current_song_id",
                "player_get_current_song_pos"} :
       Careful(op, Code[op])
  BY CarefulBodies DEF Code, Confirming, Counting
<1>3. \A op \in {"player_play_id", "player_stop", "player_next", "player_prev",
                "playlist_get_current_song", "playlist_clear", "playlist_queue_commit",
                "database_update_dir", "playlist_shuffle", "playlist_move_id", "playlist_move_pos",
                "playlist_add_get_id", "playlist_set_priority", "database_get_playlist_content",
                "sticker_song_get", "sticker_song_set"} :
       Careful(op, Code[op])
  BY CarefulBodies DEF Code, Confirming, Counting
<1>4. \A op \in {"playlist_load", "player_pause", "stats_update", "stats_update_real"} : Careful(op, Code[op])
  BY CarefulNamed DEF Code
<1>5. \A op \in {"check_error", "ack_error", "fatal_error", "disconnect", "connect", "send_password",
                "set_connection_timeout", "server_get_allowed_commands", "server_get_url_handlers",
                "server_get_database_update_time", "status_queue_update", "status_update",
                "status_check", "status_getter", "current_getter", "status_get_volume",
                "stats_check", "stats_getter", "player_get_state",
                "playlist_get_song_from_pos_range", "ends_as_failed", "database_playlist_clear",
                "database_playlist_list_delete", "database_playlist_list_add",
                "database_playlist_rename"} :
       Careful(op, Code[op])
  BY CarefulLiterals DEF Code
<1> QED BY <1>1, <1>2, <1>3, <1>4, <1>5 DEF Code

\* Step `step' of a function may call function op.
MayCall(step, op) ==
  \/ op = step
  \/ op = "check_error" /\ step = "unlock"
  \/ op = "disconnect" /\ step \in {"obey", "leave"}
  \/ op = "status_update" /\ step = "need_status"
  \/ op = "stats_update" /\ step = "need_stats"
  \/ op = "stats_update_real" /\ (step = "stats_if_database" \/ (DbUpdates /\ step = "stats_if_stopped"))
  \/ op = "server_update_outputs" /\ step = "stats_if_database"
  \/ op = "player_get_state" /\ step = "ask_again"

\* Function op may run for it: what is called, or what mpd_check_error goes on as.
MayServe(step, op) ==
  \/ MayCall(step, op)
  \/ MayCall(step, "check_error") /\ op \in {"ack_error", "fatal_error"}

\* f was called by g.
Follows(f, g) == g.op # "user" => g.at > 1 /\ MayServe(Before(g), f.op)

\* mpd_status_update at work on the changes, and what may run meanwhile:
\* nothing that could drop the status of the session.
Watches(f)  == f.op = "status_update" /\ f.at > 10
Quiet       == {"stats_update_real", "server_update_outputs", "check_error", "ack_error", "fatal_error", "disconnect"}
Watching(s) == \E i \in 1 .. Len(s) : Watches(s[i])

\* The program is at the bottom of the stack and nowhere else, and every
\* function runs for the step its caller is at.
Orderly(s) ==
  /\ \A i \in 1 .. Len(s) - 1 : s[i].op # "user" /\ Follows(s[i], s[i + 1])
  /\ \A i \in 1 .. Len(s) : Watches(s[i]) => \A j \in 1 .. i - 1 : s[j].op \in Quiet

\* What the program called, and what helps a function that sends one command.
Caller(s) == s[Len(s) - 1].op
Helpers   == {"status_queue_update", "stats_update", "stats_check", "check_error", "ack_error", "fatal_error", "disconnect"}
Aided(s)  == Len(s) > 1 /\ Caller(s) \in SendOne => \A j \in 1 .. Len(s) - 2 : s[j].op \in Helpers

\* What one more frame makes of the stack.
LEMMA MoreFacts ==
  ASSUME NEW s \in Seq(Placed), NEW f \in Placed, s # <<>>
  PROVE  /\ Watching(Cons(f, s)) <=> Watches(f) \/ Watching(s)
         /\ Orderly(Cons(f, s)) <=> /\ Orderly(s) /\ f.op # "user" /\ Follows(f, Head(s))
                                    /\ Watching(s) => f.op \in Quiet
         /\ Len(s) = 1 => Caller(Cons(f, s)) = f.op /\ Aided(Cons(f, s))
         /\ Len(s) > 1 => /\ Caller(Cons(f, s)) = Caller(s)
                          /\ Aided(Cons(f, s)) <=> Aided(s) /\ (Caller(s) \in SendOne => f.op \in Helpers)
<1> DEFINE t == Cons(f, s)
<1>1. /\ t \in Seq(Placed) /\ Len(t) = Len(s) + 1 /\ t[1] = f
      /\ \A i \in 1 .. Len(s) : t[i + 1] = s[i]
      /\ \A i \in 2 .. Len(s) + 1 : t[i] = s[i - 1]
  BY ConsProperties
<1>2. Len(s) \in Nat /\ Len(s) > 0 /\ Head(s) = s[1]
  OBVIOUS
<1> HIDE DEF t
<1>3. /\ 1 \in 1 .. Len(t) /\ 1 \in 1 .. Len(t) - 1
      /\ \A i \in 1 .. Len(s) : i + 1 \in 1 .. Len(t)
      /\ \A i \in 1 .. Len(t) : i = 1 \/ (i - 1 \in 1 .. Len(s) /\ t[i] = s[i - 1])
      /\ t[1 + 1] = s[1]
  BY <1>1, <1>2
<1>4. Watching(t) <=> Watches(f) \/ Watching(s)
  BY <1>1, <1>3 DEF Watching
<1>5. (\A i \in 1 .. Len(t) : Watches(t[i]) => \A j \in 1 .. i - 1 : t[j].op \in Quiet)
        <=> /\ \A i \in 1 .. Len(s) : Watches(s[i]) => \A j \in 1 .. i - 1 : s[j].op \in Quiet
            /\ Watching(s) => f.op \in Quiet
  <2>1. ASSUME \A i \in 1 .. Len(t) : Watches(t[i]) => \A j \in 1 .. i - 1 : t[j].op \in Quiet,
               NEW i \in 1 .. Len(s), Watches(s[i])
        PROVE  f.op \in Quiet /\ \A j \in 1 .. i - 1 : s[j].op \in Quiet
    <3>1. i + 1 \in 1 .. Len(t) /\ t[i + 1] = s[i] /\ 1 \in 1 .. (i + 1) - 1
      BY <1>1, <1>2
    <3>2. \A j \in 1 .. (i + 1) - 1 : t[j].op \in Quiet
      BY <2>1, <3>1
    <3>3. ASSUME NEW j \in 1 .. i - 1 PROVE s[j].op \in Quiet
      <4>1. j + 1 \in 1 .. (i + 1) - 1 /\ t[j + 1] = s[j]
        BY <1>1, <1>2
      <4> QED BY <3>2, <4>1
    <3> QED BY <1>1, <3>1, <3>2, <3>3
  <2>2. ASSUME \A i \in 1 .. Len(s) : Watches(s[i]) => \A j \in 1 .. i - 1 : s[j].op \in Quiet,
               Watching(s) => f.op \in Quiet,
               NEW i \in 1 .. Len(t), Watches(t[i]), NEW j \in 1 .. i - 1
        PROVE  t[j].op \in Quiet
    <3>1. i # 1 /\ i - 1 \in 1 .. Len(s) /\ t[i] = s[i - 1]
      BY <1>1, <1>2, <2>2
    <3>2. CASE j = 1
      BY <1>1, <2>2, <3>1, <3>2 DEF Watching
    <3>3. CASE j # 1
      <4>1. j - 1 \in 1 .. (i - 1) - 1 /\ t[j] = s[j - 1]
        BY <1>1, <1>2, <3>1, <3>3
      <4> QED BY <2>2, <3>1, <4>1
    <3> QED BY <3>2, <3>3
  <2> QED BY <2>1, <2>2 DEF Watching
<1>6. (\A i \in 1 .. Len(t) - 1 : t[i].op # "user" /\ Follows(t[i], t[i + 1]))
        <=> /\ f.op # "user" /\ Follows(f, Head(s))
            /\ \A i \in 1 .. Len(s) - 1 : s[i].op # "user" /\ Follows(s[i], s[i + 1])
  <2>1. ASSUME \A i \in 1 .. Len(t) - 1 : t[i].op # "user" /\ Follows(t[i], t[i + 1])
        PROVE  /\ f.op # "user" /\ Follows(f, Head(s))
               /\ \A i \in 1 .. Len(s) - 1 : s[i].op # "user" /\ Follows(s[i], s[i + 1])
    <3>1. ASSUME NEW i \in 1 .. Len(s) - 1 PROVE s[i].op # "user" /\ Follows(s[i], s[i + 1])
      <4>1. i + 1 \in 1 .. Len(t) - 1 /\ t[i + 1] = s[i] /\ t[(i + 1) + 1] = s[i + 1]
        BY <1>1, <1>2
      <4> QED BY <2>1, <4>1
    <3>2. t[1].op # "user" /\ Follows(t[1], t[1 + 1])
      BY <1>3, <2>1
    <3> QED BY <1>1, <1>2, <1>3, <3>1, <3>2
  <2>2. ASSUME f.op # "user", Follows(f, Head(s)),
               \A i \in 1 .. Len(s) - 1 : s[i].op # "user" /\ Follows(s[i], s[i + 1]),
               NEW i \in 1 .. Len(t) - 1
        PROVE  t[i].op # "user" /\ Follows(t[i], t[i + 1])
    <3>1. CASE i = 1
      BY <1>1, <1>2, <1>3, <2>2, <3>1
    <3>2. CASE i # 1
      <4>1. i - 1 \in 1 .. Len(s) - 1 /\ t[i] = s[i - 1] /\ t[i + 1] = s[(i - 1) + 1]
        BY <1>1, <1>2, <3>2
      <4> QED BY <2>2, <4>1
    <3> QED BY <3>1, <3>2
  <2> QED BY <2>1, <2>2
<1>7. Orderly(t) <=> /\ Orderly(s) /\ f.op # "user" /\ Follows(f, Head(s))
                     /\ Watching(s) => f.op \in Quiet
  BY <1>5, <1>6 DEF Orderly
<1>8. ASSUME Len(s) = 1 PROVE Caller(t) = f.op /\ Aided(t)
  <2>1. Len(t) = 2 /\ Len(t) - 1 = 1
    BY <1>1, <1>8
  <2>2. Caller(t) = f.op
    BY <1>1, <2>1 DEF Caller
  <2>3. \A j \in 1 .. Len(t) - 2 : FALSE
    BY <2>1
  <2> QED BY <2>2, <2>3 DEF Aided
<1>9. ASSUME Len(s) > 1
      PROVE  /\ Caller(t) = Caller(s)
             /\ Aided(t) <=> Aided(s) /\ (Caller(s) \in SendOne => f.op \in Helpers)
  <2>1. Len(t) - 1 = Len(s) /\ Len(s) \in 2 .. Len(s) + 1 /\ Len(t) > 1
    BY <1>1, <1>2, <1>9
  <2>2. Caller(t) = Caller(s)
    BY <1>1, <2>1 DEF Caller
  <2>3. (\A j \in 1 .. Len(t) - 2 : t[j].op \in Helpers)
          <=> f.op \in Helpers /\ \A j \in 1 .. Len(s) - 2 : s[j].op \in Helpers
    <3>1. ASSUME \A j \in 1 .. Len(t) - 2 : t[j].op \in Helpers
          PROVE  f.op \in Helpers /\ \A j \in 1 .. Len(s) - 2 : s[j].op \in Helpers
      <4>1. 1 \in 1 .. Len(t) - 2
        BY <1>1, <1>2, <1>9
      <4>2. ASSUME NEW j \in 1 .. Len(s) - 2 PROVE s[j].op \in Helpers
        <5>1. j + 1 \in 1 .. Len(t) - 2 /\ t[j + 1] = s[j]
          BY <1>1, <1>2
        <5> QED BY <3>1, <5>1
      <4> QED BY <1>1, <3>1, <4>1, <4>2
    <3>2. ASSUME f.op \in Helpers, \A j \in 1 .. Len(s) - 2 : s[j].op \in Helpers, NEW j \in 1 .. Len(t) - 2
          PROVE  t[j].op \in Helpers
      <4>1. CASE j = 1
        BY <1>1, <3>2, <4>1
      <4>2. CASE j # 1
        <5>1. j - 1 \in 1 .. Len(s) - 2 /\ t[j] = s[j - 1]
          BY <1>1, <1>2, <4>2
        <5> QED BY <3>2, <5>1
      <4> QED BY <4>1, <4>2
    <3> QED BY <3>1, <3>2
  <2> QED BY <1>9, <2>1, <2>2, <2>3 DEF Aided
<1> QED BY <1>4, <1>7, <1>8, <1>9 DEF t

\* Careful, at the step a frame is at.
AtHand(f, w) == f.op # "user" /\ There(Body(f), f.at, w)

\* What a quiet function, or a helper, calls is one.
LEMMA HelpersCall ==
  ASSUME NEW f \in Placed, f.op # "user", NEW op \in DOMAIN Code, MayCall(Step(f), op)
  PROVE  /\ f.op \in Quiet => op \in Quiet
         /\ f.op \in Helpers => op \in Helpers
<1>1. f.op \in DOMAIN Code /\ f.at \in 1 .. Len(Body(f)) /\ Body(f) = Code[f.op]
  BY OnFacts DEF Body
<1>2. op \notin Steps
  BY StepNames
<1>3. /\ Code["check_error"] = <<"look", "return">>
      /\ Code["ack_error"] = <<"error_callback", "obey", "return_failed">>
      /\ Code["fatal_error"] = <<"error_callback", "disconnect", "return_failed">>
      /\ Code["disconnect"] = <<"close", "return">>
  BY Bodies
<1>4. /\ Code["stats_update_real"] = <<"connected", "lock", "fetch_stats", "unlock", "or_fail", "return">>
      /\ Code["stats_update"] = <<"connected", "lock", "fetch_stats", "unlock", "or_fail", "return">>
      /\ Code["server_update_outputs"] = <<"connected", "lock", "outputs", "unlock", "return_result">>
  BY Unfolded DEF Code
<1>5. /\ Code["status_queue_update"] = <<"connected", "forget_status", "return">>
      /\ Code["stats_check"] = <<"connected", "need_stats", "or_fail", "return">>
  BY DEF Code, StatusQueueUpdate, StatsCheck
<1>6. /\ f.op = "check_error" => Step(f) \in {"look", "return"}
      /\ f.op = "ack_error" => Step(f) \in {"error_callback", "obey", "return_failed"}
      /\ f.op = "fatal_error" => Step(f) \in {"error_callback", "disconnect", "return_failed"}
      /\ f.op = "disconnect" => Step(f) \in {"close", "return"}
  BY <1>1, <1>3 DEF Step
<1>7. f.op \in {"stats_update_real", "stats_update", "server_update_outputs"} =>
        Step(f) \in {"connected", "lock", "fetch_stats", "outputs", "unlock", "or_fail", "return", "return_result"}
  BY <1>1, <1>4 DEF Step
<1>8. /\ f.op = "status_queue_update" => Step(f) \in {"connected", "forget_status", "return"}
      /\ f.op = "stats_check" => Step(f) \in {"connected", "need_stats", "or_fail", "return"}
  BY <1>1, <1>5 DEF Step
<1>9. {"look", "return", "error_callback", "obey", "return_failed", "close", "connected", "lock", "fetch_stats",
       "outputs", "unlock", "or_fail", "return_result", "forget_status", "need_stats"} \subseteq Steps
  BY DEF Steps, Steady, HeldSteps, Exchanges, ListSteps, Ends, Tests, Special
<1>10. f.op \in {"check_error", "ack_error", "fatal_error", "disconnect"} => op = "disconnect"
  BY <1>2, <1>6, <1>9 DEF MayCall
<1>11. f.op \in {"stats_update_real", "stats_update", "server_update_outputs"} => op = "check_error"
  BY <1>2, <1>7, <1>9 DEF MayCall
<1>12. f.op \in {"status_queue_update", "stats_check"} => op = "stats_update"
  BY <1>2, <1>8, <1>9 DEF MayCall
<1> QED BY <1>10, <1>11, <1>12 DEF Quiet, Helpers

\* Careful, at the step a frame is at.
LEMMA CarefulFacts ==
  ASSUME NEW f \in Placed, f.op # "user"
  PROVE  /\ Step(f) \in (UsesStatus \ {"record"}) \cup {"drop_old_song", "clear_error", "watch"} => AtHand(f, "status")
         /\ Step(f) = "record" /\ ~DbUpdates => AtHand(f, "status")
         /\ Step(f) = "stats_value" => AtHand(f, "stats")
         /\ f.op \in Confirming /\ Step(f) \in Successes => AtHand(f, "status")
         /\ f.op \in Counting /\ Step(f) \in Successes => AtHand(f, "stats")
         /\ Step(f) \in Exchanges => Cleans(Body(f), f.at + 1) \/ f.op \in {"server_get_allowed_commands", "playlist_load"}
         /\ Step(f) \in {"fetch_status", "clear_error", "stats_if_stopped", "stats_if_database"} => f.op = "status_update"
         /\ Step(f) = "forget_status" => f.op = "status_queue_update"
         /\ Step(f) = "leave" => f.op = "connect" /\ f.at = 1
         /\ Step(f) = "obey" => f.op = "ack_error"
         /\ Step(f) = "pause" => f.op = "player_pause"
         /\ Step(f) = "need_stats" => f.op = "stats_check"
         /\ Step(f) = "ask_again" => f.at > 1 /\ Before(f) = "player_get_state"
         /\ Step(f) \notin {"connect", "playlist_load", "database_save_playlist", "user"}
<1> SUFFICES ASSUME NEW b, b = Body(f), NEW n, n = f.at
             PROVE  /\ b[n] \in (UsesStatus \ {"record"}) \cup {"drop_old_song", "clear_error", "watch"} => There(b, n, "status")
                    /\ b[n] = "record" /\ ~DbUpdates => There(b, n, "status")
                    /\ b[n] = "stats_value" => There(b, n, "stats")
                    /\ f.op \in Confirming /\ b[n] \in Successes => There(b, n, "status")
                    /\ f.op \in Counting /\ b[n] \in Successes => There(b, n, "stats")
                    /\ b[n] \in Exchanges => Cleans(b, n + 1) \/ f.op \in {"server_get_allowed_commands", "playlist_load"}
                    /\ b[n] \in {"fetch_status", "clear_error", "stats_if_stopped", "stats_if_database"} => f.op = "status_update"
                    /\ b[n] = "forget_status" => f.op = "status_queue_update"
                    /\ b[n] = "leave" => f.op = "connect" /\ n = 1
                    /\ b[n] = "obey" => f.op = "ack_error"
                    /\ b[n] = "pause" => f.op = "player_pause"
                    /\ b[n] = "need_stats" => f.op = "stats_check"
                    /\ b[n] = "ask_again" => n > 1 /\ b[n - 1] = "player_get_state"
                    /\ b[n] \notin {"connect", "playlist_load", "database_save_playlist", "user"}
  BY DEF AtHand, Step, Before
<1>1. n \in 1 .. Len(b) /\ Careful(f.op, b)
  BY OnFacts, EveryCareful DEF Body
<1> QED BY <1>1 DEF Careful

\* A function that sends one command calls nothing that sends a lasting one.
LEMMA SendOneFacts ==
  ASSUME NEW f \in Placed, f.op \in SendOne
  PROVE  /\ f.op \in DOMAIN Code
         /\ f.op \notin {"status_update", "playlist_load", "server_get_allowed_commands", "player_pause"}
         /\ \A op \in DOMAIN Code : MayCall(Step(f), op) => op \in Helpers
<1> DEFINE Alone(op) ==
       /\ \A i \in DOMAIN Code[op] : Code[op][i] \notin (DOMAIN Code \ {"status_queue_update"}) \cup {"need_status"}
       /\ Cardinality({i \in DOMAIN Code[op] : Code[op][i] \in Exchanges}) <= 1
<1>1. f.op = "stats_getter" \/ (f.op \in Public /\ Alone(f.op) /\ f.op \notin {"status_update", "playlist_load"})
  BY DEF SendOne
<1>2. "stats_getter" \in DOMAIN Code /\ Code["stats_getter"] = <<"stats_check", "or_fail", "stats_value", "return">>
  BY DEF Code, StatsGetter
<1>3. f.op \in DOMAIN Code /\ f.op \notin {"status_update", "playlist_load", "user"}
  BY <1>1, <1>2, FunctionNames DEF Public
<1>4. f.at \in 1 .. Len(Body(f)) /\ Body(f) = Code[f.op] /\ DOMAIN Body(f) = 1 .. Len(Body(f)) /\ Step(f) = Body(f)[f.at]
  BY <1>3, OnFacts DEF Body, Step, Sound
<1>5. f.op # "player_pause"
  <2>1. /\ 3 \in DOMAIN Code["player_pause"] /\ Code["player_pause"][3] = "player_get_state"
        /\ "player_get_state" \in DOMAIN Code
    BY Bodies, FunctionNames
  <2> QED BY <1>1, <2>1
<1>6. f.op # "server_get_allowed_commands"
  <2> SUFFICES ASSUME f.op = "server_get_allowed_commands" PROVE FALSE
    OBVIOUS
  <2> DEFINE b == Code["server_get_allowed_commands"]
             S == {i \in DOMAIN b : b[i] \in Exchanges}
  <2>1. b = <<"connected", "version", "free_commands", "lock", "commands", "notcommands", "unlock", "or_fail", "return">>
    BY DEF Code, ServerGetAllowedCommands
  <2>2. S = {5} \cup {6}
    BY <2>1 DEF Exchanges, ListSteps
  <2>3. IsFiniteSet({5}) /\ Cardinality({5}) = 1
    BY FS_Singleton
  <2>4. Cardinality({5} \cup {6}) = 2
    <3>1. 6 \notin {5}
      OBVIOUS
    <3>2. Cardinality({5} \cup {6}) = IF 6 \in {5} THEN Cardinality({5}) ELSE Cardinality({5}) + 1
      BY <2>3, FS_AddElement
    <3> QED BY <2>3, <3>1, <3>2
  <2>5. Cardinality(S) <= 1
    BY <1>1
  <2> HIDE DEF S
  <2> QED BY <2>2, <2>4, <2>5
<1>7. ASSUME NEW op \in DOMAIN Code, MayCall(Step(f), op) PROVE op \in Helpers
  <2>1. CASE f.op = "stats_getter"
    <3>1. Step(f) \in {"stats_check", "or_fail", "stats_value", "return"}
      BY <1>2, <1>4, <2>1
    <3>2. {"or_fail", "stats_value", "return"} \subseteq Steps
      BY DEF Steps, Steady, Ends, Tests
    <3> QED BY <1>7, <3>1, <3>2, StepNames DEF MayCall, Helpers
  <2>2. CASE Alone(f.op)
    <3>1. \A i \in 1 .. Len(Body(f)) : Body(f)[i] \notin (DOMAIN Code \ {"status_queue_update"}) \cup {"need_status"}
      BY <1>4, <2>2
    <3>2. Step(f) \notin DOMAIN Code \ {"status_queue_update"} /\ Step(f) # "need_status"
      BY <1>4, <3>1
    <3>3. Step(f) \notin {"stats_if_stopped", "stats_if_database"}
      BY <1>3, CarefulFacts
    <3>4. Step(f) # "ask_again"
      <4>1. Step(f) = "ask_again" => f.at > 1 /\ Before(f) = "player_get_state"
        BY <1>3, CarefulFacts
      <4>2. f.at > 1 => f.at - 1 \in 1 .. Len(Body(f))
        BY <1>4
      <4> QED BY <3>1, <4>1, <4>2, FunctionNames DEF Before
    <3> QED BY <1>7, <3>2, <3>3, <3>4 DEF MayCall, Helpers
  <2> QED BY <1>1, <2>1, <2>2
<1> QED BY <1>3, <1>5, <1>6, <1>7

\* Who is at work, when the program is at the bottom of the stack alone.
LEMMA AloneFacts ==
  ASSUME IInv, stack # <<>>, Orderly(stack)
  PROVE  /\ Nesting = 1
         /\ Top.op = "user" <=> Len(stack) = 1
         /\ Top.op # "user" => Called = Caller(stack)
<1>1. stack \in Seq(Placed) /\ Len(stack) > 0 /\ stack[Len(stack)].op = "user"
  BY DEF IInv, Calls, Shape
<1>2. Len(stack) \in Nat /\ DOMAIN stack = 1 .. Len(stack) /\ Len(stack) \in DOMAIN stack /\ Top = stack[1]
  BY <1>1 DEF Top
<1>3. \A i \in DOMAIN stack : stack[i].op = "user" <=> i = Len(stack)
  BY <1>1, <1>2 DEF Orderly
<1>4. {i \in DOMAIN stack : stack[i].op = "user"} = {Len(stack)}
  BY <1>2, <1>3
<1>5. Nesting = 1
  BY <1>4, FS_Singleton DEF Nesting
<1>6. Top.op = "user" <=> Len(stack) = 1
  BY <1>1, <1>2, <1>3
<1>7. Called = Caller(stack)
  <2> DEFINE P(i) == stack[i].op = "user" /\ \A j \in 1 .. i - 1 : stack[j].op # "user"
  <2>1. \A i \in DOMAIN stack : P(i) <=> i = Len(stack)
    <3>1. \A j \in 1 .. Len(stack) - 1 : stack[j].op # "user"
      BY <1>2, <1>3
    <3> QED BY <1>1, <1>3, <3>1
  <2>2. (CHOOSE i \in DOMAIN stack : P(i)) = Len(stack)
    <3> HIDE DEF P
    <3> QED BY <1>2, <2>1
  <2> QED BY <2>2 DEF Called, Caller
<1> QED BY <1>5, <1>6, <1>7

\* Steps that send a command, and those that throw away what is asked for.
Commands == Exchanges \cup {"pause", "clear_error", "watch"}
Drops(w) == {Fetch(w), "close"} \cup IF w = "status" THEN {"forget_status"} ELSE {}

\* What any step does to the session.
Treats ==
  /\ \A w \in Things : Has(w) /\ Here \notin Drops(w) => Has(w)'
  /\ Here \notin {"accept", "close"} => connected' = connected
  /\ Here = "close" => ~connected'
  /\ \/ conn' = conn
     \/ Here \in Commands /\ conn # None /\ conn' \in Answers
     \/ conn # None /\ conn' = Cleared /\ (conn.error = "ACK" \/ Here = "load_failed")
     \/ Here = "open" /\ conn' \in {Opened("NONE"), Opened("FATAL")}
     \/ Here = "close" /\ conn' = None

\* The ways a function goes on when no callback makes calls of its own.
Forward ==
  /\ stack' = Cons(Next1, Rest)
  /\ Here \notin DOMAIN Code \cup Ends \cup {"unlock"}
  /\ Here = "leave" => ~connected
  /\ Here = "close" => conn' = None
  /\ Here = "need_status" => Has("status")
  /\ Here = "need_stats" => Has("stats")
  /\ Here \in {"or_fail", "ask_again"} => result = "ok"
  /\ Here = "look" => conn # None /\ conn.error = "NONE"
  /\ \A w \in Things : /\ Here \in Uses(w) => Has(w)
                       /\ Here = Fetch(w) /\ conn'.error = "NONE" => Has(w)'

\* It calls a function.
CallsUp ==
  /\ \E op \in DOMAIN Code : MayCall(Here, op) /\ stack' = Cons(Frame(op), Cons(Next1, Rest))
  /\ conn' = conn /\ connected' = connected /\ status' = status /\ cache' = cache

\* It returns, and says that it succeeded only at the end.
GoesBack ==
  /\ Here \in Ends \cup Tests /\ stack' = Rest
  /\ result' = "ok" => Here \in Successes
  /\ Here = "look" => conn = None
  /\ UNCHANGED data

\* It goes on as another: mpd_check_error by the kind of error.
TurnsInto ==
  \E op \in DOMAIN Code :
    /\ stack' = Cons(Frame(op), Rest)
    /\ \/ Here = "look" /\ conn # None /\ op = "ack_error" /\ conn' = Cleared
       \/ Here = "look" /\ conn # None /\ op = "fatal_error" /\ conn' = conn
       \/ Here \in {"load_failed", "name_exists"} /\ op = "ends_as_failed" /\ conn' = Cleared

\* mpd_status_update asks for the outputs in place of the events.
SkipsTwo ==
  /\ Here = "watch"
  /\ \/ stack' = Cons(On(Top, 2), Rest)
     \/ stack' = Cons(Frame("server_update_outputs"), Cons(On(Top, 2), Rest))

\* Every step of a running function.
Turns == Top.op # "user" /\ (Forward \/ CallsUp \/ GoesBack \/ TurnsInto \/ SkipsTwo \/ Crash)

\* The ways to go on, as the actions say it.
LEMMA Going ==
  ASSUME IInv, stack # <<>>, stack' = After(1),
         Here \in Steps \ (Ends \cup {"unlock"}),
         Here = "leave" => ~connected,
         Here = "close" => conn' = None,
         Here = "need_status" => Has("status"),
         Here = "need_stats" => Has("stats"),
         Here \in {"or_fail", "ask_again"} => result = "ok",
         Here = "look" => conn # None /\ conn.error = "NONE",
         \A w \in Things : /\ Here \in Uses(w) => Has(w)
                           /\ Here = Fetch(w) /\ conn'.error = "NONE" => Has(w)'
  PROVE  Turns
<1>1. Here # "user" /\ Here \notin DOMAIN Code
  BY StepNames
<1>2. Top.op # "user" /\ After(1) = Cons(Next1, Rest)
  BY <1>1, HereFacts
<1> QED BY <1>1, <1>2 DEF Turns, Forward

LEMMA Calling ==
  ASSUME IInv, stack # <<>>, NEW op \in DOMAIN Code, MayCall(Here, op), Here # "user",
         stack' = <<Frame(op)>> \o After(1),
         conn' = conn, connected' = connected, status' = status, cache' = cache
  PROVE  Turns
<1>1. Top.op # "user" /\ stack' = Cons(Frame(op), Cons(Next1, Rest))
  BY HereFacts DEF Cons
<1> QED BY <1>1 DEF Turns, CallsUp

LEMMA GoingBack ==
  ASSUME IInv, stack # <<>>, Here \in Ends \cup Tests, NEW r, Return(r),
         r = "ok" => Here \in Successes, Here # "look", UNCHANGED data
  PROVE  Turns
<1>1. Here # "user"
  BY DEF Ends, Tests
<1>2. Top.op # "user"
  BY <1>1, HereFacts
<1> QED BY <1>1, <1>2 DEF Turns, GoesBack, Return, Rest

LEMMA Untouched ==
  ASSUME UNCHANGED data, Here # "close"
  PROVE  Treats
<1>1. conn' = conn /\ connected' = connected /\ status' = status /\ cache' = cache
  BY DEF data
<1> QED BY <1>1 DEF Treats, Has

\* No callback makes calls of its own.
LEMMA CallsBack ==
  ASSUME MaxNesting = 1, Nesting = 1, CallBack
  PROVE  stack' = After(1)
BY DEF CallBack, Advance, Skip

\* Steps that are about the stack alone.
LEMMA StackTurns ==
  ASSUME IInv, stack # <<>>, MaxNesting = 1, Nesting = 1,
         \/ CallFunction \/ Returns \/ OrFail \/ CheckConnected \/ CheckVersion \/ CheckCommandAllowed
         \/ ErrorCallback \/ Obey \/ Leave \/ SignalConnected \/ SignalStatus \/ Need
         \/ StatsIfStopped \/ StatsIfDatabase \/ ReadValue \/ AskAgain \/ IfPlaying \/ IfNotCached
  PROVE  Turns /\ Treats
<1>1. UNCHANGED data
  BY DEF CallFunction, Returns, OrFail, CheckConnected, CheckVersion, CheckCommandAllowed,
     ErrorCallback, Obey, Leave, SignalConnected, SignalStatus, Need, StatsIfStopped, StatsIfDatabase,
     ReadValue, AskAgain, IfPlaying, IfNotCached
<1>2. Treats
  <2>1. Here # "close"
    BY StepNames DEF CallFunction, Returns, OrFail, CheckConnected, CheckVersion, CheckCommandAllowed,
       ErrorCallback, Obey, Leave, SignalConnected, SignalStatus, Need, StatsIfStopped, StatsIfDatabase,
       ReadValue, AskAgain, IfPlaying, IfNotCached, Steps, Special
  <2> QED BY <1>1, <2>1, Untouched
<1>3. conn' = conn /\ connected' = connected /\ status' = status /\ cache' = cache
  BY <1>1 DEF data
<1>4. {"disconnect", "status_update", "stats_update", "stats_update_real", "player_get_state"} \subseteq DOMAIN Code
  BY FunctionNames
<1>5. CASE CallFunction
  <2>1. Here \in DOMAIN Code /\ Here # "user" /\ stack' = <<Frame(Here)>> \o After(1)
    BY <1>5, FunctionNames DEF CallFunction, Call
  <2>2. MayCall(Here, Here)
    BY DEF MayCall
  <2> QED BY <1>2, <1>3, <2>1, <2>2, Calling
<1>6. CASE Returns \/ (OrFail /\ result # "ok")
  <2>1. \E r \in {"ok", "failed", result} : Return(r) /\ (r = "ok" => Here \in Successes) /\ Here \in (Ends \cup Tests) \ {"look"}
    BY <1>6 DEF Returns, OrFail, Return, Ends, Tests, Successes
  <2> QED BY <1>1, <1>2, <2>1, GoingBack
<1>7. CASE OrFail /\ result = "ok"
  <2>1. Here = "or_fail" /\ Here \in Steps \ (Ends \cup {"unlock"}) /\ stack' = After(1)
    BY <1>7 DEF OrFail, Advance, Skip, Steps, Tests, Ends
  <2>2. \A w \in Things : Here \notin Uses(w) /\ Here # Fetch(w)
    BY <2>1 DEF Uses, UsesStatus, Fetch
  <2> QED BY <1>2, <1>7, <2>1, <2>2, Going
<1>8. CASE CheckConnected \/ CheckVersion \/ CheckCommandAllowed \/ IfPlaying \/ IfNotCached
  <2>1. /\ Here \in {"connected", "if_connected", "version", "command_allowed", "if_playing", "if_not_stopped",
                     "if_no_song", "if_no_handlers"}
        /\ stack' = After(1) \/ \E r \in {"ok", "failed"} : Return(r) /\ (r = "ok" => Here \in Successes)
    BY <1>8 DEF CheckConnected, CheckVersion, CheckCommandAllowed, IfPlaying, IfNotCached, Advance, Skip, Successes
  <2>2. Here \in Ends \cup Tests /\ Here \in Steps \ (Ends \cup {"unlock"}) /\ Here # "look"
    BY <2>1 DEF Steps, Tests, Ends
  <2>3. \A w \in Things : Here \notin Uses(w) /\ Here # Fetch(w)
    BY <2>1 DEF Uses, UsesStatus, Fetch
  <2>4. CASE stack' = After(1)
    BY <1>2, <2>1, <2>2, <2>3, <2>4, Going
  <2>5. CASE \E r \in {"ok", "failed"} : Return(r) /\ (r = "ok" => Here \in Successes)
    BY <1>1, <1>2, <2>2, <2>5, GoingBack
  <2> QED BY <2>1, <2>4, <2>5
<1>9. CASE ErrorCallback \/ SignalConnected \/ SignalStatus
  <2>1. /\ Here \in {"error_callback", "signal_connected", "signal_status"}
        /\ stack' = After(1)
    BY <1>9, CallsBack DEF ErrorCallback, SignalConnected, SignalStatus, Advance, Skip
  <2>2. Here \in Steps \ (Ends \cup {"unlock"})
    BY <2>1 DEF Steps, Ends
  <2>3. \A w \in Things : Here \notin Uses(w) /\ Here # Fetch(w)
    BY <2>1 DEF Uses, UsesStatus, Fetch
  <2> QED BY <1>2, <2>1, <2>2, <2>3, Going
<1>10. CASE Obey \/ Leave \/ StatsIfStopped \/ StatsIfDatabase \/ AskAgain \/ Need
  <2>1. /\ Here \in {"obey", "leave", "stats_if_stopped", "stats_if_database", "ask_again", "need_status", "need_stats"}
        /\ Here \in Steps \ (Ends \cup {"unlock"}) /\ Here # "user"
    BY <1>10 DEF Obey, Leave, StatsIfStopped, StatsIfDatabase, AskAgain, Need, Steps, Ends
  <2>2. \/ /\ stack' = After(1)
           /\ Here = "leave" => ~connected
           /\ Here = "need_status" => Has("status")
           /\ Here = "need_stats" => Has("stats")
           /\ Here = "ask_again" => result = "ok"
        \/ \E op \in {"disconnect", "status_update", "stats_update", "stats_update_real", "player_get_state"} :
              MayCall(Here, op) /\ stack' = <<Frame(op)>> \o After(1)
    <3>1. CASE Obey \/ Leave
      BY <3>1 DEF Obey, Leave, Advance, Skip, Call, MayCall
    <3>2. CASE StatsIfStopped \/ StatsIfDatabase
      BY <3>2 DEF StatsIfStopped, StatsIfDatabase, Advance, Skip, Call, MayCall
    <3>3. CASE AskAgain
      BY <3>3 DEF AskAgain, Advance, Skip, Call, MayCall
    <3>4. CASE Need
      BY <3>4 DEF Need, Advance, Skip, Call, MayCall, Has
    <3> QED BY <1>10, <3>1, <3>2, <3>3, <3>4
  <2>3. \A w \in Things : Here \notin Uses(w) /\ Here # Fetch(w)
    BY <2>1 DEF Uses, UsesStatus, Fetch
  <2>4. CASE /\ stack' = After(1)
             /\ Here = "leave" => ~connected
             /\ Here = "need_status" => Has("status")
             /\ Here = "need_stats" => Has("stats")
             /\ Here = "ask_again" => result = "ok"
    BY <1>2, <2>1, <2>3, <2>4, Going
  <2>5. CASE \E op \in {"disconnect", "status_update", "stats_update", "stats_update_real", "player_get_state"} :
               MayCall(Here, op) /\ stack' = <<Frame(op)>> \o After(1)
    BY <1>2, <1>3, <1>4, <2>1, <2>5, Calling
  <2> QED BY <2>2, <2>4, <2>5
<1>11. CASE ReadValue
  <2>1. /\ Here \in {"status_value", "record", "stats_value"} /\ stack' = After(1)
        /\ Here \in {"status_value", "record"} => status # "none"
        /\ Here = "stats_value" => "stats" \in cache
    BY <1>11 DEF ReadValue, Advance, Skip
  <2>2. Here \in Steps \ (Ends \cup {"unlock"})
    BY <2>1 DEF Steps, Ends, Steady, HeldSteps
  <2>3. \A w \in Things : (Here \in Uses(w) => Has(w)) /\ Here # Fetch(w)
    BY <2>1 DEF Uses, UsesStatus, Fetch, Has
  <2> QED BY <1>2, <2>1, <2>2, <2>3, Going
<1> QED BY <1>5, <1>6, <1>7, <1>8, <1>9, <1>10, <1>11

\* Steps that change what is known of the server, and no more.
LEMMA CacheTurns ==
  ASSUME IInv, stack # <<>>,
         FreeCommands \/ ForgetStatus \/ Compare \/ DropOldSong \/ KeepSong
  PROVE  Turns /\ Treats
<1>1. /\ Here \in {"free_commands", "forget_status", "compare", "drop_old_song", "keep_song"}
      /\ stack' = After(1) /\ connected' = connected /\ conn' = conn
  BY DEF FreeCommands, ForgetStatus, Compare, DropOldSong, KeepSong, Advance, Skip
<1>2. /\ Here # "forget_status" => status' = status
      /\ "stats" \in cache => "stats" \in cache'
      /\ Here = "compare" => status # "none"
  BY DEF FreeCommands, ForgetStatus, Compare, DropOldSong, KeepSong
<1>3. Here \in Steps \ (Ends \cup {"unlock"})
  BY <1>1 DEF Steps, Ends, Steady, Plain
<1>4. \A w \in Things : (Here \in Uses(w) => Has(w)) /\ Here # Fetch(w)
  BY <1>1, <1>2 DEF Uses, UsesStatus, Fetch, Has
<1>5. Turns
  BY <1>1, <1>3, <1>4, Going
<1>6. Treats
  BY <1>1, <1>2 DEF Treats, Has, Drops, Things
<1> QED BY <1>5, <1>6

\* Steps that send a command and read the answer.
LEMMA SendingTurns ==
  ASSUME IInv, stack # <<>>,
         Exchange \/ ClearServerError \/ Watch \/ Pause
  PROVE  Turns /\ Treats
<1>1. /\ Here \in Exchanges \cup {"clear_error", "watch", "pause"} /\ connected' = connected
      /\ conn' = conn \/ (conn # None /\ conn' \in Answers)
  BY DEF Exchange, ClearServerError, Watch, Pause
<1>2. Here # "user" /\ Here \in Steps \ (Ends \cup {"unlock"})
  BY <1>1 DEF Steps, Ends, Steady, HeldSteps, Exchanges, ListSteps
<1>3. \A w \in Things : Here \notin Uses(w)
  BY <1>1 DEF Uses, UsesStatus, Exchanges, ListSteps
<1>4. Here \notin {"leave", "close", "need_status", "need_stats", "or_fail", "ask_again", "look", "accept"}
  BY <1>1 DEF Exchanges, ListSteps
<1>5. CASE Exchange
  <2>1. Here \in Exchanges /\ stack' = After(1)
    BY <1>5 DEF Exchange, Advance, Skip
  <2>2. conn' \in Answers
    BY <1>5 DEF Exchange
  <2>0. PICK c \in Answers :
          /\ conn' = c
          /\ status' = CASE Here = "fetch_status" -> IF c.error = "NONE" THEN "fresh" ELSE "none"
                         [] Here = "set" /\ status # "none" /\ c.error # "ACK" -> "stale"
                         [] OTHER -> status
          /\ cache' \in CASE Here = "fetch_stats" ->
                               {IF c.error = "NONE" THEN cache \cup {"stats"} ELSE cache \ {"stats"}}
                          [] Here \in ListSteps -> {cache \cup kept : kept \in ListKept(Here)}
                          [] OTHER -> {cache}
    BY <1>5 DEF Exchange
  <2>3. /\ Here = "fetch_status" => status' = IF conn'.error = "NONE" THEN "fresh" ELSE "none"
        /\ Here # "fetch_status" => status' = status \/ status' = "stale"
    BY <2>0
  <2>4. Here = "fetch_stats" => cache' = IF conn'.error = "NONE" THEN cache \cup {"stats"} ELSE cache \ {"stats"}
    <3> SUFFICES ASSUME Here = "fetch_stats" PROVE cache' = IF c.error = "NONE" THEN cache \cup {"stats"} ELSE cache \ {"stats"}
      BY <2>0
    <3> DEFINE given == IF c.error = "NONE" THEN cache \cup {"stats"} ELSE cache \ {"stats"}
               lists == {cache \cup kept : kept \in ListKept(Here)}
    <3>1. cache' \in CASE Here = "fetch_stats" -> {given}
                     [] Here \in ListSteps -> lists
                     [] OTHER -> {cache}
      BY <2>0
    <3> HIDE DEF given, lists
    <3>2. Here \notin ListSteps
      BY DEF ListSteps
    <3>3. cache' = given
      BY <3>1, <3>2
    <3> QED BY <3>3 DEF given
  <2>5. Here # "fetch_stats" /\ "stats" \in cache => "stats" \in cache'
    BY <2>0
  <2>6. Treats
    BY <1>1, <1>4, <2>1, <2>3, <2>5 DEF Treats, Has, Drops, Things, Fetch, Commands
  <2>7. \A w \in Things : Here = Fetch(w) /\ conn'.error = "NONE" => Has(w)'
    BY <2>3, <2>4 DEF Has, Things, Fetch
  <2> QED BY <1>2, <1>3, <1>4, <2>1, <2>6, <2>7, Going
<1>6. CASE ClearServerError \/ Watch \/ Pause
  <2>1. /\ Here \in {"clear_error", "watch", "pause"} /\ cache' = cache
        /\ status' = status \/ status' = "stale"
    BY <1>6 DEF ClearServerError, Watch, Pause
  <2>2. Treats
    BY <1>1, <2>1 DEF Treats, Has, Drops, Things, Commands
  <2>3. \/ stack' = After(1)
        \/ Here = "watch" /\ stack' = After(2)
        \/ Here = "watch" /\ stack' = <<Frame("server_update_outputs")>> \o After(2)
    BY <1>6 DEF ClearServerError, Watch, Pause, Advance, Skip
  <2>4. \A w \in Things : Here # Fetch(w)
    BY <2>1 DEF Fetch
  <2>5. CASE stack' = After(1)
    BY <1>2, <1>3, <1>4, <2>2, <2>4, <2>5, Going
  <2>6. CASE Here = "watch" /\ (stack' = After(2) \/ stack' = <<Frame("server_update_outputs")>> \o After(2))
    BY <1>2, <2>2, <2>6, HereFacts DEF Turns, SkipsTwo, Cons
  <2> QED BY <2>3, <2>5, <2>6
<1> QED BY <1>5, <1>6

\* The lock, and errors.
LEMMA ErrorTurns ==
  ASSUME IInv, stack # <<>>,
         LockConn \/ UnlockConn \/ LookForError \/ LoadFailed \/ NameExists \/ Forgive
  PROVE  Turns /\ Treats
<1>1. /\ Here \in {"lock", "unlock", "look", "load_failed", "name_exists", "forgive"}
      /\ connected' = connected /\ status' = status /\ cache' = cache
  BY DEF LockConn, UnlockConn, LookForError, LoadFailed, NameExists, Forgive
<1>2. Here # "user" /\ Here \in Steps \ Ends
  BY <1>1 DEF Steps, Steady, HeldSteps, Ends, Special
<1>3. /\ Top.op # "user" /\ After(1) = Cons(Next1, Rest)
      /\ Here \in {"unlock", "load_failed", "name_exists", "forgive"} => lock /\ conn # None
  BY <1>2, HereFacts
<1>4. \A w \in Things : Here \notin Uses(w) /\ Here # Fetch(w)
  BY <1>1 DEF Uses, UsesStatus, Fetch
<1>5. Here = "lock" /\ lock => lock' = lock /\ conn' = conn
  <2>1. Here = "lock" /\ lock => LockConn
    BY DEF LockConn, UnlockConn, LookForError, LoadFailed, NameExists, Forgive
  <2>2. lock \in BOOLEAN
    BY DEF IInv, Typed
  <2> QED BY <2>1, <2>2 DEF LockConn
<1>6. \/ conn' = conn
      \/ conn # None /\ conn' = Cleared /\ (conn.error = "ACK" \/ Here = "load_failed")
  <2>1. CASE LockConn \/ UnlockConn
    BY <2>1 DEF LockConn, UnlockConn
  <2>2. CASE LookForError
    BY <2>2 DEF LookForError, Cleared
  <2>3. CASE LoadFailed \/ NameExists \/ Forgive
    BY <1>3, <2>3 DEF LoadFailed, NameExists, Forgive
  <2> QED BY <2>1, <2>2, <2>3
<1>7. Treats
  BY <1>1, <1>6 DEF Treats, Has
<1>8. \/ stack' = After(1) /\ Here # "unlock" /\ (Here = "look" => conn # None /\ conn.error = "NONE")
      \/ Here = "unlock" /\ stack' = <<Frame("check_error")>> \o After(1) /\ conn' = conn
      \/ /\ Here = "lock" \/ (Here = "look" /\ conn = None)
         /\ stack' = Tail(stack) /\ result' = "failed" /\ UNCHANGED data
      \/ TurnsInto
  <2>1. CASE LockConn
    <3>1. CASE lock
      BY <1>1, <1>5, <2>1, <3>1 DEF LockConn, Return, data
    <3>2. CASE ~lock
      BY <2>1, <3>2 DEF LockConn, Advance, Skip
    <3> QED BY <3>1, <3>2
  <2>2. CASE UnlockConn
    BY <1>3, <2>2 DEF UnlockConn, Call
  <2>3. CASE LookForError
    <3>1. CASE conn = None /\ Return("failed") /\ UNCHANGED conn
      BY <1>1, <2>3, <3>1 DEF LookForError, Return, data
    <3>2. CASE conn # None /\ conn.error = "NONE" /\ Advance
      BY <2>3, <3>2 DEF LookForError, Advance, Skip
    <3>3. CASE conn # None /\ conn' = [conn EXCEPT !.error = "NONE"] /\ Become("ack_error")
      BY <2>3, <3>3, FunctionNames DEF LookForError, Become, TurnsInto, Cleared, Cons, Rest
    <3>4. CASE conn # None /\ Become("fatal_error") /\ UNCHANGED conn
      BY <2>3, <3>4, FunctionNames DEF LookForError, Become, TurnsInto, Cons, Rest
    <3> QED BY <2>3, <3>1, <3>2, <3>3, <3>4 DEF LookForError
  <2>4. CASE LoadFailed \/ NameExists
    <3>1. /\ Here \in {"load_failed", "name_exists"}
          /\ \/ conn' = Cleared /\ Become("ends_as_failed")
             \/ Advance
      BY <2>4 DEF LoadFailed, NameExists
    <3> QED BY <3>1, FunctionNames DEF Advance, Skip, Become, TurnsInto, Cons, Rest
  <2>5. CASE Forgive
    BY <2>5 DEF Forgive, Advance, Skip
  <2> QED BY <2>1, <2>2, <2>3, <2>4, <2>5
<1>9. CASE stack' = After(1) /\ Here # "unlock" /\ (Here = "look" => conn # None /\ conn.error = "NONE")
  BY <1>1, <1>2, <1>4, <1>7, <1>9, Going
<1>10. CASE Here = "unlock" /\ stack' = <<Frame("check_error")>> \o After(1) /\ conn' = conn
  <2>1. MayCall(Here, "check_error") /\ "check_error" \in DOMAIN Code
    BY <1>10, FunctionNames DEF MayCall
  <2> QED BY <1>1, <1>2, <1>7, <1>10, <2>1, Calling
<1>11. CASE /\ Here = "lock" \/ (Here = "look" /\ conn = None)
            /\ stack' = Tail(stack) /\ result' = "failed" /\ UNCHANGED data
  BY <1>3, <1>7, <1>11 DEF Turns, GoesBack, Rest, Tests
<1>12. CASE TurnsInto
  BY <1>3, <1>7, <1>12 DEF Turns
<1> QED BY <1>8, <1>9, <1>10, <1>11, <1>12

\* A session begins and ends.
LEMMA SessionTurns ==
  ASSUME IInv, stack # <<>>, MaxNesting = 1, Nesting = 1, Close \/ Open \/ Accept
  PROVE  Turns /\ Treats
<1>1. /\ Here \in {"close", "open", "accept"} /\ stack' = After(1)
  BY CallsBack DEF Close, Open, Accept, Advance, Skip
<1>2. Here \in Steps \ (Ends \cup {"unlock"})
  BY <1>1 DEF Steps, Ends, Special
<1>3. \A w \in Things : Here \notin Uses(w) /\ Here # Fetch(w)
  BY <1>1 DEF Uses, UsesStatus, Fetch
<1>4. /\ Here = "close" => conn' = None /\ ~connected'
      /\ Here = "open" => /\ conn' \in {Opened("NONE"), Opened("FATAL")}
                          /\ connected' = connected /\ status' = status /\ cache' = cache
      /\ Here = "accept" => conn' = conn /\ status' = status /\ cache' = cache
  BY DEF Close, Open, Accept
<1>5. Treats
  BY <1>1, <1>4 DEF Treats, Has, Drops
<1> QED BY <1>1, <1>2, <1>3, <1>4, <1>5, Going

\* Every step is one of the turns, and does no more to the session than Treats.
LEMMA StepsAreTurns ==
  ASSUME IInv, stack # <<>>, MaxNesting = 1, Nesting = 1, Function
  PROVE  Turns /\ (stack' # <<>> => Treats)
<1>1. CASE Crash
  <2>1. Here # "user" /\ stack' = <<>>
    BY <1>1 DEF Crash, UsesNull, Exchanges, ListSteps, UsesStatus
  <2> QED BY <1>1, <2>1, HereFacts DEF Turns
<1> QED BY <1>1, StackTurns, CacheTurns, SendingTurns, ErrorTurns, SessionTurns DEF Function

\* Frame g waits for what the unlock behind its question says.
Looked(g, w) == g.op # "user" /\ g.at > 2 /\ Before(g) = "unlock" /\ Body(g)[g.at - 2] = Fetch(w)

\* What function f, called by g, knows of the status or the statistics.
KnowsOf(f, g, w) ==
  f.op # "user" =>
    /\ AtHand(f, w) => Has(w)
    /\ f.at > 1 /\ Before(f) \in Asking(w) /\ result = "ok" => Has(w)
    /\ f.at > 1 /\ Before(f) = Fetch(w) /\ conn.error = "NONE" => Has(w)
    /\ Looked(f, w) /\ result = "ok" => Has(w)
    /\ f.op = "check_error" /\ Looked(g, w) /\ (f.at = 2 \/ conn.error = "NONE") => Has(w)

\* What the running function f, called by g, relies on.
Knows(f, g) ==
  /\ f.op \in {"connect", "disconnect"} /\ f.at = 2 => conn = None
  /\ \A w \in Things : KnowsOf(f, g, w)

\* An error of a function that sends one command, not looked at yet, and who
\* is about to look at it.
Dirty      == conn # None /\ conn.by = "one" /\ conn.error # "NONE"
Cleaner(f) ==
  /\ f.op # "user"
  /\ \/ Cleans(Body(f), f.at)
     \/ f.op \in {"check_error", "disconnect"} /\ f.at = 1
     \/ f.op = "fatal_error" /\ f.at \in {1, 2}

\* A reply that may still come is of the command that failed last.
LateIsLast == conn # None /\ conn.late = "one" => conn.error = "FATAL" /\ conn.by = "one"

\* The invariant: nobody runs who would drop the status mpd_status_update is at,
\* what the running function relies on is so, and the error of a function that
\* sends one command is about to be looked at.
Mindful(s) ==
  /\ Orderly(s) /\ Aided(s)
  /\ Watching(s) /\ connected => status # "none"
  /\ Knows(Head(s), Head(Tail(s)))
  /\ LateIsLast
  /\ Dirty => Cleaner(Head(s))

\* It holds until the program has ended.
SInv == stack # <<>> => Mindful(stack)

\* Function f.op runs: it was called by g, on the stack s, and h is its next step.
Works(f, s, g, h) == Runs(f, s, g, h) /\ Mindful(stack)

\* The program alone, or a function it called.
LEMMA OneOrMore == \A n \in Nat : n > 0 => n = 1 \/ (n > 1 /\ 1 \in 1 .. n - 1)
OBVIOUS

\* What the invariant says of the running function.
LEMMA WorksFacts ==
  ASSUME NEW f, NEW s, NEW g, NEW h, Works(f, s, g, h)
  PROVE  /\ f \in Placed /\ f.op # "user" /\ f.op \in DOMAIN Code /\ f.at \in Nat \ {0} /\ g \in Placed
         /\ h.op = f.op /\ h.at = f.at + 1 /\ Body(h) = Body(f) /\ Before(h) = Step(f) /\ h = On(f, 1)
         /\ s \in Seq(Placed) /\ s # <<>> /\ g = Head(s) /\ Here = Step(f)
         /\ Rest = s /\ Next1 = h /\ Top = f /\ Shape(s)
         /\ IsSure(f, g) /\ Known /\ Typed
         /\ Orderly(s) /\ Follows(f, g) /\ (Watching(s) => f.op \in Quiet)
         /\ (Watches(f) \/ Watching(s)) /\ connected => status # "none"
         /\ Knows(f, g) /\ LateIsLast /\ (Dirty => Cleaner(f))
         /\ Len(s) > 1 => Aided(s) /\ (Caller(s) \in SendOne => f.op \in Helpers)
         /\ Called = IF Len(s) = 1 THEN f.op ELSE Caller(s)
         /\ Len(s) \in Nat /\ Len(s) > 0
         /\ g.op = "user" => Len(s) = 1
<1>1. Runs(f, s, g, h) /\ Mindful(stack) /\ IInv /\ stack # <<>> /\ f = Top /\ s = Rest /\ g = Head(s) /\ h = On(f, 1)
  BY DEF Works, Runs
<1>2. /\ f \in Placed /\ f.op # "user" /\ f.op \in DOMAIN Code /\ f.at \in Nat \ {0} /\ g \in Placed
      /\ h.op = f.op /\ h.at = f.at + 1 /\ Body(h) = Body(f) /\ Before(h) = Step(f)
      /\ s \in Seq(Placed) /\ s # <<>> /\ Here = Step(f) /\ Rest = s /\ Next1 = h
      /\ IsSure(f, g) /\ Known /\ Shape(s)
  BY <1>1, RunsFacts
<1>3. Typed /\ stack = Cons(f, s) /\ Head(stack) = f /\ Tail(stack) = s
  <2>1. Calls(stack) /\ Typed
    BY <1>1 DEF IInv
  <2>2. stack = Cons(Top, Rest)
    BY <1>1, <2>1, TopFacts
  <2> QED BY <1>1, <2>1, <2>2 DEF Top, Rest
<1>4. /\ Orderly(stack) /\ Aided(stack) /\ (Watching(stack) /\ connected => status # "none")
      /\ Knows(f, g) /\ LateIsLast /\ (Dirty => Cleaner(f))
  BY <1>1, <1>3 DEF Mindful
<1>5. /\ Watching(stack) <=> Watches(f) \/ Watching(s)
      /\ Orderly(s) /\ Follows(f, g) /\ (Watching(s) => f.op \in Quiet)
      /\ Len(s) = 1 => Caller(stack) = f.op
      /\ Len(s) > 1 => /\ Caller(stack) = Caller(s)
                       /\ Aided(s) /\ (Caller(s) \in SendOne => f.op \in Helpers)
  BY <1>1, <1>2, <1>3, <1>4, MoreFacts
<1>6. Len(s) \in Nat /\ Len(s) > 0
  BY <1>2
<1>7. Called = Caller(stack)
  BY <1>1, <1>2, <1>4, AloneFacts
<1>8. g.op = "user" => Len(s) = 1
  <2>1. g = s[1]
    BY <1>1, <1>2
  <2>2. \A i \in 1 .. Len(s) - 1 : s[i].op # "user"
    BY <1>5 DEF Orderly
  <2>3. Len(s) # 1 => 1 \in 1 .. Len(s) - 1
    BY <1>6, OneOrMore
  <2> QED BY <2>1, <2>2, <2>3
<1> QED BY <1>1, <1>2, <1>3, <1>4, <1>5, <1>6, <1>7, <1>8

\* The invariant when f runs on s.
LEMMA Running ==
  ASSUME NEW f \in Placed, f.op # "user", NEW s \in Seq(Placed), s # <<>>, NEW g, g = Head(s),
         stack' = Cons(f, s),
         Orderly(s), Follows(f, g), Watching(s) => f.op \in Quiet,
         (Watches(f) \/ Watching(s)) /\ connected' => status' # "none",
         Knows(f, g)', LateIsLast', Dirty' => Cleaner(f),
         Len(s) > 1 => Aided(s) /\ (Caller(s) \in SendOne => f.op \in Helpers)
  PROVE  Mindful(stack)'
<1>1. Head(stack') = f /\ Tail(stack') = s
  BY ConsProperties
<1>2. Len(s) = 1 \/ Len(s) > 1
  <2>1. Len(s) \in Nat /\ Len(s) > 0
    OBVIOUS
  <2> QED BY <2>1, OneOrMore
<1>3. Orderly(stack') /\ Aided(stack') /\ (Watching(stack') <=> Watches(f) \/ Watching(s))
  BY <1>2, MoreFacts
<1>4. Cleaner(f)' = Cleaner(f)
  BY DEF Cleaner
<1>5. Knows(Head(stack), Head(Tail(stack)))'
  <2>1. ASSUME NEW p, NEW q, p = Head(stack)', q = Head(Tail(stack))', Knows(p, q)'
        PROVE  Knows(Head(stack), Head(Tail(stack)))'
    BY <2>1 DEF Knows, KnowsOf, AtHand, Looked
  <2> QED BY <1>1, <2>1
<1> QED BY <1>1, <1>3, <1>4, <1>5 DEF Mindful

\* Who is about to look at the error does nothing else.
LEMMA CleanerFacts ==
  ASSUME NEW f \in Placed, f.op # "user", Cleaner(f)
  PROVE  \/ Step(f) = "unlock"
         \/ Step(f) \in {"forgive", "name_exists"} /\ Cleans(Body(f), f.at + 1)
         \/ Step(f) \in {"look", "close"}
         \/ f.op = "fatal_error" /\ f.at = 1 /\ Step(f) = "error_callback"
         \/ f.op = "fatal_error" /\ f.at = 2 /\ Step(f) = "disconnect"
<1>1. f.at \in Nat \ {0} /\ Code["disconnect"] = <<"close", "return">> /\ Body(f) = Code[f.op]
  BY OnFacts, Bodies DEF Body
<1>2. CASE Cleans(Body(f), f.at)
  <2>1. PICK k \in f.at .. Len(Body(f)) :
          Body(f)[k] = "unlock" /\ \A j \in f.at .. k - 1 : Body(f)[j] \in {"forgive", "name_exists"}
    BY <1>2 DEF Cleans
  <2>2. CASE k = f.at
    BY <2>1, <2>2 DEF Step
  <2>3. CASE k # f.at
    <3>1. f.at \in f.at .. k - 1 /\ k \in f.at + 1 .. Len(Body(f)) /\ \A j \in f.at + 1 .. k - 1 : j \in f.at .. k - 1
      BY <1>1, <2>3
    <3>2. Cleans(Body(f), f.at + 1)
      BY <2>1, <3>1 DEF Cleans
    <3> QED BY <2>1, <3>1, <3>2 DEF Step
  <2> QED BY <2>2, <2>3
<1>3. CASE f.op \in {"check_error", "disconnect"} /\ f.at = 1
  <2>1. f.op = "check_error" => Step(f) = "look"
    BY <1>3, NamedSteps
  <2>2. f.op = "disconnect" => Step(f) = "close"
    BY <1>1, <1>3 DEF Step
  <2> QED BY <1>3, <2>1, <2>2
<1>4. CASE f.op = "fatal_error" /\ f.at \in {1, 2}
  BY <1>4, NamedSteps
<1> QED BY <1>2, <1>3, <1>4 DEF Cleaner

\* What a command may leave.
LEMMA AnswerFacts ==
  ASSUME conn \in Connections, NEW c \in Answers
  PROVE  c.by = Sender /\ (c.late = conn.late \/ (c.error = "FATAL" /\ c.late = Sender))
<1>2. CASE c = [conn EXCEPT !.error = "NONE", !.by = Sender]
  BY <1>2 DEF Connections
<1>3. CASE \E k \in AckCodes : c = [conn EXCEPT !.error = "ACK", !.code = k, !.by = Sender]
  BY <1>3 DEF Connections
<1>4. CASE \E l \in {conn.late, Sender} : c = [conn EXCEPT !.error = "FATAL", !.by = Sender, !.late = l]
  BY <1>4 DEF Connections
<1> QED BY <1>2, <1>3, <1>4 DEF Answers

\* An error not looked at is the one there was, or of the command just sent by
\* a function that now gives back the lock.
LEMMA ConnKeeps ==
  ASSUME NEW f, NEW s, NEW g, NEW h, Works(f, s, g, h), Treats
  PROVE  /\ LateIsLast'
         /\ Dirty' => \/ Dirty /\ conn' = conn
                      \/ Here \in Exchanges /\ Cleans(Body(f), f.at + 1)
<1>1. /\ f \in Placed /\ f.op # "user" /\ Here = Step(f) /\ LateIsLast /\ (Dirty => Cleaner(f))
      /\ conn # None => conn \in Connections
      /\ Len(s) > 1 => (Caller(s) \in SendOne => f.op \in Helpers)
      /\ Called = IF Len(s) = 1 THEN f.op ELSE Caller(s)
      /\ Len(s) \in Nat /\ Len(s) > 0
  BY WorksFacts DEF Typed
<1>2. CASE conn' = conn
  BY <1>1, <1>2 DEF LateIsLast, Dirty
<1>3. CASE Here \in Commands /\ conn # None /\ conn' \in Answers
  <2>1. ~Cleaner(f)
    BY <1>1, <1>3, CleanerFacts DEF Commands, Exchanges, ListSteps
  <2>2. ~Dirty /\ conn.late # "one"
    BY <1>1, <1>3, <2>1 DEF Dirty, LateIsLast
  <2>3. conn'.by = Sender /\ (conn'.late = conn.late \/ (conn'.error = "FATAL" /\ conn'.late = Sender))
    BY <1>1, <1>3, AnswerFacts
  <2>4. LateIsLast'
    BY <2>2, <2>3 DEF LateIsLast
  <2>5. ASSUME Sender = "one" PROVE Here \in Exchanges /\ Cleans(Body(f), f.at + 1)
    <3>1. f.op \in SendOne \/ f.op \in Helpers
      <4>1. Called \in SendOne
        BY <2>5 DEF Sender
      <4>2. Len(s) = 1 \/ Len(s) > 1
        BY <1>1, OneOrMore
      <4> QED BY <1>1, <4>1, <4>2
    <3>2. f.op \notin {"status_update", "playlist_load", "server_get_allowed_commands", "player_pause"}
      BY <1>1, <3>1, SendOneFacts DEF Helpers
    <3>3. Here \notin {"pause", "clear_error", "watch"}
      BY <1>1, <3>2, CarefulFacts, StepFacts
    <3>4. Here \in Exchanges
      BY <1>3, <3>3 DEF Commands
    <3> QED BY <1>1, <3>2, <3>4, CarefulFacts
  <2> QED BY <2>3, <2>4, <2>5 DEF Dirty
<1>4. CASE conn # None /\ conn' = Cleared /\ (conn.error = "ACK" \/ Here = "load_failed")
  <2>1. conn'.error = "NONE" /\ conn'.late = conn.late
    BY <1>1, <1>4 DEF Cleared, Connections
  <2>2. conn.late # "one"
    <3>1. CASE conn.error = "ACK"
      BY <1>4, <1>1, <3>1 DEF LateIsLast
    <3>2. CASE Here = "load_failed"
      <4>1. ~Cleaner(f)
        BY <1>1, <3>2, CleanerFacts
      <4> QED BY <1>1, <1>4, <4>1 DEF Dirty, LateIsLast
    <3> QED BY <1>4, <3>1, <3>2
  <2> QED BY <2>1, <2>2 DEF LateIsLast, Dirty
<1>5. CASE conn' \in {Opened("NONE"), Opened("FATAL")}
  <2>1. conn'.late = "no" /\ conn'.by = "more"
    BY <1>5 DEF Opened
  <2> QED BY <2>1 DEF LateIsLast, Dirty
<1>6. CASE conn' = None
  BY <1>6 DEF LateIsLast, Dirty
<1> QED BY <1>2, <1>3, <1>4, <1>5, <1>6 DEF Treats

\* The step a frame was at before.
LEMMA BeforeFacts ==
  ASSUME NEW g \in Placed, g.op # "user", g.at > 1
  PROVE  \E p \in Placed : p.op = g.op /\ p.op # "user" /\ p.at = g.at - 1 /\ Step(p) = Before(g)
<1> DEFINE p == [op |-> g.op, at |-> g.at - 1]
<1>1. g.at \in Nat \ {0} /\ g.op \in DOMAIN Code /\ g.at \in 1 .. Len(Code[g.op]) /\ Len(Code[g.op]) \in Nat
  BY OnFacts, EverySound DEF Body, Sound
<1>2. g.at - 1 \in Nat \ {0} /\ g.at - 1 \in 1 .. Len(Code[g.op])
  BY <1>1
<1>3. p \in Placed /\ p.op = g.op /\ p.at = g.at - 1
  BY <1>1, <1>2 DEF Placed, Frames
<1> QED BY <1>3 DEF Step, Before, Body

\* Behind a call nothing is known to be there.
LEMMA NotAtHand ==
  ASSUME NEW g \in Placed, g.op # "user", g.at > 1, NEW op \in DOMAIN Code, MayServe(Before(g), op),
         NEW w \in Things
  PROVE  ~AtHand(g, w)
<1> SUFFICES ASSUME AtHand(g, w) PROVE FALSE
  OBVIOUS
<1>1. g.at \in Nat
  BY OnFacts
<1>2. PICK i \in 1 .. g.at - 1 : Shown(Body(g), i, w) /\ \A j \in i + 1 .. g.at - 1 : Body(g)[j] \in Keeping
  BY DEF AtHand, There
<1>3. Before(g) \in {"or_fail"} \cup Uses(w) \cup Keeping
  <2>1. CASE i = g.at - 1
    BY <1>2, <2>1 DEF Shown, Before
  <2>2. CASE i # g.at - 1
    <3>1. g.at - 1 \in i + 1 .. g.at - 1
      BY <1>1, <2>2
    <3> QED BY <1>2, <3>1 DEF Before
  <2> QED BY <2>1, <2>2
<1>4. Before(g) \in {"or_fail", "status_value", "record", "compare", "stats_value", "lock", "if_playing",
                     "drop_old_song", "clear_error", "stats_if_stopped"}
      /\ (Before(g) = "stats_if_stopped" => ~DbUpdates)
  BY <1>3 DEF Uses, UsesStatus, Keeping
<1>5. Before(g) \notin DOMAIN Code
  <2>1. Before(g) \in Steps
    BY <1>4 DEF Steps, Steady, HeldSteps, Tests
  <2> QED BY <2>1, StepNames
<1>6. "check_error" \in DOMAIN Code
  BY FunctionNames
<1>7. \A o \in DOMAIN Code : ~MayCall(Before(g), o)
  BY <1>4, <1>5 DEF MayCall
<1> QED BY <1>6, <1>7 DEF MayServe

\* What is known to be there one step on.
LEMMA AtHandFacts ==
  ASSUME NEW f \in Placed, f.op # "user", NEW w, AtHand(On(f, 1), w)
  PROVE  Shown(Body(f), f.at, w) \/ (AtHand(f, w) /\ Step(f) \in Keeping)
<1>1. f.at \in Nat \ {0} /\ On(f, 1).op = f.op /\ On(f, 1).at = f.at + 1 /\ Body(On(f, 1)) = Body(f)
  BY OnFacts
<1>2. (f.at + 1) - 1 = f.at
  BY <1>1
<1>3. PICK i \in 1 .. f.at : Shown(Body(f), i, w) /\ \A j \in i + 1 .. f.at : Body(f)[j] \in Keeping
  BY <1>1, <1>2 DEF AtHand, There
<1>4. CASE i = f.at
  BY <1>3, <1>4
<1>5. CASE i # f.at
  <2>1. i \in 1 .. f.at - 1 /\ f.at \in i + 1 .. f.at /\ \A j \in i + 1 .. f.at - 1 : j \in i + 1 .. f.at
    BY <1>1, <1>5
  <2>2. AtHand(f, w)
    BY <1>3, <2>1 DEF AtHand, There
  <2> QED BY <1>3, <2>1, <2>2 DEF Step
<1> QED BY <1>4, <1>5

\* What the end of mpd_status_update does.
LEMMA WatchingSteps ==
  ASSUME NEW f \in Placed, f.op = "status_update", f.at >= 10
  PROVE  Step(f) \in {"watch", "stats_if_database", "signal_status", "connected", "return"}
         /\ (f.at = 10 => Step(f) = "watch")
<1>1. f.at \in 1 .. Len(Code["status_update"]) /\ Step(f) = Code["status_update"][f.at] /\ Code["status_update"] = StatusUpdate
  BY OnFacts, Bodies DEF Body, Step
<1> QED BY <1>1 DEF StatusUpdate

\* A step leaves the status that mpd_status_update watches.
LEMMA StatusKept ==
  ASSUME NEW f, NEW s, NEW g, NEW h, Works(f, s, g, h), Treats,
         Watches(f) \/ Watching(s), connected'
  PROVE  status' # "none"
<1>1. /\ f \in Placed /\ f.op # "user" /\ Here = Step(f) /\ f.at \in Nat
      /\ Watching(s) => f.op \in Quiet
      /\ connected => status # "none"
  BY WorksFacts
<1>2. Step(f) \notin {"fetch_status", "forget_status", "accept"}
  <2>1. CASE Watches(f)
    BY <1>1, <2>1, WatchingSteps DEF Watches
  <2>2. CASE Watching(s)
    BY <1>1, <2>2, CarefulFacts, StepFacts DEF Quiet
  <2> QED BY <2>1, <2>2
<1>3. Here # "close" /\ connected
  BY <1>1, <1>2 DEF Treats
<1>4. "status" \in Things /\ Has("status") /\ Here \notin Drops("status")
  BY <1>1, <1>2, <1>3 DEF Things, Has, Drops, Fetch
<1>5. Has("status")'
  BY <1>4 DEF Treats
<1> QED BY <1>5 DEF Has

\* A function goes on: what it knows one step on.
LEMMA ForwardKnows ==
  ASSUME NEW f, NEW s, NEW g, NEW h, Works(f, s, g, h), Forward, Treats, NEW w \in Things
  PROVE  KnowsOf(h, g, w)'
<1>1. /\ f \in Placed /\ f.op # "user" /\ f.at \in Nat \ {0}
      /\ h.op = f.op /\ h.at = f.at + 1 /\ Body(h) = Body(f) /\ Before(h) = Step(f) /\ h = On(f, 1)
      /\ Here = Step(f) /\ Knows(f, g)
  BY WorksFacts
<1>2. KnowsOf(f, g, w)
  BY <1>1 DEF Knows
<1>3. Has(w) /\ Here \notin Drops(w) => Has(w)'
  BY DEF Treats
<1>4. /\ Here \notin DOMAIN Code \cup Ends \cup {"unlock"}
      /\ Here = "need_status" => Has("status")
      /\ Here = "need_stats" => Has("stats")
      /\ Here \in {"or_fail", "ask_again"} => result = "ok"
      /\ Here = "look" => conn # None /\ conn.error = "NONE"
      /\ Here \in Uses(w) => Has(w)
      /\ Here = Fetch(w) /\ conn'.error = "NONE" => Has(w)'
  BY DEF Forward
<1>5. AtHand(h, w) => Has(w)'
  <2> SUFFICES ASSUME AtHand(h, w) PROVE Has(w) /\ Here \notin Drops(w)
    BY <1>3
  <2>1. Shown(Body(f), f.at, w) \/ (AtHand(f, w) /\ Step(f) \in Keeping)
    BY <1>1, AtHandFacts
  <2>2. CASE AtHand(f, w) /\ Step(f) \in Keeping
    BY <1>1, <1>2, <2>2 DEF KnowsOf, Keeping, Drops, Fetch
  <2>3. CASE Step(f) = "or_fail" /\ f.at > 1 /\ Before(f) \in Asking(w)
    BY <1>1, <1>2, <1>4, <2>3 DEF KnowsOf, Drops, Fetch
  <2>4. CASE Step(f) = "or_fail" /\ f.at > 2 /\ Before(f) = "unlock" /\ Body(f)[f.at - 2] = Fetch(w)
    BY <1>1, <1>2, <1>4, <2>4 DEF KnowsOf, Drops, Fetch, Looked
  <2>5. CASE Step(f) \in Uses(w)
    BY <1>1, <1>4, <2>5 DEF Uses, UsesStatus, Drops, Fetch
  <2> QED BY <2>1, <2>2, <2>3, <2>4, <2>5 DEF Shown, Before, Step
<1>6. Step(f) \in Asking(w) => Has(w)'
  <2> SUFFICES ASSUME Step(f) \in Asking(w) PROVE Has(w) /\ Here \notin Drops(w)
    BY <1>3
  <2>1. {"status_check", "player_get_state", "stats_check"} \subseteq DOMAIN Code
    BY FunctionNames DEF Code
  <2>2. Step(f) \in {"need_status", "ask_again", "need_stats"} /\ Here \notin Drops(w)
    BY <1>1, <1>4, <2>1 DEF Asking, Drops, Fetch
  <2>3. CASE Step(f) = "ask_again"
    <3>1. f.at > 1 /\ Before(f) = "player_get_state" /\ result = "ok" /\ "player_get_state" \in Asking(w)
      BY <1>1, <1>4, <2>3, CarefulFacts DEF Asking
    <3> QED BY <1>1, <1>2, <2>2, <3>1 DEF KnowsOf
  <2>4. CASE Step(f) # "ask_again"
    <3>1. (Step(f) = "need_status" /\ w = "status") \/ (Step(f) = "need_stats" /\ w = "stats")
      BY <2>2, <2>4 DEF Asking, Things
    <3> QED BY <1>1, <1>4, <2>2, <3>1
  <2> QED BY <2>3, <2>4
<1>7. ~Looked(h, w)
  BY <1>1, <1>4 DEF Looked
<1>8. h.op = "check_error" /\ Looked(g, w) => Has(w)'
  <2> SUFFICES ASSUME f.op = "check_error", Looked(g, w) PROVE Has(w) /\ Here \notin Drops(w)
    BY <1>1, <1>3
  <2>1. Here = "look"
    BY <1>1, <1>4, NamedSteps DEF Ends
  <2> QED BY <1>1, <1>2, <1>4, <2>1 DEF KnowsOf, Drops, Fetch
<1>9. h.op # "user" /\ (Before(h) = Fetch(w) /\ conn'.error = "NONE" => Has(w)')
      /\ (Before(h) \in Asking(w) => Has(w)')
  BY <1>1, <1>4, <1>6
<1>10. /\ AtHand(h, w)' <=> AtHand(h, w)
       /\ Looked(h, w)' <=> Looked(h, w)
       /\ Looked(g, w)' <=> Looked(g, w)
  BY DEF AtHand, Looked
<1> QED BY <1>5, <1>7, <1>8, <1>9, <1>10 DEF KnowsOf

\* The invariant is kept: a function goes on.
LEMMA ForwardKeeps ==
  ASSUME NEW f, NEW s, NEW g, NEW h, Works(f, s, g, h), Forward, Treats
  PROVE  Mindful(stack)'
<1>1. /\ f \in Placed /\ f.op # "user" /\ f.at \in Nat \ {0} /\ g \in Placed
      /\ h.op = f.op /\ h.at = f.at + 1 /\ Body(h) = Body(f) /\ Before(h) = Step(f) /\ h = On(f, 1)
      /\ s \in Seq(Placed) /\ s # <<>> /\ g = Head(s) /\ Here = Step(f) /\ Rest = s /\ Next1 = h
      /\ Orderly(s) /\ Follows(f, g) /\ (Watching(s) => f.op \in Quiet)
      /\ Len(s) > 1 => Aided(s) /\ (Caller(s) \in SendOne => f.op \in Helpers)
      /\ g.op = "user" => Len(s) = 1
      /\ Dirty => Cleaner(f)
      /\ Knows(f, g) /\ Known /\ Typed
  BY WorksFacts
<1>2. /\ Here \notin DOMAIN Code \cup Ends \cup {"unlock"}
      /\ stack' = Cons(h, s)
      /\ Here = "leave" => ~connected
      /\ Here = "close" => conn' = None
      /\ Here = "look" => conn # None /\ conn.error = "NONE"
  BY <1>1 DEF Forward
<1>3. h \in Placed
  BY <1>1, <1>2, StepFacts
<1>4. Follows(h, g)
  BY <1>1 DEF Follows
<1>5. (Watches(h) \/ Watching(s)) /\ connected' => status' # "none"
  <2> SUFFICES ASSUME Watches(h) \/ Watching(s), connected' PROVE status' # "none"
    OBVIOUS
  <2>1. CASE Watches(f) \/ Watching(s)
    BY <2>1, StatusKept
  <2>2. CASE ~(Watches(f) \/ Watching(s))
    <3>1. f.op = "status_update" /\ f.at = 10
      BY <1>1, <2>2 DEF Watches
    <3>2. Here = "watch" /\ AtHand(f, "status")
      BY <1>1, <3>1, WatchingSteps, CarefulFacts
    <3>3. Has("status") /\ Here \notin Drops("status")
      BY <1>1, <3>2 DEF Knows, KnowsOf, Things, Drops, Fetch
    <3> QED BY <3>3 DEF Treats, Has, Things
  <2> QED BY <2>1, <2>2
<1>6. Knows(h, g)'
  <2>1. h.op \in {"connect", "disconnect"} /\ h.at = 2 => conn' = None
    <3> SUFFICES ASSUME f.op \in {"connect", "disconnect"}, f.at = 1 PROVE conn' = None
      BY <1>1
    <3>1. CASE f.op = "disconnect"
      BY <1>1, <1>2, <3>1, Bodies DEF Step, Body
    <3>2. CASE f.op = "connect"
      <4>1. Step(f) = "leave"
        BY <1>1, <3>2, Bodies DEF Step, Body, Connect
      <4>2. ~connected
        BY <1>1, <1>2, <4>1
      <4>3. g.op = "user"
        <5> SUFFICES ASSUME g.op # "user" PROVE FALSE
          OBVIOUS
        <5>1. g.at > 1 /\ MayServe(Before(g), "connect")
          BY <1>1, <3>2 DEF Follows
        <5>2. PICK p \in Placed : p.op # "user" /\ Step(p) = Before(g)
          BY <1>1, <5>1, BeforeFacts
        <5>3. Before(g) # "connect"
          BY <5>2, CarefulFacts
        <5> QED BY <5>1, <5>3 DEF MayServe, MayCall
      <4>4. ~Opening(s)
        <5>1. Len(s) = 1
          BY <1>1, <4>3
        <5> QED BY <5>1 DEF Opening
      <4>5. conn = None
        <5>1. Odd => Pausing(s) \/ Opening(s) \/ Opens(f, g) \/ SeesToIt(f)
          BY RunsFacts DEF Works
        <5>2. Pausing(s) => connected
          BY RunsFacts DEF Works
        <5>3. ~Opens(f, g)
          BY <3>2 DEF Opens
        <5>4. ~SeesToIt(f)
          <6>1. f.at \in 1 .. Len(Body(f)) /\ Sound(f.op, Body(f))
            BY <1>1, OnFacts
          <6>2. ~Holds(Body(f), 1)
            BY <3>2, <6>1 DEF Sound
          <6> QED BY <4>1, <6>2 DEF SeesToIt, Holder
        <5> QED BY <4>2, <4>4, <5>1, <5>2, <5>3, <5>4 DEF Odd
      <4>6. Here = "leave"
        BY <1>1, <4>1
      <4> QED BY <4>5, <4>6 DEF Treats, Commands, Exchanges, ListSteps
    <3> QED BY <3>1, <3>2
  <2>2. \A w \in Things : KnowsOf(h, g, w)'
    BY ForwardKnows
  <2> QED BY <2>1, <2>2 DEF Knows
<1>7. LateIsLast' /\ (Dirty' => (Dirty /\ conn' = conn) \/ (Here \in Exchanges /\ Cleans(Body(f), f.at + 1)))
  BY ConnKeeps
<1>8. Dirty' => Cleaner(h)
  <2> SUFFICES ASSUME Dirty' PROVE Cleaner(h)
    OBVIOUS
  <2>1. CASE Cleans(Body(f), f.at + 1)
    BY <1>1, <2>1 DEF Cleaner
  <2>2. CASE Dirty /\ conn' = conn
    <3>1. "disconnect" \in DOMAIN Code
      BY FunctionNames
    <3>2. Here # "look" /\ Here # "close"
      BY <1>2, <2>2 DEF Dirty
    <3>3. Cleans(Body(f), f.at + 1) \/ (f.op = "fatal_error" /\ f.at = 1)
      BY <1>1, <1>2, <2>2, <3>1, <3>2, CleanerFacts
    <3> QED BY <1>1, <3>3 DEF Cleaner
  <2> QED BY <1>7, <2>1, <2>2
<1> QED BY <1>1, <1>2, <1>3, <1>4, <1>5, <1>6, <1>7, <1>8, Running

\* A function that begins knows nothing, but for mpd_check_error what the
\* function that called it saw of the connection.
LEMMA FirstKnows ==
  ASSUME NEW k \in Placed, k.at = 1, NEW g,
         \A w \in Things : k.op = "check_error" /\ Looked(g, w) /\ conn'.error = "NONE" => Has(w)'
  PROVE  Knows(k, g)'
<1>1. ASSUME NEW w \in Things PROVE KnowsOf(k, g, w)'
  <2>1. ~AtHand(k, w)
    BY DEF AtHand, There
  <2>2. ~Looked(k, w) /\ ~(k.at > 1) /\ k.at # 2
    BY DEF Looked
  <2>3. /\ AtHand(k, w)' <=> AtHand(k, w)
        /\ Looked(k, w)' <=> Looked(k, w)
        /\ Looked(g, w)' <=> Looked(g, w)
    BY DEF AtHand, Looked
  <2> QED BY <2>1, <2>2, <2>3 DEF KnowsOf
<1> QED BY <1>1 DEF Knows

\* Steps that call something, and which function that may be.
LEMMA NoCall ==
  ASSUME NEW step \in Steps, NEW op \in DOMAIN Code, MayServe(step, op)
  PROVE  /\ step \in {"unlock", "obey", "leave", "need_status", "need_stats", "stats_if_database", "stats_if_stopped", "ask_again"}
         /\ step = "unlock" => op \in {"check_error", "ack_error", "fatal_error"}
         /\ step = "unlock" /\ MayCall(step, op) => op = "check_error"
         /\ step \in {"obey", "leave"} => op = "disconnect"
         /\ step = "need_status" => op = "status_update"
         /\ step = "need_stats" => op = "stats_update"
         /\ step = "ask_again" => op = "player_get_state"
         /\ step = "stats_if_database" => op \in {"stats_update_real", "server_update_outputs"}
<1>1. step \notin DOMAIN Code /\ "check_error" \in DOMAIN Code
  BY StepNames, FunctionNames
<1> QED BY <1>1 DEF MayServe, MayCall

\* A function calls another.
LEMMA CallsUpKeeps ==
  ASSUME NEW f, NEW s, NEW g, NEW h, Works(f, s, g, h), CallsUp
  PROVE  Mindful(stack)'
<1>1. /\ f \in Placed /\ f.op # "user" /\ f.op \in DOMAIN Code /\ f.at \in Nat \ {0} /\ g \in Placed
      /\ h.op = f.op /\ h.at = f.at + 1 /\ Body(h) = Body(f) /\ Before(h) = Step(f) /\ h = On(f, 1)
      /\ s \in Seq(Placed) /\ s # <<>> /\ g = Head(s) /\ Here = Step(f) /\ Rest = s /\ Next1 = h
      /\ Orderly(s) /\ Follows(f, g) /\ (Watching(s) => f.op \in Quiet)
      /\ Len(s) > 1 => Aided(s) /\ (Caller(s) \in SendOne => f.op \in Helpers)
      /\ Len(s) \in Nat /\ Len(s) > 0
      /\ (Watches(f) \/ Watching(s)) /\ connected => status # "none"
      /\ Dirty => Cleaner(f)
      /\ Knows(f, g) /\ LateIsLast
  BY WorksFacts
<1>2. PICK op \in DOMAIN Code : MayCall(Step(f), op) /\ stack' = Cons(Frame(op), Cons(h, s))
  BY <1>1 DEF CallsUp
<1>3. conn' = conn /\ connected' = connected /\ status' = status /\ cache' = cache
  BY DEF CallsUp
<1>4. Step(f) \notin Ends
  BY <1>2, StepNames DEF MayCall, Ends, Steps
<1>5. h \in Placed
  BY <1>1, <1>4, StepFacts
<1> DEFINE k == Frame(op)
           t == Cons(h, s)
<1>6. k \in Placed /\ k.op = op /\ k.at = 1 /\ op # "user"
  BY FrameFacts, FunctionNames
<1>7. t \in Seq(Placed) /\ t # <<>> /\ h = Head(t) /\ Len(t) = Len(s) + 1
  BY <1>1, <1>5, ConsProperties
<1>8. /\ Watching(t) <=> Watches(h) \/ Watching(s)
      /\ Orderly(t)
      /\ Len(s) = 1 => Caller(t) = f.op /\ Aided(t)
      /\ Len(s) > 1 => /\ Caller(t) = Caller(s)
                       /\ Aided(t) <=> Aided(s) /\ (Caller(s) \in SendOne => f.op \in Helpers)
  <2>1. Follows(h, g)
    BY <1>1 DEF Follows
  <2> QED BY <1>1, <1>5, <2>1, MoreFacts
<1> HIDE DEF k, t
<1>9. Follows(k, h)
  BY <1>1, <1>2, <1>6 DEF Follows, MayServe
<1>10. Watches(h) => Watches(f) /\ op \in Quiet
  <2> SUFFICES ASSUME Watches(h) PROVE Watches(f) /\ op \in Quiet
    OBVIOUS
  <2>1. f.op = "status_update" /\ f.at >= 10
    BY <1>1 DEF Watches
  <2>2. Step(f) \in {"watch", "stats_if_database", "signal_status", "connected", "return"}
        /\ (f.at = 10 => Step(f) = "watch")
    BY <1>1, <2>1, WatchingSteps
  <2>3. Step(f) \in Steps
    BY <2>2 DEF Steps, Ends, Tests
  <2>4. Step(f) = "stats_if_database" /\ op \in {"stats_update_real", "server_update_outputs"}
    BY <1>2, <2>2, <2>3, NoCall DEF MayServe
  <2>5. f.at # 10
    BY <2>2, <2>4
  <2> QED BY <1>1, <2>1, <2>4, <2>5 DEF Watches, Quiet
<1>11. Watching(s) => op \in Quiet
  BY <1>1, <1>2, HelpersCall
<1>12. ~Watches(k)
  BY <1>6 DEF Watches
<1>13. Knows(k, h)'
  <2>1. ASSUME NEW w \in Things, op = "check_error", Looked(h, w), conn'.error = "NONE" PROVE Has(w)'
    <3>1. f.at > 1 /\ Before(f) = Fetch(w)
      BY <1>1, <2>1 DEF Looked, Before
    <3>2. Has(w)
      BY <1>1, <1>3, <2>1, <3>1 DEF Knows, KnowsOf
    <3> QED BY <1>3, <3>2 DEF Has
  <2> QED BY <1>6, <2>1, FirstKnows
<1>14. LateIsLast' /\ (Dirty' => Cleaner(k))
  <2>1. LateIsLast' /\ (Dirty' => Cleaner(f))
    BY <1>1, <1>3 DEF LateIsLast, Dirty
  <2>2. ASSUME Cleaner(f) PROVE op \in {"check_error", "disconnect"}
    <3>1. CASE Step(f) = "disconnect"
      <4>1. "disconnect" \notin Steps
        BY FunctionNames, StepNames
      <4> QED BY <1>2, <3>1 DEF MayCall
    <3>2. CASE Step(f) # "disconnect"
      <4>1. Step(f) \in {"unlock", "forgive", "name_exists", "look", "close", "error_callback"}
        BY <1>1, <2>2, <3>2, CleanerFacts
      <4>2. Step(f) \in Steps
        BY <4>1 DEF Steps, Steady, HeldSteps, Tests, Special
      <4> QED BY <1>2, <4>1, <4>2, NoCall DEF MayServe
    <3> QED BY <3>1, <3>2
  <2> QED BY <1>6, <2>1, <2>2 DEF Cleaner
<1>15. Aided(t) /\ (Caller(t) \in SendOne => op \in Helpers)
  <2>1. CASE Len(s) = 1
    BY <1>1, <1>2, <1>8, <2>1, SendOneFacts
  <2>2. CASE Len(s) > 1
    BY <1>1, <1>2, <1>8, <2>2, HelpersCall
  <2> QED BY <1>1, <2>1, <2>2, OneOrMore
<1>16. stack' = Cons(k, t)
  BY <1>2 DEF k, t
<1> QED BY <1>1, <1>3, <1>6, <1>7, <1>8, <1>9, <1>10, <1>11, <1>12, <1>13, <1>14, <1>15, <1>16, Running

\* A function goes on as another.
LEMMA TurnsIntoKeeps ==
  ASSUME NEW f, NEW s, NEW g, NEW h, Works(f, s, g, h), TurnsInto, Treats
  PROVE  Mindful(stack)'
<1>1. /\ f \in Placed /\ f.op # "user" /\ f.op \in DOMAIN Code /\ f.at \in Nat \ {0} /\ g \in Placed
      /\ s \in Seq(Placed) /\ s # <<>> /\ g = Head(s) /\ Here = Step(f) /\ Rest = s
      /\ Orderly(s) /\ Follows(f, g)
      /\ Len(s) > 1 => Aided(s)
      /\ g.op = "user" => Len(s) = 1
      /\ Typed /\ Known
  BY WorksFacts
<1>2. PICK op \in DOMAIN Code :
        /\ stack' = Cons(Frame(op), s)
        /\ \/ Here = "look" /\ conn # None /\ op = "ack_error" /\ conn' = Cleared
           \/ Here = "look" /\ conn # None /\ op = "fatal_error" /\ conn' = conn
           \/ Here \in {"load_failed", "name_exists"} /\ op = "ends_as_failed" /\ conn' = Cleared
  BY <1>1 DEF TurnsInto
<1> DEFINE k == Frame(op)
<1>3. k \in Placed /\ k.op = op /\ k.at = 1 /\ op # "user"
  BY FrameFacts, FunctionNames
<1>4. Here = "look" => op \in Quiet \cap Helpers
  BY <1>2 DEF Quiet, Helpers
<1> HIDE DEF k
<1>5. Here # "look" => g.op = "user" /\ Len(s) = 1
  <2> SUFFICES ASSUME Here # "look", g.op # "user" PROVE FALSE
    BY <1>1
  <2>1. f.op \in {"playlist_load", "database_save_playlist"}
    BY <1>1, <1>2, StepFacts
  <2>2. g.at > 1 /\ MayServe(Before(g), f.op)
    BY <1>1 DEF Follows
  <2>3. PICK p \in Placed : p.op # "user" /\ Step(p) = Before(g)
    BY <1>1, <2>2, BeforeFacts
  <2>4. Before(g) \notin {"playlist_load", "database_save_playlist"}
    BY <2>3, CarefulFacts
  <2> QED BY <2>1, <2>2, <2>4 DEF MayServe, MayCall
<1>6. Follows(k, g)
  <2>1. CASE Here = "look"
    <3>1. f.op = "check_error" /\ op \in {"ack_error", "fatal_error"}
      BY <1>1, <1>2, <2>1, StepFacts
    <3> QED BY <1>1, <1>3, <3>1 DEF Follows, MayServe
  <2>2. CASE Here # "look"
    BY <1>5, <2>2 DEF Follows
  <2> QED BY <2>1, <2>2
<1>7. Len(s) = 1 /\ g.op = "user" => ~Watching(s)
  BY <1>1 DEF Watching, Watches
<1>8. Watching(s) => op \in Quiet
  BY <1>4, <1>5, <1>7
<1>9. ~Watches(k)
  BY <1>3 DEF Watches
<1>10. Watching(s) /\ connected' => status' # "none"
  BY StatusKept
<1>11. Knows(k, g)'
  BY <1>2, <1>3, FirstKnows
<1>12. LateIsLast'
  BY ConnKeeps
<1>13. Dirty' => Cleaner(k)
  <2>1. CASE conn' = Cleared
    <3>1. conn # None
      <4>1. Here \in {"load_failed", "name_exists"} => conn # None
        <5>1. IInv /\ stack # <<>>
          BY DEF Works, Runs
        <5> QED BY <5>1, HereFacts
      <4> QED BY <1>2, <4>1
    <3>2. conn'.error = "NONE"
      BY <1>1, <2>1, <3>1 DEF Cleared, Typed, Connections
    <3> QED BY <3>2 DEF Dirty
  <2>2. CASE op = "fatal_error"
    BY <1>3, <2>2 DEF Cleaner
  <2> QED BY <1>2, <2>1, <2>2
<1>14. Len(s) > 1 => Aided(s) /\ (Caller(s) \in SendOne => op \in Helpers)
  <2>1. Len(s) = 1 => ~(Len(s) > 1)
    OBVIOUS
  <2> QED BY <1>1, <1>4, <1>5, <2>1
<1>15. stack' = Cons(k, s)
  BY <1>2 DEF k
<1> QED BY <1>1, <1>3, <1>6, <1>8, <1>9, <1>10, <1>11, <1>12, <1>13, <1>14, <1>15, Running

\* What a function that succeeded has seen to, when it returns.
LEMMA SucceedsFacts ==
  ASSUME NEW f, NEW s, NEW g, NEW h, Works(f, s, g, h), Step(f) \in Successes
  PROVE  /\ f.op \in Confirming \cup {"status_update"} => Has("status")
         /\ f.op \in Counting => Has("stats")
<1>1. /\ f \in Placed /\ f.op # "user" /\ f.at \in Nat \ {0} /\ Knows(f, g) /\ IsSure(f, g)
      /\ (Watches(f) \/ Watching(s)) /\ connected => status # "none"
  BY WorksFacts
<1>2. "status" \in Things /\ "stats" \in Things
  BY DEF Things
<1>3. f.op \in Confirming => Has("status")
  BY <1>1, <1>2, CarefulFacts DEF Knows, KnowsOf
<1>4. f.op \in Counting => Has("stats")
  BY <1>1, <1>2, CarefulFacts DEF Knows, KnowsOf
<1>5. ASSUME f.op = "status_update" PROVE Has("status")
  <2>1. connected
    BY <1>1, <1>5, NamedSteps DEF IsSure
  <2>2. f.at > 10
    <3>1. f.at \in 1 .. Len(Code["status_update"]) /\ Step(f) = Code["status_update"][f.at] /\ Code["status_update"] = StatusUpdate
      BY <1>1, <1>5, OnFacts, Bodies DEF Body, Step
    <3> QED BY <3>1 DEF StatusUpdate, Successes
  <2> QED BY <1>1, <1>5, <2>1, <2>2 DEF Watches, Has
<1> QED BY <1>3, <1>4, <1>5

\* A function returns.
LEMMA GoesBackKeeps ==
  ASSUME NEW f, NEW s, NEW g, NEW h, Works(f, s, g, h), GoesBack
  PROVE  Mindful(stack)'
<1>1. /\ f \in Placed /\ f.op # "user" /\ f.op \in DOMAIN Code /\ f.at \in Nat \ {0} /\ g \in Placed
      /\ s \in Seq(Placed) /\ s # <<>> /\ g = Head(s) /\ Here = Step(f) /\ Rest = s
      /\ Orderly(s) /\ Follows(f, g)
      /\ (Watches(f) \/ Watching(s)) /\ connected => status # "none"
      /\ Len(s) > 1 => Aided(s)
      /\ Dirty => Cleaner(f)
      /\ Knows(f, g) /\ LateIsLast
  BY WorksFacts
<1>2. /\ Step(f) \in Ends \cup Tests /\ stack' = s
      /\ result' = "ok" => Step(f) \in Successes
      /\ Step(f) = "look" => conn = None
      /\ connected' = connected /\ conn' = conn /\ status' = status /\ cache' = cache
  BY <1>1 DEF GoesBack, data
<1>3. Orderly(stack)' /\ (Watching(stack) /\ connected => status # "none")'
  BY <1>1, <1>2
<1>4. Aided(stack)'
  BY <1>1, <1>2 DEF Aided
<1>5. LateIsLast' /\ ~Dirty'
  <2>1. Dirty => Step(f) # "look"
    BY <1>2 DEF Dirty
  <2>2. "disconnect" \notin Ends \cup Tests
    BY DEF Ends, Tests
  <2>3. Cleaner(f) => Step(f) = "look"
    BY <1>1, <1>2, <2>2, CleanerFacts DEF Ends, Tests
  <2> QED BY <1>1, <1>2, <2>1, <2>3 DEF Dirty, LateIsLast
<1> DEFINE e == Head(Tail(s))
<1>6. Knows(g, e)'
  <2>1. CASE g.op = "user"
    BY <2>1 DEF Knows, KnowsOf
  <2>2. CASE g.op # "user"
    <3>1. g.at > 1 /\ MayServe(Before(g), f.op) /\ Links(f, g) /\ Before(g) \notin Steady
      <4>1. Links(f, g)
        BY RunsFacts DEF Works
      <4> QED BY <1>1, <2>2, <4>1 DEF Follows, Links
    <3>2. g.op # "check_error"
      BY <1>1, <2>2, <3>1, BackFacts
    <3>3. g.op \in {"connect", "disconnect"} /\ g.at = 2 => conn' = None
      <4> SUFFICES ASSUME g.op \in {"connect", "disconnect"}, g.at = 2 PROVE conn = None
        BY <1>2
      <4>1. Before(g) \in {"leave", "close"}
        BY Bodies DEF Before, Body, Connect
      <4>2. Before(g) \in Steps
        BY <4>1 DEF Steps, Special
      <4>3. f.op = "disconnect"
        BY <1>1, <3>1, <4>1, <4>2, NoCall
      <4>4. f.at \in 1 .. 2 /\ (f.at = 1 => Step(f) = "close")
        <5>1. f.at \in 1 .. Len(Body(f)) /\ Body(f) = <<"close", "return">>
          BY <1>1, <4>3, OnFacts, Bodies DEF Body
        <5> QED BY <5>1 DEF Step
      <4>5. f.at = 2
        BY <1>2, <4>4 DEF Ends, Tests
      <4> QED BY <1>1, <4>3, <4>5 DEF Knows
    <3>4. ASSUME NEW w \in Things PROVE KnowsOf(g, e, w)'
      <4>1. ~AtHand(g, w)
        BY <1>1, <2>2, <3>1, NotAtHand
      <4>2. Has(w)' <=> Has(w)
        BY <1>2 DEF Has
      <4>3. ASSUME Before(g) \in Asking(w), result' = "ok" PROVE Has(w)
        <5>1. Step(f) \in Successes
          BY <1>2, <4>3
        <5>2. {"need_status", "ask_again", "need_stats"} \subseteq Steps
          BY DEF Steps
        <5>3. Before(g) \in {"status_check", "player_get_state", "stats_check"} => f.op = Before(g)
          BY <3>1 DEF MayServe, MayCall
        <5>4. Before(g) \in {"need_status", "ask_again"} => f.op \in {"status_update", "player_get_state"}
          BY <1>1, <3>1, <5>2, NoCall
        <5>5. Before(g) = "need_stats" => f.op = "stats_update"
          BY <1>1, <3>1, <5>2, NoCall
        <5>6. \/ w = "status" /\ f.op \in Confirming \cup {"status_update"}
              \/ w = "stats" /\ f.op \in Counting
          BY <4>3, <5>3, <5>4, <5>5 DEF Asking, Things, Confirming, Counting
        <5> QED BY <5>1, <5>6, SucceedsFacts
      <4>4. Before(g) # Fetch(w)
        <5> SUFFICES ASSUME Before(g) = Fetch(w) PROVE FALSE
          OBVIOUS
        <5>1. Before(g) \in Steps /\ Before(g) \in {"fetch_status", "fetch_stats"}
          BY DEF Fetch, Steps, Steady, HeldSteps, Exchanges
        <5> QED BY <1>1, <3>1, <5>1, NoCall
      <4>5. ASSUME Looked(g, w), result' = "ok" PROVE Has(w)
        <5>1. Before(g) = "unlock" /\ "unlock" \in Steps
          BY <4>5 DEF Looked, Steps, Special
        <5>2. f.op \in {"check_error", "ack_error", "fatal_error"}
          BY <1>1, <3>1, <5>1, NoCall
        <5>3. Step(f) \in Successes
          BY <1>2, <4>5
        <5>4. f.op = "check_error" /\ f.at = 2
          BY <1>1, <5>2, <5>3, NamedSteps DEF Successes
        <5> QED BY <1>1, <4>5, <5>4 DEF Knows, KnowsOf
      <4>6. AtHand(g, w)' <=> AtHand(g, w)
        BY DEF AtHand
      <4>7. Looked(g, w)' <=> Looked(g, w)
        BY DEF Looked
      <4> QED BY <3>2, <4>1, <4>2, <4>3, <4>4, <4>5, <4>6, <4>7 DEF KnowsOf
    <3> QED BY <3>3, <3>4 DEF Knows
  <2> QED BY <2>1, <2>2
<1>7. Knows(Head(stack), Head(Tail(stack)))'
  <2>1. ASSUME NEW p, NEW q, p = Head(stack)', q = Head(Tail(stack))', Knows(p, q)'
        PROVE  Knows(Head(stack), Head(Tail(stack)))'
    BY <2>1 DEF Knows, KnowsOf, AtHand, Looked
  <2> QED BY <1>1, <1>2, <1>6, <2>1
<1> QED BY <1>3, <1>4, <1>5, <1>7 DEF Mindful

\* mpd_status_update asks for the outputs itself.
LEMMA SkipsTwoKeeps ==
  ASSUME NEW f, NEW s, NEW g, NEW h, Works(f, s, g, h), SkipsTwo, Treats
  PROVE  Mindful(stack)'
<1>1. /\ f \in Placed /\ f.op # "user" /\ f.op \in DOMAIN Code /\ f.at \in Nat \ {0} /\ g \in Placed
      /\ s \in Seq(Placed) /\ s # <<>> /\ g = Head(s) /\ Here = Step(f) /\ Rest = s /\ Top = f
      /\ Orderly(s) /\ Follows(f, g) /\ (Watching(s) => f.op \in Quiet)
      /\ Len(s) > 1 => Aided(s) /\ (Caller(s) \in SendOne => f.op \in Helpers)
      /\ Len(s) \in Nat /\ Len(s) > 0
      /\ Dirty => Cleaner(f)
      /\ Knows(f, g)
  BY WorksFacts
<1> DEFINE i == On(f, 2)
           k == Frame("server_update_outputs")
           t == Cons(i, s)
<1>2. Step(f) = "watch" /\ (stack' = t \/ stack' = Cons(k, t))
  BY <1>1 DEF SkipsTwo
<1>3. f.op = "status_update" /\ f.at = 10
  BY <1>1, <1>2, StepFacts
<1>4. i \in Placed /\ i.op = f.op /\ i.at = 12 /\ Before(i) = "stats_if_database"
  BY <1>1, <1>2, <1>3, WatchFacts, OnFacts
<1>5. k \in Placed /\ k.op = "server_update_outputs" /\ k.at = 1
  BY FrameFacts, FunctionNames
<1>6. t \in Seq(Placed) /\ t # <<>> /\ i = Head(t) /\ Len(t) = Len(s) + 1
  BY <1>1, <1>4, ConsProperties
<1>7. Follows(i, g)
  BY <1>1, <1>4 DEF Follows
<1>8. /\ Watching(t) <=> Watches(i) \/ Watching(s)
      /\ Orderly(t)
      /\ Len(s) = 1 => Caller(t) = f.op /\ Aided(t)
      /\ Len(s) > 1 => /\ Caller(t) = Caller(s)
                       /\ Aided(t) <=> Aided(s) /\ (Caller(s) \in SendOne => f.op \in Helpers)
  BY <1>1, <1>3, <1>4, <1>7, MoreFacts
<1> HIDE DEF i, k, t
<1>9. connected' => status' # "none"
  <2>1. AtHand(f, "status") /\ "status" \in Things
    BY <1>1, <1>2, CarefulFacts DEF Things
  <2>2. Has("status") /\ Here \notin Drops("status")
    BY <1>1, <1>2, <2>1 DEF Knows, KnowsOf, Drops, Fetch
  <2> QED BY <2>1, <2>2 DEF Treats, Has
<1>10. LateIsLast' /\ ~Dirty'
  <2>1. ~Cleaner(f)
    BY <1>1, <1>2, <1>3, CleanerFacts
  <2> QED BY <1>1, <1>2, <2>1, ConnKeeps DEF Exchanges, ListSteps
<1>11. "server_update_outputs" \in DOMAIN Code /\ MayServe("stats_if_database", "server_update_outputs")
  BY FunctionNames DEF MayServe, MayCall
<1>12. CASE stack' = t
  <2>1. Knows(i, g)'
    <3>1. ASSUME NEW w \in Things PROVE KnowsOf(i, g, w)'
      <4>1. ~AtHand(i, w)
        BY <1>1, <1>4, <1>11, NotAtHand
      <4>2. Before(i) \notin Asking(w) \cup {Fetch(w)} /\ ~Looked(i, w) /\ i.op # "check_error"
        BY <1>3, <1>4 DEF Asking, Fetch, Looked
      <4>3. (AtHand(i, w)' <=> AtHand(i, w)) /\ (Looked(i, w)' <=> Looked(i, w))
        BY DEF AtHand, Looked
      <4> QED BY <4>1, <4>2, <4>3 DEF KnowsOf
    <3> QED BY <1>3, <1>4, <3>1 DEF Knows
  <2> QED BY <1>1, <1>4, <1>7, <1>9, <1>10, <1>12, <2>1, Running DEF t
<1>13. CASE stack' = Cons(k, t)
  <2>1. Follows(k, i)
    BY <1>4, <1>5, <1>11 DEF Follows
  <2>2. Knows(k, i)'
    BY <1>5, FirstKnows
  <2>3. k.op \in Quiet /\ k.op # "user"
    BY <1>5 DEF Quiet
  <2>4. Aided(t) /\ (Caller(t) \in SendOne => k.op \in Helpers)
    <3>1. f.op \notin SendOne /\ f.op \notin Helpers
      BY <1>1, <1>3, SendOneFacts DEF Helpers
    <3>2. CASE Len(s) = 1
      BY <1>8, <3>1, <3>2
    <3>3. CASE Len(s) > 1
      BY <1>1, <1>8, <3>1, <3>3
    <3> QED BY <1>1, <3>2, <3>3, OneOrMore
  <2> QED BY <1>5, <1>6, <1>8, <1>9, <1>10, <1>13, <2>1, <2>2, <2>3, <2>4, Running
<1> QED BY <1>2, <1>12, <1>13

\* The program calls a function.
LEMMA CallKeeps ==
  ASSUME IInv, stack # <<>>, Mindful(stack), CallOperation
  PROVE  Mindful(stack)'
<1>1. PICK op \in Operations : stack' = <<Frame(op)>> \o stack
  BY DEF CallOperation
<1>2. Top.op = "user" /\ connected' = connected /\ conn' = conn /\ status' = status
  BY DEF CallOperation, data
<1>3. op \in DOMAIN Code /\ op # "user" /\ op # "check_error"
  BY SessionAssumption, FunctionNames DEF Public, Internal
<1> DEFINE k == Frame(op)
<1>4. k \in Placed /\ k.op = op /\ k.at = 1
  BY <1>3, FrameFacts
<1>5. stack' = Cons(k, stack)
  BY <1>1 DEF Cons
<1> HIDE DEF k
<1> SUFFICES ASSUME NEW g, g = Top PROVE Mindful(stack)'
  OBVIOUS
<1> SUFFICES ASSUME NEW s, s = stack PROVE Mindful(stack)'
  OBVIOUS
<1>6. Orderly(s) /\ LateIsLast /\ (Dirty => Cleaner(g))
  BY DEF Mindful, Top
<1>7. s \in Seq(Placed) /\ s # <<>> /\ g = Head(s) /\ g = s[1] /\ Len(s) = 1
  <2>1. stack \in Seq(Placed) /\ Top = Head(stack)
    BY DEF IInv, Calls, Shape, Top
  <2> QED BY <1>2, <1>6, <2>1, AloneFacts
<1>8. ~Watching(s)
  BY <1>2, <1>7 DEF Watching, Watches
<1>9. Follows(k, g)
  BY <1>2 DEF Follows
<1>10. ~Watches(k)
  BY <1>4 DEF Watches
<1>11. Knows(k, g)'
  BY <1>3, <1>4, FirstKnows
<1>12. ~Dirty
  BY <1>2, <1>6 DEF Cleaner
<1>13. LateIsLast' /\ ~Dirty'
  BY <1>2, <1>6, <1>12 DEF LateIsLast, Dirty
<1>14. stack' = Cons(k, s)
  BY <1>5
<1>15. ~(Len(s) > 1)
  BY <1>7
<1> QED BY <1>3, <1>4, <1>6, <1>7, <1>8, <1>9, <1>10, <1>11, <1>13, <1>14, <1>15, Running

\* The invariant holds at the start, and every step keeps it.
LEMMA InitMindful == Init => SInv
<1> SUFFICES ASSUME Init PROVE Mindful(stack)
  BY DEF SInv
<1>1. stack = <<Frame("user")>> /\ Len(stack) = 1 /\ Head(stack) = Frame("user") /\ stack[1] = Frame("user")
      /\ conn = None /\ ~connected
  BY DEF Init
<1>2. Frame("user").op = "user"
  BY DEF Frame
<1>3. Orderly(stack) /\ Aided(stack)
  BY <1>1, <1>2 DEF Orderly, Aided, Watches
<1>4. LateIsLast /\ ~Dirty
  BY <1>1 DEF LateIsLast, Dirty
<1>5. Knows(Head(stack), Head(Tail(stack)))
  BY <1>1, <1>2 DEF Knows, KnowsOf
<1> QED BY <1>1, <1>3, <1>4, <1>5 DEF Mindful

LEMMA TurnsKeep ==
  ASSUME IInv, stack # <<>>, Mindful(stack), Turns, stack' # <<>> => Treats, stack' # <<>>
  PROVE  Mindful(stack)'
<1> SUFFICES ASSUME NEW f, f = Top, NEW s, s = Rest, NEW g, g = Head(s), NEW h, h = On(f, 1)
             PROVE  Mindful(stack)'
  OBVIOUS
<1>1. Works(f, s, g, h)
  BY DEF Works, Runs, Turns
<1>2. ~Crash
  BY DEF Crash
<1> QED BY <1>1, <1>2, ForwardKeeps, CallsUpKeeps, GoesBackKeeps, TurnsIntoKeeps, SkipsTwoKeeps DEF Turns

LEMMA StaysMindful == SInv /\ UNCHANGED vars => SInv'
<1> SUFFICES ASSUME SInv, UNCHANGED vars PROVE SInv'
  OBVIOUS
<1>1. stack' = stack /\ connected' = connected /\ conn' = conn /\ status' = status /\ cache' = cache /\ result' = result
  BY DEF vars, data
<1> SUFFICES ASSUME stack # <<>>, Mindful(stack), NEW p, p = Head(stack), NEW q, q = Head(Tail(stack))
             PROVE  Mindful(stack)'
  BY <1>1 DEF SInv
<1>2. Knows(p, q) => Knows(p, q)'
  BY <1>1 DEF Knows, KnowsOf, Has, AtHand, Looked
<1>3. Knows(Head(stack), Head(Tail(stack)))'
  BY <1>1, <1>2 DEF Mindful, Knows, KnowsOf, AtHand, Looked
<1>4. (Orderly(stack) /\ Aided(stack) /\ (Watching(stack) /\ connected => status # "none"))'
  BY <1>1 DEF Mindful
<1>5. (LateIsLast /\ (Dirty => Cleaner(Head(stack))))'
  BY <1>1 DEF Mindful, LateIsLast, Dirty, Cleaner
<1> QED BY <1>3, <1>4, <1>5 DEF Mindful

LEMMA NextMindful ==
  ASSUME MaxNesting = 1, IInv, SInv, [Next]_vars
  PROVE  SInv'
<1>1. CASE UNCHANGED vars
  BY <1>1, StaysMindful
<1>2. CASE Next
  <2> SUFFICES ASSUME stack' # <<>> PROVE Mindful(stack)'
    BY DEF SInv
  <2>1. stack # <<>> /\ Mindful(stack)
    BY <1>2, NoStepAfterEnd DEF SInv
  <2>2. Nesting = 1 /\ (Top.op = "user" => Len(stack) = 1)
    BY <2>1, AloneFacts DEF Mindful
  <2>3. CASE CallOperation
    BY <2>1, <2>3, CallKeeps
  <2>4. ~CallbackReturns
    BY <2>2 DEF CallbackReturns
  <2>5. CASE Function
    BY <2>1, <2>2, <2>5, StepsAreTurns, TurnsKeep
  <2> QED BY <1>2, <2>3, <2>4, <2>5 DEF Next
<1> QED BY <1>1, <1>2

\* The invariant of a program whose callbacks make no calls.
LEMMA AlwaysMindful == ASSUME MaxNesting = 1 PROVE Spec => [](IInv /\ SInv)
<1>1. Init => IInv /\ SInv
  BY InitInv, InitMindful
<1>2. IInv /\ SInv /\ [Next]_vars => (IInv /\ SInv)'
  BY NextInv, NextMindful
<1> QED BY <1>1, <1>2, PTL DEF Spec

\* ClosedBeforeOpened: whichever functions a program calls that makes no calls
\* from its callbacks, mpd_connect_real never opens a connection over one that
\* is open: mpd_disconnect has closed it, or there was none.
THEOREM BeforeIsClosed == ASSUME MaxNesting = 1 PROVE Spec => []ClosedBeforeOpened
<1>1. IInv /\ SInv => ClosedBeforeOpened
  <2> SUFFICES ASSUME IInv, SInv, Here = "open", NEW f, f = Top, NEW s, s = Rest, NEW g, g = Head(s), NEW h, h = On(f, 1)
               PROVE  conn = None
    BY DEF ClosedBeforeOpened
  <2>1. Works(f, s, g, h)
    BY DEF Works, Runs, SInv, Here
  <2>2. f.op = "connect" /\ f.at = 2 /\ Knows(f, g)
    BY <2>1, WorksFacts, StepFacts
  <2> QED BY <2>2 DEF Knows
<1> QED BY <1>1, AlwaysMindful, PTL

\* CheckedStatusIsThere: when mpd_status_check says that there is a status there
\* is one, although mpd_status_update may have failed, or disconnected, after
\* it fetched it.
THEOREM CheckIsTrue == ASSUME MaxNesting = 1 PROVE Spec => []CheckedStatusIsThere
<1>1. IInv /\ SInv => CheckedStatusIsThere
  <2> SUFFICES ASSUME IInv, SInv, stack # <<>>, Top.op = "status_check", Here = "return",
                      NEW f, f = Top, NEW s, s = Rest, NEW g, g = Head(s), NEW h, h = On(f, 1)
               PROVE  status # "none"
    BY DEF CheckedStatusIsThere
  <2>1. Works(f, s, g, h)
    BY DEF Works, Runs, SInv, Here
  <2>2. Step(f) \in Successes /\ f.op \in Confirming
    BY <2>1, WorksFacts DEF Successes, Confirming
  <2> QED BY <2>1, <2>2, SucceedsFacts DEF Has
<1> QED BY <1>1, AlwaysMindful, PTL

\* NoErrorLost: no command is sent before the error of the last one is looked
\* at, nor into the rest of a reply that was given up, when the function that
\* sent the last one sends one command only.
THEOREM ErrorsAreSeen == ASSUME MaxNesting = 1 PROVE Spec => []NoErrorLost
<1>1. IInv /\ SInv => NoErrorLost
  <2> SUFFICES ASSUME IInv, SInv, Sends, NEW f, f = Top, NEW s, s = Rest, NEW g, g = Head(s), NEW h, h = On(f, 1)
               PROVE  /\ conn.by = "one" => conn.error = "NONE"
                      /\ conn.late # "one"
    BY DEF NoErrorLost
  <2>1. Here \in Commands /\ conn # None
    BY DEF Sends, Commands
  <2>2. Works(f, s, g, h)
    BY <2>1 DEF Works, Runs, SInv, Here, Commands, Exchanges, ListSteps
  <2>3. f \in Placed /\ f.op # "user" /\ Here = Step(f) /\ LateIsLast /\ (Dirty => Cleaner(f))
    BY <2>2, WorksFacts
  <2>4. ~Cleaner(f)
    BY <2>1, <2>3, CleanerFacts DEF Commands, Exchanges, ListSteps
  <2> QED BY <2>1, <2>3, <2>4 DEF Dirty, LateIsLast
<1> QED BY <1>1, AlwaysMindful, PTL

\* What a function uses is there.
LEMMA NothingNull ==
  ASSUME IInv, SInv, stack # <<>>, ~DbUpdates
  PROVE  ~UsesNull
<1> SUFFICES ASSUME UsesNull, NEW f, f = Top, NEW s, s = Rest, NEW g, g = Head(s), NEW h, h = On(f, 1)
             PROVE  FALSE
  OBVIOUS
<1>1. Here # "user"
  BY DEF UsesNull, Exchanges, ListSteps, UsesStatus
<1>2. Works(f, s, g, h)
  BY <1>1 DEF Works, Runs, SInv, Here
<1>3. f \in Placed /\ f.op # "user" /\ Here = Step(f) /\ Knows(f, g) /\ Known
  BY <1>2, WorksFacts
<1>4. Here \in Exchanges => conn # None
  BY <1>1, HereFacts
<1>5. "status" \in Things /\ "stats" \in Things
  BY DEF Things
<1>6. Here \in UsesStatus \cup {"drop_old_song", "clear_error", "watch"} => status # "none" /\ conn # None
  <2> SUFFICES ASSUME Here \in UsesStatus \cup {"drop_old_song", "clear_error", "watch"} PROVE status # "none" /\ conn # None
    OBVIOUS
  <2>1. AtHand(f, "status")
    BY <1>3, CarefulFacts
  <2>2. Has("status")
    BY <1>3, <1>5, <2>1 DEF Knows, KnowsOf
  <2> QED BY <1>3, <2>2 DEF Has, Known
<1>7. Here = "stats_value" => "stats" \in cache
  <2> SUFFICES ASSUME Here = "stats_value" PROVE "stats" \in cache
    OBVIOUS
  <2>1. Has("stats")
    BY <1>3, <1>5, CarefulFacts DEF Knows, KnowsOf
  <2> QED BY <2>1 DEF Has
<1> QED BY <1>4, <1>6, <1>7 DEF UsesNull

\* NoNullUsed: with a server that does not end a database update while it is
\* asked, no function uses a connection, a status or statistics that are not
\* there.  (With one that does, TLC finds the status gone: MpdSession_update.)
THEOREM NoneIsNull == ASSUME MaxNesting = 1, ~DbUpdates PROVE Spec => []NoNullUsed
<1>1. Init => NoNullUsed
  BY DEF Init, NoNullUsed
<1>2. IInv /\ SInv /\ NoNullUsed /\ [Next]_vars => NoNullUsed'
  <2> SUFFICES ASSUME IInv, SInv, stack # <<>>, Next PROVE stack' # <<>>
    BY DEF NoNullUsed, vars
  <2>1. Nesting = 1 /\ (Top.op = "user" => Len(stack) = 1)
    BY AloneFacts DEF SInv, Mindful
  <2>2. CASE CallOperation
    BY <2>2, ConsProperties DEF CallOperation, IInv, Calls, Shape
  <2>3. ~CallbackReturns
    BY <2>1 DEF CallbackReturns
  <2>4. CASE Function
    <3>1. Turns /\ ~Crash
      BY <2>1, <2>4, StepsAreTurns, NothingNull DEF Crash
    <3> SUFFICES ASSUME NEW f, f = Top, NEW s, s = Rest, NEW g, g = Head(s), NEW h, h = On(f, 1)
                 PROVE  stack' # <<>>
      OBVIOUS
    <3>2. Works(f, s, g, h)
      BY <3>1 DEF Works, Runs, SInv, Turns
    <3>3. s # <<>> /\ s \in Seq(Placed)
      BY <3>2, WorksFacts
    <3>4. /\ s \in Seq(Frames) /\ On(f, 1) \in Frames /\ On(f, 2) \in Frames
          /\ \A op \in DOMAIN Code : Frame(op) \in Frames
      <4>1. Placed \subseteq Frames
        BY DEF Placed
      <4> QED BY <3>2, <3>3, <4>1, WorksFacts, OnFacts, FrameFacts
    <3>5. \A k \in Frames, t \in Seq(Frames) : Cons(k, t) \in Seq(Frames) /\ Cons(k, t) # <<>>
      BY DEF Cons
    <3>6. Rest = s /\ Next1 = On(f, 1) /\ On(Top, 2) = On(f, 2)
      BY DEF Next1
    <3>7. "server_update_outputs" \in DOMAIN Code
      BY FunctionNames
    <3>8. CASE GoesBack
      BY <3>3, <3>6, <3>8 DEF GoesBack
    <3>9. CASE Forward \/ CallsUp \/ TurnsInto \/ SkipsTwo
      BY <3>4, <3>5, <3>6, <3>7, <3>9 DEF Forward, CallsUp, TurnsInto, SkipsTwo
    <3> QED BY <3>1, <3>8, <3>9 DEF Turns
  <2> QED BY <2>2, <2>3, <2>4 DEF Next
<1> QED BY <1>1, <1>2, AlwaysMindful, PTL DEF Spec

=============================================================================
