-------------------------- MODULE MpdMessages_proofs --------------------------
(***************************************************************************)
(* What is sent and what is received.  No request is cut, whatever its     *)
(* arguments, and the server reads it as what was asked: names of any      *)
(* length, with any quotes, backslashes and spaces, sent in any pieces.    *)
(* However long a reply is and wherever it is garbled, refused or cut off: *)
(* a function that asks the unlock gives nothing that is incomplete, and   *)
(* when it is done the reply is over.  A reply that is in order is given   *)
(* as it was meant, all of it.                                             *)
(***************************************************************************)
EXTENDS MpdRequests, MpdReplies, SequenceTheorems, FiniteSetTheorems, WellFoundedInduction, TLAPS

-----------------------------------------------------------------------------
(* Induction. *)

\* A set of numbers has a least one.
LEMMA Least == ASSUME NEW T \in SUBSET Nat, T # {} PROVE \E x \in T : \A y \in T : x <= y
<1> DEFINE R == {ss \in Nat \X Nat : ss[1] < ss[2]}
<1>1. IsWellFoundedOn(OpToRel(<, Nat), Nat)
  BY NatLessThanWellFounded
<1>2. OpToRel(<, Nat) = R
  BY DEF OpToRel
<1>3. IsWellFoundedOn(R, Nat)
  BY <1>1, <1>2
<1>4. PICK x \in T : \A y \in T : ~(<<y, x>> \in R)
  <2> HIDE DEF R
  <2> QED BY <1>3, WFMin
<1>5. ASSUME NEW y \in T PROVE x <= y
  <2>1. x \in Nat /\ y \in Nat /\ <<y, x>> \notin R
    BY <1>4
  <2>2. ~(y < x)
    BY <2>1
  <2> QED BY <2>1, <2>2
<1> QED BY <1>5

\* Induction over the numbers from 0 on, for what is said by a set of them.
LEMMA Every ==
  ASSUME NEW T \in SUBSET Nat, 0 \in T, \A n \in T : n + 1 \in T
  PROVE  \A n \in Nat : n \in T
<1> SUFFICES ASSUME Nat \ T # {} PROVE FALSE
  OBVIOUS
<1>1. PICK n \in Nat \ T : \A m \in Nat \ T : n <= m
  <2> DEFINE U == Nat \ T
  <2>1. U \in SUBSET Nat /\ U # {}
    OBVIOUS
  <2> HIDE DEF U
  <2>2. \E x \in U : \A y \in U : x <= y
    BY <2>1, Least
  <2> QED BY <2>2 DEF U
<1>2. n # 0 /\ n - 1 \in Nat /\ n - 1 \notin Nat \ T
  BY <1>1
<1>3. n - 1 + 1 \in T /\ n - 1 + 1 = n
  BY <1>2
<1> QED BY <1>1, <1>3

-----------------------------------------------------------------------------
(* Sequences put together. *)

\* What SequenceTheorems says of concatenation, in the forms used here.
LEMMA ConcatAppend ==
  ASSUME NEW S, NEW s \in Seq(S), NEW t \in Seq(S), NEW e \in S
  PROVE  s \o Append(t, e) = Append(s \o t, e)
<1>1. <<e>> \in Seq(S) /\ s \o t \in Seq(S)
  BY ConcatProperties
<1>2. (s \o t) \o <<e>> = s \o (t \o <<e>>)
  BY <1>1, ConcatAssociative
<1>3. t \o <<e>> = Append(t, e)
  BY AppendIsConcat
<1>4. ASSUME NEW u \in Seq(S) PROVE u \o <<e>> = Append(u, e)
  BY AppendIsConcat
<1> QED BY <1>1, <1>2, <1>3, <1>4

LEMMA Associative ==
  ASSUME NEW S, NEW a \in Seq(S), NEW b \in Seq(S), NEW c \in Seq(S)
  PROVE  (a \o b) \o c = a \o (b \o c) /\ b \o c \in Seq(S)
<1>1. b \o c \in Seq(S)
  BY ConcatProperties
<1>2. (a \o b) \o c = a \o (b \o c)
  BY ConcatAssociative
<1> QED BY <1>1, <1>2

LEMMA ConcatTwo == ASSUME NEW a, NEW b PROVE <<a>> \o <<b>> = <<a, b>>
<1> DEFINE S == {a, b}
<1>1. <<a>> \in Seq(S) /\ <<b>> \in Seq(S) /\ <<a, b>> \in Seq(S)
  OBVIOUS
<1>2. /\ <<a>> \o <<b>> \in Seq(S) /\ Len(<<a>> \o <<b>>) = 2
      /\ \A i \in 1 .. 2 : (<<a>> \o <<b>>)[i] = <<a, b>>[i]
  BY <1>1, ConcatProperties
<1> QED BY <1>1, <1>2, SeqEqual

\* What the recursive function in FlattenSeq says of itself.
Flattens(seqs, f) == f = [i \in 1 .. Len(seqs) |-> IF i = 1 THEN seqs[i] ELSE f[i - 1] \o seqs[i]]

\* FlattenSeq is its last value, if there is such a function.
LEMMA FlattenDef ==
  ASSUME NEW seqs, Len(seqs) # 0, \E f : Flattens(seqs, f)
  PROVE  \E f : Flattens(seqs, f) /\ FlattenSeq(seqs) = f[Len(seqs)]
<1> DEFINE g == CHOOSE f : Flattens(seqs, f)
<1>1. Flattens(seqs, g)
  BY Zenon
<1>2. FlattenSeq(seqs) = g[Len(seqs)]
  BY Zenon DEF FlattenSeq, Flattens
<1> QED BY <1>1, <1>2, Zenon

\* There is such a function, and its values are sequences.
LEMMA FlattensOne ==
  ASSUME NEW S, NEW seqs \in Seq(Seq(S))
  PROVE  \E f : Flattens(seqs, f) /\ f \in [1 .. Len(seqs) -> Seq(S)]
<1> DEFINE P(n) == \A ss \in Seq(Seq(S)) : Len(ss) = n => \E f : Flattens(ss, f) /\ f \in [1 .. n -> Seq(S)]
           T == {n \in Nat : P(n)}
<1>1. P(0)
  <2> SUFFICES ASSUME NEW ss \in Seq(Seq(S)), Len(ss) = 0
               PROVE  \E f : Flattens(ss, f) /\ f \in [1 .. 0 -> Seq(S)]
    OBVIOUS
  <2> DEFINE f == [i \in 1 .. 0 |-> <<>>]
  <2>1. Flattens(ss, f) /\ f \in [1 .. 0 -> Seq(S)]
    BY DEF Flattens
  <2> QED BY <2>1
<1>2. ASSUME NEW n \in Nat, P(n) PROVE P(n + 1)
  <2> SUFFICES ASSUME NEW ss \in Seq(Seq(S)), Len(ss) = n + 1
               PROVE  \E f : Flattens(ss, f) /\ f \in [1 .. n + 1 -> Seq(S)]
    OBVIOUS
  <2> DEFINE tt == SubSeq(ss, 1, n)
  <2>1. /\ tt \in Seq(Seq(S)) /\ Len(tt) = n /\ \A i \in 1 .. n : tt[i] = ss[i]
        /\ \A i \in 1 .. n + 1 : ss[i] \in Seq(S)
    BY SubSeqProperties
  <2> HIDE DEF tt
  <2>2. PICK f : Flattens(tt, f) /\ f \in [1 .. n -> Seq(S)]
    BY <1>2, <2>1
  <2> DEFINE g == [i \in 1 .. n + 1 |-> IF i <= n THEN f[i] ELSE IF n = 0 THEN ss[i] ELSE f[n] \o ss[i]]
  <2>3. \A i \in 1 .. n : f[i] = IF i = 1 THEN tt[i] ELSE f[i - 1] \o tt[i]
    BY <2>1, <2>2 DEF Flattens
  <2>4. \A i \in 1 .. n + 1 : g[i] = IF i = 1 THEN ss[i] ELSE g[i - 1] \o ss[i]
    <3> SUFFICES ASSUME NEW i \in 1 .. n + 1 PROVE g[i] = IF i = 1 THEN ss[i] ELSE g[i - 1] \o ss[i]
      OBVIOUS
    <3>1. CASE i <= n
      BY <2>1, <2>3, <3>1
    <3>2. CASE i = n + 1
      BY <3>2
    <3> QED BY <3>1, <3>2
  <2>5. g \in [1 .. n + 1 -> Seq(S)]
    <3> SUFFICES ASSUME NEW i \in 1 .. n + 1 PROVE g[i] \in Seq(S)
      OBVIOUS
    <3>1. CASE i <= n
      BY <2>2, <3>1
    <3>2. CASE i = n + 1 /\ n # 0
      <4>1. f[n] \in Seq(S) /\ ss[i] \in Seq(S)
        BY <2>1, <2>2, <3>2
      <4>2. f[n] \o ss[i] \in Seq(S)
        BY <4>1, ConcatProperties
      <4> QED BY <3>2, <4>2
    <3>3. CASE i = n + 1 /\ n = 0
      BY <2>1, <3>3
    <3> QED BY <3>1, <3>2, <3>3
  <2>6. Flattens(ss, g)
    BY <2>4 DEF Flattens
  <2> QED BY <2>5, <2>6
<1> HIDE DEF P
<1>3. 0 \in T /\ \A n \in T : n + 1 \in T
  BY <1>1, <1>2
<1>4. T \in SUBSET Nat
  OBVIOUS
<1>5. Len(seqs) \in T
  <2> HIDE DEF T
  <2>1. Len(seqs) \in Nat
    BY LenProperties
  <2> QED BY <1>3, <1>4, <2>1, Every
<1> QED BY <1>5 DEF P

LEMMA FlattenEmpty == FlattenSeq(<<>>) = <<>>
BY DEF FlattenSeq

\* One sequence more.
LEMMA FlattenMore ==
  ASSUME NEW S, NEW seqs \in Seq(Seq(S)), NEW s \in Seq(S)
  PROVE  /\ FlattenSeq(seqs) \in Seq(S)
         /\ FlattenSeq(Append(seqs, s)) = FlattenSeq(seqs) \o s
<1> DEFINE n == Len(seqs)
           more == Append(seqs, s)
<1>1. /\ n \in Nat /\ more \in Seq(Seq(S)) /\ Len(more) = n + 1 /\ more[n + 1] = s
      /\ \A i \in 1 .. n : more[i] = seqs[i]
  BY AppendProperties
<1> HIDE DEF more
<1>2. PICK f : Flattens(more, f) /\ FlattenSeq(more) = f[n + 1]
  BY <1>1, FlattensOne, FlattenDef
<1>3. \A i \in 1 .. n + 1 : f[i] = IF i = 1 THEN more[i] ELSE f[i - 1] \o more[i]
  BY <1>1, <1>2 DEF Flattens
<1>4. CASE n = 0
  <2>1. seqs = <<>>
    BY <1>4, EmptySeq
  <2>2. FlattenSeq(seqs) = <<>> /\ FlattenSeq(more) = s
    BY <1>1, <1>2, <1>3, <1>4, <2>1, FlattenEmpty
  <2>3. <<>> \o s = s /\ <<>> \in Seq(S)
    BY ConcatEmptySeq
  <2> QED BY <2>2, <2>3 DEF more
<1>5. CASE n # 0
  <2>1. PICK h : Flattens(seqs, h) /\ h \in [1 .. n -> Seq(S)]
    BY FlattensOne
  <2>2. PICK g : Flattens(seqs, g) /\ FlattenSeq(seqs) = g[n]
    BY <1>5, <2>1, FlattenDef
  <2>3. \A i \in 1 .. n : /\ g[i] = IF i = 1 THEN seqs[i] ELSE g[i - 1] \o seqs[i]
                          /\ h[i] = IF i = 1 THEN seqs[i] ELSE h[i - 1] \o seqs[i]
    BY <2>1, <2>2 DEF Flattens
  <2>4. \A j \in Nat : j \in {k \in Nat : k + 1 \in 1 .. n => g[k + 1] = f[k + 1] /\ g[k + 1] = h[k + 1]}
    <3> DEFINE T == {k \in Nat : k + 1 \in 1 .. n => g[k + 1] = f[k + 1] /\ g[k + 1] = h[k + 1]}
    <3>1. 0 \in T
      BY <1>1, <1>3, <2>3
    <3>2. ASSUME NEW k \in T PROVE k + 1 \in T
      <4> SUFFICES ASSUME k + 2 \in 1 .. n PROVE g[k + 2] = f[k + 2] /\ g[k + 2] = h[k + 2]
        OBVIOUS
      <4>1. g[k + 1] = f[k + 1] /\ g[k + 1] = h[k + 1] /\ (k + 2) - 1 = k + 1 /\ k + 2 # 1
        BY <3>2
      <4> QED BY <1>1, <1>3, <2>3, <4>1
    <3>3. T \in SUBSET Nat
      OBVIOUS
    <3> HIDE DEF T
    <3>4. \A k \in Nat : k \in T
      BY <3>1, <3>2, <3>3, Every
    <3> QED BY <3>4 DEF T
  <2>5. g[n] = f[n] /\ g[n] = h[n]
    <3>1. n - 1 \in Nat /\ (n - 1) + 1 = n /\ (n - 1) + 1 \in 1 .. n
      BY <1>1, <1>5
    <3>2. g[(n - 1) + 1] = f[(n - 1) + 1] /\ g[(n - 1) + 1] = h[(n - 1) + 1]
      BY <2>4, <3>1
    <3> QED BY <3>1, <3>2
  <2>6. FlattenSeq(more) = f[n] \o s
    <3>1. n + 1 \in 1 .. n + 1 /\ n + 1 # 1 /\ (n + 1) - 1 = n
      BY <1>1, <1>5
    <3>2. f[n + 1] = f[(n + 1) - 1] \o more[n + 1]
      BY <1>3, <3>1
    <3> QED BY <1>1, <1>2, <3>1, <3>2
  <2>7. FlattenSeq(seqs) \in Seq(S)
    <3>1. n \in 1 .. n
      BY <1>1, <1>5
    <3>2. h[n] \in Seq(S)
      BY <2>1, <3>1
    <3> QED BY <2>2, <2>5, <3>2
  <2> QED BY <2>2, <2>5, <2>6, <2>7 DEF more
<1> QED BY <1>4, <1>5

-----------------------------------------------------------------------------
(* Names. *)

Bytes == NameBytes \cup {"quote", "backslash", "space", "end", "digit", "tag", "noidle"}
                   \cup Plain \cup {row.word : row \in Rows}

Escaped(byte) == IF byte \in {"quote", "backslash"} THEN <<"backslash", byte>> ELSE <<byte>>

LEMMA SanitizedEmpty == Sanitized(<<>>) = <<>>
<1>1. \A f : DOMAIN f = {} /\ f = [i \in {} |-> f[i]] => f = <<>>
  <2> SUFFICES ASSUME NEW f, f = [i \in {} |-> f[i]] PROVE f = <<>>
    OBVIOUS
  <2>1. <<>> = [i \in {} |-> f[i]]
    OBVIOUS
  <2> QED BY <2>1
<1>2. DOMAIN <<>> = {}
  OBVIOUS
<1>3. [i \in DOMAIN <<>> |-> IF <<>>[i] \in {"quote", "backslash"} THEN <<"backslash", <<>>[i]>> ELSE <<<<>>[i]>>] = <<>>
  BY <1>1, <1>2
<1> QED BY <1>3, FlattenEmpty DEF Sanitized

\* One byte more.
LEMMA SanitizedMore ==
  ASSUME NEW name \in Seq(NameBytes), NEW byte \in NameBytes
  PROVE  /\ Sanitized(name) \in Seq(NameBytes \cup {"backslash"})
         /\ Escaped(byte) \in Seq(NameBytes \cup {"backslash"})
         /\ Sanitized(Append(name, byte)) = Sanitized(name) \o Escaped(byte)
<1> DEFINE S == NameBytes \cup {"backslash"}
           E(s) == [i \in DOMAIN s |-> IF s[i] \in {"quote", "backslash"} THEN <<"backslash", s[i]>> ELSE <<s[i]>>]
           more == Append(name, byte)
<1>1. /\ Len(name) \in Nat /\ DOMAIN name = 1 .. Len(name) /\ more \in Seq(NameBytes)
      /\ Len(more) = Len(name) + 1 /\ DOMAIN more = 1 .. Len(name) + 1
      /\ more[Len(name) + 1] = byte /\ \A i \in 1 .. Len(name) : more[i] = name[i] /\ name[i] \in NameBytes
  BY AppendProperties, LenProperties
<1> HIDE DEF more
<1>2. \A c \in NameBytes : Escaped(c) \in Seq(S)
  <2> SUFFICES ASSUME NEW c \in NameBytes PROVE Escaped(c) \in Seq(S)
    OBVIOUS
  <2>1. <<"backslash", c>> \in Seq(S) /\ <<c>> \in Seq(S)
    OBVIOUS
  <2> QED BY <2>1 DEF Escaped
<1>3. E(name) \in Seq(Seq(S)) /\ Len(E(name)) = Len(name)
  <2>1. \A i \in 1 .. Len(name) : E(name)[i] \in Seq(S)
    BY <1>1, <1>2 DEF Escaped
  <2> QED BY <1>1, <2>1
<1>4. E(more) = Append(E(name), Escaped(byte))
  <2>1. \A i \in 1 .. Len(name) + 1 : more[i] \in NameBytes
    BY <1>1
  <2>2. \A i \in 1 .. Len(name) + 1 : E(more)[i] = Escaped(more[i]) /\ E(more)[i] \in Seq(S)
    BY <1>1, <1>2, <2>1 DEF Escaped
  <2>3. E(more) \in Seq(Seq(S)) /\ Len(E(more)) = Len(name) + 1
    BY <1>1, <2>2
  <2>4. \A i \in 1 .. Len(name) : E(name)[i] = Escaped(name[i])
    BY <1>1 DEF Escaped
  <2> HIDE DEF E
  <2>5. /\ Append(E(name), Escaped(byte)) \in Seq(Seq(S))
        /\ Len(Append(E(name), Escaped(byte))) = Len(name) + 1
        /\ \A i \in 1 .. Len(name) : Append(E(name), Escaped(byte))[i] = E(name)[i]
        /\ Append(E(name), Escaped(byte))[Len(name) + 1] = Escaped(byte)
    BY <1>2, <1>3, AppendProperties
  <2>6. \A i \in 1 .. Len(name) + 1 : E(more)[i] = Append(E(name), Escaped(byte))[i]
    <3> SUFFICES ASSUME NEW i \in 1 .. Len(name) + 1 PROVE E(more)[i] = Append(E(name), Escaped(byte))[i]
      OBVIOUS
    <3>1. E(more)[i] = Escaped(more[i])
      BY <2>2
    <3>2. CASE i = Len(name) + 1
      BY <1>1, <2>5, <3>1, <3>2
    <3>3. CASE i # Len(name) + 1
      <4>1. i \in 1 .. Len(name)
        BY <1>1, <3>3
      <4> QED BY <1>1, <2>4, <2>5, <3>1, <4>1
    <3> QED BY <3>2, <3>3
  <2> QED BY <2>3, <2>5, <2>6, SeqEqual
<1>5. Sanitized(name) = FlattenSeq(E(name)) /\ Sanitized(more) = FlattenSeq(E(more))
  BY DEF Sanitized
<1>6. Escaped(byte) \in Seq(S)
  BY <1>2
<1> HIDE DEF E, S
<1>7. FlattenSeq(E(name)) \in Seq(S) /\ FlattenSeq(Append(E(name), Escaped(byte))) = FlattenSeq(E(name)) \o Escaped(byte)
  BY <1>3, <1>6, FlattenMore
<1> QED BY <1>4, <1>5, <1>6, <1>7 DEF S, more

-----------------------------------------------------------------------------
(* How the server reads. *)

Reader == [words : Seq(Seq(Bytes)), word : Seq(Bytes), quoted : BOOLEAN, escaped : BOOLEAN]
Begun  == [words |-> <<>>, word |-> <<>>, quoted |-> FALSE, escaped |-> FALSE]

\* Byte by byte, t leads from st to end.
Path(st, t, f) == /\ DOMAIN f = 0 .. Len(t) /\ f[0] = st
                  /\ \A i \in 1 .. Len(t) : f[i] = Read(f[i - 1], t[i])
Leads(st, t, end) == \E f : Path(st, t, f) /\ f[Len(t)] = end

\* What the recursive function in Parsed says of itself.
GoesThrough(t, f) == f = [i \in 0 .. Len(t) |-> IF i = 0 THEN Begun ELSE Read(f[i - 1], t[i])]

Result(st) == IF st.quoted THEN <<"malformed">> ELSE Append(st.words, st.word)

\* Parsed is its last value, if there is such a function.
LEMMA ParsedDef ==
  ASSUME NEW t, \E f : GoesThrough(t, f)
  PROVE  \E f : GoesThrough(t, f) /\ Parsed(t) = Result(f[Len(t)])
<1> DEFINE g == CHOOSE f : GoesThrough(t, f)
<1>1. GoesThrough(t, g)
  BY Zenon
<1>2. Parsed(t) = Result(g[Len(t)])
  BY Zenon DEF Parsed, GoesThrough, Result, Begun
<1> QED BY <1>1, <1>2, Zenon

\* The server takes a line for what its bytes lead to.
LEMMA ParsedIsResult ==
  ASSUME NEW S, NEW t \in Seq(S), NEW end, Leads(Begun, t, end)
  PROVE  Parsed(t) = Result(end)
<1> DEFINE n == Len(t)
<1>1. PICK f : Path(Begun, t, f) /\ f[n] = end
  BY DEF Leads
<1>2. n \in Nat
  BY LenProperties
<1>3. GoesThrough(t, [i \in 0 .. n |-> f[i]])
  <2> DEFINE h == [i \in 0 .. n |-> f[i]]
  <2>1. \A i \in 0 .. n : h[i] = IF i = 0 THEN Begun ELSE Read(h[i - 1], t[i])
    <3> SUFFICES ASSUME NEW i \in 0 .. n PROVE h[i] = IF i = 0 THEN Begun ELSE Read(h[i - 1], t[i])
      OBVIOUS
    <3>1. CASE i = 0
      BY <1>1, <1>2, <3>1 DEF Path
    <3>2. CASE i # 0
      <4>1. i \in 1 .. n /\ i - 1 \in 0 .. n
        BY <1>2, <3>2
      <4> QED BY <1>1, <3>2, <4>1 DEF Path
    <3> QED BY <3>1, <3>2
  <2> QED BY <2>1 DEF GoesThrough
<1>4. PICK g : GoesThrough(t, g) /\ Parsed(t) = Result(g[n])
  BY <1>3, ParsedDef
<1> DEFINE T == {k \in Nat : k \in 0 .. n => g[k] = f[k]}
<1>5. 0 \in T
  BY <1>1, <1>2, <1>4 DEF GoesThrough, Path
<1>6. ASSUME NEW k \in T PROVE k + 1 \in T
  <2> SUFFICES ASSUME k + 1 \in 0 .. n PROVE g[k + 1] = f[k + 1]
    OBVIOUS
  <2>1. k \in 0 .. n /\ k + 1 \in 1 .. n /\ (k + 1) - 1 = k /\ k + 1 # 0
    BY <1>2
  <2>2. g[k + 1] = Read(g[(k + 1) - 1], t[k + 1])
    BY <1>4, <2>1 DEF GoesThrough
  <2>3. f[k + 1] = Read(f[(k + 1) - 1], t[k + 1])
    BY <1>1, <2>1 DEF Path
  <2>4. g[k] = f[k]
    BY <1>6, <2>1
  <2> QED BY <2>1, <2>2, <2>3, <2>4
<1>7. T \in SUBSET Nat
  OBVIOUS
<1>8. n \in T
  <2> HIDE DEF T
  <2> QED BY <1>2, <1>5, <1>6, <1>7, Every
<1> QED BY <1>1, <1>2, <1>4, <1>8

\* No byte, one byte, and one text after another.
LEMMA LeadsNowhere == ASSUME NEW st PROVE Leads(st, <<>>, st)
<1> DEFINE f == [i \in 0 .. 0 |-> st]
<1>1. Path(st, <<>>, f) /\ f[Len(<<>>)] = st
  BY DEF Path
<1> QED BY <1>1 DEF Leads

LEMMA LeadsOne == ASSUME NEW st, NEW byte PROVE Leads(st, <<byte>>, Read(st, byte))
<1> DEFINE f == [i \in 0 .. 1 |-> IF i = 0 THEN st ELSE Read(st, byte)]
<1>1. Len(<<byte>>) = 1 /\ <<byte>>[1] = byte
  OBVIOUS
<1>2. Path(st, <<byte>>, f) /\ f[1] = Read(st, byte)
  <2>1. f[0] = st /\ f[1] = Read(st, byte)
    OBVIOUS
  <2> HIDE DEF f
  <2>2. \A i \in 1 .. 1 : f[i] = Read(f[i - 1], <<byte>>[i])
    BY <1>1, <2>1
  <2>3. DOMAIN f = 0 .. 1
    BY DEF f
  <2> QED BY <1>1, <2>1, <2>2, <2>3 DEF Path
<1> QED BY <1>1, <1>2 DEF Leads

LEMMA LeadsOn ==
  ASSUME NEW S, NEW t \in Seq(S), NEW u \in Seq(S), NEW st, NEW mid, NEW end,
         Leads(st, t, mid), Leads(mid, u, end)
  PROVE  Leads(st, t \o u, end)
<1>1. PICK f : Path(st, t, f) /\ f[Len(t)] = mid
  BY DEF Leads
<1>2. PICK g : Path(mid, u, g) /\ g[Len(u)] = end
  BY DEF Leads
<1> SUFFICES ASSUME NEW m, m = Len(t), NEW n, n = Len(u), NEW tu, tu = t \o u PROVE Leads(st, tu, end)
  OBVIOUS
<1>3. /\ m \in Nat /\ n \in Nat /\ Len(tu) = m + n
      /\ \A i \in 1 .. m + n : tu[i] = IF i <= m THEN t[i] ELSE u[i - m]
  BY ConcatProperties, LenProperties
<1> DEFINE h == [i \in 0 .. m + n |-> IF i <= m THEN f[i] ELSE g[i - m]]
<1>4. h[0] = st /\ h[m + n] = end
  <2>1. h[0] = st
    BY <1>1, <1>3 DEF Path
  <2>2. CASE n = 0
    BY <1>1, <1>2, <1>3, <2>2 DEF Path
  <2>3. CASE n # 0
    <3>1. m + n \in 0 .. m + n /\ ~(m + n <= m) /\ (m + n) - m = n
      BY <1>3, <2>3
    <3> QED BY <1>2, <2>1, <3>1
  <2> QED BY <2>1, <2>2, <2>3
<1>5. \A i \in 1 .. m + n : h[i] = Read(h[i - 1], tu[i])
  <2> SUFFICES ASSUME NEW i \in 1 .. m + n PROVE h[i] = Read(h[i - 1], tu[i])
    OBVIOUS
  <2>1. i \in 0 .. m + n /\ i - 1 \in 0 .. m + n
    BY <1>3
  <2>2. CASE i <= m
    <3>1. h[i] = f[i] /\ h[i - 1] = f[i - 1] /\ tu[i] = t[i] /\ i \in 1 .. m
      BY <1>3, <2>1, <2>2
    <3> HIDE DEF h
    <3> QED BY <1>1, <3>1 DEF Path
  <2>3. CASE ~(i <= m)
    <3>1. h[i] = g[i - m] /\ tu[i] = u[i - m] /\ i - m \in 1 .. n /\ (i - m) - 1 = (i - 1) - m
      BY <1>3, <2>1, <2>3
    <3>2. h[i - 1] = g[(i - m) - 1]
      <4>1. CASE i - 1 = m
        BY <1>1, <1>2, <1>3, <2>1, <4>1 DEF Path
      <4>2. CASE i - 1 # m
        BY <1>3, <2>1, <2>3, <4>2
      <4> QED BY <4>1, <4>2
    <3>3. g[i - m] = Read(g[(i - m) - 1], u[i - m])
      BY <1>2, <3>1 DEF Path
    <3> HIDE DEF h
    <3> QED BY <3>1, <3>2, <3>3
  <2> QED BY <2>2, <2>3
<1>6. DOMAIN h = 0 .. m + n
  OBVIOUS
<1> HIDE DEF h
<1>7. Path(st, tu, h) /\ h[Len(tu)] = end
  BY <1>3, <1>4, <1>5, <1>6 DEF Path
<1> QED BY <1>7 DEF Leads

-----------------------------------------------------------------------------
(* What a request leads to. *)

PlainBytes == Bytes \ {"quote", "backslash", "space"}

\* st with t at the end of the word that is read.
Extended(st, t) == [st EXCEPT !.word = @ \o t]

LEMMA ExtendedIsReader ==
  ASSUME NEW st \in Reader, NEW t \in Seq(Bytes)
  PROVE  /\ Extended(st, t) \in Reader /\ Extended(st, t).word = st.word \o t
         /\ Extended(st, t).words = st.words
         /\ Extended(st, t).quoted = st.quoted /\ Extended(st, t).escaped = st.escaped
<1>1. st.word \in Seq(Bytes)
  BY DEF Reader
<1>2. st.word \o t \in Seq(Bytes)
  BY <1>1, ConcatProperties
<1> QED BY <1>2 DEF Extended, Reader

LEMMA ReadPlain ==
  ASSUME NEW st \in Reader, ~st.escaped, NEW byte \in Bytes,
         byte \in PlainBytes \/ (st.quoted /\ byte \notin {"quote", "backslash"})
  PROVE  Read(st, byte) = [st EXCEPT !.word = Append(@, byte)]
BY DEF Read, PlainBytes

\* Bytes without a meaning are taken as they are.
LEMMA LeadsPlain ==
  ASSUME NEW st \in Reader, ~st.escaped, NEW t \in Seq(PlainBytes)
  PROVE  Leads(st, t, Extended(st, t))
<1> SUFFICES ASSUME NEW n, n = Len(t) PROVE Leads(st, t, Extended(st, t))
  OBVIOUS
<1>1. /\ n \in Nat /\ t \in Seq(Bytes) /\ \A i \in 1 .. n : t[i] \in PlainBytes /\ t[i] \in Bytes
  BY LenProperties, SeqMonotonic DEF PlainBytes
<1> DEFINE f == [i \in 0 .. n |-> Extended(st, SubSeq(t, 1, i))]
<1>2. \A i \in 0 .. n : SubSeq(t, 1, i) \in Seq(Bytes) /\ f[i] \in Reader /\ f[i].escaped = st.escaped
  <2> SUFFICES ASSUME NEW i \in 0 .. n
               PROVE  SubSeq(t, 1, i) \in Seq(Bytes) /\ f[i] \in Reader /\ f[i].escaped = st.escaped
    OBVIOUS
  <2>1. SubSeq(t, 1, i) \in Seq(Bytes)
    BY <1>1, SubSeqProperties
  <2> QED BY <2>1, ExtendedIsReader
<1>3. f[0] = st
  <2>1. SubSeq(t, 1, 0) = <<>>
    BY SubSeqEmpty
  <2>2. st.word \in Seq(Bytes) /\ st.word \o <<>> = st.word
    BY ConcatEmptySeq DEF Reader
  <2> QED BY <1>1, <2>1, <2>2 DEF Extended, Reader
<1>4. f[n] = Extended(st, t)
  <2>1. SubSeq(t, 1, n) = t
    BY SubSeqFull
  <2>2. f[n] = Extended(st, SubSeq(t, 1, n))
    BY <1>1
  <2> HIDE DEF f
  <2> QED BY <2>1, <2>2
<1>5. ASSUME NEW i \in 1 .. n PROVE f[i] = Read(f[i - 1], t[i])
  <2> SUFFICES ASSUME NEW a, a = SubSeq(t, 1, i - 1) PROVE f[i] = Read(f[i - 1], t[i])
    OBVIOUS
  <2>1. i - 1 \in 0 .. n /\ i \in 0 .. n /\ t[i] \in Bytes /\ t[i] \in PlainBytes
    BY <1>1
  <2>2. a \in Seq(Bytes) /\ SubSeq(t, 1, i) = Append(a, t[i])
    <3>1. 1 \in 1 .. Len(t) /\ i \in 1 .. Len(t)
      BY <1>1
    <3>2. SubSeq(t, 1, i) = SubSeq(t, 1, i - 1) \o <<t[i]>>
      BY <1>1, <3>1, SubSeqRecursiveSecond
    <3>3. a \in Seq(Bytes)
      BY <1>2, <2>1
    <3> QED BY <2>1, <3>2, <3>3, AppendIsConcat
  <2>3. Read(f[i - 1], t[i]) = [f[i - 1] EXCEPT !.word = Append(@, t[i])]
    <3> HIDE DEF f
    <3> QED BY <1>2, <2>1, ReadPlain
  <2>4. st.word \o Append(a, t[i]) = Append(st.word \o a, t[i])
    <3>1. st.word \in Seq(Bytes)
      BY DEF Reader
    <3>2. \A w \in Seq(Bytes) : w \o Append(a, t[i]) = Append(w \o a, t[i])
      BY <2>1, <2>2, ConcatAppend
    <3> QED BY <3>1, <3>2
  <2>5. f[i] = [st EXCEPT !.word = @ \o Append(a, t[i])] /\ f[i - 1] = [st EXCEPT !.word = @ \o a]
    BY <2>1, <2>2 DEF Extended
  <2> HIDE DEF f
  <2> QED BY <2>3, <2>4, <2>5 DEF Reader
<1>6. DOMAIN f = 0 .. n
  OBVIOUS
<1> HIDE DEF f
<1>7. Path(st, t, f) /\ f[Len(t)] = Extended(st, t)
  BY <1>3, <1>4, <1>5, <1>6 DEF Path
<1> QED BY <1>7 DEF Leads

\* A byte of a name is taken for what it was before it was escaped.
LEMMA LeadsEscaped ==
  ASSUME NEW st \in Reader, st.quoted, ~st.escaped, NEW byte \in NameBytes
  PROVE  Leads(st, Escaped(byte), [st EXCEPT !.word = Append(@, byte)])
<1>1. byte \in Bytes /\ "backslash" \in Bytes /\ <<"backslash">> \in Seq(Bytes) /\ <<byte>> \in Seq(Bytes)
  BY DEF Bytes
<1>2. CASE byte \in {"quote", "backslash"}
  <2> DEFINE mid == [st EXCEPT !.escaped = TRUE]
  <2>1. Read(st, "backslash") = mid
    BY DEF Read
  <2>2. Read(mid, byte) = [st EXCEPT !.word = Append(@, byte)]
    BY DEF Read, Reader
  <2> HIDE DEF mid
  <2>3. Leads(st, <<"backslash">>, mid) /\ Leads(mid, <<byte>>, [st EXCEPT !.word = Append(@, byte)])
    BY <2>1, <2>2, LeadsOne
  <2>4. Leads(st, <<"backslash">> \o <<byte>>, [st EXCEPT !.word = Append(@, byte)])
    BY <1>1, <2>3, LeadsOn
  <2>5. <<"backslash">> \o <<byte>> = Escaped(byte)
    BY <1>2, ConcatTwo DEF Escaped
  <2> QED BY <2>4, <2>5
<1>3. CASE byte \notin {"quote", "backslash"}
  <2>1. Read(st, byte) = [st EXCEPT !.word = Append(@, byte)]
    BY <1>1, <1>3, ReadPlain
  <2> QED BY <1>3, <2>1, LeadsOne DEF Escaped
<1> QED BY <1>2, <1>3

\* However long a name is and whatever is in it, what was written of it is
\* read as the name.
LEMMA LeadsName ==
  ASSUME NEW st \in Reader, st.quoted, ~st.escaped, NEW name \in Seq(NameBytes)
  PROVE  Leads(st, Sanitized(name), Extended(st, name))
<1> DEFINE P(n) == \A s \in Seq(NameBytes) : Len(s) = n => Leads(st, Sanitized(s), Extended(st, s))
           T == {n \in Nat : P(n)}
<1>1. P(0)
  <2> SUFFICES Leads(st, Sanitized(<<>>), Extended(st, <<>>))
    BY EmptySeq
  <2>1. st.word \in Seq(Bytes) /\ st.word \o <<>> = st.word
    BY ConcatEmptySeq DEF Reader
  <2>2. Extended(st, <<>>) = st
    BY <2>1 DEF Extended, Reader
  <2> QED BY <2>2, SanitizedEmpty, LeadsNowhere
<1>2. ASSUME NEW n \in Nat, P(n) PROVE P(n + 1)
  <2> SUFFICES ASSUME NEW s \in Seq(NameBytes), Len(s) = n + 1
               PROVE  Leads(st, Sanitized(s), Extended(st, s))
    OBVIOUS
  <2>1. s # <<>>
    OBVIOUS
  <2>2. PICK r \in Seq(NameBytes), b \in NameBytes : s = Append(r, b)
    BY <2>1, SequenceEmptyOrAppend
  <2>3. Len(r) = n
    BY <2>2, AppendProperties
  <2> DEFINE mid == Extended(st, r)
             S == NameBytes \cup {"backslash"}
  <2>4. Leads(st, Sanitized(r), mid)
    BY <1>2, <2>3
  <2>5. /\ r \in Seq(Bytes) /\ b \in Bytes /\ st.word \in Seq(Bytes) /\ <<b>> \in Seq(Bytes)
        /\ st.word \o r \in Seq(Bytes)
    BY SeqMonotonic, ConcatProperties DEF Bytes, Reader
  <2>6. mid \in Reader /\ mid.quoted /\ ~mid.escaped
    BY <2>5, ExtendedIsReader
  <2>7. Sanitized(r) \in Seq(S) /\ Escaped(b) \in Seq(S) /\ Sanitized(s) = Sanitized(r) \o Escaped(b)
    BY <2>2, SanitizedMore
  <2>8. [mid EXCEPT !.word = Append(@, b)] = Extended(st, s)
    <3>1. Append(st.word \o r, b) = st.word \o s
      <4>1. \A w \in Seq(Bytes) : w \o Append(r, b) = Append(w \o r, b)
        BY <2>5, ConcatAppend
      <4> QED BY <2>2, <2>5, <4>1
    <3> QED BY <2>5, <3>1 DEF Extended, Reader
  <2> HIDE DEF mid, S
  <2>9. Leads(mid, Escaped(b), Extended(st, s))
    BY <2>6, <2>8, LeadsEscaped
  <2> QED BY <2>4, <2>7, <2>9, LeadsOn
<1> HIDE DEF P
<1>3. T \in SUBSET Nat /\ 0 \in T /\ \A n \in T : n + 1 \in T
  BY <1>1, <1>2
<1>4. Len(name) \in T
  <2> HIDE DEF T
  <2>1. Len(name) \in Nat
    BY LenProperties
  <2> QED BY <1>3, <2>1, Every
<1> QED BY <1>4 DEF P

\* Nothing is escaped: the words so far, and the one that is read.
At(words, word, quoted) == [words |-> words, word |-> word, quoted |-> quoted, escaped |-> FALSE]

LEMMA AtFacts ==
  ASSUME NEW a \in Seq(Seq(Bytes)), NEW b \in Seq(Bytes), NEW q \in BOOLEAN
  PROVE  /\ At(a, b, q) \in Reader /\ At(a, b, q).quoted = q /\ ~At(a, b, q).escaped
         /\ Read(At(a, b, q), "quote") = At(a, b, ~q)
BY DEF At, Reader, Read

\* t is what b begins with more.
Joined(b, t, c) == c = b \o t

LEMMA ExtendedAt ==
  ASSUME NEW a, NEW b, NEW q, NEW t, NEW c, Joined(b, t, c)
  PROVE  Extended(At(a, b, q), t) = At(a, c, q)
<1> SUFFICES ASSUME NEW st, st = At(a, b, q)
             PROVE  Extended(st, t) = At(a, c, q)
  OBVIOUS
<1>1. Extended(st, t) = [st EXCEPT !.word = c]
  <2>1. st.word = b
    BY DEF At
  <2> QED BY <2>1 DEF Extended, Joined
<1> QED BY <1>1 DEF At

\* Another word is begun.
NextWord(st, word) == At(Append(st.words, st.word), word, FALSE)

\* A word and what was written of its arguments are read as the word and the
\* arguments, however many there are.
LEMMA ArgumentsRead ==
  ASSUME NEW m \in Nat, NEW says \in Seq(Seq(Bytes)), Len(says) = m + 1, says[1] \in Seq(PlainBytes),
         NEW ss \in Seq(Seq(Bytes)), Len(ss) = m,
         \A i \in 1 .. m : \A st \in Reader :
           ~st.quoted /\ ~st.escaped => Leads(st, ss[i], NextWord(st, says[i + 1]))
  PROVE  Parsed(says[1] \o FlattenSeq(ss)) = says
<1> DEFINE St(k) == At(SubSeq(says, 1, k), says[k + 1], FALSE)
           F(k) == FlattenSeq(SubSeq(ss, 1, k))
<1> SUFFICES ASSUME NEW w, w = says[1] PROVE Parsed(w \o FlattenSeq(ss)) = says
  OBVIOUS
<1> DEFINE P(k) == k <= m => F(k) \in Seq(Bytes) /\ Leads(Begun, w \o F(k), St(k))
           T == {k \in Nat : P(k)}
<1>1. w \in Seq(PlainBytes) /\ w \in Seq(Bytes)
  BY SeqMonotonic DEF PlainBytes
<1>2. ASSUME NEW k \in 0 .. m
      PROVE  /\ SubSeq(says, 1, k) \in Seq(Seq(Bytes)) /\ says[k + 1] \in Seq(Bytes)
             /\ SubSeq(says, 1, k + 1) = Append(SubSeq(says, 1, k), says[k + 1])
             /\ St(k) \in Reader /\ ~St(k).quoted /\ ~St(k).escaped
  <2>1. k + 1 \in 1 .. Len(says) /\ k \in Int /\ 1 \in 1 .. Len(says) /\ 1 <= k + 1
    OBVIOUS
  <2>2. SubSeq(says, 1, k) \in Seq(Seq(Bytes)) /\ says[k + 1] \in Seq(Bytes)
    <3>1. \A i \in 1 .. k : says[i] \in Seq(Bytes)
      BY <2>1, ElementOfSeq
    <3> QED BY <2>1, <3>1, ElementOfSeq, SubSeqProperties
  <2>3. SubSeq(says, 1, k + 1) = SubSeq(says, 1, (k + 1) - 1) \o <<says[k + 1]>>
    BY <2>1, SubSeqRecursiveSecond
  <2>4. (k + 1) - 1 = k
    OBVIOUS
  <2>5. SubSeq(says, 1, k) \o <<says[k + 1]>> = Append(SubSeq(says, 1, k), says[k + 1])
    BY <2>2, AppendIsConcat
  <2>6. St(k) \in Reader /\ ~St(k).quoted /\ ~St(k).escaped
    BY <2>2, AtFacts
  <2> QED BY <2>2, <2>3, <2>4, <2>5, <2>6
<1>3. 0 \in T
  <2>1. SubSeq(ss, 1, 0) = <<>> /\ SubSeq(says, 1, 0) = <<>>
    BY SubSeqEmpty
  <2>2. F(0) = <<>> /\ <<>> \in Seq(Bytes) /\ w \o <<>> = w
    <3>1. F(0) = FlattenSeq(<<>>)
      BY <2>1
    <3>2. w \o <<>> = w
      BY <1>1, ConcatEmptySeq
    <3> QED BY <3>1, <3>2, FlattenEmpty
  <2>3. Begun \in Reader /\ ~Begun.escaped
    BY DEF Begun, Reader
  <2>4. <<>> \o w = w
    BY <1>1, ConcatEmptySeq
  <2>5. Extended(Begun, w) = St(0)
    <3>1. St(0) = At(<<>>, w, FALSE)
      <4>1. says[0 + 1] = w
        OBVIOUS
      <4> QED BY <2>1, <4>1
    <3>2. Begun = At(<<>>, <<>>, FALSE)
      BY DEF Begun, At
    <3>3. Extended(Begun, w) = At(<<>>, w, FALSE)
      <4>1. Joined(<<>>, w, w)
        BY <2>4 DEF Joined
      <4> QED BY <3>2, <4>1, ExtendedAt
    <3> HIDE DEF St
    <3> QED BY <3>1, <3>3
  <2>6. Leads(Begun, w, St(0))
    <3> HIDE DEF St
    <3>1. Leads(Begun, w, Extended(Begun, w))
      BY <1>1, <2>3, LeadsPlain
    <3> QED BY <2>5, <3>1
  <2>7. P(0)
    <3> HIDE DEF St
    <3>1. w \o F(0) = w
      BY <2>2
    <3> HIDE DEF F
    <3> QED BY <2>2, <2>6, <3>1
  <2> HIDE DEF P
  <2> QED BY <2>7
<1>4. ASSUME NEW k \in Nat, P(k) PROVE P(k + 1)
  <2> SUFFICES ASSUME k + 1 <= m
               PROVE  F(k + 1) \in Seq(Bytes) /\ Leads(Begun, w \o F(k + 1), St(k + 1))
    <3> HIDE DEF F, St
    <3> QED OBVIOUS
  <2>1. k \in 0 .. m /\ k + 1 \in 0 .. m /\ k + 1 \in 1 .. m /\ k + 1 \in 1 .. Len(ss) /\ 1 \in 1 .. Len(ss) /\ (k + 1) - 1 = k
    OBVIOUS
  <2>2. F(k) \in Seq(Bytes) /\ Leads(Begun, w \o F(k), St(k))
    <3> HIDE DEF F, St
    <3> QED BY <1>4, <2>1
  <2>3. SubSeq(ss, 1, k) \in Seq(Seq(Bytes)) /\ ss[k + 1] \in Seq(Bytes)
    <3>1. \A i \in 1 .. k : ss[i] \in Seq(Bytes)
      BY <2>1, ElementOfSeq
    <3> QED BY <2>1, <3>1, ElementOfSeq, SubSeqProperties
  <2>4. SubSeq(ss, 1, k + 1) = Append(SubSeq(ss, 1, k), ss[k + 1])
    <3>1. SubSeq(ss, 1, k + 1) = SubSeq(ss, 1, (k + 1) - 1) \o <<ss[k + 1]>>
      BY <2>1, SubSeqRecursiveSecond
    <3>2. SubSeq(ss, 1, k) \o <<ss[k + 1]>> = Append(SubSeq(ss, 1, k), ss[k + 1])
      BY <2>3, AppendIsConcat
    <3> QED BY <2>1, <3>1, <3>2
  <2>5. F(k + 1) = F(k) \o ss[k + 1]
    BY <2>3, <2>4, FlattenMore
  <2>6. Leads(St(k), ss[k + 1], NextWord(St(k), says[(k + 1) + 1]))
    <3>1. St(k) \in Reader /\ ~St(k).quoted /\ ~St(k).escaped
      BY <1>2, <2>1
    <3> HIDE DEF St
    <3> QED BY <2>1, <3>1
  <2>7. NextWord(St(k), says[(k + 1) + 1]) = St(k + 1)
    <3>1. St(k).words = SubSeq(says, 1, k) /\ St(k).word = says[k + 1]
      BY DEF At
    <3> QED BY <1>2, <2>1, <3>1 DEF NextWord
  <2> HIDE DEF St, F
  <2>8. Leads(St(k), ss[k + 1], St(k + 1))
    BY <2>6, <2>7
  <2>9. w \o F(k) \in Seq(Bytes)
    BY <1>1, <2>2, ConcatProperties
  <2>10. Leads(Begun, (w \o F(k)) \o ss[k + 1], St(k + 1))
    BY <2>2, <2>3, <2>8, <2>9, LeadsOn
  <2>11. (w \o F(k)) \o ss[k + 1] = w \o (F(k) \o ss[k + 1]) /\ F(k) \o ss[k + 1] \in Seq(Bytes)
    <3>1. \A ww, a, b \in Seq(Bytes) : (ww \o a) \o b = ww \o (a \o b) /\ a \o b \in Seq(Bytes)
      BY Associative
    <3> QED BY <1>1, <2>2, <2>3, <3>1
  <2> QED BY <2>5, <2>10, <2>11
<1>5. m \in T
  <2> HIDE DEF P
  <2>1. T \in SUBSET Nat /\ \A n \in T : n + 1 \in T
    BY <1>4
  <2> HIDE DEF T
  <2> QED BY <1>3, <2>1, Every
<1>6. F(m) = FlattenSeq(ss)
  <2>1. SubSeq(ss, 1, m) = ss
    BY SubSeqFull
  <2> QED BY <2>1
<1>7. F(m) \in Seq(Bytes) /\ Leads(Begun, w \o F(m), St(m))
  <2> HIDE DEF F, St
  <2>1. P(m)
    <3> HIDE DEF P
    <3> QED BY <1>5
  <2> QED BY <2>1
<1>8. Result(St(m)) = says
  <2>1. m \in 0 .. m /\ SubSeq(says, 1, m + 1) = says
    BY SubSeqFull
  <2>2. Append(SubSeq(says, 1, m), says[m + 1]) = says
    BY <1>2, <2>1
  <2> QED BY <2>2 DEF Result, At
<1> HIDE DEF F, St
<1>9. w \o F(m) \in Seq(Bytes)
  BY <1>1, <1>7, ConcatProperties
<1>10. Parsed(w \o F(m)) = Result(St(m))
  BY <1>7, <1>9, ParsedIsResult
<1> QED BY <1>6, <1>8, <1>10

-----------------------------------------------------------------------------
(* Requests. *)

\* A number never fills the room it has.
LEMMA ArgFits ==
  ASSUME NEW kind \in {"int", "long", "name", "tag"}, NEW n \in Nat,
         kind \in DOMAIN MaxDigits => n <= MaxDigits[kind]
  PROVE  /\ ArgLength(kind, n) \in Nat /\ ArgRoom(kind, n) \in Nat
         /\ ArgLength(kind, n) <= ArgRoom(kind, n)
         /\ kind = "int" => ArgLength(kind, n) + 1 <= ArgRoom(kind, n)
<1>1. IntLen = 12 /\ LongLen = 22
  BY DEF IntLen, LongLen
<1> QED BY <1>1 DEF ArgLength, ArgRoom, Around, MaxDigits

\* Every row has one to three arguments, and one whose word is longer than
\* the one its room is counted from has a number.
LEMMA RowShape ==
  ASSUME NEW row \in Rows
  PROVE  /\ row.length \in Nat /\ row.counted \in Nat
         /\ row.length <= row.counted \/ (row.length = row.counted + 1 /\ row.args = <<"int">>)
         /\ row.args \in {<<"int">>, <<"long">>, <<"name">>, <<"tag">>, <<"int", "int">>, <<"name", "name">>,
                          <<"tag", "name">>, <<"tag", "tag", "name">>, <<"name", "int">>, <<"name", "int", "int">>, <<"name", "name", "name">>}
<1>1. CASE row \in AskForSongs
  BY <1>1 DEF AskForSongs, Writes
<1>2. CASE row \in EditQueue
  BY <1>2 DEF EditQueue, Writes
<1>3. CASE row \in Play
  BY <1>3 DEF Play, Writes
<1>4. CASE row \in SetPlayer
  BY <1>4 DEF SetPlayer, Writes, Counts
<1>5. CASE row \in SetOutput
  BY <1>5 DEF SetOutput, Writes
<1>6. CASE row \in EditStored
  BY <1>6 DEF EditStored, Writes
<1>7. CASE row \in SetSticker
  BY <1>7 DEF SetSticker, Writes
<1>8. CASE row \in Search
  BY <1>8 DEF Search, Writes
<1>9. CASE row \in SetPriority
  BY <1>9 DEF SetPriority, Writes, Counts
<1> QED BY <1>1, <1>2, <1>3, <1>4, <1>5, <1>6, <1>7, <1>8, <1>9 DEF Rows

\* The text of every request, with the end of its line, is shorter than the
\* room snprintf() is given for it, for numbers of any size and names of any
\* length; also where the room was counted from a shorter word.
THEOREM EveryTextFits ==
  ASSUME NEW row \in Rows, NEW lengths \in Lengths(row.args)
  PROVE  TextLength(row, lengths) < Room(row, lengths)
<1> DEFINE args == row.args
<1>1. /\ row.length \in Nat /\ row.counted \in Nat
      /\ row.length <= row.counted \/ (row.length = row.counted + 1 /\ args = <<"int">>)
  BY RowShape
<1>2. /\ DOMAIN args \subseteq 1 .. 3
      /\ \A i \in DOMAIN args : args[i] \in {"int", "long", "name", "tag"}
      /\ args = <<"int">> => args[1] = "int" /\ DOMAIN args = {1}
  BY RowShape
<1>3. \A i \in DOMAIN args :
        /\ ArgLength(args[i], lengths[i]) \in Nat /\ ArgRoom(args[i], lengths[i]) \in Nat
        /\ ArgLength(args[i], lengths[i]) <= ArgRoom(args[i], lengths[i])
        /\ args[i] = "int" => ArgLength(args[i], lengths[i]) + 1 <= ArgRoom(args[i], lengths[i])
  BY <1>2, ArgFits DEF Lengths
<1> DEFINE L(i) == IF i \in DOMAIN args THEN ArgLength(args[i], lengths[i]) ELSE 0
           R(i) == IF i \in DOMAIN args THEN ArgRoom(args[i], lengths[i]) ELSE 0
<1>4. \A i \in 1 .. 3 : L(i) \in Nat /\ R(i) \in Nat /\ L(i) <= R(i)
  BY <1>3
<1>5. args = <<"int">> => L(1) + 1 <= R(1)
  BY <1>2, <1>3
<1>6. TextLength(row, lengths) = row.length + (L(1) + L(2) + L(3)) + 1
  BY DEF TextLength, Total
<1>7. Room(row, lengths) = row.counted + 2 + (R(1) + R(2) + R(3))
  BY DEF Room, Total
<1> HIDE DEF L, R
<1> QED BY <1>1, <1>4, <1>5, <1>6, <1>7

\* The word of a request has no bytes with a meaning.
LEMMA RowWord ==
  ASSUME NEW row \in Rows
  PROVE  row.word \in PlainBytes \ {"end"}
<1>1. row.word \in Bytes
  BY DEF Bytes
<1>2. row.word \notin {"quote", "backslash", "space", "end"}
  <2>1. CASE row \in AskForSongs
    BY <2>1 DEF AskForSongs, Writes
  <2>2. CASE row \in EditQueue
    BY <2>2 DEF EditQueue, Writes
  <2>3. CASE row \in Play
    BY <2>3 DEF Play, Writes
  <2>4. CASE row \in SetPlayer
    BY <2>4 DEF SetPlayer, Writes, Counts
  <2>5. CASE row \in SetOutput
    BY <2>5 DEF SetOutput, Writes
  <2>6. CASE row \in EditStored
    BY <2>6 DEF EditStored, Writes
  <2>7. CASE row \in SetSticker
    BY <2>7 DEF SetSticker, Writes
  <2>8. CASE row \in Search
    BY <2>8 DEF Search, Writes
  <2>9. CASE row \in SetPriority
    BY <2>9 DEF SetPriority, Writes, Counts
  <2> QED BY <2>1, <2>2, <2>3, <2>4, <2>5, <2>6, <2>7, <2>8, <2>9 DEF Rows
<1> QED BY <1>1, <1>2 DEF PlainBytes

LEMMA RepeatedBytes ==
  ASSUME NEW S, NEW byte \in S, NEW n \in Nat
  PROVE  Repeated(byte, n) \in Seq(S) /\ Len(Repeated(byte, n)) = n
BY DEF Repeated

\* What an argument of each kind is.
KindOf == {"int", "long", "name", "tag"}
IsArgument(kind, arg) ==
  IF kind = "name" THEN arg \in Seq(NameBytes)
  ELSE arg \in Seq({"digit", "tag"}) /\ (kind \in DOMAIN MaxDigits => Len(arg) <= MaxDigits[kind])

LEMMA ValuesAreArguments ==
  ASSUME NEW kind \in KindOf, NEW args, NEW arg \in Values(kind, args)
  PROVE  IsArgument(kind, arg)
<1>1. CASE kind = "tag"
  <2>1. arg = Repeated("tag", 6) /\ kind \notin DOMAIN MaxDigits
    BY <1>1 DEF Values, MaxDigits
  <2> QED BY <1>1, <2>1, RepeatedBytes DEF IsArgument
<1>2. CASE kind = "name"
  <2> DEFINE most == IF \E i, j \in DOMAIN args : i # j /\ args[i] = "name" /\ args[j] = "name" THEN 1 ELSE MaxName
  <2>1. arg \in Names(most) /\ most \in Nat
    BY <1>2, MaxNameType DEF Values
  <2> HIDE DEF most
  <2>2. PICK k \in 0 .. most : arg \in [1 .. k -> NameBytes]
    BY <2>1 DEF Names
  <2>3. arg \in Seq(NameBytes)
    BY <2>1, <2>2
  <2> QED BY <1>2, <2>3 DEF IsArgument
<1>3. CASE kind \in {"int", "long"}
  <2>1. PICK n \in {1, MaxDigits[kind]} : arg = Repeated("digit", n)
    BY <1>3 DEF Values
  <2>2. n \in Nat /\ n <= MaxDigits[kind]
    BY <1>3 DEF MaxDigits
  <2> QED BY <1>3, <2>1, <2>2, RepeatedBytes DEF IsArgument
<1> QED BY <1>1, <1>2, <1>3 DEF KindOf

\* The bytes of a line before its end.
LineBytes == Bytes \ {"end"}

\* What is written of an argument has no end of line, and its length is the
\* one the room is counted from.
LEMMA WrittenBytes ==
  ASSUME NEW kind \in KindOf, NEW arg, IsArgument(kind, arg)
  PROVE  /\ arg \in Seq(Bytes)
         /\ Written(kind, arg) \in Seq(LineBytes)
         /\ kind = "name" => Sanitized(arg) \in Seq(LineBytes)
         /\ Len(Written(kind, arg)) = IF kind = "tag" THEN Len(arg) ELSE IF kind = "name" THEN Len(Sanitized(arg)) + 2 ELSE Len(arg) + 2
<1>1. NameBytes \subseteq LineBytes /\ {"digit", "tag"} \subseteq LineBytes /\ LineBytes \subseteq Bytes
  BY NamesAreNoLines DEF LineBytes, Bytes
<1>2. "quote" \in LineBytes /\ <<"quote">> \in Seq(LineBytes) /\ NameBytes \cup {"backslash"} \subseteq LineBytes
  BY <1>1 DEF LineBytes, Bytes
<1>3. arg \in Seq(LineBytes) /\ arg \in Seq(Bytes)
  BY <1>1, SeqMonotonic DEF IsArgument
<1>4. ASSUME NEW t \in Seq(LineBytes)
      PROVE  /\ <<"quote">> \o t \o <<"quote">> \in Seq(LineBytes)
             /\ Len(<<"quote">> \o t \o <<"quote">>) = Len(t) + 2
  <2>1. <<"quote">> \o t \in Seq(LineBytes) /\ Len(<<"quote">> \o t) = Len(t) + 1 /\ Len(t) \in Nat
    BY <1>2, ConcatProperties, LenProperties
  <2> SUFFICES ASSUME NEW u \in Seq(LineBytes), Len(u) = Len(t) + 1, u = <<"quote">> \o t
               PROVE  u \o <<"quote">> \in Seq(LineBytes) /\ Len(u \o <<"quote">>) = Len(t) + 2
    BY <2>1
  <2> QED BY <1>2, <2>1, ConcatProperties
<1>5. CASE kind = "tag"
  BY <1>3, <1>5 DEF Written
<1>6. CASE kind = "name"
  <2>1. Sanitized(arg) \in Seq(LineBytes)
    <3>1. arg \in Seq(NameBytes)
      BY <1>6 DEF IsArgument
    <3>2. Sanitized(arg) \in Seq(NameBytes \cup {"backslash"})
      <4>1. CASE arg = <<>>
        <5>1. \A S : <<>> \in Seq(S)
          OBVIOUS
        <5>2. Sanitized(arg) = <<>>
          BY <4>1, SanitizedEmpty
        <5> HIDE <4>1
        <5> QED BY <5>1, <5>2, Zenon
      <4>2. CASE arg # <<>>
        <5>1. PICK byte \in NameBytes : TRUE
          <6>1. Len(arg) \in Nat \ {0}
            BY <3>1, <4>2, EmptySeq
          <6>2. arg[1] \in NameBytes
            BY <3>1, <6>1, ElementOfSeq
          <6> QED BY <6>2
        <5> QED BY <3>1, <5>1, SanitizedMore, Zenon
      <4> QED BY <4>1, <4>2
    <3> QED BY <1>2, <3>2, SeqMonotonic
  <2>2. Written(kind, arg) = <<"quote">> \o Sanitized(arg) \o <<"quote">>
    BY <1>6 DEF Written
  <2> QED BY <1>3, <1>4, <1>6, <2>1, <2>2
<1>7. CASE kind \in {"int", "long"}
  <2>1. Written(kind, arg) = <<"quote">> \o arg \o <<"quote">>
    BY <1>7 DEF Written
  <2> QED BY <1>3, <1>4, <1>7, <2>1
<1> QED BY <1>5, <1>6, <1>7 DEF KindOf

\* An argument as it was written is read as the argument.
LEMMA WrittenRead ==
  ASSUME NEW kind \in KindOf, NEW arg, IsArgument(kind, arg),
         NEW st \in Reader, ~st.quoted, ~st.escaped
  PROVE  Leads(st, <<"space">> \o Written(kind, arg), NextWord(st, arg))
<1> SUFFICES ASSUME NEW ws, ws = Append(st.words, st.word)
             PROVE  Leads(st, <<"space">> \o Written(kind, arg), At(ws, arg, FALSE))
  BY DEF NextWord
<1> DEFINE bare   == At(ws, <<>>, FALSE)
           quoted == At(ws, <<>>, TRUE)
<1>1. /\ <<"space">> \in Seq(Bytes) /\ <<"quote">> \in Seq(Bytes)
      /\ arg \in Seq(Bytes) /\ Written(kind, arg) \in Seq(Bytes)
  <2>1. LineBytes \subseteq Bytes
    BY DEF LineBytes
  <2>2. Written(kind, arg) \in Seq(LineBytes) /\ arg \in Seq(Bytes)
    BY WrittenBytes
  <2>3. "space" \in Bytes /\ "quote" \in Bytes
    BY DEF Bytes
  <2> QED BY <2>1, <2>2, <2>3, SeqMonotonic
<1>2. /\ ws \in Seq(Seq(Bytes)) /\ <<>> \in Seq(Bytes)
      /\ bare \in Reader /\ ~bare.escaped /\ quoted \in Reader /\ quoted.quoted /\ ~quoted.escaped
  <2>1. ws \in Seq(Seq(Bytes))
    <3>1. st.words \in Seq(Seq(Bytes)) /\ st.word \in Seq(Bytes)
      BY DEF Reader
    <3> QED BY <3>1, AppendProperties
  <2>2. <<>> \in Seq(Bytes)
    OBVIOUS
  <2> QED BY <2>1, <2>2, AtFacts
<1>3. Leads(st, <<"space">>, bare)
  <2>1. Read(st, "space") = bare
    BY DEF Read, Reader, At
  <2> QED BY <2>1, LeadsOne
<1>4. Leads(bare, <<"quote">>, quoted)
  <2>1. Read(bare, "quote") = quoted
    <3>1. Read(At(ws, <<>>, FALSE), "quote") = At(ws, <<>>, ~FALSE)
      BY <1>2, AtFacts
    <3> QED BY <3>1
  <2> HIDE DEF bare, quoted
  <2> QED BY <2>1, LeadsOne
<1>5. Extended(bare, arg) = At(ws, arg, FALSE) /\ Extended(quoted, arg) = At(ws, arg, TRUE)
  <2>1. Joined(<<>>, arg, arg)
    BY <1>1, ConcatEmptySeq DEF Joined
  <2>2. Extended(At(ws, <<>>, FALSE), arg) = At(ws, arg, FALSE)
    BY <2>1, ExtendedAt
  <2>3. Extended(At(ws, <<>>, TRUE), arg) = At(ws, arg, TRUE)
    BY <2>1, ExtendedAt
  <2> QED BY <2>2, <2>3
<1>6. Leads(Extended(quoted, arg), <<"quote">>, At(ws, arg, FALSE))
  <2>1. Read(At(ws, arg, TRUE), "quote") = At(ws, arg, ~TRUE)
    BY <1>1, <1>2, AtFacts
  <2>2. Leads(At(ws, arg, TRUE), <<"quote">>, Read(At(ws, arg, TRUE), "quote"))
    BY LeadsOne
  <2> QED BY <1>5, <2>1, <2>2
<1> HIDE DEF bare, quoted
<1>7. ASSUME NEW t \in Seq(Bytes), Leads(quoted, t, Extended(quoted, arg)),
             Written(kind, arg) = <<"quote">> \o t \o <<"quote">>
      PROVE  Leads(bare, Written(kind, arg), At(ws, arg, FALSE))
  <2>1. Leads(bare, <<"quote">> \o t, Extended(quoted, arg))
    BY <1>1, <1>4, <1>7, LeadsOn
  <2>2. <<"quote">> \o t \in Seq(Bytes)
    BY <1>1, ConcatProperties
  <2> QED BY <1>1, <1>6, <1>7, <2>1, <2>2, LeadsOn
<1>8. Leads(bare, Written(kind, arg), At(ws, arg, FALSE))
  <2>1. CASE kind = "tag"
    <3>1. arg \in Seq(PlainBytes)
      <4>1. {"digit", "tag"} \subseteq PlainBytes
        BY DEF PlainBytes, Bytes
      <4> QED BY <2>1, <4>1, SeqMonotonic DEF IsArgument
    <3>2. Written(kind, arg) = arg
      BY <2>1 DEF Written
    <3>3. Leads(bare, arg, Extended(bare, arg))
      BY <1>2, <3>1, LeadsPlain
    <3> QED BY <1>5, <3>2, <3>3
  <2>2. CASE kind = "name"
    <3>1. arg \in Seq(NameBytes)
      BY <2>2 DEF IsArgument
    <3>2. Leads(quoted, Sanitized(arg), Extended(quoted, arg))
      BY <1>2, <3>1, LeadsName
    <3>3. Sanitized(arg) \in Seq(LineBytes) /\ LineBytes \subseteq Bytes
      BY <2>2, WrittenBytes DEF LineBytes
    <3>4. Sanitized(arg) \in Seq(Bytes)
      BY <3>3, SeqMonotonic
    <3>5. Written(kind, arg) = <<"quote">> \o Sanitized(arg) \o <<"quote">>
      BY <2>2 DEF Written
    <3> QED BY <1>7, <3>2, <3>4, <3>5
  <2>3. CASE kind \in {"int", "long"}
    <3>1. arg \in Seq(PlainBytes)
      <4>1. {"digit", "tag"} \subseteq PlainBytes
        BY DEF PlainBytes, Bytes
      <4> QED BY <2>3, <4>1, SeqMonotonic DEF IsArgument
    <3>2. Leads(quoted, arg, Extended(quoted, arg))
      BY <1>2, <3>1, LeadsPlain
    <3>3. Written(kind, arg) = <<"quote">> \o arg \o <<"quote">>
      BY <2>3 DEF Written
    <3> QED BY <1>1, <1>7, <3>2, <3>3
  <2> QED BY <2>1, <2>2, <2>3 DEF KindOf
<1> QED BY <1>1, <1>3, <1>8, LeadsOn

-----------------------------------------------------------------------------
(* The stream of what the server has and what is still to be sent. *)

\* The first line of b ends at i.
EndsAt(b, i) == i \in DOMAIN b /\ b[i] = "end" /\ \A j \in 1 .. i - 1 : b[j] # "end"
Before(b, i) == SubSeq(b, 1, i - 1)
After(b, i)  == SubSeq(b, i + 1, Len(b))

\* b is a line, or two, that say what is in says.
SpellsOne(b, a)    == \E i \in DOMAIN b : EndsAt(b, i) /\ Parsed(Before(b, i)) = a /\ After(b, i) = <<>>
SpellsTwo(b, a, c) == \E i \in DOMAIN b : EndsAt(b, i) /\ Parsed(Before(b, i)) = a /\ SpellsOne(After(b, i), c)

\* What the server has and will have.
Stream == line \o unsent

Typed ==
  /\ phase \in {"idle", "sending", "sent", "failed"}
  /\ asked \in Seq(Seq(Seq(Bytes))) /\ Len(asked) <= 2
  /\ unsent \in Seq(Bytes) /\ line \in Seq(Bytes)
  /\ got \in Seq(Seq(Seq(Bytes)))

\* What was taken is the beginning of what was asked.
Taken == got = SubSeq(asked, 1, Len(got)) /\ Len(got) <= Len(asked)

\* What is left says the rest of it.
Left ==
  /\ Len(got) = Len(asked) => Stream = <<>>
  /\ Len(got) + 1 = Len(asked) => SpellsOne(Stream, asked[Len(asked)])
  /\ Len(got) + 2 = Len(asked) => SpellsTwo(Stream, asked[1], asked[2])

Phases ==
  /\ phase = "sent" => unsent = <<>>
  /\ phase = "idle" => asked = <<>> /\ got = <<>> /\ line = <<>> /\ unsent = <<>>

RequestInv == Typed /\ Taken /\ Left /\ Phases

\* There is one first end.
LEMMA FirstEnd ==
  ASSUME NEW b \in Seq(Bytes), NEW i, NEW k, EndsAt(b, i), EndsAt(b, k)
  PROVE  i = k
<1>1. i \in 1 .. Len(b) /\ k \in 1 .. Len(b) /\ Len(b) \in Nat
  BY LenProperties DEF EndsAt
<1>2. ~(i < k) /\ ~(k < i)
  BY <1>1 DEF EndsAt
<1> QED BY <1>1, <1>2

\* What comes after the end of a line is not part of it.
LEMMA MoreComes ==
  ASSUME NEW l \in Seq(Bytes), NEW r \in Seq(Bytes), NEW i, EndsAt(l, i)
  PROVE  EndsAt(l \o r, i) /\ Before(l \o r, i) = Before(l, i) /\ After(l \o r, i) = After(l, i) \o r
<1> SUFFICES ASSUME NEW b, b = l \o r
             PROVE  EndsAt(b, i) /\ Before(b, i) = Before(l, i) /\ After(b, i) = After(l, i) \o r
  OBVIOUS
<1>1. /\ b \in Seq(Bytes) /\ Len(b) = Len(l) + Len(r) /\ Len(l) \in Nat /\ Len(r) \in Nat
      /\ \A j \in 1 .. Len(l) : b[j] = l[j]
      /\ \A j \in 1 .. Len(r) : b[Len(l) + j] = r[j]
  <2>1. /\ b \in Seq(Bytes) /\ Len(b) = Len(l) + Len(r)
        /\ \A j \in 1 .. Len(l) + Len(r) : b[j] = IF j <= Len(l) THEN l[j] ELSE r[j - Len(l)]
    BY ConcatProperties
  <2>2. Len(l) \in Nat /\ Len(r) \in Nat
    BY LenProperties
  <2>3. \A j \in 1 .. Len(l) : b[j] = l[j]
    BY <2>1, <2>2
  <2>4. ASSUME NEW j \in 1 .. Len(r) PROVE b[Len(l) + j] = r[j]
    <3>1. Len(l) + j \in 1 .. Len(l) + Len(r) /\ ~(Len(l) + j <= Len(l)) /\ (Len(l) + j) - Len(l) = j
      BY <2>2
    <3> QED BY <2>1, <3>1
  <2> QED BY <2>1, <2>2, <2>3, <2>4
<1> HIDE DEF EndsAt
<1>2. i \in 1 .. Len(l) /\ \A j \in 1 .. i - 1 : j \in 1 .. Len(l)
  BY <1>1 DEF EndsAt
<1>3. EndsAt(b, i)
  BY <1>1, <1>2 DEF EndsAt
<1>4. Before(b, i) = Before(l, i)
  <2> DEFINE x == SubSeq(b, 1, i - 1)
             y == SubSeq(l, 1, i - 1)
  <2>1. i - 1 \in Int /\ \A j \in 1 .. i - 1 : b[j] \in Bytes /\ l[j] \in Bytes /\ b[j] = l[j] /\ 1 + j - 1 = j
    BY <1>1, <1>2, ElementOfSeq
  <2>2. x \in Seq(Bytes) /\ Len(x) = i - 1 /\ \A j \in 1 .. i - 1 : x[j] = b[j]
    BY <1>2, <2>1, SubSeqProperties
  <2>3. y \in Seq(Bytes) /\ Len(y) = i - 1 /\ \A j \in 1 .. i - 1 : y[j] = l[j]
    BY <1>2, <2>1, SubSeqProperties
  <2> HIDE DEF x, y
  <2>4. \A j \in 1 .. Len(x) : x[j] = y[j]
    BY <2>1, <2>2, <2>3
  <2>5. x = y
    BY <2>2, <2>3, <2>4, SeqEqual
  <2> QED BY <2>5 DEF Before, x, y
<1>5. After(b, i) = After(l, i) \o r
  <2> DEFINE x == SubSeq(b, i + 1, Len(b))
             y == SubSeq(l, i + 1, Len(l))
             n == Len(l) - i
  <2>1. /\ i + 1 \in Int /\ Len(l) \in Int /\ Len(b) \in Int /\ n \in Nat
        /\ \A j \in i + 1 .. Len(l) : l[j] \in Bytes
        /\ \A j \in i + 1 .. Len(b) : b[j] \in Bytes
    BY <1>1, <1>2, ElementOfSeq
  <2>2. /\ y \in Seq(Bytes) /\ Len(y) = n
        /\ \A j \in 1 .. Len(l) - (i + 1) + 1 : y[j] = l[(i + 1) + j - 1]
    BY <1>1, <1>2, <2>1, SubSeqProperties
  <2>3. /\ x \in Seq(Bytes) /\ Len(x) = n + Len(r)
        /\ \A j \in 1 .. Len(b) - (i + 1) + 1 : x[j] = b[(i + 1) + j - 1]
    BY <1>1, <1>2, <2>1, SubSeqProperties
  <2> HIDE DEF x, y
  <2>4. /\ y \o r \in Seq(Bytes) /\ Len(y \o r) = n + Len(r)
        /\ \A j \in 1 .. n + Len(r) : (y \o r)[j] = IF j <= n THEN y[j] ELSE r[j - n]
    BY <2>2, ConcatProperties
  <2>5. ASSUME NEW j \in 1 .. n + Len(r) PROVE x[j] = (y \o r)[j]
    <3>1. j \in 1 .. Len(b) - (i + 1) + 1 /\ x[j] = b[i + j]
      <4>1. j \in 1 .. Len(b) - (i + 1) + 1 /\ (i + 1) + j - 1 = i + j
        BY <1>1, <1>2
      <4> QED BY <2>3, <4>1
    <3>2. CASE j <= n
      <4>1. i + j \in 1 .. Len(l) /\ j \in 1 .. Len(l) - (i + 1) + 1 /\ (i + 1) + j - 1 = i + j
        BY <1>1, <1>2, <3>2
      <4> QED BY <1>1, <2>2, <2>4, <3>1, <3>2, <4>1
    <3>3. CASE ~(j <= n)
      <4>1. j - n \in 1 .. Len(r) /\ i + j = Len(l) + (j - n)
        BY <1>1, <1>2, <2>1, <3>3
      <4> QED BY <1>1, <2>4, <3>1, <3>3, <4>1
    <3> QED BY <3>2, <3>3
  <2>6. x = y \o r
    BY <2>3, <2>4, <2>5, SeqEqual
  <2> QED BY <2>6 DEF After, x, y
<1> QED BY <1>3, <1>4, <1>5

\* A line and what comes after it.
LEMMA LineEnds ==
  ASSUME NEW u \in Seq(LineBytes), NEW r \in Seq(Bytes)
  PROVE  /\ u \o <<"end">> \in Seq(Bytes) /\ (u \o <<"end">>) \o r \in Seq(Bytes)
         /\ EndsAt((u \o <<"end">>) \o r, Len(u) + 1)
         /\ Before((u \o <<"end">>) \o r, Len(u) + 1) = u
         /\ After((u \o <<"end">>) \o r, Len(u) + 1) = r
<1> SUFFICES ASSUME NEW l, l = u \o <<"end">>
             PROVE  /\ l \in Seq(Bytes) /\ l \o r \in Seq(Bytes)
                    /\ EndsAt(l \o r, Len(u) + 1) /\ Before(l \o r, Len(u) + 1) = u /\ After(l \o r, Len(u) + 1) = r
  OBVIOUS
<1>1. /\ u \in Seq(Bytes) /\ Len(u) \in Nat /\ \A j \in 1 .. Len(u) : u[j] \in Bytes /\ u[j] # "end"
  <2>1. LineBytes \subseteq Bytes /\ Len(u) \in Nat
    BY LenProperties DEF LineBytes
  <2>2. \A j \in 1 .. Len(u) : u[j] \in LineBytes
    BY ElementOfSeq
  <2> QED BY <2>1, <2>2, SeqMonotonic DEF LineBytes
<1>2. /\ l \in Seq(Bytes) /\ Len(l) = Len(u) + 1 /\ l[Len(u) + 1] = "end"
      /\ \A j \in 1 .. Len(u) : l[j] = u[j]
  <2>1. "end" \in Bytes
    BY DEF Bytes
  <2>2. l = Append(u, "end")
    BY <1>1, <2>1, AppendIsConcat
  <2> QED BY <1>1, <2>1, <2>2, AppendProperties
<1>3. EndsAt(l, Len(u) + 1)
  BY <1>1, <1>2 DEF EndsAt
<1>4. Before(l, Len(u) + 1) = u
  <2>1. (Len(u) + 1) - 1 = Len(u)
    BY <1>1
  <2>2. \A j \in 1 .. Len(u) : l[j] \in Bytes /\ 1 + j - 1 = j
    BY <1>1, <1>2
  <2>3. /\ SubSeq(l, 1, Len(u)) \in Seq(Bytes) /\ Len(SubSeq(l, 1, Len(u))) = Len(u)
        /\ \A j \in 1 .. Len(u) : SubSeq(l, 1, Len(u))[j] = u[j]
    BY <1>1, <1>2, <2>2, SubSeqProperties
  <2>4. SubSeq(l, 1, Len(u)) = u
    BY <1>1, <2>3, SeqEqual
  <2> QED BY <2>1, <2>4 DEF Before
<1>5. After(l, Len(u) + 1) = <<>>
  <2>1. (Len(u) + 1) + 1 \in Int /\ Len(u) + 1 \in Int /\ Len(u) + 1 < (Len(u) + 1) + 1
    BY <1>1
  <2> QED BY <1>2, <2>1, SubSeqEmpty DEF After
<1>6. EndsAt(l \o r, Len(u) + 1) /\ Before(l \o r, Len(u) + 1) = u /\ After(l \o r, Len(u) + 1) = <<>> \o r
  <2>1. /\ EndsAt(l \o r, Len(u) + 1) /\ Before(l \o r, Len(u) + 1) = Before(l, Len(u) + 1)
        /\ After(l \o r, Len(u) + 1) = After(l, Len(u) + 1) \o r
    BY <1>2, <1>3, MoreComes, Zenon
  <2> QED BY <1>4, <1>5, <2>1, Zenon
<1>7. l \o r \in Seq(Bytes) /\ <<>> \o r = r
  BY <1>2, ConcatProperties, ConcatEmptySeq
<1> QED BY <1>2, <1>6, <1>7

\* One to three sequences are as long together as they are each.
LEMMA FlatLength ==
  ASSUME NEW S, NEW ss \in Seq(Seq(S)), Len(ss) \in 1 .. 3
  PROVE  /\ FlattenSeq(ss) \in Seq(S)
         /\ Len(FlattenSeq(ss)) = Len(ss[1]) + (IF Len(ss) >= 2 THEN Len(ss[2]) ELSE 0) + (IF Len(ss) >= 3 THEN Len(ss[3]) ELSE 0)
<1> DEFINE F(k) == FlattenSeq(SubSeq(ss, 1, k))
<1>1. \A i \in 1 .. Len(ss) : ss[i] \in Seq(S) /\ Len(ss[i]) \in Nat
  <2> SUFFICES ASSUME NEW i \in 1 .. Len(ss) PROVE ss[i] \in Seq(S) /\ Len(ss[i]) \in Nat
    OBVIOUS
  <2>1. ss[i] \in Seq(S)
    BY ElementOfSeq
  <2> QED BY <2>1, LenProperties
<1>2. F(0) \in Seq(S) /\ Len(F(0)) = 0
  <2>1. SubSeq(ss, 1, 0) = <<>>
    BY SubSeqEmpty
  <2>2. F(0) = <<>>
    BY <2>1, FlattenEmpty
  <2>3. <<>> \in Seq(S) /\ Len(<<>>) = 0
    OBVIOUS
  <2> HIDE DEF F
  <2> QED BY <2>2, <2>3, Zenon
<1>3. ASSUME NEW k \in 1 .. Len(ss)
      PROVE  F(k - 1) \in Seq(S) /\ F(k) \in Seq(S) /\ Len(F(k)) = Len(F(k - 1)) + Len(ss[k])
  <2>1. 1 \in 1 .. Len(ss) /\ k \in 1 .. Len(ss) /\ k - 1 \in Int /\ 1 \in Int /\ \A i \in 1 .. k - 1 : ss[i] \in Seq(S)
    BY <1>1
  <2>2. SubSeq(ss, 1, k - 1) \in Seq(Seq(S))
    BY <2>1, SubSeqProperties
  <2>3. SubSeq(ss, 1, k) = SubSeq(ss, 1, k - 1) \o <<ss[k]>>
    BY <2>1, SubSeqRecursiveSecond
  <2>4. SubSeq(ss, 1, k) = Append(SubSeq(ss, 1, k - 1), ss[k])
    BY <1>1, <2>1, <2>2, <2>3, AppendIsConcat
  <2>5. F(k - 1) \in Seq(S) /\ F(k) = F(k - 1) \o ss[k]
    BY <1>1, <2>1, <2>2, <2>4, FlattenMore
  <2> HIDE DEF F
  <2>6. F(k - 1) \o ss[k] \in Seq(S) /\ Len(F(k - 1) \o ss[k]) = Len(F(k - 1)) + Len(ss[k])
    BY <1>1, <2>5, ConcatProperties
  <2> QED BY <2>5, <2>6
<1>4. F(Len(ss)) = FlattenSeq(ss)
  <2>1. SubSeq(ss, 1, Len(ss)) = ss
    BY SubSeqFull
  <2> QED BY <2>1
<1> HIDE DEF F
<1>5. F(1) \in Seq(S) /\ Len(F(1)) = Len(ss[1])
  <2>1. 1 \in 1 .. Len(ss) /\ 1 - 1 = 0
    OBVIOUS
  <2>2. F(1) \in Seq(S) /\ Len(F(1)) = Len(F(0)) + Len(ss[1])
    BY <1>3, <2>1
  <2>3. Len(ss[1]) \in Nat
    BY <1>1, <2>1
  <2> QED BY <1>2, <2>2, <2>3
<1>6. Len(ss) >= 2 => F(2) \in Seq(S) /\ Len(F(2)) = Len(ss[1]) + Len(ss[2])
  <2> SUFFICES ASSUME Len(ss) >= 2 PROVE F(2) \in Seq(S) /\ Len(F(2)) = Len(ss[1]) + Len(ss[2])
    OBVIOUS
  <2>1. 2 \in 1 .. Len(ss) /\ 2 - 1 = 1
    OBVIOUS
  <2> QED BY <1>3, <1>5, <2>1
<1>7. Len(ss) >= 3 => F(3) \in Seq(S) /\ Len(F(3)) = Len(ss[1]) + Len(ss[2]) + Len(ss[3])
  <2> SUFFICES ASSUME Len(ss) >= 3 PROVE F(3) \in Seq(S) /\ Len(F(3)) = Len(ss[1]) + Len(ss[2]) + Len(ss[3])
    OBVIOUS
  <2>1. 3 \in 1 .. Len(ss) /\ 3 - 1 = 2 /\ Len(ss) >= 2
    OBVIOUS
  <2> QED BY <1>3, <1>6, <2>1
<1>8. CASE Len(ss) = 1
  <2>1. Len(ss[1]) \in Nat
    BY <1>1, <1>8
  <2> QED BY <1>4, <1>5, <1>8, <2>1
<1>9. CASE Len(ss) = 2
  <2>1. Len(ss[1]) \in Nat /\ Len(ss[2]) \in Nat
    BY <1>1, <1>9
  <2>2. FlattenSeq(ss) \in Seq(S) /\ Len(FlattenSeq(ss)) = Len(ss[1]) + Len(ss[2])
    BY <1>4, <1>6, <1>9
  <2>3. Len(ss) >= 2 /\ ~(Len(ss) >= 3)
    BY <1>9
  <2> QED BY <2>1, <2>2, <2>3
<1>10. CASE Len(ss) = 3
  <2>1. Len(ss[1]) \in Nat /\ Len(ss[2]) \in Nat /\ Len(ss[3]) \in Nat
    BY <1>1, <1>10
  <2>2. F(3) = FlattenSeq(ss) /\ F(3) \in Seq(S) /\ Len(F(3)) = Len(ss[1]) + Len(ss[2]) + Len(ss[3])
    BY <1>4, <1>7, <1>10
  <2>3. FlattenSeq(ss) \in Seq(S) /\ Len(FlattenSeq(ss)) = Len(ss[1]) + Len(ss[2]) + Len(ss[3])
    BY <2>2
  <2>4. Len(ss) >= 2 /\ Len(ss) >= 3
    BY <1>10
  <2> DEFINE x == IF Len(ss) >= 2 THEN Len(ss[2]) ELSE 0
             y == IF Len(ss) >= 3 THEN Len(ss[3]) ELSE 0
  <2>5. x = Len(ss[2]) /\ y = Len(ss[3])
    BY <2>4, Zenon
  <2> HIDE DEF x, y
  <2>6. FlattenSeq(ss) \in Seq(S) /\ Len(FlattenSeq(ss)) = Len(ss[1]) + x + y
    BY <2>3, <2>5
  <2> QED BY <2>6 DEF x, y
<1>11. Len(ss) = 1 \/ Len(ss) = 2 \/ Len(ss) = 3
  OBVIOUS
<1> QED BY <1>8, <1>9, <1>10, <1>11, Zenon

\* Every request is one line, and the server reads it as the word and the
\* arguments that were asked for.
THEOREM RequestRead ==
  ASSUME NEW row \in Rows, NEW args \in Arguments(row)
  PROVE  \E u \in Seq(LineBytes) :
           /\ Request(row, args) = u \o <<"end">>
           /\ Parsed(u) = <<Repeated(row.word, row.length)>> \o args
           /\ <<Repeated(row.word, row.length)>> \o args \in Seq(Seq(Bytes))
<1> DEFINE m == Len(row.args)
           w == Repeated(row.word, row.length)
           ss == [i \in DOMAIN args |-> <<"space">> \o Written(row.args[i], args[i])]
           says == <<w>> \o args
           counted == [i \in DOMAIN args |-> Len(IF row.args[i] = "name" THEN Sanitized(args[i]) ELSE args[i])]
           u == w \o FlattenSeq(ss)
<1>1. /\ m \in 1 .. 3 /\ DOMAIN row.args = 1 .. m /\ row.length \in Nat
      /\ \A i \in 1 .. m : row.args[i] \in KindOf
  BY RowShape DEF KindOf
<1> HIDE DEF m
<1>2. /\ DOMAIN args = 1 .. m
      /\ \A i \in 1 .. m : args[i] \in Values(row.args[i], row.args)
  BY <1>1 DEF Arguments
<1>3. \A i \in 1 .. m : IsArgument(row.args[i], args[i])
  BY <1>1, <1>2, ValuesAreArguments
<1>4. \A i \in 1 .. m :
        /\ args[i] \in Seq(Bytes)
        /\ Written(row.args[i], args[i]) \in Seq(LineBytes)
        /\ row.args[i] = "name" => Sanitized(args[i]) \in Seq(LineBytes)
        /\ Len(Written(row.args[i], args[i])) = IF row.args[i] = "tag" THEN Len(args[i]) ELSE IF row.args[i] = "name" THEN Len(Sanitized(args[i])) + 2 ELSE Len(args[i]) + 2
  BY <1>1, <1>3, WrittenBytes
<1>5. args \in Seq(Seq(Bytes)) /\ Len(args) = m
  <2>1. args = [i \in 1 .. m |-> args[i]]
    BY <1>2 DEF Arguments
  <2>2. \A i \in 1 .. m : args[i] \in Seq(Bytes)
    BY <1>4
  <2> QED BY <1>1, <2>1, <2>2, IsASeq
<1>6. w \in Seq(PlainBytes) /\ w \in Seq(Bytes) /\ w \in Seq(LineBytes) /\ Len(w) = row.length
  <2>1. row.word \in PlainBytes /\ row.word \in Bytes /\ row.word \in LineBytes
    BY RowWord DEF PlainBytes, LineBytes
  <2> QED BY <1>1, <2>1, RepeatedBytes
<1> HIDE DEF w
<1>7. says \in Seq(Seq(Bytes)) /\ Len(says) = m + 1 /\ says[1] = w /\ \A i \in 1 .. m : says[i + 1] = args[i]
  <2>1. <<w>> \in Seq(Seq(Bytes)) /\ Len(<<w>>) = 1 /\ <<w>>[1] = w
    BY <1>6
  <2>2. /\ says \in Seq(Seq(Bytes)) /\ Len(says) = Len(<<w>>) + Len(args)
        /\ \A i \in 1 .. Len(<<w>>) + Len(args) : says[i] = IF i <= Len(<<w>>) THEN <<w>>[i] ELSE args[i - Len(<<w>>)]
    BY <1>5, <2>1, ConcatProperties
  <2>3. 1 \in 1 .. 1 + m /\ \A i \in 1 .. m : i + 1 \in 1 .. 1 + m /\ ~(i + 1 <= 1) /\ (i + 1) - 1 = i
    BY <1>1
  <2> HIDE DEF says
  <2> QED BY <1>1, <1>5, <2>1, <2>2, <2>3
<1>8. /\ ss \in Seq(Seq(LineBytes)) /\ ss \in Seq(Seq(Bytes)) /\ Len(ss) = m
      /\ \A i \in 1 .. m : ss[i] = <<"space">> \o Written(row.args[i], args[i]) /\ ss[i] \in Seq(LineBytes)
                           /\ Len(ss[i]) = Len(Written(row.args[i], args[i])) + 1
  <2>1. ASSUME NEW i \in 1 .. m
        PROVE  /\ <<"space">> \o Written(row.args[i], args[i]) \in Seq(LineBytes)
               /\ Len(<<"space">> \o Written(row.args[i], args[i])) = Len(Written(row.args[i], args[i])) + 1
    <3> SUFFICES ASSUME NEW t \in Seq(LineBytes)
                 PROVE  <<"space">> \o t \in Seq(LineBytes) /\ Len(<<"space">> \o t) = Len(t) + 1
      BY <1>4
    <3>1. "space" \in LineBytes
      BY DEF LineBytes, Bytes
    <3>2. <<"space">> \in Seq(LineBytes) /\ Len(<<"space">>) = 1 /\ Len(t) \in Nat
      BY <3>1, LenProperties
    <3>3. <<"space">> \o t \in Seq(LineBytes) /\ Len(<<"space">> \o t) = 1 + Len(t)
      BY <3>2, ConcatProperties
    <3> QED BY <3>2, <3>3
  <2>2. ss = [i \in 1 .. m |-> <<"space">> \o Written(row.args[i], args[i])]
    BY <1>2
  <2> HIDE DEF ss
  <2>3. \A i \in 1 .. m : ss[i] = <<"space">> \o Written(row.args[i], args[i])
    BY <2>2
  <2>4. \A i \in 1 .. m : ss[i] \in Seq(LineBytes)
    BY <2>1, <2>3
  <2>5. ss = [i \in 1 .. m |-> ss[i]]
    BY <2>2
  <2>6. ss \in Seq(Seq(LineBytes)) /\ Len(ss) = m
    BY <1>1, <2>4, <2>5, IsASeq
  <2>7. Seq(LineBytes) \subseteq Seq(Bytes)
    BY SeqMonotonic DEF LineBytes
  <2> QED BY <2>1, <2>3, <2>4, <2>6, <2>7, SeqMonotonic
<1>9. FlattenSeq(ss) \in Seq(LineBytes) /\ Len(FlattenSeq(ss)) = Total(ArgLength, row.args, counted)
  <2> HIDE DEF ss
  <2>1. \A i \in 1 .. m : counted[i] \in Nat /\ Len(ss[i]) = ArgLength(row.args[i], counted[i]) /\ Len(ss[i]) \in Nat
    <3> SUFFICES ASSUME NEW i \in 1 .. m
                 PROVE  counted[i] \in Nat /\ Len(ss[i]) = ArgLength(row.args[i], counted[i]) /\ Len(ss[i]) \in Nat
      OBVIOUS
    <3>1. counted[i] = Len(IF row.args[i] = "name" THEN Sanitized(args[i]) ELSE args[i])
      BY <1>2
    <3> HIDE DEF counted
    <3>2. row.args[i] # "name" => Len(args[i]) \in Nat
      BY <1>4, LenProperties
    <3>3. row.args[i] = "name" => Len(Sanitized(args[i])) \in Nat
      BY <1>4, LenProperties
    <3>4. row.args[i] \in KindOf
      BY <1>1
    <3>5. Len(ss[i]) = Len(Written(row.args[i], args[i])) + 1
      BY <1>8
    <3>6. Len(ss[i]) = counted[i] + (IF row.args[i] = "tag" THEN 1 ELSE 3) /\ counted[i] \in Nat
      <4>1. CASE row.args[i] = "tag"
        BY <1>4, <3>1, <3>2, <3>5, <4>1
      <4>2. CASE row.args[i] = "name"
        BY <1>4, <3>1, <3>3, <3>5, <4>2
      <4>3. CASE row.args[i] \notin {"tag", "name"}
        <5>1. Len(Written(row.args[i], args[i])) = Len(args[i]) + 2
          BY <1>4, <4>3
        <5>2. counted[i] = Len(args[i]) /\ Len(args[i]) \in Nat
          BY <3>1, <3>2, <4>3
        <5>3. (IF row.args[i] = "tag" THEN 1 ELSE 3) = 3
          BY <4>3
        <5>4. \A n \in Nat : (n + 2) + 1 = n + 3
          OBVIOUS
        <5>5. Len(ss[i]) = counted[i] + 3 /\ counted[i] \in Nat
          BY <3>5, <5>1, <5>2, <5>4, Zenon
        <5> QED BY <5>3, <5>5, Zenon
      <4> QED BY <4>1, <4>2, <4>3
    <3> QED BY <3>6 DEF ArgLength, Around
  <2>2. /\ FlattenSeq(ss) \in Seq(LineBytes)
        /\ Len(FlattenSeq(ss)) = Len(ss[1]) + (IF Len(ss) >= 2 THEN Len(ss[2]) ELSE 0) + (IF Len(ss) >= 3 THEN Len(ss[3]) ELSE 0)
    BY <1>1, <1>8, FlatLength
  <2> HIDE DEF counted
  <2> DEFINE A(i) == IF i \in DOMAIN row.args THEN ArgLength(row.args[i], counted[i]) ELSE 0
  <2>3. Total(ArgLength, row.args, counted) = A(1) + A(2) + A(3)
    BY DEF Total
  <2>4. /\ A(1) = Len(ss[1])
        /\ A(2) = IF Len(ss) >= 2 THEN Len(ss[2]) ELSE 0
        /\ A(3) = IF Len(ss) >= 3 THEN Len(ss[3]) ELSE 0
    <3>1. 1 \in 1 .. m /\ (2 \in 1 .. m <=> Len(ss) >= 2) /\ (3 \in 1 .. m <=> Len(ss) >= 3)
      BY <1>1, <1>8
    <3> QED BY <1>1, <2>1, <3>1
  <2> HIDE DEF A
  <2> QED BY <2>2, <2>3, <2>4
<1>10. counted \in Lengths(row.args)
  <2>1. DOMAIN counted = DOMAIN row.args /\ counted = [i \in DOMAIN row.args |-> counted[i]]
    BY <1>1, <1>2
  <2>2. ASSUME NEW i \in DOMAIN row.args
        PROVE  counted[i] \in Nat /\ (row.args[i] \in DOMAIN MaxDigits => counted[i] <= MaxDigits[row.args[i]])
    <3>1. i \in 1 .. m /\ counted[i] = Len(IF row.args[i] = "name" THEN Sanitized(args[i]) ELSE args[i])
      BY <1>1, <1>2, <2>2
    <3> HIDE DEF counted
    <3>2. CASE row.args[i] = "name"
      <4>1. Len(Sanitized(args[i])) \in Nat
        BY <1>4, <3>1, <3>2, LenProperties
      <4> QED BY <3>1, <3>2, <4>1 DEF MaxDigits
    <3>3. CASE row.args[i] # "name"
      <4>1. Len(args[i]) \in Nat
        BY <1>4, <3>1, LenProperties
      <4>2. row.args[i] \in DOMAIN MaxDigits => Len(args[i]) <= MaxDigits[row.args[i]]
        BY <1>3, <3>1, <3>3 DEF IsArgument
      <4> QED BY <3>1, <3>3, <4>1, <4>2
    <3> QED BY <3>2, <3>3
  <2> HIDE DEF counted
  <2> QED BY <2>1, <2>2 DEF Lengths
<1>11. u \in Seq(LineBytes) /\ Len(u) = row.length + Total(ArgLength, row.args, counted)
  <2> HIDE DEF ss, counted
  <2>1. u \in Seq(LineBytes) /\ Len(u) = Len(w) + Len(FlattenSeq(ss))
    BY <1>6, <1>9, ConcatProperties
  <2> HIDE DEF u
  <2> QED BY <1>6, <1>9, <2>1
<1>12. Text(row, args) = u \o <<"end">>
  BY DEF Text, w
<1>13. u \o <<"end">> \in Seq(Bytes) /\ Len(u \o <<"end">>) = TextLength(row, counted)
  <2> HIDE DEF u, counted
  <2>1. u \in Seq(Bytes) /\ <<"end">> \in Seq(Bytes) /\ Len(<<"end">>) = 1
    <3>1. LineBytes \subseteq Bytes /\ "end" \in Bytes
      BY DEF LineBytes, Bytes
    <3> QED BY <1>11, <3>1, SeqMonotonic
  <2>2. u \o <<"end">> \in Seq(Bytes) /\ Len(u \o <<"end">>) = Len(u) + 1
    BY <2>1, ConcatProperties
  <2> QED BY <1>11, <2>2 DEF TextLength
<1>14. TextLength(row, counted) < Room(row, counted)
  <2> HIDE DEF counted
  <2> QED BY <1>10, EveryTextFits
<1>15. Request(row, args) = u \o <<"end">>
  <2> HIDE DEF u
  <2>1. Request(row, args) = SubSeq(u \o <<"end">>, 1, IF Len(u \o <<"end">>) < Room(row, counted) THEN Len(u \o <<"end">>) ELSE Room(row, counted) - 1)
    BY <1>12 DEF Request
  <2> HIDE DEF counted
  <2>2. Request(row, args) = SubSeq(u \o <<"end">>, 1, Len(u \o <<"end">>))
    BY <1>13, <1>14, <2>1
  <2> QED BY <1>13, <2>2, SubSeqFull
<1>16. Parsed(u) = says
  <2> HIDE DEF ss, says
  <2>1. \A i \in 1 .. m : \A st \in Reader :
          ~st.quoted /\ ~st.escaped => Leads(st, ss[i], NextWord(st, says[i + 1]))
    <3> SUFFICES ASSUME NEW i \in 1 .. m, NEW st \in Reader, ~st.quoted, ~st.escaped
                 PROVE  Leads(st, ss[i], NextWord(st, says[i + 1]))
      OBVIOUS
    <3>1. Leads(st, <<"space">> \o Written(row.args[i], args[i]), NextWord(st, args[i]))
      BY <1>1, <1>3, WrittenRead
    <3> QED BY <1>7, <1>8, <3>1
  <2>2. says[1] \in Seq(PlainBytes) /\ m \in Nat
    BY <1>1, <1>6, <1>7
  <2>3. Parsed(says[1] \o FlattenSeq(ss)) = says
    BY <1>7, <1>8, <2>1, <2>2, ArgumentsRead
  <2> QED BY <1>7, <2>3
<1> HIDE DEF u
<1>17. u \in Seq(LineBytes) /\ Request(row, args) = u \o <<"end">> /\ Parsed(u) = says /\ says \in Seq(Seq(Bytes))
  <2> HIDE DEF says
  <2> QED BY <1>7, <1>11, <1>15, <1>16
<1> QED BY <1>17 DEF w

\* A line, and a line with one after it, spell what they are read as.
LEMMA SpellsLine ==
  ASSUME NEW u \in Seq(LineBytes), NEW a, Parsed(u) = a, NEW b, b = u \o <<"end">>
  PROVE  b \in Seq(Bytes) /\ SpellsOne(b, a)
<1>1. <<>> \in Seq(Bytes)
  OBVIOUS
<1>2. /\ u \o <<"end">> \in Seq(Bytes) /\ (u \o <<"end">>) \o <<>> \in Seq(Bytes)
      /\ EndsAt((u \o <<"end">>) \o <<>>, Len(u) + 1)
      /\ Before((u \o <<"end">>) \o <<>>, Len(u) + 1) = u
      /\ After((u \o <<"end">>) \o <<>>, Len(u) + 1) = <<>>
  BY <1>1, LineEnds
<1>3. b \in Seq(Bytes) /\ (u \o <<"end">>) \o <<>> = b
  BY <1>2, ConcatEmptySeq
<1>4. EndsAt(b, Len(u) + 1) /\ Before(b, Len(u) + 1) = u /\ After(b, Len(u) + 1) = <<>>
  BY <1>2, <1>3
<1>5. Len(u) + 1 \in DOMAIN b
  BY <1>4 DEF EndsAt
<1> QED BY <1>3, <1>4, <1>5 DEF SpellsOne

LEMMA SpellsLines ==
  ASSUME NEW u \in Seq(LineBytes), NEW a, Parsed(u) = a, NEW r \in Seq(Bytes), NEW c, SpellsOne(r, c),
         NEW b, b = (u \o <<"end">>) \o r
  PROVE  b \in Seq(Bytes) /\ SpellsTwo(b, a, c)
<1>1. /\ (u \o <<"end">>) \o r \in Seq(Bytes)
      /\ EndsAt((u \o <<"end">>) \o r, Len(u) + 1)
      /\ Before((u \o <<"end">>) \o r, Len(u) + 1) = u
      /\ After((u \o <<"end">>) \o r, Len(u) + 1) = r
  BY LineEnds
<1>2. b \in Seq(Bytes) /\ EndsAt(b, Len(u) + 1) /\ Before(b, Len(u) + 1) = u /\ After(b, Len(u) + 1) = r
  BY <1>1
<1>3. Len(u) + 1 \in DOMAIN b
  BY <1>2 DEF EndsAt
<1> QED BY <1>2, <1>3 DEF SpellsTwo

\* One sequence, and two.
LEMMA FlattenTwo ==
  ASSUME NEW S, NEW a \in Seq(S), NEW c \in Seq(S)
  PROVE  FlattenSeq(<<a>>) = a /\ FlattenSeq(<<a, c>>) = a \o c
<1>1. <<>> \in Seq(Seq(S)) /\ <<a>> \in Seq(Seq(S))
  OBVIOUS
<1>2. Append(<<>>, a) = <<a>>
  <2>1. Append(<<>>, a) = <<>> \o <<a>>
    BY <1>1, AppendIsConcat
  <2>2. <<>> \o <<a>> = <<a>>
    BY <1>1, ConcatEmptySeq
  <2> QED BY <2>1, <2>2
<1>3. Append(<<a>>, c) = <<a, c>>
  <2>1. Append(<<a>>, c) = <<a>> \o <<c>>
    BY <1>1, AppendIsConcat
  <2> QED BY <2>1, ConcatTwo
<1>4. FlattenSeq(<<a>>) = a
  <2>1. FlattenSeq(Append(<<>>, a)) = FlattenSeq(<<>>) \o a
    BY <1>1, FlattenMore
  <2>2. <<>> \o a = a
    BY ConcatEmptySeq
  <2> QED BY <1>2, <2>1, <2>2, FlattenEmpty
<1>5. FlattenSeq(Append(<<a>>, c)) = FlattenSeq(<<a>>) \o c
  BY <1>1, FlattenMore
<1> QED BY <1>3, <1>4, <1>5

\* A word alone is read as the word.
LEMMA WordRead ==
  ASSUME NEW word \in PlainBytes, word # "end"
  PROVE  <<word>> \in Seq(LineBytes) /\ Parsed(<<word>>) = <<<<word>>>> /\ <<<<word>>>> \in Seq(Seq(Bytes))
<1>1. word \in Bytes /\ word \in LineBytes
  BY DEF PlainBytes, LineBytes
<1>2. /\ <<word>> \in Seq(LineBytes) /\ <<word>> \in Seq(PlainBytes) /\ <<word>> \in Seq(Bytes)
  BY <1>1
<1> SUFFICES ASSUME NEW w \in Seq(PlainBytes), w \in Seq(Bytes)
             PROVE  Parsed(w) = <<w>> /\ <<w>> \in Seq(Seq(Bytes))
  BY <1>2
<1>3. <<w>> \in Seq(Seq(Bytes)) /\ Len(<<w>>) = 0 + 1 /\ <<w>>[1] = w /\ <<w>>[1] \in Seq(PlainBytes)
  OBVIOUS
<1>4. <<>> \in Seq(Seq(Bytes)) /\ Len(<<>>) = 0 /\ 0 \in Nat
  OBVIOUS
<1>5. Parsed(<<w>>[1] \o FlattenSeq(<<>>)) = <<w>>
  <2>1. \A i \in 1 .. 0 : \A st \in Reader : ~st.quoted /\ ~st.escaped => Leads(st, <<>>[i], NextWord(st, <<w>>[i + 1]))
    OBVIOUS
  <2> QED BY <1>3, <1>4, <2>1, ArgumentsRead
<1>6. <<w>>[1] \o FlattenSeq(<<>>) = w
  <2>1. w \o <<>> = w
    BY ConcatEmptySeq
  <2> QED BY <1>3, <2>1, FlattenEmpty
<1> QED BY <1>3, <1>5, <1>6

\* A constant text says its word, or its two.
LEMMA PlainRead ==
  ASSUME NEW word \in Plain, NEW lines, lines = PlainLines(word),
         NEW text, text = FlattenSeq([i \in DOMAIN lines |-> <<lines[i], "end">>]),
         NEW says, says = [i \in DOMAIN lines |-> <<<<lines[i]>>>>]
  PROVE  /\ text \in Seq(Bytes) /\ says \in Seq(Seq(Seq(Bytes))) /\ Len(says) \in {1, 2}
         /\ Len(says) = 1 => SpellsOne(text, says[1])
         /\ Len(says) = 2 => SpellsTwo(text, says[1], says[2])
<1>1. \A w \in Plain \cup {"noidle"} : w \in PlainBytes /\ w # "end"
  <2>1. Plain \cup {"noidle"} \subseteq Bytes
    BY DEF Bytes
  <2>2. \A w \in Plain \cup {"noidle"} : w \notin {"quote", "backslash", "space", "end"}
    BY DEF Plain
  <2> QED BY <2>1, <2>2 DEF PlainBytes
<1>2. \A w \in Plain \cup {"noidle"} :
        <<w>> \in Seq(LineBytes) /\ Parsed(<<w>>) = <<<<w>>>> /\ <<<<w>>>> \in Seq(Seq(Bytes))
  BY <1>1, WordRead
<1>3. \A w \in Plain \cup {"noidle"} :
        /\ <<w, "end">> \in Seq(Bytes) /\ SpellsOne(<<w, "end">>, <<<<w>>>>)
        /\ <<w, "end">> = <<w>> \o <<"end">>
  <2> SUFFICES ASSUME NEW w \in Plain \cup {"noidle"}
               PROVE  /\ <<w, "end">> \in Seq(Bytes) /\ SpellsOne(<<w, "end">>, <<<<w>>>>)
                      /\ <<w, "end">> = <<w>> \o <<"end">>
    OBVIOUS
  <2>1. <<w, "end">> = <<w>> \o <<"end">>
    BY ConcatTwo
  <2> QED BY <1>2, <2>1, SpellsLine
<1>4. CASE word # "idle"
  <2>1. lines = <<word>>
    BY <1>4 DEF PlainLines
  <2>2. [i \in DOMAIN lines |-> <<lines[i], "end">>] = <<<<word, "end">>>> /\ says = <<<<<<word>>>>>>
    BY <2>1
  <2>3. text = <<word, "end">>
    <3>1. <<word, "end">> \in Seq(Bytes)
      BY <1>3
    <3> QED BY <2>2, <3>1, FlattenTwo
  <2>4. text \in Seq(Bytes) /\ SpellsOne(text, <<<<word>>>>)
    BY <1>3, <2>3
  <2>5. says \in Seq(Seq(Seq(Bytes))) /\ Len(says) = 1 /\ says[1] = <<<<word>>>>
    BY <1>2, <2>2
  <2> QED BY <2>4, <2>5
<1>5. CASE word = "idle"
  <2> DEFINE a == <<"idle", "end">>
             c == <<"noidle", "end">>
  <2>1. lines = <<"idle", "noidle">>
    BY <1>5 DEF PlainLines
  <2>2. [i \in DOMAIN lines |-> <<lines[i], "end">>] = <<a, c>> /\ says = <<<<<<"idle">>>>, <<<<"noidle">>>>>>
    BY <2>1
  <2>3. "idle" \in Plain
    BY DEF Plain
  <2>4. /\ a \in Seq(Bytes) /\ a = <<"idle">> \o <<"end">> /\ <<"idle">> \in Seq(LineBytes) /\ Parsed(<<"idle">>) = <<<<"idle">>>>
        /\ c \in Seq(Bytes) /\ SpellsOne(c, <<<<"noidle">>>>)
    BY <1>2, <1>3, <2>3
  <2>5. text = a \o c
    <3> HIDE DEF a, c
    <3> QED BY <2>2, <2>4, FlattenTwo
  <2> HIDE DEF a, c
  <2>6. text \in Seq(Bytes) /\ SpellsTwo(text, <<<<"idle">>>>, <<<<"noidle">>>>)
    <3>1. text = (<<"idle">> \o <<"end">>) \o c
      BY <2>4, <2>5
    <3> QED BY <2>4, <3>1, SpellsLines
  <2>7. says \in Seq(Seq(Seq(Bytes))) /\ Len(says) = 2 /\ says[1] = <<<<"idle">>>> /\ says[2] = <<<<"noidle">>>>
    BY <1>2, <2>2, <2>3
  <2> QED BY <2>6, <2>7
<1> QED BY <1>4, <1>5

-----------------------------------------------------------------------------
LEMMA InitSpelled == RequestInit => RequestInv
<1> SUFFICES ASSUME RequestInit PROVE RequestInv
  OBVIOUS
<1>1. phase = "idle" /\ asked = <<>> /\ unsent = <<>> /\ line = <<>> /\ got = <<>>
  BY DEF RequestInit
<1>2. Typed
  BY <1>1 DEF Typed
<1>3. Taken
  <2>1. SubSeq(<<>>, 1, 0) = <<>>
    BY SubSeqEmpty
  <2>2. Len(<<>>) = 0
    OBVIOUS
  <2> QED BY <1>1, <2>1, <2>2 DEF Taken
<1>4. Left
  <2>1. <<>> \o <<>> = <<>> /\ Len(<<>>) = 0
    OBVIOUS
  <2> QED BY <1>1, <2>1 DEF Left, Stream
<1>5. Phases
  BY <1>1 DEF Phases
<1> QED BY <1>2, <1>3, <1>4, <1>5 DEF RequestInv

\* A request that is begun spells what was asked.
LEMMA BegunSpelled ==
  ASSUME RequestInv, NEW text, NEW says, Begins(text, says),
         text \in Seq(Bytes), says \in Seq(Seq(Seq(Bytes))), Len(says) \in {1, 2},
         Len(says) = 1 => SpellsOne(text, says[1]),
         Len(says) = 2 => SpellsTwo(text, says[1], says[2])
  PROVE  RequestInv'
<1>1. /\ phase' = "sending" /\ unsent' = text /\ asked' = says /\ line' = <<>> /\ got' = <<>>
  BY DEF Begins, RequestInv, Phases
<1>2. Typed'
  <2>1. <<>> \in Seq(Bytes) /\ Len(says) <= 2
    <3>1. \A n \in {1, 2} : n <= 2
      OBVIOUS
    <3>2. <<>> \in Seq(Bytes)
      OBVIOUS
    <3> QED BY <3>1, <3>2
  <2> QED BY <1>1, <2>1 DEF Typed
<1>3. Taken'
  <2>1. SubSeq(says, 1, 0) = <<>>
    BY SubSeqEmpty
  <2>2. Len(<<>>) = 0 /\ 0 <= Len(says)
    OBVIOUS
  <2> QED BY <1>1, <2>1, <2>2 DEF Taken
<1>4. Left'
  <2>1. Stream' = text
    <3>1. <<>> \o text = text
      BY ConcatEmptySeq
    <3> QED BY <1>1, <3>1 DEF Stream
  <2>2. Len(got') = 0
    BY <1>1
  <2>3. CASE Len(says) = 1
    BY <1>1, <2>1, <2>2, <2>3 DEF Left
  <2>4. CASE Len(says) = 2
    BY <1>1, <2>1, <2>2, <2>4 DEF Left
  <2> QED BY <2>3, <2>4
<1>5. Phases'
  BY <1>1 DEF Phases
<1> QED BY <1>2, <1>3, <1>4, <1>5 DEF RequestInv

\* What is sent is where it was in the stream.
LEMMA SentSpelled ==
  ASSUME RequestInv, NEW n, Send(n)
  PROVE  RequestInv'
<1>1. /\ phase = "sending" /\ n \in 1 .. Len(unsent) /\ line' = line \o SubSeq(unsent, 1, n)
      /\ unsent' = SubSeq(unsent, n + 1, Len(unsent)) /\ asked' = asked /\ got' = got
      /\ phase' = IF unsent' = <<>> THEN "sent" ELSE "sending"
  BY DEF Send, Rest, Sent
<1>2. line \in Seq(Bytes) /\ unsent \in Seq(Bytes) /\ Len(unsent) \in Nat
  BY LenProperties DEF RequestInv, Typed
<1> DEFINE x == SubSeq(unsent, 1, n)
           y == SubSeq(unsent, n + 1, Len(unsent))
<1>3. x \in Seq(Bytes) /\ y \in Seq(Bytes) /\ x \o y = unsent
  <2>1. /\ 1 \in 1 .. Len(unsent) + 1 /\ n \in 1 - 1 .. Len(unsent) /\ Len(unsent) \in n .. Len(unsent)
        /\ n \in Int /\ n + 1 \in Int /\ Len(unsent) \in Int
        /\ \A i \in 1 .. n : unsent[i] \in Bytes
        /\ \A i \in n + 1 .. Len(unsent) : unsent[i] \in Bytes
    BY <1>1, <1>2, ElementOfSeq
  <2>2. x \in Seq(Bytes) /\ y \in Seq(Bytes)
    BY <2>1, SubSeqProperties
  <2>3. x \o y = SubSeq(unsent, 1, Len(unsent))
    BY <1>2, <2>1, ConcatAdjacentSubSeq
  <2>4. SubSeq(unsent, 1, Len(unsent)) = unsent
    BY <1>2, SubSeqFull
  <2> QED BY <2>2, <2>3, <2>4
<1> HIDE DEF x, y
<1>4. line' = line \o x /\ unsent' = y
  BY <1>1 DEF x, y
<1>5. line' \in Seq(Bytes) /\ Stream' = Stream
  <2>1. line \o x \in Seq(Bytes)
    BY <1>2, <1>3, ConcatProperties
  <2>2. (line \o x) \o y = line \o (x \o y)
    <3>1. \A a, b, c \in Seq(Bytes) : (a \o b) \o c = a \o (b \o c)
      BY ConcatAssociative
    <3> QED BY <1>2, <1>3, <3>1
  <2> QED BY <1>3, <1>4, <2>1, <2>2 DEF Stream
<1>6. Typed'
  BY <1>1, <1>3, <1>4, <1>5 DEF RequestInv, Typed
<1>7. Taken'
  BY <1>1 DEF RequestInv, Taken
<1>8. Left'
  <2>1. Left
    BY DEF RequestInv
  <2> HIDE DEF Stream
  <2> QED BY <1>1, <1>5, <2>1 DEF Left
<1>9. Phases'
  BY <1>1 DEF Phases
<1> QED BY <1>6, <1>7, <1>8, <1>9 DEF RequestInv

\* The line that is taken is the next that was asked.
LEMMA TakenSpelled ==
  ASSUME RequestInv, ServerTakesLine
  PROVE  RequestInv'
<1>1. PICK i \in DOMAIN line :
        /\ EndsAt(line, i) /\ got' = Append(got, Parsed(Before(line, i))) /\ line' = After(line, i)
        /\ phase' = phase /\ asked' = asked /\ unsent' = unsent
  BY DEF ServerTakesLine, EndsAt, Before, After
<1>2. /\ line \in Seq(Bytes) /\ unsent \in Seq(Bytes) /\ asked \in Seq(Seq(Seq(Bytes)))
      /\ Len(asked) \in Nat /\ Len(asked) <= 2
      /\ got = SubSeq(asked, 1, Len(got)) /\ Len(got) <= Len(asked)
      /\ phase # "idle" /\ (phase = "sent" => unsent = <<>>)
  <2>1. line # <<>>
    BY <1>1
  <2> QED BY <2>1, LenProperties DEF RequestInv, Typed, Taken, Phases
<1>3. /\ EndsAt(Stream, i) /\ Before(Stream, i) = Before(line, i) /\ After(Stream, i) = line' \o unsent'
  <2>1. /\ EndsAt(line \o unsent, i) /\ Before(line \o unsent, i) = Before(line, i)
        /\ After(line \o unsent, i) = After(line, i) \o unsent
    BY <1>1, <1>2, MoreComes
  <2> QED BY <1>1, <2>1 DEF Stream
<1>4. Stream \in Seq(Bytes) /\ Stream # <<>>
  <2>1. Stream \in Seq(Bytes)
    BY <1>2, ConcatProperties DEF Stream
  <2> HIDE DEF Stream
  <2> QED BY <1>3, <2>1 DEF EndsAt
<1>5. line' \in Seq(Bytes)
  <2>1. Len(line) \in Nat /\ i \in 1 .. Len(line)
    BY <1>2, LenProperties
  <2>2. i + 1 \in Int /\ Len(line) \in Int /\ \A j \in i + 1 .. Len(line) : line[j] \in Bytes
    BY <1>2, <2>1, ElementOfSeq
  <2>3. SubSeq(line, i + 1, Len(line)) \in Seq(Bytes)
    BY <2>2, SubSeqProperties
  <2> QED BY <1>1, <2>3 DEF After
<1>6. got \in Seq(Seq(Seq(Bytes))) /\ Len(got) \in Nat
  BY LenProperties DEF RequestInv, Typed
<1>7. Left /\ Len(got) # Len(asked)
  <2>1. Left
    BY DEF RequestInv
  <2> HIDE DEF Stream
  <2> QED BY <1>4, <2>1 DEF Left
<1> HIDE DEF Stream
<1> DEFINE g == Len(got)
<1>8. ASSUME Parsed(Before(line, i)) = asked[g + 1]
      PROVE  /\ got' \in Seq(Seq(Seq(Bytes))) /\ Len(got') = g + 1 /\ g + 1 <= Len(asked) /\ Taken'
  <2>1. g + 1 \in 1 .. Len(asked) /\ 1 \in 1 .. Len(asked) /\ g + 1 \in 1 .. g + 1 /\ (g + 1) - 1 = g /\ g + 1 <= Len(asked)
    BY <1>2, <1>6, <1>7
  <2>2. asked[g + 1] \in Seq(Seq(Bytes)) /\ got' = Append(got, asked[g + 1])
    BY <1>1, <1>2, <1>8, <2>1, ElementOfSeq
  <2>3. got' \in Seq(Seq(Seq(Bytes))) /\ Len(got') = g + 1
    BY <1>6, <2>2, AppendProperties
  <2>4. SubSeq(asked, 1, g + 1) = SubSeq(asked, 1, (g + 1) - 1) \o <<asked[g + 1]>>
    BY <1>2, <2>1, SubSeqRecursiveSecond
  <2>5. SubSeq(asked, 1, g + 1) = got \o <<asked[g + 1]>>
    BY <1>2, <2>1, <2>4
  <2>6. got \o <<asked[g + 1]>> = Append(got, asked[g + 1])
    BY <1>6, <2>2, AppendIsConcat
  <2>7. got' = SubSeq(asked', 1, Len(got')) /\ Len(got') <= Len(asked')
    <3> HIDE DEF g
    <3> QED BY <1>1, <2>1, <2>2, <2>3, <2>5, <2>6
  <2> QED BY <2>1, <2>3, <2>7 DEF Taken
<1>9. ASSUME Parsed(Before(line, i)) = asked[g + 1], Left'
      PROVE  RequestInv'
  <2>1. Typed'
    BY <1>1, <1>2, <1>5, <1>8, <1>9 DEF RequestInv, Typed
  <2>2. Phases'
    BY <1>1, <1>2 DEF Phases
  <2> QED BY <1>8, <1>9, <2>1, <2>2 DEF RequestInv
<1>10. CASE g + 1 = Len(asked)
  <2>1. PICK k : EndsAt(Stream, k) /\ Parsed(Before(Stream, k)) = asked[Len(asked)] /\ After(Stream, k) = <<>>
    BY <1>7, <1>10 DEF Left, SpellsOne
  <2>2. k = i
    BY <1>3, <1>4, <2>1, FirstEnd
  <2>3. Parsed(Before(line, i)) = asked[g + 1] /\ Stream' = <<>>
    BY <1>3, <1>10, <2>1, <2>2 DEF Stream
  <2>4. Len(got') = Len(asked) /\ Len(asked') = Len(asked)
    BY <1>1, <1>8, <1>10, <2>3
  <2>5. Left'
    BY <1>2, <2>3, <2>4 DEF Left
  <2> QED BY <1>9, <2>3, <2>5
<1>11. CASE g + 2 = Len(asked)
  <2>1. g = 0 /\ Len(asked) = 2
    <3>1. Len(asked) \in Nat /\ Len(asked) <= 2 /\ g \in Nat
      BY <1>2, <1>6
    <3> HIDE DEF g
    <3> QED BY <1>11, <3>1
  <2>2. PICK k : EndsAt(Stream, k) /\ Parsed(Before(Stream, k)) = asked[1] /\ SpellsOne(After(Stream, k), asked[2])
    BY <1>7, <1>11 DEF Left, SpellsTwo
  <2>3. k = i
    BY <1>3, <1>4, <2>2, FirstEnd
  <2>4. Parsed(Before(line, i)) = asked[g + 1] /\ SpellsOne(Stream', asked[2])
    <3>1. Parsed(Before(line, i)) = asked[1] /\ g + 1 = 1
      BY <1>3, <2>1, <2>2, <2>3
    <3>2. Stream' = After(Stream, i)
      BY <1>3 DEF Stream
    <3>3. SpellsOne(Stream', asked[2])
      BY <2>2, <2>3, <3>2
    <3> HIDE DEF g
    <3> QED BY <3>1, <3>3
  <2>5. Len(got') = 1 /\ asked' = asked
    BY <1>1, <1>8, <2>1, <2>4
  <2>6. Left'
    <3>1. Len(asked') = 2
      BY <2>1, <2>5
    <3>2. SpellsOne(Stream', asked'[2])
      BY <2>4, <2>5
    <3> QED BY <2>5, <3>1, <3>2 DEF Left
  <2> QED BY <1>9, <2>4, <2>6
<1>12. g + 1 = Len(asked) \/ g + 2 = Len(asked)
  BY <1>2, <1>6, <1>7
<1> QED BY <1>10, <1>11, <1>12

\* After an error, and after a reply, nothing is left.
LEMMA IdleSpelled ==
  ASSUME phase' = "idle", asked' = <<>>, got' = <<>>, line' = <<>>, unsent' = <<>>
  PROVE  RequestInv'
<1>1. <<>> \in Seq(Bytes) /\ Len(<<>>) = 0 /\ <<>> \o <<>> = <<>> /\ 0 <= 2
  OBVIOUS
<1>2. SubSeq(<<>>, 1, 0) = <<>>
  BY SubSeqEmpty
<1>3. Typed' /\ Phases'
  BY <1>1 DEF Typed, Phases
<1>4. Taken'
  BY <1>1, <1>2 DEF Taken
<1>5. Left'
  BY <1>1 DEF Left, Stream
<1> QED BY <1>3, <1>4, <1>5 DEF RequestInv

LEMMA SpelledStep == RequestInv /\ [RequestNext]_requestVars => RequestInv'
<1> SUFFICES ASSUME RequestInv, [RequestNext]_requestVars PROVE RequestInv'
  OBVIOUS
<1>1. ASSUME NEW word \in Plain, SendPlain(word) PROVE RequestInv'
  <2> DEFINE lines == PlainLines(word)
             text  == FlattenSeq([i \in DOMAIN lines |-> <<lines[i], "end">>])
             says  == [i \in DOMAIN lines |-> <<<<lines[i]>>>>]
  <2>1. Begins(text, says)
    BY <1>1 DEF SendPlain
  <2>2. /\ text \in Seq(Bytes) /\ says \in Seq(Seq(Seq(Bytes))) /\ Len(says) \in {1, 2}
        /\ Len(says) = 1 => SpellsOne(text, says[1])
        /\ Len(says) = 2 => SpellsTwo(text, says[1], says[2])
    BY PlainRead
  <2> HIDE DEF text, says
  <2> QED BY <2>1, <2>2, BegunSpelled
<1>2. ASSUME NEW row \in Rows, NEW args \in Arguments(row), SendWritten(row, args) PROVE RequestInv'
  <2> DEFINE w == <<Repeated(row.word, row.length)>> \o args
  <2>1. Begins(Request(row, args), <<w>>)
    BY <1>2 DEF SendWritten
  <2>2. PICK u \in Seq(LineBytes) :
          Request(row, args) = u \o <<"end">> /\ Parsed(u) = w /\ w \in Seq(Seq(Bytes))
    BY RequestRead
  <2> HIDE DEF w
  <2>3. Request(row, args) \in Seq(Bytes) /\ SpellsOne(Request(row, args), w)
    BY <2>2, SpellsLine
  <2>4. <<w>> \in Seq(Seq(Seq(Bytes))) /\ Len(<<w>>) = 1 /\ <<w>>[1] = w
    BY <2>2
  <2>5. PICK text, says : text = Request(row, args) /\ says = <<w>>
    OBVIOUS
  <2>6. says \in Seq(Seq(Seq(Bytes))) /\ Len(says) = 1 /\ SpellsOne(text, says[1]) /\ text \in Seq(Bytes) /\ Begins(text, says)
    BY <2>1, <2>3, <2>4, <2>5
  <2>7. Len(says) \in {1, 2} /\ Len(says) # 2
    BY <2>6
  <2> QED BY <2>6, <2>7, BegunSpelled
<1>3. CASE SendSome
  BY <1>3, SentSpelled DEF SendSome
<1>4. CASE SendFails
  <2>1. phase' = "failed" /\ UNCHANGED <<asked, unsent, line, got>>
    BY <1>4 DEF SendFails
  <2>2. Typed' /\ Taken' /\ Left' /\ Phases'
    BY <2>1 DEF RequestInv, Typed, Taken, Left, Phases, Stream
  <2> QED BY <2>2 DEF RequestInv
<1>5. CASE ConnectAgain
  <2>1. phase' = "idle" /\ asked' = <<>> /\ got' = <<>> /\ line' = <<>> /\ unsent' = <<>>
    BY <1>5 DEF ConnectAgain, LineAfterDisconnect
  <2> QED BY <2>1, IdleSpelled
<1>6. CASE ServerTakesLine
  BY <1>6, TakenSpelled
<1>7. CASE ReplyRead
  <2>1. /\ phase = "sent" /\ Len(got) = Len(asked) /\ phase' = "idle" /\ asked' = <<>> /\ got' = <<>>
        /\ unsent' = unsent /\ line' = line
    BY <1>7 DEF ReplyRead
  <2>2. unsent = <<>> /\ line \o unsent = <<>> /\ line \in Seq(Bytes)
    BY <2>1 DEF RequestInv, Typed, Left, Phases, Stream
  <2>3. line = <<>>
    BY <2>2, ConcatEmptySeq
  <2> QED BY <2>1, <2>2, <2>3, IdleSpelled
<1>8. CASE UNCHANGED requestVars
  <2>1. Typed' /\ Taken' /\ Left' /\ Phases'
    BY <1>8 DEF requestVars, RequestInv, Typed, Taken, Left, Phases, Stream
  <2> QED BY <2>1 DEF RequestInv
<1> QED BY <1>1, <1>2, <1>3, <1>4, <1>5, <1>6, <1>7, <1>8 DEF RequestNext

\* At every moment, what the server has and what libmpd still has to send are
\* together the rest of the request that was asked, in whatever pieces send()
\* takes it (mpd_executeCommand); one that failed is forgotten with the
\* connection (mpd_unlock_conn, mpd_disconnect).
THEOREM StreamIsRequest == RequestSpec => []RequestInv
<1> QED BY InitSpelled, SpelledStep, PTL DEF RequestSpec

\* A request that was sent and taken says to the server what was asked, for
\* names of any length and any quotes and backslashes in them, and every byte
\* of it is taken (mpd_sanitizeArg, the mpd_send...Command() functions).
THEOREM ArrivesWhole == RequestSpec => []ArrivesAsAsked
<1>1. RequestInv => ArrivesAsAsked
  <2> SUFFICES ASSUME RequestInv, phase = "sent", "end" \notin ToSet(line)
               PROVE  got = asked /\ line = <<>>
    BY DEF ArrivesAsAsked
  <2>1. /\ line \in Seq(Bytes) /\ unsent = <<>> /\ asked \in Seq(Seq(Seq(Bytes))) /\ Len(asked) <= 2
        /\ Len(got) \in Nat /\ Len(asked) \in Nat /\ Taken /\ Left
    BY LenProperties DEF RequestInv, Typed, Phases
  <2>2. Stream = line
    BY <2>1, ConcatEmptySeq DEF Stream
  <2>3. ASSUME NEW k, EndsAt(line, k) PROVE FALSE
    BY <2>3 DEF EndsAt, ToSet
  <2>4. Len(got) + 1 # Len(asked)
    BY <2>1, <2>2, <2>3 DEF Left, SpellsOne
  <2>5. Len(got) + 2 # Len(asked)
    BY <2>1, <2>2, <2>3 DEF Left, SpellsTwo
  <2>6. Len(got) = Len(asked)
    BY <2>1, <2>4, <2>5 DEF Taken
  <2>7. SubSeq(asked, 1, Len(asked)) = asked
    BY <2>1, SubSeqFull
  <2> QED BY <2>1, <2>2, <2>6, <2>7 DEF Taken, Left
<1> QED BY <1>1, StreamIsRequest, PTL

\* Whatever is sent of a request and wherever that fails, the server takes
\* nothing but what was asked, in its order (mpd_executeCommand,
\* mpd_disconnect).
THEOREM NothingElse == RequestSpec => []NothingElseArrives
<1>1. RequestInv => NothingElseArrives
  <2> SUFFICES ASSUME RequestInv PROVE Len(got) <= Len(asked) /\ SubSeq(got, 1, Len(got)) = SubSeq(asked, 1, Len(got))
    BY DEF NothingElseArrives, IsPrefix
  <2>1. got \in Seq(Seq(Seq(Bytes))) /\ Taken
    BY DEF RequestInv, Typed
  <2>2. SubSeq(got, 1, Len(got)) = got
    BY <2>1, SubSeqFull
  <2> QED BY <2>1, <2>2 DEF Taken
<1> QED BY <1>1, StreamIsRequest, PTL

-----------------------------------------------------------------------------
(* Replies. *)

LineNames ==
  Starts \cup {"Artist", "Album", "Pos", "Prio", "Last-Modified", "tagtype", "other",
               "outputid", "outputname", "outputenabled", "volume", "state",
               "", "malformed", "OK", "ACK", "lost"}

Line == [name : LineNames, value : {"", "x", "y"}]

Broken == {"ACK", "lost", "malformed"}

Here == said[Len(said)]

\* What the connection knows of the reply: its end, the element it stopped
\* at, and an error once there was one.
Reading ==
  /\ said \in Seq(Line)
  /\ element = IF said = <<>> THEN NoElement ELSE ElementOf(Here)
  /\ pc # "idle" => done = (said # <<>> /\ Here \in Ends)
  /\ error \in {None, "ACK", "lost", "malformed", "parse"}
  /\ \A i \in 1 .. Len(said) : said[i] \in Ends => i = Len(said)
  /\ error = None => \A i \in 1 .. Len(said) : said[i].name \notin Broken

\* A getter looks at an element only after it has read a line, and reads on
\* only after an element.
Place ==
  /\ call \in Calls \cup {None}
  /\ call = None <=> pc = "idle"
  /\ pc \in {"idle", "enter", "first", "read", "check", "more", "finish", "unlock", "returned"}
  /\ pc \in {"first", "check", "more"} => said # <<>>
  /\ pc = "read" => element # NoElement

\* Without an error the reply is read to its end, or to a line without colon
\* when there is no mpd_finishCommand().
Over ==
  pc \in {"unlock", "returned"} /\ error = None
    => done \/ (call \in Records /\ \E i \in 1 .. Len(said) : said[i].name = "")

\* With one nothing is given by those that look.
NothingGiven == pc = "returned" /\ error # None /\ call \in ChecksUnlock => result = <<>>

ReplyInv == Reading /\ Place /\ Over /\ NothingGiven

-----------------------------------------------------------------------------
LEMMA NamesOfEnds == \A l \in Ends : l.name \in {"OK", "ACK", "lost"}
<1> SUFFICES ASSUME NEW l \in Ends PROVE l.name \in {"OK", "ACK", "lost"}
  OBVIOUS
<1>1. PICK n \in {"OK", "ACK", "lost"} : l = [name |-> n, value |-> ""]
  BY DEF Ends
<1> QED BY <1>1

LEMMA NamesOfBad == \A l \in Bad : l.name \in {"", "malformed"}
<1> SUFFICES ASSUME NEW l \in Bad PROVE l.name \in {"", "malformed"}
  OBVIOUS
<1>1. l = [name |-> "", value |-> ""] \/ l = [name |-> "malformed", value |-> ""]
  BY DEF Bad
<1>2. CASE l = [name |-> "", value |-> ""]
  BY <1>2
<1>3. CASE l = [name |-> "malformed", value |-> ""]
  BY <1>3
<1> QED BY <1>1, <1>2, <1>3

LEMMA LinesAreLines ==
  ASSUME NEW c, NEW heard \in Ends \cup LinesFor(c) \cup Bad PROVE heard \in Line
<1> DEFINE Is(n) == heard = [name |-> n, value |-> ""]
<1>1. CASE heard \in Bad
  <2>1. Is("") \/ Is("malformed")
    BY <1>1 DEF Bad
  <2>2. CASE Is("")
    BY <2>2 DEF Line, LineNames
  <2>3. CASE Is("malformed")
    BY <2>3 DEF Line, LineNames
  <2> QED BY <2>1, <2>2, <2>3
<1>2. CASE heard \in Ends
  <2>1. \E n \in {"OK", "ACK", "lost"} : Is(n)
    BY <1>2 DEF Ends
  <2>2. CASE Is("OK")
    BY <2>2 DEF Line, LineNames
  <2>3. CASE Is("ACK")
    BY <2>3 DEF Line, LineNames
  <2>4. CASE Is("lost")
    BY <2>4 DEF Line, LineNames
  <2>5. Is("OK") \/ Is("ACK") \/ Is("lost")
    <3> HIDE DEF Is
    <3> QED BY <2>1
  <2> QED BY <2>2, <2>3, <2>4, <2>5
<1>3. CASE heard \in LinesFor(c)
  <2>1. CASE c \in Entities \cup FirstEntity
    BY <1>3, <2>1 DEF LinesFor, Line, LineNames
  <2>2. CASE c \notin Entities \cup FirstEntity /\ c \in NamedElements
    BY <1>3, <2>2 DEF LinesFor, Line, LineNames
  <2>3. CASE c \notin Entities \cup FirstEntity /\ c \notin NamedElements /\ c \in Outputs
    BY <1>3, <2>3 DEF LinesFor, Line, LineNames
  <2>4. CASE c \notin Entities \cup FirstEntity /\ c \notin NamedElements /\ c \notin Outputs
    BY <1>3, <2>4 DEF LinesFor, Line, LineNames
  <2> QED BY <2>1, <2>2, <2>3, <2>4
<1> QED BY <1>1, <1>2, <1>3

\* No line is taken for the lack of one.
LEMMA LinesAreElements == \A l \in Line : l # NoElement
<1> SUFFICES ASSUME NEW l \in Line PROVE l.name # NoElement.name
  OBVIOUS
<1>1. l.name \in LineNames
  BY DEF Line
<1>2. NoElement.name = None
  BY DEF NoElement
<1> QED BY <1>1, <1>2 DEF LineNames, None, Starts

LEMMA HasLast == ASSUME NEW s \in Seq(Line), s # <<>> PROVE Len(s) \in 1 .. Len(s)
<1>1. Len(s) \in Nat /\ Len(s) # 0
  BY EmptySeq
<1> QED BY <1>1

\* Of what a getter looks at, nothing is an end.
LEMMA ElementIsNoEnd ==
  ASSUME Reading, element # NoElement
  PROVE  said # <<>> /\ Here \notin Ends
BY DEF Reading, ElementOf

\* When there is nothing to look at, the last line was an end or a bad one.
LEMMA NoElementIsOver ==
  ASSUME Reading, element = NoElement, said # <<>>
  PROVE  Here \in Bad \cup Ends
<1>1. Here \in Line
  BY DEF Reading, Here
<1>2. Here # NoElement
  BY <1>1, LinesAreElements
<1> QED BY <1>2 DEF Reading, ElementOf

\* Another line is read only while the reply is not over, and Reading holds on.
LEMMA ReadsReading ==
  ASSUME Reading, pc # "idle", ~done, NEW then, then # "idle", Reads(then)
  PROVE  Reading' /\ said' # <<>> /\ pc' = then /\ UNCHANGED <<call, result>>
<1> PICK heard \in Ends \cup (IF Len(said) < MaxLines THEN LinesFor(call) \cup Bad ELSE {}) :
      /\ said' = Append(said, heard)
      /\ element' = ElementOf(heard)
      /\ done' = (heard \in Ends)
      /\ error' = ErrorAfter(heard)
      /\ pc' = then
      /\ UNCHANGED <<call, built, result>>
  BY DEF Reads
<1>1. heard \in Line
  BY LinesAreLines
<1>2. /\ said \in Seq(Line) /\ said' \in Seq(Line) /\ said' # <<>>
      /\ Len(said') = Len(said) + 1 /\ Len(said) \in Nat
      /\ \A i \in 1 .. Len(said) : said'[i] = said[i]
      /\ said'[Len(said')] = heard
  BY <1>1 DEF Reading
<1>3. \A i \in 1 .. Len(said) : said[i] \notin Ends
  <2> SUFFICES ASSUME NEW i \in 1 .. Len(said), said[i] \in Ends PROVE FALSE
    OBVIOUS
  <2>1. i = Len(said) /\ said # <<>>
    BY <1>2 DEF Reading
  <2> QED BY <2>1 DEF Reading, Here
<1>4. \A i \in 1 .. Len(said') : said'[i] \in Ends => i = Len(said')
  BY <1>2, <1>3
<1>5. error' \in {None, "ACK", "lost", "malformed", "parse"}
  BY DEF ErrorAfter, Reading
<1>6. error' = None => \A i \in 1 .. Len(said') : said'[i].name \notin Broken
  <2> SUFFICES ASSUME error' = None PROVE \A i \in 1 .. Len(said') : said'[i].name \notin Broken
    OBVIOUS
  <2>1. heard.name \notin Broken /\ error = None
    BY DEF ErrorAfter, Broken, None
  <2>2. \A i \in 1 .. Len(said) : said[i].name \notin Broken
    BY <2>1 DEF Reading
  <2> QED BY <1>2, <2>1, <2>2
<1>7. element' = IF said' = <<>> THEN NoElement ELSE ElementOf(heard)
  BY <1>2
<1>8. Here' = heard
  BY <1>2 DEF Here
<1>9. ElementOf(Here)' = ElementOf(heard)
  BY <1>8 DEF ElementOf, NoElement
<1> QED BY <1>2, <1>4, <1>5, <1>6, <1>7, <1>8, <1>9 DEF Reading

\* Where nothing is read, Reading holds on, also when the getter finds an error.
LEMMA SameReading ==
  ASSUME Reading, UNCHANGED <<said, element, done>>, error' \in {error, "parse"},
         pc # "idle", pc' # "idle"
  PROVE  Reading'
<1>1. Here' = Here /\ ElementOf(Here)' = ElementOf(Here)
  BY DEF Here, ElementOf, NoElement
<1>2. error' = None => error = None
  BY DEF None
<1>3. said' = said /\ element' = element /\ done' = done
  OBVIOUS
<1> QED BY <1>1, <1>2, <1>3 DEF Reading

-----------------------------------------------------------------------------
LEMMA InitInv == Init => ReplyInv
  BY DEF Init, ReplyInv, Reading, Place, Over, NothingGiven, Here, Calls, Entities, FirstEntity,
         NamedElements, Outputs, Records, None

\* A getter gives NULL or something, and the functions go on with it.
LEMMA GoesOn ==
  ASSUME ReplyInv, pc \in {"enter", "first", "check", "more"}, NEW what, GivesNull \/ Gives(what),
         call \in Records /\ error = None => done \/ (said # <<>> /\ Here.name = "")
  PROVE  ReplyInv'
<1>1. call \in Calls /\ pc' \in {"enter", "finish", "unlock"} /\ UNCHANGED <<call, said, element, done, error>>
  BY DEF ReplyInv, Place, GivesNull, Gives
<1>2. pc' = "unlock" => call \in Records
  BY <1>1 DEF GivesNull, Gives, Finishes, Calls
<1>3. Reading'
  BY <1>1, SameReading DEF ReplyInv
<1>4. Place'
  BY <1>1 DEF ReplyInv, Place, NoElement
<1>5. Over'
  <2>1. said = <<>> => ~done
    BY DEF ReplyInv, Reading
  <2>2. said # <<>> => Len(said) \in 1 .. Len(said)
    <3>1. said \in Seq(Line)
      BY DEF ReplyInv, Reading
    <3> QED BY <3>1, HasLast
  <2> SUFFICES ASSUME pc' = "unlock", error = None, ~done
               PROVE  call \in Records /\ \E i \in 1 .. Len(said) : said[i].name = ""
    BY <1>1 DEF Over
  <2> QED BY <1>2, <2>1, <2>2 DEF Here
<1>6. NothingGiven'
  BY <1>1 DEF NothingGiven
<1> QED BY <1>3, <1>4, <1>5, <1>6 DEF ReplyInv

\* Where only the place changes, or a parse error is found.
LEMMA MovesOn ==
  ASSUME ReplyInv, call \in Calls, UNCHANGED <<call, said, element, done>>, error' \in {error, "parse"},
         pc' \in {"enter", "first", "read", "check", "more", "finish", "unlock"},
         pc' \in {"first", "check", "more"} => said # <<>>,
         pc' = "read" => element # NoElement,
         pc' = "unlock" => error' = "parse" \/ done
  PROVE  ReplyInv'
<1>1. Reading'
  BY SameReading DEF ReplyInv, Place, Calls, Entities, FirstEntity, NamedElements, Outputs, Records, None
<1>2. Place'
  BY DEF ReplyInv, Place, Calls, Entities, FirstEntity, NamedElements, Outputs, Records, None, NoElement
<1>3. Over' /\ NothingGiven'
  BY DEF Over, NothingGiven, None
<1> QED BY <1>1, <1>2, <1>3 DEF ReplyInv

\* Where a line is read.
LEMMA ReadsOn ==
  ASSUME ReplyInv, call \in Calls, ~done, NEW then, then \in {"first", "check", "more", "finish"}, Reads(then)
  PROVE  ReplyInv'
<1>1. Reading' /\ said' # <<>> /\ pc' = then /\ UNCHANGED <<call, result>>
  BY ReadsReading DEF ReplyInv, Place, Calls, Entities, FirstEntity, NamedElements, Outputs, Records, None
<1>2. Place'
  BY <1>1 DEF ReplyInv, Place, Calls, Entities, FirstEntity, NamedElements, Outputs, Records, None
<1>3. Over' /\ NothingGiven'
  BY <1>1 DEF Over, NothingGiven
<1> QED BY <1>1, <1>2, <1>3 DEF ReplyInv

LEMMA CallInv == ASSUME ReplyInv, NEW c \in Calls, Call(c) PROVE ReplyInv'
<1>1. Reading'
  <2>1. /\ said' = <<>> /\ element' = NoElement /\ done' = FALSE /\ error' = None
        /\ said' \in Seq(Line) /\ Len(said') = 0
    BY DEF Call
  <2>2. (\A i \in 1 .. Len(said) : FALSE)'
    BY <2>1
  <2>3. (pc # "idle" => done = (said # <<>> /\ Here \in Ends))'
    BY <2>1
  <2> QED BY <2>1, <2>2, <2>3 DEF Reading
<1>2. Place'
  BY DEF Call, Place, Calls, Entities, FirstEntity, NamedElements, Outputs, Records, None
<1>3. Over' /\ NothingGiven'
  BY DEF Call, Over, NothingGiven
<1> QED BY <1>1, <1>2, <1>3 DEF ReplyInv

LEMMA EnterInv == ASSUME ReplyInv, call \in Calls, Enter PROVE ReplyInv'
<1>1. CASE (done \/ (call \in Outputs /\ error # None)) /\ GivesNull
  <2>1. call \in Records => done
    BY <1>1 DEF Records, Outputs
  <2> QED BY <1>1, <2>1, GoesOn DEF Enter
<1>2. CASE ~done /\ KeepsElement /\ pc' = "first" /\ UNCHANGED <<call, said, element, done, error, built, result>>
  <2>1. said # <<>>
    BY <1>2, ElementIsNoEnd DEF KeepsElement, ReplyInv
  <2> QED BY <1>2, <2>1, MovesOn
<1>3. CASE ~done /\ Reads("first")
  BY <1>3, ReadsOn
<1> QED BY <1>1, <1>2, <1>3 DEF Enter

LEMMA EntityInv == ASSUME ReplyInv, call \in Calls, EntityStarts \/ EntityContinues PROVE ReplyInv'
<1>1. call \notin Records
  BY DEF EntityStarts, EntityContinues, Records, Entities, FirstEntity
<1>2. CASE GivesNull \/ Gives(built)
  BY <1>1, <1>2, GoesOn DEF EntityStarts, EntityContinues
<1>3. CASE /\ element # NoElement /\ error' = "parse" /\ pc' = "finish"
           /\ UNCHANGED <<call, said, element, done, built, result>>
  BY <1>3, MovesOn
<1>4. CASE element # NoElement /\ pc' = "read" /\ UNCHANGED <<call, said, element, done, error, result>>
  BY <1>4, MovesOn
<1> QED BY <1>2, <1>3, <1>4 DEF EntityStarts, EntityContinues

LEMMA NamedElementInv == ASSUME ReplyInv, call \in Calls, NamedElement PROVE ReplyInv'
<1>1. call \notin Records
  BY DEF NamedElement, Records, NamedElements
<1>2. CASE GivesNull \/ Gives(element.value)
  BY <1>1, <1>2, GoesOn DEF NamedElement
<1>3. CASE element # NoElement /\ pc' = "read" /\ UNCHANGED <<call, said, element, done, error, built, result>>
  BY <1>3, MovesOn
<1> QED BY <1>2, <1>3 DEF NamedElement

LEMMA OutputInv == ASSUME ReplyInv, call \in Calls, OutputStarts \/ OutputContinues PROVE ReplyInv'
<1>1. call \notin Records /\ said # <<>>
  BY DEF OutputStarts, OutputContinues, Records, Outputs, ReplyInv, Place
<1>2. CASE OutputStarts
  BY <1>1, <1>2, MovesOn DEF OutputStarts
<1>3. CASE OutputContinues /\ Gives(built)
  BY <1>1, <1>3, GoesOn DEF OutputContinues
<1>4. CASE element # NoElement /\ pc' = "read" /\ UNCHANGED <<call, said, element, done, error, result>>
  BY <1>4, MovesOn
<1> QED BY <1>2, <1>3, <1>4 DEF OutputContinues

LEMMA RecordInv == ASSUME ReplyInv, call \in Calls, RecordStarts \/ RecordContinues PROVE ReplyInv'
<1>1. said # <<>>
  BY DEF RecordStarts, RecordContinues, ReplyInv, Place
<1>2. CASE RecordStarts /\ GivesNull
  BY <1>2, GoesOn DEF RecordStarts, GivesNull
<1>3. CASE RecordStarts /\ error = None /\ pc' = "more" /\ UNCHANGED <<call, said, element, done, error, result>>
  BY <1>1, <1>3, MovesOn
<1>4. CASE element # NoElement /\ pc' = "read" /\ UNCHANGED <<call, said, element, done, error, result>>
  BY <1>4, MovesOn
<1>5. CASE error' = "parse" /\ pc' = "unlock" /\ UNCHANGED <<call, said, element, done, built, result>>
  BY <1>5, MovesOn
<1>6. CASE RecordContinues /\ element = NoElement /\ Gives(built)
  <2>1. Here \in Bad \cup Ends
    BY <1>1, <1>6, NoElementIsOver DEF ReplyInv
  <2>2. Here \in Ends => done
    BY <1>1, <1>6 DEF ReplyInv, Reading, RecordContinues
  <2>3. said \in Seq(Line)
    BY DEF ReplyInv, Reading
  <2>4. Len(said) \in 1 .. Len(said)
    BY <1>1, <2>3, HasLast
  <2>5. error = None => Here.name \notin Broken
    BY <2>4 DEF ReplyInv, Reading, Here
  <2>6. Here \in Bad /\ error = None => Here.name = ""
    BY <2>5, NamesOfBad DEF Broken
  <2>7. error = None => done \/ (said # <<>> /\ Here.name = "")
    BY <1>1, <2>1, <2>2, <2>6
  <2> QED BY <1>6, <2>7, GoesOn DEF RecordContinues
<1> QED BY <1>2, <1>3, <1>4, <1>5, <1>6 DEF RecordStarts, RecordContinues

LEMMA ReadMoreInv == ASSUME ReplyInv, call \in Calls, ReadMore PROVE ReplyInv'
<1>1. CASE pc = "read" /\ Reads(IF call \in Records \cup Outputs THEN "check" ELSE "more")
  <2>1. said # <<>> /\ Here \notin Ends
    BY <1>1, ElementIsNoEnd DEF ReplyInv, Place
  <2>2. ~done
    BY <1>1, <2>1 DEF ReplyInv, Reading
  <2>3. CASE call \in Records \cup Outputs
    BY <1>1, <2>2, <2>3, ReadsOn
  <2>4. CASE call \notin Records \cup Outputs
    BY <1>1, <2>2, <2>4, ReadsOn
  <2> QED BY <2>3, <2>4
<1>2. CASE pc = "check" /\ error # None /\ GivesNull
  BY <1>2, GoesOn
<1>3. CASE pc = "check" /\ pc' = "more" /\ UNCHANGED <<call, said, element, done, error, built, result>>
  <2>1. said # <<>>
    BY <1>3 DEF ReplyInv, Place
  <2> QED BY <1>3, <2>1, MovesOn
<1> QED BY <1>1, <1>2, <1>3 DEF ReadMore

LEMMA FinishCommandInv == ASSUME ReplyInv, call \in Calls, FinishCommand PROVE ReplyInv'
<1>1. CASE done /\ pc' = "unlock" /\ UNCHANGED <<call, said, element, done, error, built, result>>
  BY <1>1, MovesOn
<1>2. CASE ~done /\ Reads("finish")
  BY <1>2, ReadsOn
<1> QED BY <1>1, <1>2 DEF FinishCommand

LEMMA UnlockInv == ASSUME ReplyInv, call \in Calls, Unlock PROVE ReplyInv'
<1>1. Reading'
  BY SameReading DEF ReplyInv, Unlock
<1>2. Place'
  BY DEF ReplyInv, Place, Unlock, NoElement
<1>3. Over'
  BY DEF ReplyInv, Over, Unlock
<1>4. NothingGiven'
  BY DEF NothingGiven, Unlock
<1> QED BY <1>1, <1>2, <1>3, <1>4 DEF ReplyInv

LEMMA ReturnedInv == ASSUME ReplyInv, Returned PROVE ReplyInv'
<1>1. Reading'
  <2>1. /\ said' = <<>> /\ element' = NoElement /\ error' = None /\ pc' = "idle"
        /\ said' \in Seq(Line) /\ Len(said') = 0
    BY DEF Returned
  <2> QED BY <2>1 DEF Reading
<1>2. Place'
  BY DEF Returned, Place, Calls, Entities, FirstEntity, NamedElements, Outputs, Records, None
<1>3. Over' /\ NothingGiven'
  BY DEF Returned, Over, NothingGiven
<1> QED BY <1>1, <1>2, <1>3 DEF ReplyInv

LEMMA NextInv == ASSUME ReplyInv, [Next]_vars PROVE ReplyInv'
<1>1. CASE UNCHANGED vars
  <2>1. Here' = Here /\ ElementOf(Here)' = ElementOf(Here)
    BY <1>1 DEF vars, Here, ElementOf, NoElement
  <2>2. Reading' /\ Place' /\ Over' /\ NothingGiven'
    BY <1>1, <2>1 DEF vars, ReplyInv, Reading, Place, Over, NothingGiven
  <2> QED BY <2>2 DEF ReplyInv
<1>2. CASE \E c \in Calls : Call(c)
  BY <1>2, CallInv
<1>3. CASE Returned
  BY <1>3, ReturnedInv
<1>4. ASSUME \/ Enter \/ EntityStarts \/ EntityContinues \/ NamedElement \/ OutputStarts \/ OutputContinues
             \/ RecordStarts \/ RecordContinues \/ ReadMore \/ FinishCommand \/ Unlock
      PROVE  ReplyInv'
  <2>1. pc # "idle"
    BY <1>4 DEF Enter, EntityStarts, EntityContinues, NamedElement, OutputStarts, OutputContinues,
                RecordStarts, RecordContinues, ReadMore, FinishCommand, Unlock
  <2>2. call \in Calls
    BY <2>1 DEF ReplyInv, Place
  <2> QED BY <1>4, <2>2, EnterInv, EntityInv, NamedElementInv, OutputInv, RecordInv, ReadMoreInv,
             FinishCommandInv, UnlockInv
<1> QED BY <1>1, <1>2, <1>3, <1>4 DEF Next

-----------------------------------------------------------------------------
\* What the getters, the loops around them and the unlock keep between a
\* connection, the element it stopped at and the place in the function
\* (mpd_getNextReturnElement, mpd_finishCommand, mpd_unlock_conn).
THEOREM Invariant == Spec => []ReplyInv
  BY InitInv, NextInv, PTL DEF Spec

\* Every variable has its type, the element is that of the last line, and a
\* reply is read no further than its end (mpd_getNextReturnElement).
THEOREM TypeCorrect == Spec => []TypeOK
<1>1. ReplyInv => TypeOK
  <2> SUFFICES ASSUME ReplyInv PROVE TypeOK
    OBVIOUS
  <2>1. said \in Seq(Line) /\ Last(said) = Here /\ DOMAIN said = 1 .. Len(said)
    BY DEF ReplyInv, Reading, Last, Here
  <2>2. element = NoElement \/ element = Last(said)
    BY <2>1 DEF ReplyInv, Reading, ElementOf
  <2>3. \A i \in DOMAIN said : said[i] \in Ends => i = Len(said)
    BY <2>1 DEF ReplyInv, Reading
  <2>4. pc # "idle" => done = (said # <<>> /\ Last(said) \in Ends)
    BY <2>1 DEF ReplyInv, Reading
  <2> QED BY <2>2, <2>3, <2>4 DEF TypeOK, ReplyInv, Reading, Place
<1> QED BY <1>1, Invariant, PTL

\* But for the functions that do not look at the result of the unlock,
\* nothing is given of a reply that was refused, cut off or malformed,
\* however long it was and wherever that happened (mpd_unlock_conn).
THEOREM NothingIncomplete == Spec => []NothingHalf
<1>1. ReplyInv => NothingHalf
  <2> SUFFICES ASSUME ReplyInv, pc = "returned", call \notin {"database_get_directory", "server_get_tag_types"},
                      result # <<>>
               PROVE  \A i \in DOMAIN said : said[i].name \notin {"ACK", "lost", "malformed"}
    BY DEF NothingHalf
  <2>1. call \in Calls
    BY DEF ReplyInv, Place
  <2>2. call \in ChecksUnlock
    BY <2>1 DEF Calls, ChecksUnlock, Entities, NamedElements
  <2>3. error = None
    BY <2>2 DEF ReplyInv, NothingGiven
  <2>4. said \in Seq(Line) /\ DOMAIN said = 1 .. Len(said)
    BY DEF ReplyInv, Reading
  <2> QED BY <2>3, <2>4 DEF ReplyInv, Reading, Broken
<1> QED BY <1>1, Invariant, PTL

\* When a function returns without an error its reply has been read to the
\* end, or the next command would be refused; the functions that fill in a
\* record may have stopped at a line without colon (mpd_finishCommand).
THEOREM RepliesEnd == Spec => []ReplyIsOver
<1>1. ReplyInv => ReplyIsOver
  <2> SUFFICES ASSUME ReplyInv, pc = "returned", error = None, ~done
               PROVE  call \in Records /\ \E i \in DOMAIN said : said[i].name = ""
    BY DEF ReplyIsOver
  <2>1. said \in Seq(Line) /\ DOMAIN said = 1 .. Len(said)
    BY DEF ReplyInv, Reading
  <2> QED BY <2>1 DEF ReplyInv, Over
<1> QED BY <1>1, Invariant, PTL

-----------------------------------------------------------------------------
(* What a reply says, as it gets longer. *)

\* The numbers of a set in ascending order.
Ascends(p, S) ==
  /\ p \in [1 .. Cardinality(S) -> S]
  /\ \A i, j \in 1 .. Cardinality(S) : i < j => p[i] < p[j]

\* Some of the first n numbers are finitely many.
LEMMA SomeNumbers ==
  ASSUME NEW n \in Nat, NEW S \in SUBSET (1 .. n)
  PROVE  IsFiniteSet(S) /\ Cardinality(S) \in Nat
<1>1. IsFiniteSet(1 .. n)
  BY FS_Interval
<1>2. IsFiniteSet(S)
  BY <1>1, FS_Subset
<1> QED BY <1>2, FS_CardinalityType

\* The greatest number is at the end, and nowhere else.
LEMMA GreatestIsLast ==
  ASSUME NEW n \in Nat, NEW S \in SUBSET (1 .. n + 1), n + 1 \in S, NEW p, Ascends(p, S)
  PROVE  /\ Cardinality(S) >= 1
         /\ p[Cardinality(S)] = n + 1
         /\ \A i \in 1 .. Cardinality(S) - 1 : p[i] \in S \ {n + 1}
<1> DEFINE c == Cardinality(S)
<1>1. IsFiniteSet(S) /\ c \in Nat
  <2>1. IsFiniteSet(1 .. n + 1)
    BY FS_Interval
  <2> QED BY <2>1, FS_Subset, FS_CardinalityType
<1>2. p \in [1 .. c -> S] /\ \A i, j \in 1 .. c : i < j => p[i] < p[j]
  BY DEF Ascends
<1>3. IsFiniteSet(1 .. c) /\ Cardinality(1 .. c) = c
  BY <1>1, FS_Interval
<1> HIDE DEF c
<1>4. p \in Injection(1 .. c, S)
  <2>1. \A i, j \in 1 .. c : i # j => p[i] # p[j]
    <3> SUFFICES ASSUME NEW i \in 1 .. c, NEW j \in 1 .. c, i # j PROVE p[i] # p[j]
      OBVIOUS
    <3>1. p[i] \in S /\ p[j] \in S
      BY <1>2
    <3>5. p[i] \in 1 .. n + 1 /\ p[j] \in 1 .. n + 1
      BY <3>1
    <3>4. i \in Int /\ j \in Int /\ p[i] \in Int /\ p[j] \in Int
      BY <1>1, <3>5
    <3>2. i < j \/ j < i
      BY <3>4
    <3>3. p[i] < p[j] \/ p[j] < p[i]
      BY <1>2, <3>2
    <3> QED BY <3>3, <3>4
  <2> QED BY <1>2, <2>1 DEF Injection, IsInjective
<1>5. p \in Surjection(1 .. c, S)
  BY <1>1, <1>3, <1>4, FS_Injection DEF c
<1>6. PICK i \in 1 .. c : p[i] = n + 1
  BY <1>5 DEF Surjection
<1>7. c >= 1 /\ c \in 1 .. c /\ i \in Int
  BY <1>1, <1>6
<1>8. p[c] \in 1 .. n + 1
  BY <1>2, <1>7
<1>9. i = c
  <2> SUFFICES ASSUME i < c PROVE FALSE
    BY <1>6, <1>7, <1>1
  <2>1. p[i] < p[c]
    BY <1>2, <1>7
  <2> QED BY <2>1, <1>6, <1>8
<1>10. ASSUME NEW k \in 1 .. c - 1 PROVE p[k] \in S \ {n + 1}
  <2>1. k \in 1 .. c /\ k < c
    BY <1>1
  <2>2. p[k] < p[c] /\ p[k] \in S
    BY <1>2, <1>7, <2>1
  <2> QED BY <2>2, <1>6, <1>9
<1> QED BY <1>6, <1>7, <1>9, <1>10 DEF c

\* With one greater number at the end.
LEMMA AscendsOn ==
  ASSUME NEW n \in Nat, NEW S \in SUBSET (1 .. n), NEW p, Ascends(p, S)
  PROVE  Ascends([k \in 1 .. Cardinality(S) + 1 |-> IF k = Cardinality(S) + 1 THEN n + 1 ELSE p[k]], S \cup {n + 1})
<1> DEFINE c == Cardinality(S)
           q == [k \in 1 .. c + 1 |-> IF k = c + 1 THEN n + 1 ELSE p[k]]
<1>1. IsFiniteSet(S) /\ c \in Nat
  BY SomeNumbers
<1>2. p \in [1 .. c -> S] /\ \A i, j \in 1 .. c : i < j => p[i] < p[j]
  BY DEF Ascends
<1>3. Cardinality(S \cup {n + 1}) = c + 1
  <2>1. n + 1 \notin S
    OBVIOUS
  <2> QED BY <1>1, <2>1, FS_AddElement
<1> HIDE DEF c
<1>4. q \in [1 .. c + 1 -> S \cup {n + 1}]
  <2> SUFFICES ASSUME NEW k \in 1 .. c + 1, k # c + 1 PROVE p[k] \in S
    OBVIOUS
  <2>1. k \in 1 .. c
    BY <1>1
  <2> QED BY <1>2, <2>1
<1>5. ASSUME NEW i \in 1 .. c + 1, NEW j \in 1 .. c + 1, i < j PROVE q[i] < q[j]
  <2>1. i \in 1 .. c /\ i # c + 1
    BY <1>1, <1>5
  <2>2. q[i] = p[i] /\ p[i] \in 1 .. n
    BY <1>2, <2>1
  <2>3. CASE j = c + 1
    BY <2>2, <2>3
  <2>4. CASE j # c + 1
    <3>1. j \in 1 .. c
      BY <1>1, <2>4
    <3>2. p[i] < p[j] /\ q[j] = p[j]
      BY <1>2, <1>5, <2>1, <2>4, <3>1
    <3> QED BY <2>2, <3>2
  <2> QED BY <2>3, <2>4
<1>6. Ascends(q, S \cup {n + 1})
  <2> HIDE DEF q
  <2> QED BY <1>3, <1>4, <1>5 DEF Ascends
<1> QED BY <1>6 DEF q, c

\* There is one such order.
LEMMA OneOrder ==
  ASSUME NEW n \in Nat, NEW S \in SUBSET (1 .. n)
  PROVE  (\E p : Ascends(p, S)) /\ \A p, q : Ascends(p, S) /\ Ascends(q, S) => p = q
<1> DEFINE Has(X) == (\E p : Ascends(p, X)) /\ \A p, q : Ascends(p, X) /\ Ascends(q, X) => p = q
           T == {m \in Nat : \A X \in SUBSET (1 .. m) : Has(X)}
<1>1. 0 \in T
  <2> SUFFICES ASSUME NEW X \in SUBSET (1 .. 0) PROVE Has(X)
    OBVIOUS
  <2>1. X = {} /\ Cardinality(X) = 0
    <3>1. X = {}
      OBVIOUS
    <3> QED BY <3>1, FS_EmptySet
  <2>2. Ascends(<<>>, X)
    BY <2>1 DEF Ascends
  <2>3. \A p, q : Ascends(p, X) /\ Ascends(q, X) => p = q
    BY <2>1 DEF Ascends
  <2> QED BY <2>2, <2>3
<1>2. ASSUME NEW m \in T PROVE m + 1 \in T
  <2> SUFFICES ASSUME NEW X \in SUBSET (1 .. m + 1) PROVE Has(X)
    OBVIOUS
  <2>1. m \in Nat /\ \A Y \in SUBSET (1 .. m) : Has(Y)
    OBVIOUS
  <2>2. CASE m + 1 \notin X
    <3>1. X \in SUBSET (1 .. m)
      BY <2>1, <2>2
    <3> QED BY <2>1, <3>1
  <2>3. CASE m + 1 \in X
    <3> DEFINE Y == X \ {m + 1}
    <3>1. Y \in SUBSET (1 .. m) /\ Y \cup {m + 1} = X /\ m + 1 \notin Y
      BY <2>1, <2>3
    <3>2. IsFiniteSet(Y) /\ Cardinality(Y) \in Nat
      BY <2>1, <3>1, SomeNumbers
    <3>3. Cardinality(X) = Cardinality(Y) + 1
      BY <3>1, <3>2, FS_AddElement
    <3> HIDE DEF Y
    <3>4. Has(Y)
      BY <2>1, <3>1
    <3>5. PICK r : Ascends(r, Y)
      BY <3>4
    <3>6. \E p : Ascends(p, X)
      BY <2>1, <3>1, <3>5, AscendsOn
    <3>7. ASSUME NEW p, Ascends(p, X)
          PROVE  p = [k \in 1 .. Cardinality(X) |-> IF k = Cardinality(X) THEN m + 1 ELSE r[k]]
      <4> DEFINE u == [k \in 1 .. Cardinality(Y) |-> p[k]]
      <4>1. p \in [1 .. Cardinality(X) -> X] /\ \A i, j \in 1 .. Cardinality(X) : i < j => p[i] < p[j]
        BY <3>7 DEF Ascends
      <4>2. p[Cardinality(X)] = m + 1 /\ \A i \in 1 .. Cardinality(X) - 1 : p[i] \in X \ {m + 1}
        BY <2>1, <2>3, <3>7, GreatestIsLast
      <4>3. \A i \in 1 .. Cardinality(Y) : p[i] \in Y
        BY <3>2, <3>3, <4>2 DEF Y
      <4>4. \A i \in 1 .. Cardinality(Y) : i \in 1 .. Cardinality(X)
        BY <3>2, <3>3
      <4>5. Ascends(u, Y)
        BY <4>1, <4>3, <4>4 DEF Ascends
      <4>6. u = r
        BY <3>4, <3>5, <4>5
      <4>7. \A k \in 1 .. Cardinality(X) : k # Cardinality(X) => p[k] = r[k]
        <5> SUFFICES ASSUME NEW k \in 1 .. Cardinality(X), k # Cardinality(X) PROVE p[k] = r[k]
          OBVIOUS
        <5>1. k \in 1 .. Cardinality(Y)
          BY <3>2, <3>3
        <5> QED BY <4>6, <5>1
      <4> QED BY <4>1, <4>2, <4>7
    <3>8. \A p, q : Ascends(p, X) /\ Ascends(q, X) => p = q
      <4> SUFFICES ASSUME NEW p, NEW q, Ascends(p, X), Ascends(q, X) PROVE p = q
        OBVIOUS
      <4> DEFINE w == [k \in 1 .. Cardinality(X) |-> IF k = Cardinality(X) THEN m + 1 ELSE r[k]]
      <4>1. p = w /\ q = w
        BY <3>7
      <4> HIDE DEF w
      <4> QED BY <4>1
    <3> QED BY <3>6, <3>8
  <2> QED BY <2>2, <2>3
<1> HIDE DEF T
<1>3. \A m \in Nat : m \in T
  <2>1. T \in SUBSET Nat
    BY DEF T
  <2> QED BY <1>1, <1>2, <2>1, Every
<1>4. n \in T
  BY <1>3
<1> QED BY <1>4 DEF T

\* Ascending is that order.
LEMMA AscendingAscends ==
  ASSUME NEW n \in Nat, NEW S \in SUBSET (1 .. n)
  PROVE  /\ Ascends(Ascending(S), S)
         /\ \A p : Ascends(p, S) => Ascending(S) = p
<1> DEFINE Good(p) == p \in [1 .. Cardinality(S) -> S] /\ \A i, j \in DOMAIN p : i < j => p[i] < p[j]
<1>1. \A p : Good(p) <=> Ascends(p, S)
  BY DEF Ascends
<1>2. Ascending(S) = CHOOSE p \in [1 .. Cardinality(S) -> S] : \A i, j \in DOMAIN p : i < j => p[i] < p[j]
  BY DEF Ascending
<1>3. \E p : Ascends(p, S)
  BY OneOrder
<1>4. Good(Ascending(S))
  BY <1>1, <1>2, <1>3
<1>5. \A p, q : Ascends(p, S) /\ Ascends(q, S) => p = q
  BY OneOrder
<1> QED BY <1>1, <1>4, <1>5

\* Of no numbers it is empty.
LEMMA AscendingNone == Ascending({}) = <<>>
<1>1. Cardinality({}) = 0
  BY FS_EmptySet
<1>2. Ascends(<<>>, {})
  BY <1>1 DEF Ascends
<1>3. {} \in SUBSET (1 .. 0) /\ 0 \in Nat
  OBVIOUS
<1> QED BY <1>2, <1>3, AscendingAscends

\* The order of some numbers, and with a greater one.
LEMMA AscendingMore ==
  ASSUME NEW n \in Nat, NEW S \in SUBSET (1 .. n)
  PROVE  /\ Ascending(S) \in Seq(1 .. n)
         /\ \A k \in 1 .. Len(Ascending(S)) : Ascending(S)[k] \in S
         /\ \A i, j \in 1 .. Len(Ascending(S)) : i < j => Ascending(S)[i] < Ascending(S)[j]
         /\ Ascending(S \cup {n + 1}) = Append(Ascending(S), n + 1)
<1> DEFINE p == Ascending(S)
           c == Cardinality(S)
           q == [k \in 1 .. c + 1 |-> IF k = c + 1 THEN n + 1 ELSE p[k]]
<1>1. Ascends(p, S) /\ c \in Nat
  BY AscendingAscends, SomeNumbers
<1>2. Ascends(q, S \cup {n + 1})
  BY <1>1, AscendsOn
<1>3. n + 1 \in Nat /\ S \cup {n + 1} \in SUBSET (1 .. n + 1)
  OBVIOUS
<1>4. Ascending(S \cup {n + 1}) = q
  <2> DEFINE N == n + 1
             X == S \cup {n + 1}
  <2> HIDE DEF q, p, c, N, X
  <2>1. N \in Nat /\ X \in SUBSET (1 .. N) /\ Ascends(q, X)
    BY <1>2, <1>3 DEF N, X
  <2>2. Ascending(X) = q
    BY <2>1, AscendingAscends
  <2> QED BY <2>2 DEF X
<1> HIDE DEF p, c
<1>5. p \in [1 .. c -> S] /\ \A i, j \in 1 .. c : i < j => p[i] < p[j]
  BY <1>1 DEF Ascends, c
<1>6. p \in Seq(1 .. n) /\ Len(p) = c
  <2>1. p \in [1 .. c -> 1 .. n]
    BY <1>5
  <2> QED BY <1>1, <2>1, IsASeq
<1>7. q = Append(p, n + 1)
  BY <1>1, <1>6
<1> QED BY <1>4, <1>5, <1>6, <1>7 DEF p

-----------------------------------------------------------------------------
(* The values of a name, and what is picked of a list. *)

\* At no places nothing is picked.
LEMMA PickedNone == ASSUME NEW seq PROVE Picked(seq, {}) = <<>>
<1>1. Ascending({}) = <<>>
  BY AscendingNone
<1>2. Picked(seq, {}) = [k \in DOMAIN <<>> |-> seq[<<>>[k]]]
  BY <1>1 DEF Picked
<1> QED BY <1>2

\* What is picked of a sequence, and of one with one more at its end.
LEMMA PickedMore ==
  ASSUME NEW A, NEW seq \in Seq(A), NEW e \in A, NEW S \in SUBSET (1 .. Len(seq))
  PROVE  /\ Picked(seq, S) \in Seq(A)
         /\ Picked(Append(seq, e), S) = Picked(seq, S)
         /\ Picked(Append(seq, e), S \cup {Len(seq) + 1}) = Append(Picked(seq, S), e)
<1> DEFINE n == Len(seq)
           p == Ascending(S)
           more == Append(seq, e)
           U == S \cup {n + 1}
<1>1. n \in Nat
  OBVIOUS
<1>2. /\ more \in Seq(A) /\ Len(more) = n + 1 /\ more[n + 1] = e
      /\ \A i \in 1 .. n : more[i] = seq[i] /\ seq[i] \in A
  BY <1>1
<1>3. /\ p \in Seq(1 .. n)
      /\ Ascending(U) = Append(p, n + 1)
  BY <1>1, AscendingMore
<1>4. Picked(seq, S) = [k \in DOMAIN p |-> seq[p[k]]]
  BY DEF Picked
<1>5. Picked(more, S) = [k \in DOMAIN p |-> more[p[k]]]
  BY DEF Picked
<1> DEFINE q == Ascending(U)
<1>6. Picked(more, U) = [k \in DOMAIN q |-> more[q[k]]]
  BY DEF Picked
<1> HIDE DEF p, q, more, n, U
<1>7. Len(p) \in Nat /\ DOMAIN p = 1 .. Len(p) /\ \A k \in 1 .. Len(p) : p[k] \in 1 .. n
  BY <1>3, LenProperties, ElementOfSeq
<1>8. Picked(seq, S) \in Seq(A) /\ Len(Picked(seq, S)) = Len(p)
  <2>1. Picked(seq, S) \in [1 .. Len(p) -> A]
    BY <1>2, <1>4, <1>7
  <2> QED BY <1>7, <2>1
<1>9. Picked(more, S) = Picked(seq, S)
  <2>1. \A k \in 1 .. Len(p) : more[p[k]] = seq[p[k]]
    BY <1>2, <1>7
  <2> QED BY <1>4, <1>5, <1>7, <2>1
<1>10. Picked(more, U) = Append(Picked(seq, S), e)
  <2>1. q = Append(p, n + 1)
    BY <1>3 DEF q
  <2>2. /\ q \in Seq(Nat) /\ Len(q) = Len(p) + 1 /\ q[Len(p) + 1] = n + 1 /\ DOMAIN q = 1 .. Len(p) + 1
        /\ \A k \in 1 .. Len(p) : q[k] = p[k]
    <3>1. p \in Seq(Nat) /\ n + 1 \in Nat
      BY <1>1, <1>3
    <3> QED BY <2>1, <3>1
  <2>3. Append(Picked(seq, S), e) = [k \in 1 .. Len(p) + 1 |-> IF k = Len(p) + 1 THEN e ELSE Picked(seq, S)[k]]
    <3> DEFINE P == Picked(seq, S)
    <3>1. P \in Seq(A) /\ Len(P) = Len(p)
      BY <1>8
    <3> HIDE DEF P
    <3>2. Append(P, e) = [k \in 1 .. Len(P) + 1 |-> IF k = Len(P) + 1 THEN e ELSE P[k]]
      <4> DEFINE M == Append(P, e)
      <4>1. /\ M \in Seq(A) /\ Len(M) = Len(P) + 1 /\ M[Len(P) + 1] = e
            /\ \A i \in 1 .. Len(P) : M[i] = P[i]
        BY <3>1, AppendProperties
      <4> HIDE DEF M
      <4>2. M = [k \in 1 .. Len(P) + 1 |-> M[k]]
        BY <4>1, LenProperties
      <4>3. Len(P) \in Nat
        BY <3>1, LenProperties
      <4>4. \A k \in 1 .. Len(P) + 1 : k \in 1 .. Len(P) \/ k = Len(P) + 1
        BY <4>3
      <4>5. \A k \in 1 .. Len(P) + 1 : M[k] = IF k = Len(P) + 1 THEN e ELSE P[k]
        BY <4>1, <4>4
      <4> QED BY <4>2, <4>5 DEF M
    <3> QED BY <3>1, <3>2 DEF P
  <2>4. \A k \in 1 .. Len(p) + 1 : more[q[k]] = IF k = Len(p) + 1 THEN e ELSE Picked(seq, S)[k]
    <3> SUFFICES ASSUME NEW k \in 1 .. Len(p) + 1
                 PROVE  more[q[k]] = IF k = Len(p) + 1 THEN e ELSE Picked(seq, S)[k]
      OBVIOUS
    <3>1. CASE k = Len(p) + 1
      BY <1>2, <2>2, <3>1
    <3>2. CASE k # Len(p) + 1
      <4>1. k \in 1 .. Len(p)
        BY <1>7, <3>2
      <4>2. q[k] = p[k] /\ p[k] \in 1 .. n
        BY <1>7, <2>2, <4>1
      <4>3. more[p[k]] = seq[p[k]] /\ Picked(seq, S)[k] = seq[p[k]]
        BY <1>2, <1>4, <1>7, <4>1, <4>2
      <4> QED BY <3>2, <4>2, <4>3
    <3> QED BY <3>1, <3>2
  <2> QED BY <1>6, <2>2, <2>3, <2>4
<1> QED BY <1>8, <1>9, <1>10 DEF more, n, U

Words == {"x", "y"}

Tells(l, name) == l.name = name /\ l.value # ""

\* Without lines there are no values.
LEMMA ValuesNone == ASSUME NEW name PROVE ValuesOf(<<>>, name) = <<>>
<1>1. {i \in DOMAIN <<>> : <<>>[i].name = name /\ <<>>[i].value # ""} = {}
  OBVIOUS
<1>2. Picked(<<>>, {i \in DOMAIN <<>> : <<>>[i].name = name /\ <<>>[i].value # ""}) = <<>>
  BY <1>1, PickedNone
<1> QED BY <1>2 DEF ValuesOf

\* The values of a name, and those with one more line.
LEMMA ValuesMore ==
  ASSUME NEW lines \in Seq(Line), NEW l \in Line, NEW name
  PROVE  /\ ValuesOf(lines, name) \in Seq(Words)
         /\ Tells(l, name) => ValuesOf(Append(lines, l), name) = Append(ValuesOf(lines, name), l.value)
         /\ ~Tells(l, name) => ValuesOf(Append(lines, l), name) = ValuesOf(lines, name)
<1> DEFINE n == Len(lines)
           more == Append(lines, l)
           S == {i \in DOMAIN lines : lines[i].name = name /\ lines[i].value # ""}
           U == {i \in DOMAIN more : more[i].name = name /\ more[i].value # ""}
           p == Picked(lines, S)
           q == Picked(more, U)
<1>1. n \in Nat /\ DOMAIN lines = 1 .. n
  OBVIOUS
<1>2. /\ more \in Seq(Line) /\ DOMAIN more = 1 .. n + 1 /\ more[n + 1] = l
      /\ \A i \in 1 .. n : more[i] = lines[i] /\ lines[i] \in Line
  BY <1>1
<1>3. ValuesOf(lines, name) = [i \in DOMAIN p |-> p[i].value] /\ ValuesOf(more, name) = [i \in DOMAIN q |-> q[i].value]
  BY DEF ValuesOf
<1>4. S \in SUBSET (1 .. n) /\ \A i \in 1 .. n : i \in S <=> Tells(lines[i], name)
  BY <1>1 DEF Tells
<1>5. U = IF Tells(l, name) THEN S \cup {n + 1} ELSE S
  <2> HIDE DEF more
  <2>1. \A i \in U : i \in 1 .. n + 1 /\ Tells(more[i], name)
    BY <1>2 DEF Tells
  <2>2. \A i \in 1 .. n + 1 : Tells(more[i], name) => i \in U
    BY <1>2 DEF Tells
  <2> HIDE DEF S, U, n
  <2>3. \A i \in 1 .. n + 1 : i \in 1 .. n \/ i = n + 1
    BY <1>1
  <2>4. n + 1 \notin 1 .. n /\ \A i \in 1 .. n : i \in 1 .. n + 1 /\ i # n + 1
    BY <1>1
  <2>5. n + 1 \in 1 .. n + 1
    BY <1>1
  <2> QED BY <1>2, <1>4, <2>1, <2>2, <2>3, <2>4, <2>5
<1> DEFINE R == {r \in Line : r.value # ""}
<1> DEFINE m == Len(p)
<1>6. p \in Seq(Line) /\ q = IF Tells(l, name) THEN Append(p, l) ELSE p
  <2> HIDE DEF S, U, more, n
  <2>1. S \in SUBSET (1 .. Len(lines))
    BY <1>4 DEF n
  <2>2. /\ Picked(lines, S) \in Seq(Line)
        /\ Picked(more, S) = Picked(lines, S)
        /\ Picked(more, S \cup {n + 1}) = Append(Picked(lines, S), l)
    BY <2>1, PickedMore DEF more, n
  <2> QED BY <1>5, <2>2
<1>7. \A i \in 1 .. Len(p) : p[i] \in Line /\ p[i].value # ""
  <2>1. /\ Ascending(S) \in Seq(1 .. n)
        /\ \A k \in 1 .. Len(Ascending(S)) : Ascending(S)[k] \in S
    <3> HIDE DEF S, n
    <3> QED BY <1>1, <1>4, AscendingMore
  <2>2. p = [k \in DOMAIN Ascending(S) |-> lines[Ascending(S)[k]]]
    <3> HIDE DEF S
    <3> QED BY DEF Picked
  <2> DEFINE a == Ascending(S)
  <2> HIDE DEF S, p, n, a
  <2>3. DOMAIN a = 1 .. Len(a) /\ DOMAIN p = DOMAIN a /\ \A k \in DOMAIN a : p[k] = lines[a[k]]
    BY <2>1, <2>2 DEF a
  <2>4. 1 .. Len(p) = DOMAIN p
    BY <1>6, LenProperties
  <2> SUFFICES ASSUME NEW i \in 1 .. Len(p) PROVE p[i] \in Line /\ p[i].value # ""
    OBVIOUS
  <2>5. p[i] = lines[a[i]] /\ a[i] \in S
    BY <2>1, <2>3, <2>4 DEF a
  <2>6. a[i] \in 1 .. n /\ Tells(lines[a[i]], name)
    BY <1>4, <2>5
  <2> QED BY <1>2, <2>5, <2>6 DEF Tells
<1> HIDE DEF p, q, S, U, more, n
<1>8. m \in Nat /\ DOMAIN p = 1 .. m
  BY <1>6
<1>9. \A r \in Line : r.value # "" => r.value \in Words
  BY DEF Line, Words
<1>10. ValuesOf(lines, name) \in Seq(Words) /\ Len(ValuesOf(lines, name)) = m
  <2>1. ValuesOf(lines, name) \in [1 .. m -> Words]
    BY <1>3, <1>7, <1>8, <1>9
  <2> QED BY <1>8, <2>1
<1>11. CASE ~Tells(l, name)
  BY <1>3, <1>6, <1>10, <1>11 DEF more
<1>12. CASE Tells(l, name)
  <2>1. q = Append(p, l)
    BY <1>6, <1>12
  <2>2. /\ DOMAIN q = 1 .. m + 1 /\ q[m + 1] = l
        /\ \A k \in 1 .. m : q[k] = p[k]
    BY <1>6, <1>8, <2>1
  <2>3. Append(ValuesOf(lines, name), l.value) = [k \in 1 .. m + 1 |-> IF k = m + 1 THEN l.value ELSE ValuesOf(lines, name)[k]]
    BY <1>10
  <2>4. \A k \in 1 .. m + 1 : q[k].value = IF k = m + 1 THEN l.value ELSE ValuesOf(lines, name)[k]
    <3> SUFFICES ASSUME NEW k \in 1 .. m + 1, k # m + 1 PROVE q[k].value = ValuesOf(lines, name)[k]
      BY <2>2
    <3>1. k \in 1 .. m
      BY <1>8
    <3> QED BY <1>3, <1>8, <2>2, <3>1
  <2> QED BY <1>3, <1>10, <1>12, <2>2, <2>3, <2>4 DEF more
<1> QED BY <1>11, <1>12

\* The first and the last of some values.
LEMMA FirstAndLast ==
  ASSUME NEW vs \in Seq(Words), NEW w \in Words
  PROVE  /\ FirstOf(vs) \in Words \cup {None}
         /\ LastOf(vs) \in Words \cup {None}
         /\ (FirstOf(vs) = None <=> vs = <<>>)
         /\ (LastOf(vs) = None <=> vs = <<>>)
         /\ FirstOf(Append(vs, w)) = IF FirstOf(vs) = None THEN w ELSE FirstOf(vs)
         /\ LastOf(Append(vs, w)) = w
<1>1. None \notin Words
  BY DEF None, Words
<1>2. /\ Append(vs, w) # <<>> /\ Len(vs) \in Nat
      /\ Last(Append(vs, w)) = w
      /\ Head(Append(vs, w)) = IF vs = <<>> THEN w ELSE Head(vs)
  <2> DEFINE M == Append(vs, w)
  <2>1. M \in Seq(Words) /\ M # <<>> /\ Len(M) = Len(vs) + 1 /\ M[Len(vs) + 1] = w /\ Len(vs) \in Nat
    BY AppendProperties
  <2>2. Head(M) = IF vs = <<>> THEN w ELSE Head(vs)
    BY HeadTailAppend
  <2> HIDE DEF M
  <2>3. Last(M) = w
    BY <2>1 DEF Last
  <2> QED BY <2>1, <2>2, <2>3 DEF M
<1>3. vs # <<>> => Head(vs) \in Words /\ Last(vs) \in Words
  BY DEF Last
<1> QED BY <1>1, <1>2, <1>3 DEF FirstOf, LastOf

\* The songs among some entities, and with one more.
LEMMA SongsMore ==
  ASSUME NEW A, NEW es \in Seq(A), NEW e \in A
  PROVE  /\ Songs(es) \in Seq(A)
         /\ Songs(Append(es, e)) = IF e.type = "file" THEN Append(Songs(es), e) ELSE Songs(es)
<1> DEFINE n == Len(es)
           more == Append(es, e)
           S == {i \in DOMAIN es : es[i].type = "file"}
           U == {i \in DOMAIN more : more[i].type = "file"}
<1>1. n \in Nat /\ DOMAIN es = 1 .. n
  OBVIOUS
<1>2. DOMAIN more = 1 .. n + 1 /\ more[n + 1] = e /\ \A i \in 1 .. n : more[i] = es[i]
  BY <1>1
<1>3. S \in SUBSET (1 .. n)
  BY <1>1
<1>4. U = IF e.type = "file" THEN S \cup {n + 1} ELSE S
  <2>1. \A i \in 1 .. n + 1 : i \in 1 .. n \/ i = n + 1
    BY <1>1
  <2>2. n + 1 \notin 1 .. n /\ n + 1 \in 1 .. n + 1 /\ \A i \in 1 .. n : i \in 1 .. n + 1
    BY <1>1
  <2> HIDE DEF n, more
  <2> QED BY <1>1, <1>2, <2>1, <2>2
<1>5. Songs(es) = Picked(es, S) /\ Songs(more) = Picked(more, U)
  BY DEF Songs
<1> HIDE DEF S, U
<1>6. /\ Picked(es, S) \in Seq(A)
      /\ Picked(more, S) = Picked(es, S)
      /\ Picked(more, S \cup {n + 1}) = Append(Picked(es, S), e)
  BY <1>3, PickedMore
<1> QED BY <1>4, <1>5, <1>6

\* Without entities there are no songs.
LEMMA SongsNone == Songs(<<>>) = <<>>
<1>1. {i \in DOMAIN <<>> : <<>>[i].type = "file"} = {}
  OBVIOUS
<1> QED BY <1>1, PickedNone DEF Songs

-----------------------------------------------------------------------------
(* The parts of a reply: what something starts with, and what belongs to it. *)

Slice == [start : Line, rest : Seq(Line)]

\* Without lines there are no parts.
LEMMA PartsNone == ASSUME NEW names PROVE Parts(<<>>, names) = <<>>
<1>1. {i \in DOMAIN <<>> : <<>>[i].name \in names} = {}
  OBVIOUS
<1>2. Ascending({i \in DOMAIN <<>> : <<>>[i].name \in names}) = <<>>
  BY <1>1, AscendingNone
<1>3. DOMAIN Parts(<<>>, names) = DOMAIN <<>> /\ Parts(<<>>, names) = [k \in DOMAIN <<>> |-> Parts(<<>>, names)[k]]
  BY <1>2 DEF Parts
<1> QED BY <1>3

\* What SubSeq makes of a longer sequence.
LEMMA SliceMore ==
  ASSUME NEW A, NEW seq \in Seq(A), NEW e \in A, NEW a \in 1 .. Len(seq) + 1
  PROVE  /\ \A b \in 0 .. Len(seq) : /\ SubSeq(seq, a, b) \in Seq(A)
                                     /\ SubSeq(Append(seq, e), a, b) = SubSeq(seq, a, b)
         /\ SubSeq(Append(seq, e), a, Len(seq) + 1) = Append(SubSeq(seq, a, Len(seq)), e)
<1> DEFINE more == Append(seq, e)
           n == Len(seq)
<1>1. n \in Nat /\ more \in Seq(A) /\ Len(more) = n + 1 /\ more[n + 1] = e
      /\ \A i \in 1 .. n : more[i] = seq[i] /\ seq[i] \in A
  BY AppendProperties, ElementOfSeq, LenProperties
<1> HIDE DEF more
<1>2. ASSUME NEW b \in 0 .. n
      PROVE  SubSeq(seq, a, b) \in Seq(A) /\ SubSeq(more, a, b) = SubSeq(seq, a, b)
  <2>1. a \in Int /\ b \in Int /\ \A i \in a .. b : i \in 1 .. n
    BY <1>1
  <2>2. \A i \in a .. b : more[i] = seq[i] /\ seq[i] \in A /\ more[i] \in A
    BY <1>1, <2>1
  <2> HIDE DEF n
  <2>3. /\ SubSeq(seq, a, b) \in Seq(A)
        /\ Len(SubSeq(seq, a, b)) = IF a <= b THEN b - a + 1 ELSE 0
        /\ \A i \in 1 .. b - a + 1 : SubSeq(seq, a, b)[i] = seq[a + i - 1]
    BY <2>1, <2>2, SubSeqProperties
  <2>4. /\ SubSeq(more, a, b) \in Seq(A)
        /\ Len(SubSeq(more, a, b)) = IF a <= b THEN b - a + 1 ELSE 0
        /\ \A i \in 1 .. b - a + 1 : SubSeq(more, a, b)[i] = more[a + i - 1]
    BY <2>1, <2>2, SubSeqProperties
  <2>5. \A i \in 1 .. b - a + 1 : more[a + i - 1] = seq[a + i - 1]
    <3>1. \A i \in 1 .. b - a + 1 : a + i - 1 \in a .. b
      BY <2>1
    <3> QED BY <2>2, <3>1
  <2>6. \A i \in 1 .. Len(SubSeq(seq, a, b)) : i \in 1 .. b - a + 1
    BY <2>1, <2>3
  <2>7. \A i \in 1 .. Len(SubSeq(seq, a, b)) : SubSeq(more, a, b)[i] = SubSeq(seq, a, b)[i]
    BY <2>3, <2>4, <2>5, <2>6
  <2>8. SubSeq(more, a, b) = SubSeq(seq, a, b)
    BY <2>3, <2>4, <2>7, SeqEqual
  <2> QED BY <2>3, <2>8
<1>3. SubSeq(more, a, n + 1) = Append(SubSeq(seq, a, n), e)
  <2>1. a \in 1 .. Len(more) /\ n + 1 \in a .. Len(more) /\ n + 1 - 1 = n
    BY <1>1
  <2>2. SubSeq(more, a, n + 1) = SubSeq(more, a, n) \o <<more[n + 1]>>
    <3>1. ASSUME NEW N \in a .. Len(more), N - 1 = n
          PROVE  SubSeq(more, a, N) = SubSeq(more, a, n) \o <<more[N]>>
      BY <1>1, <2>1, <3>1, SubSeqRecursiveSecond
    <3> QED BY <2>1, <3>1
  <2>3. n \in 0 .. n
    BY <1>1
  <2>4. SubSeq(seq, a, n) \in Seq(A) /\ SubSeq(more, a, n) = SubSeq(seq, a, n)
    BY <1>2, <2>3
  <2> QED BY <1>1, <2>2, <2>4, AppendIsConcat
<1> QED BY <1>2, <1>3 DEF more

\* What is between places p of some lines.
End(lines, p, k)   == IF k = Len(p) THEN Len(lines) ELSE p[k + 1] - 1
Slices(lines, p) ==
  [k \in DOMAIN p |-> [start |-> lines[p[k]], rest |-> SubSeq(lines, p[k] + 1, End(lines, p, k))]]

Increasing(p, n) == p \in Seq(1 .. n) /\ \A i, j \in 1 .. Len(p) : i < j => p[i] < p[j]

\* A part ends within the lines.
LEMMA EndWithin ==
  ASSUME NEW lines \in Seq(Line), NEW p, Increasing(p, Len(lines)), NEW k \in 1 .. Len(p)
  PROVE  /\ p[k] \in 1 .. Len(lines) /\ p[k] + 1 \in 1 .. Len(lines) + 1
         /\ End(lines, p, k) \in 0 .. Len(lines)
<1>1. Len(lines) \in Nat /\ p \in Seq(1 .. Len(lines)) /\ Len(p) \in Nat
  BY LenProperties DEF Increasing
<1>2. p[k] \in 1 .. Len(lines)
  BY <1>1, ElementOfSeq
<1>3. CASE k = Len(p)
  BY <1>1, <1>2, <1>3 DEF End
<1>4. CASE k # Len(p)
  <2>1. k + 1 \in 1 .. Len(p)
    BY <1>1, <1>4
  <2>2. p[k + 1] \in 1 .. Len(lines)
    BY <1>1, <2>1, ElementOfSeq
  <2>3. End(lines, p, k) = p[k + 1] - 1
    BY <1>4 DEF End
  <2> QED BY <1>1, <1>2, <2>2, <2>3
<1> QED BY <1>3, <1>4

\* What is between places is lines.
LEMMA SlicesAre ==
  ASSUME NEW lines \in Seq(Line), NEW p, Increasing(p, Len(lines))
  PROVE  Slices(lines, p) \in Seq(Slice) /\ Len(Slices(lines, p)) = Len(p)
<1>1. p \in Seq(1 .. Len(lines)) /\ Len(p) \in Nat /\ DOMAIN p = 1 .. Len(p)
  BY LenProperties DEF Increasing
<1>2. ASSUME NEW k \in 1 .. Len(p)
      PROVE  [start |-> lines[p[k]], rest |-> SubSeq(lines, p[k] + 1, End(lines, p, k))] \in Slice
  <2>1. /\ p[k] \in 1 .. Len(lines) /\ p[k] + 1 \in 1 .. Len(lines) + 1
        /\ End(lines, p, k) \in 0 .. Len(lines)
    BY EndWithin
  <2>2. lines[p[k]] \in Line
    BY <2>1, ElementOfSeq
  <2>3. SubSeq(lines, p[k] + 1, End(lines, p, k)) \in Seq(Line)
    BY <2>1, <2>2, SliceMore
  <2> QED BY <2>2, <2>3 DEF Slice
<1> DEFINE s == Slices(lines, p)
<1>3. s \in [1 .. Len(p) -> Slice]
  BY <1>1, <1>2 DEF Slices
<1> HIDE DEF s
<1>4. s \in Seq(Slice) /\ Len(s) = Len(p)
  BY <1>1, <1>3
<1> QED BY <1>4 DEF s

\* One more line, which something starts with.
LEMMA SlicesStart ==
  ASSUME NEW lines \in Seq(Line), NEW l \in Line, NEW p, Increasing(p, Len(lines))
  PROVE  Slices(Append(lines, l), Append(p, Len(lines) + 1)) = Append(Slices(lines, p), [start |-> l, rest |-> <<>>])
<1> DEFINE n == Len(lines)
           more == Append(lines, l)
           q == Append(p, n + 1)
           c == Len(p)
           s == Slices(lines, p)
           t == Slices(more, q)
           new == [start |-> l, rest |-> <<>>]
<1>1. n \in Nat /\ c \in Nat /\ p \in Seq(1 .. n) /\ DOMAIN p = 1 .. c
  BY LenProperties DEF Increasing
<1>2. more \in Seq(Line) /\ Len(more) = n + 1 /\ more[n + 1] = l /\ \A i \in 1 .. n : more[i] = lines[i]
  BY AppendProperties
<1>3. /\ q \in Seq(1 .. n + 1) /\ Len(q) = c + 1 /\ q[c + 1] = n + 1 /\ DOMAIN q = 1 .. c + 1
      /\ \A k \in 1 .. c : q[k] = p[k]
  <2>1. p \in Seq(1 .. n + 1) /\ n + 1 \in 1 .. n + 1
    <3>1. 1 .. n \subseteq 1 .. n + 1
      BY <1>1
    <3> QED BY <1>1, <3>1, SeqMonotonic
  <2> QED BY <2>1, AppendProperties, LenProperties
<1>4. s \in Seq(Slice) /\ Len(s) = c
  BY SlicesAre
<1>5. new \in Slice
  BY DEF Slice
<1>6. s = [k \in 1 .. c |-> [start |-> lines[p[k]], rest |-> SubSeq(lines, p[k] + 1, End(lines, p, k))]]
  BY <1>1 DEF Slices
<1>7. t = [k \in 1 .. c + 1 |-> [start |-> more[q[k]], rest |-> SubSeq(more, q[k] + 1, End(more, q, k))]]
  BY <1>3 DEF Slices
<1>8. ASSUME NEW k \in 1 .. c PROVE t[k] = s[k]
  <2>1. k \in 1 .. c + 1 /\ k # c + 1
    BY <1>1
  <2>2. /\ p[k] \in 1 .. n /\ p[k] + 1 \in 1 .. n + 1
        /\ End(lines, p, k) \in 0 .. n
    BY EndWithin
  <2>3. End(more, q, k) = End(lines, p, k)
    <3>1. End(more, q, k) = q[k + 1] - 1
      BY <1>3, <2>1 DEF End
    <3>2. CASE k = c
      <4>1. End(lines, p, k) = n
        BY <3>2 DEF End
      <4>2. q[k + 1] = n + 1
        BY <1>3, <3>2
      <4> HIDE DEF n, c, q, more
      <4> QED BY <1>1, <3>1, <4>1, <4>2
    <3>3. CASE k # c
      <4>1. k + 1 \in 1 .. c
        <5> HIDE DEF c
        <5> QED BY <1>1, <3>3
      <4> QED BY <1>3, <3>1, <3>3, <4>1 DEF End
    <3> QED BY <3>2, <3>3
  <2>4. SubSeq(more, p[k] + 1, End(lines, p, k)) = SubSeq(lines, p[k] + 1, End(lines, p, k))
    BY <2>2, SliceMore
  <2>5. more[p[k]] = lines[p[k]] /\ q[k] = p[k]
    BY <1>2, <1>3, <2>2
  <2> HIDE DEF s, t, c
  <2> QED BY <1>6, <1>7, <2>1, <2>3, <2>4, <2>5
<1>9. t[c + 1] = new
  <2>1. End(more, q, c + 1) = n + 1
    BY <1>2, <1>3 DEF End
  <2>2. SubSeq(more, n + 1 + 1, n + 1) = <<>>
    BY <1>1, SubSeqEmpty
  <2>3. c + 1 \in 1 .. c + 1
    BY <1>1
  <2> HIDE DEF t, c, q, more
  <2> QED BY <1>2, <1>3, <1>7, <2>1, <2>2, <2>3
<1> HIDE DEF s, t, c, new
<1>10. /\ Append(s, new) \in Seq(Slice) /\ Len(Append(s, new)) = c + 1
       /\ Append(s, new)[c + 1] = new /\ \A k \in 1 .. c : Append(s, new)[k] = s[k]
  BY <1>4, <1>5, AppendProperties
<1>11. Append(s, new) = [k \in 1 .. c + 1 |-> Append(s, new)[k]]
  BY <1>10, LenProperties
<1>12. \A k \in 1 .. c + 1 : k \in 1 .. c \/ k = c + 1
  BY <1>1
<1>13. \A k \in 1 .. c + 1 : t[k] = Append(s, new)[k]
  BY <1>8, <1>9, <1>10, <1>12
<1>14. t = [k \in 1 .. c + 1 |-> t[k]]
  BY <1>7
<1> QED BY <1>11, <1>13, <1>14 DEF s, t, c, new

\* One more line within the last.
LEMMA SlicesGrow ==
  ASSUME NEW lines \in Seq(Line), NEW l \in Line, NEW p, Increasing(p, Len(lines))
  PROVE  /\ Len(Slices(Append(lines, l), p)) = Len(p)
         /\ \A k \in 1 .. Len(p) - 1 : Slices(Append(lines, l), p)[k] = Slices(lines, p)[k]
         /\ Len(p) # 0 => /\ Slices(Append(lines, l), p)[Len(p)].start = Slices(lines, p)[Len(p)].start
                          /\ Slices(Append(lines, l), p)[Len(p)].rest = Append(Slices(lines, p)[Len(p)].rest, l)
<1> DEFINE n == Len(lines)
           more == Append(lines, l)
           c == Len(p)
           s == Slices(lines, p)
           t == Slices(more, p)
<1>1. n \in Nat /\ c \in Nat /\ p \in Seq(1 .. n) /\ DOMAIN p = 1 .. c
  BY LenProperties DEF Increasing
<1>2. more \in Seq(Line) /\ Len(more) = n + 1 /\ \A i \in 1 .. n : more[i] = lines[i]
  BY AppendProperties
<1>3. s = [k \in 1 .. c |-> [start |-> lines[p[k]], rest |-> SubSeq(lines, p[k] + 1, End(lines, p, k))]]
  BY <1>1 DEF Slices
<1>4. t = [k \in 1 .. c |-> [start |-> more[p[k]], rest |-> SubSeq(more, p[k] + 1, End(more, p, k))]]
  BY <1>1 DEF Slices
<1>5. Len(t) = c
  <2> HIDE DEF t
  <2> QED BY <1>1, <1>4
<1>6. ASSUME NEW k \in 1 .. c
      PROVE  /\ p[k] + 1 \in 1 .. n + 1 /\ more[p[k]] = lines[p[k]]
             /\ End(lines, p, k) \in 0 .. n
  <2>1. /\ p[k] \in 1 .. n /\ p[k] + 1 \in 1 .. n + 1
        /\ End(lines, p, k) \in 0 .. n
    BY EndWithin
  <2> QED BY <1>2, <2>1
<1>7. ASSUME NEW k \in 1 .. c - 1 PROVE t[k] = s[k]
  <2>1. k \in 1 .. c /\ k # c
    <3> HIDE DEF c
    <3> QED BY <1>1
  <2>2. End(more, p, k) = End(lines, p, k)
    BY <2>1 DEF End
  <2>3. SubSeq(more, p[k] + 1, End(lines, p, k)) = SubSeq(lines, p[k] + 1, End(lines, p, k))
    BY <1>6, <2>1, SliceMore
  <2> HIDE DEF s, t, c
  <2> QED BY <1>3, <1>4, <1>6, <2>1, <2>2, <2>3
<1>8. ASSUME c # 0 PROVE t[c].start = s[c].start /\ t[c].rest = Append(s[c].rest, l)
  <2>1. c \in 1 .. c
    BY <1>1, <1>8
  <2>2. End(more, p, c) = n + 1 /\ End(lines, p, c) = n
    BY <1>2 DEF End
  <2>3. SubSeq(more, p[c] + 1, n + 1) = Append(SubSeq(lines, p[c] + 1, n), l)
    BY <1>6, <2>1, SliceMore
  <2> HIDE DEF s, t, c
  <2> QED BY <1>3, <1>4, <1>6, <2>1, <2>2, <2>3
<1> QED BY <1>5, <1>7, <1>8

\* The parts of a reply, and with one more line.
LEMMA PartsMore ==
  ASSUME NEW lines \in Seq(Line), NEW l \in Line, NEW names
  PROVE  /\ Parts(lines, names) \in Seq(Slice)
         /\ \A k \in 1 .. Len(Parts(lines, names)) : Parts(lines, names)[k].start.name \in names
         /\ l.name \in names =>
              Parts(Append(lines, l), names) = Append(Parts(lines, names), [start |-> l, rest |-> <<>>])
         /\ l.name \notin names =>
              /\ Len(Parts(Append(lines, l), names)) = Len(Parts(lines, names))
              /\ \A k \in 1 .. Len(Parts(lines, names)) - 1 : Parts(Append(lines, l), names)[k] = Parts(lines, names)[k]
              /\ Len(Parts(lines, names)) # 0 =>
                   LET m == Len(Parts(lines, names))
                   IN /\ Parts(Append(lines, l), names)[m].start = Parts(lines, names)[m].start
                      /\ Parts(Append(lines, l), names)[m].rest = Append(Parts(lines, names)[m].rest, l)
<1> DEFINE n == Len(lines)
           more == Append(lines, l)
           S == {i \in DOMAIN lines : lines[i].name \in names}
           U == {i \in DOMAIN more : more[i].name \in names}
           p == Ascending(S)
           q == Ascending(U)
<1>1. n \in Nat /\ DOMAIN lines = 1 .. n
  BY LenProperties
<1>2. DOMAIN more = 1 .. n + 1 /\ more[n + 1] = l /\ \A i \in 1 .. n : more[i] = lines[i]
  BY AppendProperties, LenProperties
<1>3. S \in SUBSET (1 .. n)
  BY <1>1
<1>4. U = IF l.name \in names THEN S \cup {n + 1} ELSE S
  <2>1. \A i \in 1 .. n + 1 : i \in 1 .. n \/ i = n + 1
    BY <1>1
  <2>2. n + 1 \notin 1 .. n /\ n + 1 \in 1 .. n + 1 /\ \A i \in 1 .. n : i \in 1 .. n + 1
    BY <1>1
  <2> HIDE DEF n, more
  <2> QED BY <1>1, <1>2, <2>1, <2>2
<1>5. Parts(lines, names) = Slices(lines, p) /\ Parts(more, names) = Slices(more, q)
  BY DEF Parts, Slices, End
<1>6. \A i \in S : lines[i].name \in names
  OBVIOUS
<1> HIDE DEF S, U
<1>7. /\ Increasing(p, n)
      /\ \A k \in 1 .. Len(p) : p[k] \in S
      /\ Ascending(S \cup {n + 1}) = Append(p, n + 1)
  BY <1>1, <1>3, AscendingMore DEF Increasing
<1> HIDE DEF p, q
<1>8. Slices(lines, p) \in Seq(Slice) /\ Len(Slices(lines, p)) = Len(p)
  BY <1>7, SlicesAre
<1>9. \A k \in 1 .. Len(p) : Slices(lines, p)[k].start.name \in names
  <2>1. DOMAIN p = 1 .. Len(p)
    BY <1>7, LenProperties DEF Increasing
  <2>2. \A k \in 1 .. Len(p) : Slices(lines, p)[k].start = lines[p[k]]
    BY <2>1 DEF Slices
  <2> QED BY <1>6, <1>7, <2>2
<1>10. CASE l.name \in names
  <2>1. q = Append(p, n + 1)
    BY <1>4, <1>7, <1>10 DEF q
  <2>2. Slices(more, q) = Append(Slices(lines, p), [start |-> l, rest |-> <<>>])
    BY <1>7, <2>1, SlicesStart
  <2> QED BY <1>5, <1>8, <1>9, <1>10, <2>2
<1>11. CASE l.name \notin names
  <2>1. q = p
    BY <1>4, <1>11 DEF p, q
  <2>2. /\ Len(Slices(more, p)) = Len(p)
        /\ \A k \in 1 .. Len(p) - 1 : Slices(more, p)[k] = Slices(lines, p)[k]
        /\ Len(p) # 0 => /\ Slices(more, p)[Len(p)].start = Slices(lines, p)[Len(p)].start
                         /\ Slices(more, p)[Len(p)].rest = Append(Slices(lines, p)[Len(p)].rest, l)
    BY <1>7, SlicesGrow
  <2> QED BY <1>5, <1>8, <1>9, <1>11, <2>1, <2>2
<1> QED BY <1>10, <1>11

\* What every part of a sequence is mapped to: with one more part, and with
\* another last one.
LEMMA MapAppends ==
  ASSUME NEW A, NEW B, NEW P \in Seq(B), NEW x \in B, NEW D, \A k \in 1 .. Len(P) : D[P[k]] \in A, D[x] \in A,
         NEW E, E = [k \in DOMAIN P |-> D[P[k]]],
         NEW F, F = [k \in DOMAIN Append(P, x) |-> D[Append(P, x)[k]]]
  PROVE  E \in Seq(A) /\ Len(E) = Len(P) /\ F = Append(E, D[x])
<1> DEFINE Q == Append(P, x)
           m == Len(P)
<1>1. m \in Nat /\ DOMAIN P = 1 .. m
  BY LenProperties
<1>2. DOMAIN Q = 1 .. m + 1 /\ Q[m + 1] = x /\ \A k \in 1 .. m : Q[k] = P[k]
  BY AppendProperties, LenProperties
<1>3. F = [k \in DOMAIN Q |-> D[Q[k]]]
  OBVIOUS
<1> HIDE DEF Q
<1>4. E \in Seq(A) /\ Len(E) = m
  <2> HIDE DEF m
  <2>1. E \in [1 .. m -> A]
    BY <1>1 DEF m
  <2> QED BY <1>1, <2>1
<1>5. /\ Append(E, D[x]) \in Seq(A) /\ Len(Append(E, D[x])) = m + 1
      /\ Append(E, D[x])[m + 1] = D[x] /\ \A k \in 1 .. m : Append(E, D[x])[k] = E[k]
  BY <1>4, AppendProperties
<1> DEFINE G == Append(E, D[x])
<1>6. G = [k \in 1 .. m + 1 |-> G[k]]
  BY <1>5, LenProperties
<1> HIDE DEF G, m
<1>7. \A k \in 1 .. m + 1 : k \in 1 .. m \/ k = m + 1
  BY <1>1
<1>8. \A k \in 1 .. m + 1 : D[Q[k]] = G[k]
  <2> SUFFICES ASSUME NEW k \in 1 .. m + 1 PROVE D[Q[k]] = G[k]
    OBVIOUS
  <2>1. CASE k = m + 1
    BY <1>2, <1>5, <2>1 DEF G
  <2>2. CASE k \in 1 .. m
    BY <1>1, <1>2, <1>5, <2>2 DEF G
  <2> QED BY <1>7, <2>1, <2>2
<1>9. F = [k \in 1 .. m + 1 |-> D[Q[k]]]
  BY <1>2, <1>3
<1>10. F = G
  BY <1>6, <1>8, <1>9
<1> QED BY <1>4, <1>10 DEF G, m

Replaces(A, E, F, old, new) ==
  /\ E \in Seq(A) /\ E # <<>> /\ Last(E) = old
  /\ Front(E) \in Seq(A) /\ E = Append(Front(E), Last(E))
  /\ F = Append(Front(E), new)

\* Where the last part is another, so is the last of what they are mapped to.
LEMMA MapReplaces ==
  ASSUME NEW A, NEW B, NEW P \in Seq(B), NEW Q \in Seq(B), Len(P) # 0, Len(Q) = Len(P),
         \A k \in 1 .. Len(P) - 1 : Q[k] = P[k],
         NEW D, \A k \in 1 .. Len(P) : D[P[k]] \in A, D[Q[Len(P)]] \in A,
         NEW E, E = [k \in DOMAIN P |-> D[P[k]]],
         NEW F, F = [k \in DOMAIN Q |-> D[Q[k]]]
  PROVE  Replaces(A, E, F, D[P[Len(P)]], D[Q[Len(P)]])
<1> DEFINE m == Len(P)
           e == D[Q[m]]
           s == Front(E)
<1>1. m \in Nat /\ m # 0 /\ DOMAIN P = 1 .. m /\ DOMAIN Q = 1 .. m /\ m \in 1 .. m
  <2>1. m \in Nat /\ DOMAIN P = 1 .. m /\ DOMAIN Q = 1 .. m
    BY LenProperties
  <2> HIDE DEF m
  <2> QED BY <2>1 DEF m
<1> HIDE DEF m
<1>2. E \in Seq(A) /\ Len(E) = m
  <2>1. E \in [1 .. m -> A]
    BY <1>1 DEF m
  <2> QED BY <1>1, <2>1
<1>3. E # <<>> /\ Last(E) = D[P[m]] /\ D[P[m]] \in A /\ e \in A
  BY <1>1, <1>2 DEF Last, m
<1>4. /\ s \in Seq(A) /\ Len(s) = m - 1 /\ \A k \in 1 .. m - 1 : s[k] = E[k]
  <2>1. 1 \in Int /\ m - 1 \in Int /\ \A i \in 1 .. m - 1 : E[i] \in A
    BY <1>1, <1>2
  <2>2. s = SubSeq(E, 1, m - 1)
    BY <1>2 DEF Front
  <2>3. /\ s \in Seq(A) /\ Len(s) = (IF 1 <= m - 1 THEN m - 1 - 1 + 1 ELSE 0)
        /\ \A i \in 1 .. m - 1 - 1 + 1 : s[i] = E[1 + i - 1]
    <3> HIDE DEF s
    <3> QED BY <2>1, <2>2, SubSeqProperties
  <2> HIDE DEF s
  <2>4. m - 1 - 1 + 1 = m - 1
    BY <1>1
  <2>5. \A i \in 1 .. m - 1 : 1 + i - 1 = i
    BY <1>1
  <2>6. Len(s) = m - 1
    BY <1>1, <2>3
  <2> QED BY <2>3, <2>4, <2>5, <2>6
<1> HIDE DEF s, e
<1>5. ASSUME NEW x \in A
      PROVE  /\ Append(s, x) \in Seq(A) /\ Len(Append(s, x)) = m /\ Append(s, x)[m] = x
             /\ \A k \in 1 .. m - 1 : Append(s, x)[k] = E[k]
             /\ Append(s, x) = [k \in 1 .. m |-> Append(s, x)[k]]
  <2>1. /\ Append(s, x) \in Seq(A) /\ Len(Append(s, x)) = Len(s) + 1 /\ Append(s, x)[Len(s) + 1] = x
        /\ \A k \in 1 .. Len(s) : Append(s, x)[k] = s[k]
    BY <1>4, AppendProperties
  <2>2. Len(s) + 1 = m
    BY <1>1, <1>4
  <2>3. DOMAIN Append(s, x) = 1 .. m /\ Append(s, x) = [k \in DOMAIN Append(s, x) |-> Append(s, x)[k]]
    BY <2>1, <2>2, LenProperties
  <2> QED BY <1>4, <2>1, <2>2, <2>3
<1>6. \A k \in 1 .. m : k \in 1 .. m - 1 \/ k = m
  BY <1>1
<1>7. F = Append(s, e)
  <2>1. \A k \in 1 .. m : D[Q[k]] = Append(s, e)[k]
    <3> SUFFICES ASSUME NEW k \in 1 .. m PROVE D[Q[k]] = Append(s, e)[k]
      OBVIOUS
    <3>1. CASE k = m
      BY <1>3, <1>5, <3>1 DEF e
    <3>2. CASE k \in 1 .. m - 1
      <4>1. Append(s, e)[k] = E[k] /\ Q[k] = P[k] /\ E[k] = D[P[k]]
        BY <1>1, <1>3, <1>5, <3>2 DEF m
      <4> QED BY <4>1
    <3> QED BY <1>6, <3>1, <3>2
  <2> QED BY <1>1, <1>3, <1>5, <2>1
<1>8. E = Append(s, Last(E))
  <2> DEFINE x == Last(E)
  <2>1. x \in A /\ E[m] = x
    BY <1>2, <1>3 DEF Last
  <2> HIDE DEF x
  <2>2. /\ Append(s, x)[m] = x /\ \A k \in 1 .. m - 1 : Append(s, x)[k] = E[k]
        /\ Append(s, x) = [k \in 1 .. m |-> Append(s, x)[k]]
    BY <1>5, <2>1
  <2>3. \A k \in 1 .. m : E[k] = Append(s, x)[k]
    BY <1>6, <2>1, <2>2
  <2>4. E = [k \in 1 .. m |-> E[k]]
    BY <1>2, LenProperties
  <2> QED BY <2>2, <2>3, <2>4 DEF x
<1> QED BY <1>2, <1>3, <1>4, <1>7, <1>8 DEF s, e, m, Replaces

-----------------------------------------------------------------------------
(* What is put together of the lines of an entity. *)

Value  == {"", "x", "y", None}
Entity == [type : {"file", "directory", "playlist"}, path : Value, pos : Value, artist : Seq(Words),
           album : Value, prio : Value, mtime : Value]

\* The fields of an entity, all together.
Fields(t, h, p, a, b, r, m) ==
  [type |-> t, path |-> h, pos |-> p, artist |-> a, album |-> b, prio |-> r, mtime |-> m]

PathOf(start)       == IF start.name = "cpos" THEN None ELSE start.value
IsSong(start)       == start.name \in {"file", "cpos"}
TypeOf(start)       == IF IsSong(start) THEN "file" ELSE start.name
FirstSong(start, v) == IF IsSong(start) THEN FirstOf(v) ELSE None

\* An entity by its fields.
LEMMA DescribedFields ==
  ASSUME NEW start, NEW lines
  PROVE  Described(start, lines) =
           Fields(TypeOf(start), PathOf(start),
                  IF start.name = "cpos" THEN start.value ELSE FirstSong(start, ValuesOf(lines, "Pos")),
                  IF IsSong(start) THEN ValuesOf(lines, "Artist") ELSE <<>>,
                  FirstSong(start, ValuesOf(lines, "Album")),
                  IF IsSong(start) THEN LastOf(ValuesOf(lines, "Prio")) ELSE None,
                  IF start.name = "playlist" THEN FirstOf(ValuesOf(lines, "Last-Modified")) ELSE None)
BY DEF Described, Fields, TypeOf, PathOf, IsSong, FirstSong

\* What a line makes of them.
Changes(t, h, p, a, b, r, m, e, l) ==
  /\ t = "file" /\ l.value # "" =>
       /\ l.name = "Artist" => EntityAfter(e, l) = Fields(t, h, p, Append(a, l.value), b, r, m)
       /\ l.name = "Album" /\ b = None => EntityAfter(e, l) = Fields(t, h, p, a, l.value, r, m)
       /\ l.name = "Album" /\ b # None => EntityAfter(e, l) = e
       /\ l.name = "Pos" /\ p = None => EntityAfter(e, l) = Fields(t, h, l.value, a, b, r, m)
       /\ l.name = "Pos" /\ p # None => EntityAfter(e, l) = e
       /\ l.name = "Prio" => EntityAfter(e, l) = Fields(t, h, p, a, b, l.value, m)
       /\ l.name = "Last-Modified" => EntityAfter(e, l) = e
  /\ ~(t = "file" /\ l.value # "") =>
       /\ t = "playlist" /\ l.name = "Last-Modified" /\ m = None => EntityAfter(e, l) = Fields(t, h, p, a, b, r, l.value)
       /\ ~(t = "playlist" /\ l.name = "Last-Modified" /\ m = None) => EntityAfter(e, l) = e

Overwrites(t, h, p, a, b, r, m, e, x) ==
  /\ e.type = t /\ e.pos = p /\ e.artist = a /\ e.album = b /\ e.mtime = m
  /\ [e EXCEPT !.artist = x] = Fields(t, h, p, x, b, r, m)
  /\ [e EXCEPT !.album = x] = Fields(t, h, p, a, x, r, m)
  /\ [e EXCEPT !.pos = x] = Fields(t, h, x, a, b, r, m)
  /\ [e EXCEPT !.prio = x] = Fields(t, h, p, a, b, x, m)
  /\ [e EXCEPT !.mtime = x] = Fields(t, h, p, a, b, r, x)

\* A field of an entity is set.
LEMMA Overwritten ==
  ASSUME NEW t, NEW h, NEW p, NEW a, NEW b, NEW r, NEW m, NEW e, e = Fields(t, h, p, a, b, r, m), NEW x
  PROVE  Overwrites(t, h, p, a, b, r, m, e, x)
BY DEF Fields, Overwrites

\* A line sets at most the field it names.
LEMMA FieldsChange ==
  ASSUME NEW t, NEW h, NEW p, NEW a, NEW b, NEW r, NEW m, NEW e, e = Fields(t, h, p, a, b, r, m), NEW l
  PROVE  Changes(t, h, p, a, b, r, m, e, l)
<1>1. /\ e.type = t /\ e.pos = p /\ e.artist = a /\ e.album = b /\ e.mtime = m
      /\ [e EXCEPT !.artist = Append(a, l.value)] = Fields(t, h, p, Append(a, l.value), b, r, m)
      /\ [e EXCEPT !.album = l.value] = Fields(t, h, p, a, l.value, r, m)
      /\ [e EXCEPT !.pos = l.value] = Fields(t, h, l.value, a, b, r, m)
      /\ [e EXCEPT !.prio = l.value] = Fields(t, h, p, a, b, l.value, m)
      /\ [e EXCEPT !.mtime = l.value] = Fields(t, h, p, a, b, r, l.value)
  <2>1. Overwrites(t, h, p, a, b, r, m, e, l.value)
    BY Overwritten
  <2>2. Overwrites(t, h, p, a, b, r, m, e, Append(a, l.value))
    BY Overwritten
  <2> QED BY <2>1, <2>2 DEF Overwrites
<1>2. [e EXCEPT !.artist = ArtistsAfter(@, l.value)] = [e EXCEPT !.artist = Append(a, l.value)]
  BY <1>1 DEF ArtistsAfter
<1> QED BY <1>1, <1>2 DEF EntityAfter, Changes

\* An entity with none of its lines, and with one more of them.
LEMMA EntityStarted ==
  ASSUME NEW start \in Line, start.name \in Starts
  PROVE  NewEntity(start) = Described(start, <<>>)
<1>1. FirstOf(<<>>) = None /\ LastOf(<<>>) = None
  BY DEF FirstOf, LastOf
<1>2. \A name : ValuesOf(<<>>, name) = <<>>
  BY ValuesNone
<1>3. Described(start, <<>>) =
        Fields(TypeOf(start), PathOf(start), IF start.name = "cpos" THEN start.value ELSE None, <<>>, None, None, None)
  BY <1>1, <1>2, DescribedFields DEF FirstSong
<1>4. TypeOf(start) = IF start.name = "cpos" THEN "file" ELSE start.name
  BY DEF TypeOf, IsSong
<1>5. NewEntity(start) =
        Fields(TypeOf(start), PathOf(start), IF start.name = "cpos" THEN start.value ELSE None, <<>>, None, None, None)
  BY <1>4 DEF NewEntity, Fields, PathOf
<1> QED BY <1>3, <1>5

\* What lines describe is an entity.
LEMMA EntityIs ==
  ASSUME NEW start \in Line, start.name \in Starts, NEW lines \in Seq(Line)
  PROVE  Described(start, lines) \in Entity
<1>1. \A name : ValuesOf(lines, name) \in Seq(Words)
  BY ValuesMore
<1>2. \A v \in Seq(Words) : FirstOf(v) \in Value /\ LastOf(v) \in Value
  BY FirstAndLast DEF Value, Words
<1>3. None \in Value /\ <<>> \in Seq(Words) /\ start.value \in Value
  <2>1. None \in Value /\ start.value \in {"", "x", "y"}
    BY DEF Value, Line
  <2>2. <<>> \in Seq(Words)
    BY EmptySeq
  <2> QED BY <2>1, <2>2 DEF Value
<1>4. \A name : FirstOf(ValuesOf(lines, name)) \in Value /\ LastOf(ValuesOf(lines, name)) \in Value
  BY <1>1, <1>2
<1>5. TypeOf(start) \in {"file", "directory", "playlist"} /\ PathOf(start) \in Value
  BY <1>3 DEF TypeOf, IsSong, PathOf, Starts
<1>6. ASSUME NEW t \in {"file", "directory", "playlist"}, NEW h \in Value, NEW p \in Value, NEW a \in Seq(Words),
             NEW b \in Value, NEW r \in Value, NEW m \in Value
      PROVE  Fields(t, h, p, a, b, r, m) \in Entity
  BY DEF Fields, Entity
<1> HIDE DEF Entity, Value
<1>7. (IF start.name = "cpos" THEN start.value ELSE FirstSong(start, ValuesOf(lines, "Pos"))) \in Value
  BY <1>3, <1>4 DEF FirstSong
<1>8. (IF IsSong(start) THEN ValuesOf(lines, "Artist") ELSE <<>>) \in Seq(Words)
  BY <1>1, <1>3
<1>9. FirstSong(start, ValuesOf(lines, "Album")) \in Value
  BY <1>3, <1>4 DEF FirstSong
<1>10. (IF IsSong(start) THEN LastOf(ValuesOf(lines, "Prio")) ELSE None) \in Value
  BY <1>3, <1>4
<1>11. (IF start.name = "playlist" THEN FirstOf(ValuesOf(lines, "Last-Modified")) ELSE None) \in Value
  BY <1>3, <1>4
<1> QED BY <1>5, <1>6, <1>7, <1>8, <1>9, <1>10, <1>11, DescribedFields

\* With one more line it is what a getter makes of it.
LEMMA EntityGrows ==
  ASSUME NEW start \in Line, start.name \in Starts, NEW lines \in Seq(Line),
         NEW l \in Line, l.name \in {"Artist", "Album", "Pos", "Prio", "Last-Modified"},
         l.name \in {"Pos", "Prio", "Last-Modified"} => l.value # ""
  PROVE  EntityAfter(Described(start, lines), l) = Described(start, Append(lines, l))
<1> DEFINE more == Append(lines, l)
           e == Described(start, lines)
           f == Described(start, more)
           V(name) == ValuesOf(lines, name)
           W(name) == ValuesOf(more, name)
<1>1. \A name : /\ V(name) \in Seq(Words)
                /\ Tells(l, name) => W(name) = Append(V(name), l.value)
                /\ ~Tells(l, name) => W(name) = V(name)
  BY ValuesMore
<1>2. l.value # "" => l.value \in Words
  BY DEF Line, Words
<1>3. \A name : name # l.name \/ l.value = "" => W(name) = V(name)
  BY <1>1 DEF Tells
<1>4. l.value # "" => /\ W(l.name) = Append(V(l.name), l.value)
                      /\ LastOf(W(l.name)) = l.value
                      /\ FirstOf(W(l.name)) = IF FirstOf(V(l.name)) = None THEN l.value ELSE FirstOf(V(l.name))
  <2> SUFFICES ASSUME l.value # ""
               PROVE  /\ W(l.name) = Append(V(l.name), l.value)
                      /\ LastOf(W(l.name)) = l.value
                      /\ FirstOf(W(l.name)) = IF FirstOf(V(l.name)) = None THEN l.value ELSE FirstOf(V(l.name))
    OBVIOUS
  <2>1. V(l.name) \in Seq(Words) /\ l.value \in Words /\ W(l.name) = Append(V(l.name), l.value)
    BY <1>1, <1>2 DEF Tells
  <2> DEFINE v == V(l.name)
  <2>2. v \in Seq(Words) /\ W(l.name) = Append(v, l.value)
    BY <2>1
  <2> HIDE DEF V, W, v
  <2>3. /\ LastOf(Append(v, l.value)) = l.value
        /\ FirstOf(Append(v, l.value)) = IF FirstOf(v) = None THEN l.value ELSE FirstOf(v)
    BY <2>1, <2>2, FirstAndLast
  <2> QED BY <2>1, <2>2, <2>3 DEF v
<1> DEFINE t == TypeOf(start)
           h == PathOf(start)
           cpos == start.name = "cpos"
           list == start.name = "playlist"
           song == IsSong(start)
<1>5. e = Fields(t, h, IF cpos THEN start.value ELSE FirstSong(start, V("Pos")),
                 IF song THEN V("Artist") ELSE <<>>, FirstSong(start, V("Album")),
                 IF song THEN LastOf(V("Prio")) ELSE None, IF list THEN FirstOf(V("Last-Modified")) ELSE None)
  BY DescribedFields
<1>6. f = Fields(t, h, IF cpos THEN start.value ELSE FirstSong(start, W("Pos")),
                 IF song THEN W("Artist") ELSE <<>>, FirstSong(start, W("Album")),
                 IF song THEN LastOf(W("Prio")) ELSE None, IF list THEN FirstOf(W("Last-Modified")) ELSE None)
  BY DescribedFields
<1>7. /\ song <=> t = "file"
      /\ list <=> t = "playlist"
      /\ cpos => song
      /\ list => ~song
  BY DEF TypeOf, IsSong, Starts
<1>8. start.value # None
  BY DEF Line, None
<1> HIDE DEF e, f, V, W, more, t, h, cpos, list, song
<1> DEFINE P == IF cpos THEN start.value ELSE FirstSong(start, V("Pos"))
           A == IF song THEN V("Artist") ELSE <<>>
           B == FirstSong(start, V("Album"))
           R == IF song THEN LastOf(V("Prio")) ELSE None
           M == IF list THEN FirstOf(V("Last-Modified")) ELSE None
<1> HIDE DEF P, A, B, R, M
<1>9. e = Fields(t, h, P, A, B, R, M)
  BY <1>5 DEF P, A, B, R, M
<1>10. Changes(t, h, P, A, B, R, M, e, l)
  BY <1>9, FieldsChange
<1>12. CASE ~(song /\ l.value # "") /\ ~(list /\ l.name = "Last-Modified" /\ M = None)
  <2>1. EntityAfter(e, l) = e
    BY <1>7, <1>9, <1>10, <1>12 DEF Changes
  <2>2. CASE l.value = ""
    <3>1. W("Pos") = V("Pos") /\ W("Artist") = V("Artist") /\ W("Album") = V("Album") /\ W("Prio") = V("Prio")
          /\ W("Last-Modified") = V("Last-Modified")
      BY <1>3, <2>2
    <3>2. e = f
      BY <1>5, <1>6, <3>1
    <3> QED BY <2>1, <3>2 DEF e, f, more
  <2>3. CASE l.value # "" /\ ~song
    <3>1. FirstSong(start, W("Pos")) = FirstSong(start, V("Pos")) /\ FirstSong(start, W("Album")) = FirstSong(start, V("Album"))
      BY <2>3 DEF FirstSong, song
    <3>2. list => FirstOf(W("Last-Modified")) = FirstOf(V("Last-Modified"))
      <4>1. CASE l.name # "Last-Modified"
        BY <1>3, <4>1
      <4>2. CASE l.name = "Last-Modified" /\ list
        BY <1>4, <1>12, <2>3, <4>2 DEF M
      <4> QED BY <4>1, <4>2
    <3>3. e = f
      BY <1>5, <1>6, <2>3, <3>1, <3>2
    <3> QED BY <2>1, <3>3 DEF e, f, more
  <2> QED BY <1>12, <2>2, <2>3
<1>13. CASE list /\ l.name = "Last-Modified" /\ M = None
  <2>1. ~song
    BY <1>7, <1>13
  <2>2. EntityAfter(e, l) = Fields(t, h, P, A, B, R, l.value)
    BY <1>7, <1>10, <1>13, <2>1 DEF Changes
  <2>3. FirstOf(W("Last-Modified")) = l.value
    BY <1>4, <1>13 DEF M
  <2>4. FirstSong(start, W("Pos")) = FirstSong(start, V("Pos")) /\ FirstSong(start, W("Album")) = FirstSong(start, V("Album"))
    BY <2>1 DEF FirstSong, song
  <2>5. f = Fields(t, h, P, A, B, R, l.value)
    BY <1>6, <1>13, <2>1, <2>3, <2>4 DEF P, A, B, R
  <2> QED BY <2>2, <2>5 DEF e, f, more
<1>14. CASE song /\ l.value # ""
  <2>1. t = "file" /\ ~list
    BY <1>7, <1>14
  <2>2. A = V("Artist") /\ B = FirstOf(V("Album")) /\ R = LastOf(V("Prio")) /\ M = None
        /\ P = IF cpos THEN start.value ELSE FirstOf(V("Pos"))
    BY <1>14, <2>1 DEF A, B, R, M, P, FirstSong, song
  <2>3. f = Fields(t, h, IF cpos THEN start.value ELSE FirstOf(W("Pos")), W("Artist"), FirstOf(W("Album")), LastOf(W("Prio")), None)
    BY <1>6, <1>14, <2>1 DEF FirstSong, song
  <2>4. CASE l.name = "Artist"
    <3>1. EntityAfter(e, l) = Fields(t, h, P, Append(A, l.value), B, R, M)
      BY <1>10, <1>14, <2>1, <2>4 DEF Changes
    <3>2. W("Pos") = V("Pos") /\ W("Album") = V("Album") /\ W("Prio") = V("Prio") /\ W("Artist") = Append(V("Artist"), l.value)
      BY <1>3, <1>4, <1>14, <2>4
    <3> QED BY <2>2, <2>3, <3>1, <3>2 DEF e, f, more
  <2>5. CASE l.name = "Album"
    <3>1. W("Pos") = V("Pos") /\ W("Artist") = V("Artist") /\ W("Prio") = V("Prio")
          /\ FirstOf(W("Album")) = IF FirstOf(V("Album")) = None THEN l.value ELSE FirstOf(V("Album"))
      BY <1>3, <1>4, <1>14, <2>5
    <3>2. CASE B = None
      <4>1. EntityAfter(e, l) = Fields(t, h, P, A, l.value, R, M)
        BY <1>10, <1>14, <2>1, <2>5, <3>2 DEF Changes
      <4> QED BY <2>2, <2>3, <3>1, <3>2, <4>1 DEF e, f, more
    <3>3. CASE B # None
      <4>1. EntityAfter(e, l) = e
        BY <1>9, <1>10, <1>14, <2>1, <2>5, <3>3 DEF Changes
      <4> QED BY <1>9, <2>2, <2>3, <3>1, <3>3, <4>1 DEF e, f, more
    <3> QED BY <3>2, <3>3
  <2>6. CASE l.name = "Pos"
    <3>1. W("Album") = V("Album") /\ W("Artist") = V("Artist") /\ W("Prio") = V("Prio")
          /\ FirstOf(W("Pos")) = IF FirstOf(V("Pos")) = None THEN l.value ELSE FirstOf(V("Pos"))
      BY <1>3, <1>4, <1>14, <2>6
    <3>2. CASE P = None
      <4>1. EntityAfter(e, l) = Fields(t, h, l.value, A, B, R, M)
        BY <1>10, <1>14, <2>1, <2>6, <3>2 DEF Changes
      <4>2. ~cpos
        BY <1>8, <2>2, <3>2
      <4> QED BY <2>2, <2>3, <3>1, <3>2, <4>1, <4>2 DEF e, f, more
    <3>3. CASE P # None
      <4>1. EntityAfter(e, l) = e
        BY <1>9, <1>10, <1>14, <2>1, <2>6, <3>3 DEF Changes
      <4> QED BY <1>9, <2>2, <2>3, <3>1, <3>3, <4>1 DEF e, f, more
    <3> QED BY <3>2, <3>3
  <2>7. CASE l.name = "Prio"
    <3>1. EntityAfter(e, l) = Fields(t, h, P, A, B, l.value, M)
      BY <1>10, <1>14, <2>1, <2>7 DEF Changes
    <3>2. W("Pos") = V("Pos") /\ W("Album") = V("Album") /\ W("Artist") = V("Artist") /\ LastOf(W("Prio")) = l.value
      BY <1>3, <1>4, <1>14, <2>7
    <3> QED BY <2>2, <2>3, <3>1, <3>2 DEF e, f, more
  <2>8. CASE l.name = "Last-Modified"
    <3>1. EntityAfter(e, l) = e
      BY <1>10, <1>14, <2>1, <2>8 DEF Changes
    <3>2. W("Pos") = V("Pos") /\ W("Album") = V("Album") /\ W("Artist") = V("Artist") /\ W("Prio") = V("Prio")
      BY <1>3, <2>8
    <3> QED BY <1>9, <2>2, <2>3, <3>1, <3>2 DEF e, f, more
  <2> QED BY <2>4, <2>5, <2>6, <2>7, <2>8
<1> QED BY <1>12, <1>13, <1>14

-----------------------------------------------------------------------------
(* The entities, outputs and the record that lines describe, and with one more line. *)

\* Without lines there are no entities.
LEMMA EntitiesNone == AllEntities(<<>>) = <<>>
<1>1. Parts(<<>>, Starts) = <<>>
  BY PartsNone
<1> QED BY <1>1 DEF AllEntities

Within(l) ==
  /\ l.name \in {"Artist", "Album", "Pos", "Prio", "Last-Modified"}
  /\ l.name \in {"Pos", "Prio", "Last-Modified"} => l.value # ""

\* One more line starts an entity, or belongs to the last.
LEMMA EntitiesMore ==
  ASSUME NEW lines \in Seq(Line), NEW l \in Line
  PROVE  /\ AllEntities(lines) \in Seq(Entity)
         /\ l.name \in Starts => AllEntities(Append(lines, l)) = Append(AllEntities(lines), NewEntity(l)) /\ NewEntity(l) \in Entity
         /\ Within(l) /\ AllEntities(lines) # <<>> =>
              LET es == AllEntities(lines)
              IN /\ Front(es) \in Seq(Entity) /\ Last(es) \in Entity /\ es = Append(Front(es), Last(es))
                 /\ EntityAfter(Last(es), l) \in Entity
                 /\ AllEntities(Append(lines, l)) = Append(Front(es), EntityAfter(Last(es), l))
<1> DEFINE more == Append(lines, l)
           D == [x \in Slice |-> Described(x.start, x.rest)]
           P == Parts(lines, Starts)
           Q == Parts(more, Starts)
           E == AllEntities(lines)
           F == AllEntities(more)
           new == [start |-> l, rest |-> <<>>]
<1>1. /\ P \in Seq(Slice)
      /\ \A k \in 1 .. Len(P) : P[k].start.name \in Starts
      /\ l.name \in Starts => Q = Append(P, new)
      /\ l.name \notin Starts =>
           /\ Len(Q) = Len(P)
           /\ \A k \in 1 .. Len(P) - 1 : Q[k] = P[k]
           /\ Len(P) # 0 => Q[Len(P)].start = P[Len(P)].start /\ Q[Len(P)].rest = Append(P[Len(P)].rest, l)
  <2> HIDE DEF Slice
  <2> QED BY PartsMore
<1>2. more \in Seq(Line)
  BY AppendProperties
<1>3. Q \in Seq(Slice) /\ \A k \in 1 .. Len(Q) : Q[k].start.name \in Starts
  BY <1>2, PartsMore
<1>4. E = [k \in DOMAIN P |-> Described(P[k].start, P[k].rest)] /\ F = [k \in DOMAIN Q |-> Described(Q[k].start, Q[k].rest)]
  BY DEF AllEntities
<1>5. new \in Slice
  BY DEF Slice
<1>6. \A x \in Slice : D[x] = Described(x.start, x.rest) /\ x.start \in Line /\ x.rest \in Seq(Line)
  BY DEF Slice
<1>7. \A x \in Slice : x.start.name \in Starts => D[x] \in Entity
  BY <1>6, EntityIs
<1>8. new.start = l /\ new.rest = <<>>
  OBVIOUS
<1> HIDE DEF D, P, Q, E, F, new, more, Slice, Entity
<1>9. \A k \in 1 .. Len(P) : P[k] \in Slice
  BY <1>1, ElementOfSeq
<1>10. \A k \in 1 .. Len(Q) : Q[k] \in Slice
  BY <1>3, ElementOfSeq
<1>11. \A k \in 1 .. Len(P) : D[P[k]] \in Entity
  BY <1>1, <1>7, <1>9
<1>12. E = [k \in DOMAIN P |-> D[P[k]]]
  <2>1. DOMAIN P = 1 .. Len(P)
    BY <1>1, LenProperties
  <2> QED BY <1>4, <1>6, <1>9, <2>1
<1>13. F = [k \in DOMAIN Q |-> D[Q[k]]]
  <2>1. DOMAIN Q = 1 .. Len(Q)
    BY <1>3, LenProperties
  <2> QED BY <1>4, <1>6, <1>10, <2>1
<1>14. E \in Seq(Entity) /\ Len(E) = Len(P)
  <2>1. Len(P) \in Nat /\ DOMAIN P = 1 .. Len(P)
    BY <1>1, LenProperties
  <2>2. E \in [1 .. Len(P) -> Entity]
    BY <1>11, <1>12, <2>1
  <2> QED BY <2>1, <2>2
<1>15. CASE l.name \in Starts
  <2>1. NewEntity(l) = Described(l, <<>>)
    BY <1>15, EntityStarted
  <2>2. D[new] = NewEntity(l) /\ D[new] \in Entity
    BY <1>5, <1>6, <1>7, <1>8, <1>15, <2>1
  <2>3. Q = Append(P, new)
    BY <1>1, <1>15
  <2>4. F = Append(E, D[new])
    BY <1>1, <1>5, <1>11, <1>12, <1>13, <2>2, <2>3, MapAppends
  <2>5. ~Within(l)
    BY <1>15 DEF Within, Starts
  <2> QED BY <1>14, <2>2, <2>4, <2>5 DEF E, F, more
<1>16. CASE l.name \notin Starts
  <2>1. CASE ~(Within(l) /\ E # <<>>)
    BY <1>14, <1>16, <2>1 DEF E, more
  <2>2. CASE Within(l) /\ E # <<>>
    <3> DEFINE m == Len(P)
               x == P[m]
               y == Q[m]
    <3>1. m \in Nat /\ m # 0
      BY <1>1, <1>14, <2>2, EmptySeq, LenProperties
    <3>2. m \in 1 .. m
      BY <3>1
    <3>3. Len(Q) = m /\ (\A k \in 1 .. m - 1 : Q[k] = P[k]) /\ y.start = x.start /\ y.rest = Append(x.rest, l)
      BY <1>1, <1>16, <3>1
    <3>4. x \in Slice /\ y \in Slice /\ x.start.name \in Starts
      BY <1>1, <1>9, <1>10, <3>2, <3>3
    <3>5. D[x] \in Entity /\ D[y] \in Entity
      BY <1>7, <3>3, <3>4
    <3>6. D[y] = EntityAfter(D[x], l)
      <4>1. EntityAfter(Described(x.start, x.rest), l) = Described(x.start, Append(x.rest, l))
        BY <1>6, <2>2, <3>4, EntityGrows DEF Within
      <4> QED BY <1>6, <3>3, <3>4, <4>1
    <3>7. /\ E # <<>> /\ Last(E) = D[x]
          /\ Front(E) \in Seq(Entity) /\ E = Append(Front(E), Last(E))
          /\ F = Append(Front(E), D[y])
      <4>1. /\ Len(P) # 0 /\ Len(Q) = Len(P) /\ \A k \in 1 .. Len(P) - 1 : Q[k] = P[k]
            /\ D[Q[Len(P)]] \in Entity
        BY <3>1, <3>3, <3>5
      <4>2. Replaces(Entity, E, F, D[P[Len(P)]], D[Q[Len(P)]])
        BY <1>1, <1>3, <1>11, <1>12, <1>13, <4>1, MapReplaces
      <4> QED BY <4>2 DEF Replaces
    <3> QED BY <1>14, <1>16, <3>5, <3>6, <3>7 DEF E, F, more
  <2> QED BY <2>1, <2>2
<1> QED BY <1>15, <1>16

OutputRecord == [outputid : {"", "x", "y"}, outputname : Value, outputenabled : Value]

\* Without lines there are no outputs.
LEMMA OutputsNone == AllOutputs(<<>>) = <<>>
<1>1. Parts(<<>>, {"outputid"}) = <<>>
  BY PartsNone
<1> QED BY <1>1 DEF AllOutputs

\* What lines describe is an output.
LEMMA OutputIs ==
  ASSUME NEW start \in Line, NEW lines \in Seq(Line)
  PROVE  Output(start, lines) \in OutputRecord
<1>1. \A name : ValuesOf(lines, name) \in Seq(Words)
  BY ValuesMore
<1>2. \A v \in Seq(Words) : LastOf(v) \in Value
  BY FirstAndLast DEF Value, Words
<1>3. start.value \in {"", "x", "y"}
  BY DEF Line
<1> HIDE DEF Value
<1>4. LastOf(ValuesOf(lines, "outputname")) \in Value /\ LastOf(ValuesOf(lines, "outputenabled")) \in Value
  BY <1>1, <1>2
<1> QED BY <1>3, <1>4 DEF Output, OutputRecord

OutputFields(i, n, e) == [outputid |-> i, outputname |-> n, outputenabled |-> e]

OutputOverwrites(i, n, e, f, x) ==
  /\ [f EXCEPT !.outputid = x] = OutputFields(x, n, e)
  /\ [f EXCEPT !.outputname = x] = OutputFields(i, x, e)
  /\ [f EXCEPT !.outputenabled = x] = OutputFields(i, n, x)

\* A field of an output is set.
LEMMA OutputOverwritten ==
  ASSUME NEW i, NEW n, NEW e, NEW f, f = OutputFields(i, n, e), NEW x
  PROVE  OutputOverwrites(i, n, e, f, x)
BY DEF OutputFields, OutputOverwrites

OutputChanges(i, n, e, f, l) ==
  /\ l.name = "outputid" => FieldAfter(f, l) = OutputFields(l.value, n, e)
  /\ l.name = "outputname" => FieldAfter(f, l) = OutputFields(i, l.value, e)
  /\ l.name = "outputenabled" => FieldAfter(f, l) = OutputFields(i, n, l.value)

\* A line sets at most the field it names.
LEMMA OutputFieldsChange ==
  ASSUME NEW i, NEW n, NEW e, NEW f, f = OutputFields(i, n, e), NEW l
  PROVE  OutputChanges(i, n, e, f, l)
<1>1. DOMAIN f = {"outputid", "outputname", "outputenabled"}
  BY DEF OutputFields
<1>2. OutputOverwrites(i, n, e, f, l.value)
  BY OutputOverwritten
<1>3. l.name \in DOMAIN f => FieldAfter(f, l) = [f EXCEPT ![l.name] = l.value]
  BY DEF FieldAfter
<1>4. CASE l.name = "outputid"
  BY <1>1, <1>2, <1>3, <1>4 DEF OutputOverwrites, OutputChanges
<1>5. CASE l.name = "outputname"
  BY <1>1, <1>2, <1>3, <1>5 DEF OutputOverwrites, OutputChanges
<1>6. CASE l.name = "outputenabled"
  BY <1>1, <1>2, <1>3, <1>6 DEF OutputOverwrites, OutputChanges
<1>7. CASE l.name \notin {"outputid", "outputname", "outputenabled"}
  BY <1>7 DEF OutputChanges
<1> QED BY <1>4, <1>5, <1>6, <1>7

\* An output with none of its lines, and with one more of them.
LEMMA OutputStarted ==
  ASSUME NEW l \in Line, l.name = "outputid"
  PROVE  FieldAfter(NewOutput, l) = Output(l, <<>>)
<1>1. NewOutput = OutputFields(None, None, None)
  BY DEF NewOutput, OutputFields
<1>2. FieldAfter(NewOutput, l) = OutputFields(l.value, None, None)
  <2>1. OutputChanges(None, None, None, NewOutput, l)
    BY <1>1, OutputFieldsChange
  <2> QED BY <2>1 DEF OutputChanges
<1>3. LastOf(ValuesOf(<<>>, "outputname")) = None /\ LastOf(ValuesOf(<<>>, "outputenabled")) = None
  BY ValuesNone DEF LastOf
<1> QED BY <1>2, <1>3 DEF Output, OutputFields

\* With one more line it is what a getter makes of it.
LEMMA OutputGrows ==
  ASSUME NEW start \in Line, NEW lines \in Seq(Line), NEW l \in Line,
         l.name \in {"outputname", "outputenabled"}, l.value # ""
  PROVE  FieldAfter(Output(start, lines), l) = Output(start, Append(lines, l))
<1> DEFINE more == Append(lines, l)
           V(name) == ValuesOf(lines, name)
           W(name) == ValuesOf(more, name)
<1>1. \A name : /\ V(name) \in Seq(Words)
                /\ Tells(l, name) => W(name) = Append(V(name), l.value)
                /\ ~Tells(l, name) => W(name) = V(name)
  BY ValuesMore
<1>2. l.value \in Words
  BY DEF Line, Words
<1>3. \A v \in Seq(Words) : LastOf(Append(v, l.value)) = l.value
  BY <1>2, FirstAndLast
<1>4. Output(start, lines) = OutputFields(start.value, LastOf(V("outputname")), LastOf(V("outputenabled")))
  BY DEF Output, OutputFields
<1>5. Output(start, more) = OutputFields(start.value, LastOf(W("outputname")), LastOf(W("outputenabled")))
  BY DEF Output, OutputFields
<1> HIDE DEF V, W, more
<1>8. OutputChanges(start.value, LastOf(V("outputname")), LastOf(V("outputenabled")), Output(start, lines), l)
  BY <1>4, OutputFieldsChange
<1>6. CASE l.name = "outputname"
  <2>1. W("outputname") = Append(V("outputname"), l.value) /\ W("outputenabled") = V("outputenabled")
    BY <1>1, <1>6 DEF Tells
  <2>2. LastOf(W("outputname")) = l.value
    BY <1>1, <1>3, <2>1
  <2>3. FieldAfter(Output(start, lines), l) = OutputFields(start.value, l.value, LastOf(V("outputenabled")))
    BY <1>6, <1>8 DEF OutputChanges
  <2> QED BY <1>5, <2>1, <2>2, <2>3 DEF more
<1>7. CASE l.name = "outputenabled"
  <2>1. W("outputenabled") = Append(V("outputenabled"), l.value) /\ W("outputname") = V("outputname")
    BY <1>1, <1>7 DEF Tells
  <2>2. LastOf(W("outputenabled")) = l.value
    BY <1>1, <1>3, <2>1
  <2>3. FieldAfter(Output(start, lines), l) = OutputFields(start.value, LastOf(V("outputname")), l.value)
    BY <1>7, <1>8 DEF OutputChanges
  <2> QED BY <1>5, <2>1, <2>2, <2>3 DEF more
<1> QED BY <1>6, <1>7

\* One more line starts an output, or belongs to the last.
LEMMA OutputsMore ==
  ASSUME NEW lines \in Seq(Line), NEW l \in Line
  PROVE  /\ AllOutputs(lines) \in Seq(OutputRecord)
         /\ l.name = "outputid" =>
              /\ AllOutputs(Append(lines, l)) = Append(AllOutputs(lines), FieldAfter(NewOutput, l))
              /\ FieldAfter(NewOutput, l) \in OutputRecord
         /\ l.name \in {"outputname", "outputenabled"} /\ l.value # "" /\ AllOutputs(lines) # <<>> =>
              LET os == AllOutputs(lines)
              IN /\ Front(os) \in Seq(OutputRecord) /\ Last(os) \in OutputRecord /\ os = Append(Front(os), Last(os))
                 /\ FieldAfter(Last(os), l) \in OutputRecord
                 /\ AllOutputs(Append(lines, l)) = Append(Front(os), FieldAfter(Last(os), l))
<1> DEFINE more == Append(lines, l)
           N == {"outputid"}
           D == [x \in Slice |-> Output(x.start, x.rest)]
           P == Parts(lines, N)
           Q == Parts(more, N)
           E == AllOutputs(lines)
           F == AllOutputs(more)
           new == [start |-> l, rest |-> <<>>]
<1>1. /\ P \in Seq(Slice)
      /\ l.name \in N => Q = Append(P, new)
      /\ l.name \notin N =>
           /\ Len(Q) = Len(P)
           /\ \A k \in 1 .. Len(P) - 1 : Q[k] = P[k]
           /\ Len(P) # 0 => Q[Len(P)].start = P[Len(P)].start /\ Q[Len(P)].rest = Append(P[Len(P)].rest, l)
  <2> HIDE DEF Slice
  <2> QED BY PartsMore
<1>2. more \in Seq(Line)
  BY AppendProperties
<1>3. Q \in Seq(Slice)
  BY <1>2, PartsMore
<1>4. E = [k \in DOMAIN P |-> Output(P[k].start, P[k].rest)] /\ F = [k \in DOMAIN Q |-> Output(Q[k].start, Q[k].rest)]
  BY DEF AllOutputs
<1>5. new \in Slice
  BY DEF Slice
<1>6. \A x \in Slice : D[x] = Output(x.start, x.rest) /\ x.start \in Line /\ x.rest \in Seq(Line)
  BY DEF Slice
<1>7. \A x \in Slice : D[x] \in OutputRecord
  BY <1>6, OutputIs
<1>8. new.start = l /\ new.rest = <<>>
  OBVIOUS
<1> HIDE DEF D, P, Q, E, F, new, more, Slice, OutputRecord
<1>9. \A k \in 1 .. Len(P) : P[k] \in Slice
  BY <1>1, ElementOfSeq
<1>10. \A k \in 1 .. Len(Q) : Q[k] \in Slice
  BY <1>3, ElementOfSeq
<1>11. \A k \in 1 .. Len(P) : D[P[k]] \in OutputRecord
  BY <1>1, <1>7, <1>9
<1>12. E = [k \in DOMAIN P |-> D[P[k]]]
  <2>1. DOMAIN P = 1 .. Len(P)
    BY <1>1, LenProperties
  <2> QED BY <1>4, <1>6, <1>9, <2>1
<1>13. F = [k \in DOMAIN Q |-> D[Q[k]]]
  <2>1. DOMAIN Q = 1 .. Len(Q)
    BY <1>3, LenProperties
  <2> QED BY <1>4, <1>6, <1>10, <2>1
<1>14. E \in Seq(OutputRecord) /\ Len(E) = Len(P)
  <2>1. Len(P) \in Nat /\ DOMAIN P = 1 .. Len(P)
    BY <1>1, LenProperties
  <2>2. E \in [1 .. Len(P) -> OutputRecord]
    BY <1>11, <1>12, <2>1
  <2> QED BY <2>1, <2>2
<1>15. CASE l.name = "outputid"
  <2>1. FieldAfter(NewOutput, l) = Output(l, <<>>)
    BY <1>15, OutputStarted
  <2>2. D[new] = FieldAfter(NewOutput, l) /\ D[new] \in OutputRecord
    BY <1>5, <1>6, <1>7, <1>8, <1>15, <2>1
  <2>3. Q = Append(P, new)
    BY <1>1, <1>15
  <2>4. F = Append(E, D[new])
    BY <1>1, <1>5, <1>11, <1>12, <1>13, <2>2, <2>3, MapAppends
  <2> QED BY <1>14, <1>15, <2>2, <2>4 DEF E, F, more
<1>16. CASE l.name # "outputid"
  <2>1. CASE ~(l.name \in {"outputname", "outputenabled"} /\ l.value # "" /\ E # <<>>)
    BY <1>14, <1>16, <2>1 DEF E, more
  <2>2. CASE l.name \in {"outputname", "outputenabled"} /\ l.value # "" /\ E # <<>>
    <3> DEFINE m == Len(P)
               x == P[m]
               y == Q[m]
    <3>1. m \in Nat /\ m # 0
      BY <1>1, <1>14, <2>2, EmptySeq, LenProperties
    <3>2. m \in 1 .. m
      BY <3>1
    <3>3. Len(Q) = m /\ (\A k \in 1 .. m - 1 : Q[k] = P[k]) /\ y.start = x.start /\ y.rest = Append(x.rest, l)
      BY <1>1, <1>16, <3>1
    <3>4. x \in Slice /\ y \in Slice
      BY <1>9, <1>10, <3>2, <3>3
    <3>5. D[x] \in OutputRecord /\ D[y] \in OutputRecord
      BY <1>7, <3>4
    <3>6. D[y] = FieldAfter(D[x], l)
      <4>1. FieldAfter(Output(x.start, x.rest), l) = Output(x.start, Append(x.rest, l))
        BY <1>6, <2>2, <3>4, OutputGrows
      <4> QED BY <1>6, <3>3, <3>4, <4>1
    <3>7. /\ E # <<>> /\ Last(E) = D[x]
          /\ Front(E) \in Seq(OutputRecord) /\ E = Append(Front(E), Last(E))
          /\ F = Append(Front(E), D[y])
      <4>1. /\ Len(P) # 0 /\ Len(Q) = Len(P) /\ \A k \in 1 .. Len(P) - 1 : Q[k] = P[k]
            /\ D[Q[Len(P)]] \in OutputRecord
        BY <3>1, <3>3, <3>5
      <4>2. Replaces(OutputRecord, E, F, D[P[Len(P)]], D[Q[Len(P)]])
        BY <1>1, <1>3, <1>11, <1>12, <1>13, <4>1, MapReplaces
      <4> QED BY <4>2 DEF Replaces
    <3> QED BY <1>14, <1>16, <3>5, <3>6, <3>7 DEF E, F, more
  <2> QED BY <2>1, <2>2
<1> QED BY <1>15, <1>16

RecordFields(v, s) == [volume |-> v, state |-> s]

RecordOverwrites(v, s, f, x) ==
  /\ [f EXCEPT !.volume = x] = RecordFields(x, s)
  /\ [f EXCEPT !.state = x] = RecordFields(v, x)

\* A field of a record is set.
LEMMA RecordOverwritten ==
  ASSUME NEW v, NEW s, NEW f, f = RecordFields(v, s), NEW x
  PROVE  RecordOverwrites(v, s, f, x)
BY DEF RecordFields, RecordOverwrites

RecordChanges(v, s, f, l) ==
  /\ l.name = "volume" => FieldAfter(f, l) = RecordFields(l.value, s)
  /\ l.name = "state" => FieldAfter(f, l) = RecordFields(v, l.value)
  /\ l.name = "other" => FieldAfter(f, l) = f

\* A line sets at most the field it names.
LEMMA RecordFieldsChange ==
  ASSUME NEW v, NEW s, NEW f, f = RecordFields(v, s), NEW l
  PROVE  RecordChanges(v, s, f, l)
<1>1. DOMAIN f = {"volume", "state"}
  BY DEF RecordFields
<1>2. RecordOverwrites(v, s, f, l.value)
  BY RecordOverwritten
<1>3. /\ l.name \in DOMAIN f => FieldAfter(f, l) = [f EXCEPT ![l.name] = l.value]
      /\ l.name \notin DOMAIN f => FieldAfter(f, l) = f
  BY DEF FieldAfter
<1>4. CASE l.name = "volume"
  BY <1>1, <1>2, <1>3, <1>4 DEF RecordOverwrites, RecordChanges
<1>5. CASE l.name = "state"
  BY <1>1, <1>2, <1>3, <1>5 DEF RecordOverwrites, RecordChanges
<1>6. CASE l.name \notin {"volume", "state"}
  BY <1>1, <1>3, <1>6 DEF RecordChanges
<1> QED BY <1>4, <1>5, <1>6

\* A record of no lines, and with one more line.
LEMMA RecordNone == NewRecord = Record(<<>>)
<1>1. LastOf(ValuesOf(<<>>, "volume")) = None /\ LastOf(ValuesOf(<<>>, "state")) = None
  BY ValuesNone DEF LastOf
<1> QED BY <1>1 DEF NewRecord, Record

\* With one more line it is what a getter makes of it.
LEMMA RecordMore ==
  ASSUME NEW lines \in Seq(Line), NEW l \in Line, l.name \in {"volume", "state", "other"}, l.value # ""
  PROVE  /\ Record(Append(lines, l)) = FieldAfter(Record(lines), l)
         /\ l.name = "state" \/ Record(lines).state # None => Record(Append(lines, l)).state # None
<1> DEFINE more == Append(lines, l)
           V(name) == ValuesOf(lines, name)
           W(name) == ValuesOf(more, name)
<1>1. \A name : /\ V(name) \in Seq(Words)
                /\ Tells(l, name) => W(name) = Append(V(name), l.value)
                /\ ~Tells(l, name) => W(name) = V(name)
  BY ValuesMore
<1>2. l.value \in Words /\ l.value # None
  BY DEF Line, Words, None
<1>3. \A v \in Seq(Words) : LastOf(Append(v, l.value)) = l.value
  BY <1>2, FirstAndLast
<1>4. Record(lines) = RecordFields(LastOf(V("volume")), LastOf(V("state")))
  BY DEF Record, RecordFields
<1>5. Record(more) = RecordFields(LastOf(W("volume")), LastOf(W("state")))
  BY DEF Record, RecordFields
<1>6. \A v, s : RecordFields(v, s).state = s
  BY DEF RecordFields
<1> HIDE DEF V, W, more
<1>13. Record(more).state = LastOf(W("state")) /\ Record(lines).state = LastOf(V("state"))
  BY <1>4, <1>5, <1>6
<1>12. RecordChanges(LastOf(V("volume")), LastOf(V("state")), Record(lines), l)
  BY <1>4, RecordFieldsChange
<1>7. \A name : name # l.name => W(name) = V(name)
  BY <1>1 DEF Tells
<1>8. LastOf(W(l.name)) = l.value
  BY <1>1, <1>3 DEF Tells
<1>9. CASE l.name = "volume"
  <2>1. FieldAfter(Record(lines), l) = RecordFields(l.value, LastOf(V("state")))
    BY <1>4, <1>9, <1>12 DEF RecordChanges
  <2>2. W("state") = V("state") /\ LastOf(W("volume")) = l.value
    BY <1>7, <1>8, <1>9
  <2>3. Record(more) = FieldAfter(Record(lines), l)
    BY <1>5, <2>1, <2>2
  <2>4. Record(lines).state # None => Record(more).state # None
    BY <1>13, <2>2
  <2> QED BY <1>9, <2>3, <2>4 DEF more
<1>10. CASE l.name = "state"
  <2>1. FieldAfter(Record(lines), l) = RecordFields(LastOf(V("volume")), l.value)
    BY <1>4, <1>10, <1>12 DEF RecordChanges
  <2>2. W("volume") = V("volume") /\ LastOf(W("state")) = l.value
    BY <1>7, <1>8, <1>10
  <2>3. Record(more) = FieldAfter(Record(lines), l)
    BY <1>5, <2>1, <2>2
  <2>4. Record(more).state # None
    BY <1>2, <1>13, <2>2
  <2> QED BY <2>3, <2>4 DEF more
<1>11. CASE l.name = "other"
  <2>1. FieldAfter(Record(lines), l) = RecordFields(LastOf(V("volume")), LastOf(V("state")))
    BY <1>4, <1>11, <1>12 DEF RecordChanges
  <2>2. W("volume") = V("volume") /\ W("state") = V("state")
    BY <1>7, <1>11
  <2>3. Record(more) = FieldAfter(Record(lines), l)
    BY <1>5, <2>1, <2>2
  <2>4. Record(lines).state # None => Record(more).state # None
    BY <1>13, <2>2
  <2> QED BY <1>11, <2>3, <2>4 DEF more
<1> QED BY <1>9, <1>10, <1>11

-----------------------------------------------------------------------------
(* How much of a reply is in what a call c has put together, b, and in its *)
(* result, r.                                                              *)

Kept(c, entities)      == IF c \in SongsOnly THEN Songs(entities) ELSE entities
FirstKept(c, entities) == IF entities = <<>> THEN <<>> ELSE Kept(c, <<Head(entities)>>)

\* All that the lines say is in the result.
Between(c, r, lines) ==
  /\ c \in Entities => r = Kept(c, AllEntities(lines))
  /\ c \in NamedElements => r = ValuesOf(lines, "tagtype")
  /\ c \in Outputs => r = AllOutputs(lines)
  /\ c \in FirstEntity \cup Records => lines = <<>> /\ r = <<>>

\* What the lines say last is still being put together.
Inside(c, r, b, lines) ==
  /\ c \in Entities =>
       AllEntities(lines) # <<>> /\ b = Last(AllEntities(lines)) /\ r = Kept(c, Front(AllEntities(lines)))
  /\ c \in FirstEntity => AllEntities(lines) = <<b>> /\ r = <<>>
  /\ c \in NamedElements => r = ValuesOf(lines, "tagtype")
  /\ c \in Outputs =>
       AllOutputs(lines) # <<>> /\ b = Last(AllOutputs(lines)) /\ r = Front(AllOutputs(lines))
  /\ c \in Records => b = Record(lines) /\ r = <<>>

\* What is wanted of the lines is in the result.
Given(c, r, lines) ==
  /\ c \in Entities => r = Kept(c, AllEntities(lines))
  /\ c \in FirstEntity => r = FirstKept(c, AllEntities(lines))
  /\ c \in NamedElements => r = ValuesOf(lines, "tagtype")
  /\ c \in Outputs => r = AllOutputs(lines)
  /\ c \in Records => r = <<Record(lines)>>

\* A line a getter may begin with.
Opens(c, l) ==
  /\ c \in Entities \cup FirstEntity => l.name \in Starts
  /\ c \in Outputs => l.name = "outputid"

\* What a list getter adds to the result.
Added(c, r, b) == IF c \in SongsOnly /\ b.type # "file" THEN r ELSE Append(r, b)

\* A function is of one kind.
LEMMA Apart ==
  /\ \A c \in Entities : c \notin FirstEntity /\ c \notin NamedElements /\ c \notin Outputs /\ c \notin Records
  /\ \A c \in FirstEntity : c \notin NamedElements /\ c \notin Outputs /\ c \notin Records /\ c \in SongsOnly
  /\ \A c \in NamedElements : c \notin Outputs /\ c \notin Records /\ c \notin SongsOnly
  /\ \A c \in Outputs : c \notin Records /\ c \notin SongsOnly
  /\ \A c \in Records : c \notin SongsOnly
BY DEF Entities, FirstEntity, NamedElements, Outputs, Records, SongsOnly

\* The lines of a reply, by what is asked.
LEMMA LinesOf ==
  ASSUME NEW c \in Calls, NEW l \in LinesFor(c)
  PROVE  /\ l \in Line
         /\ c \in Entities \cup FirstEntity => l.name \in Starts \/ Within(l)
         /\ c \in NamedElements => l.name \in {"tagtype", "other"} /\ l.value # ""
         /\ c \in Outputs => l.name \in {"outputid", "outputname", "outputenabled"} /\ l.value # ""
         /\ c \in Records => l.name \in {"volume", "state", "other"} /\ l.value # ""
<1>1. l \in Line
  BY LinesAreLines
<1>2. CASE c \in Entities \cup FirstEntity
  <2>1. l \in [name : Starts, value : {"x"}]
           \cup [name : {"Artist", "Album"}, value : {"", "x", "y"}]
           \cup [name : {"Pos", "Prio", "Last-Modified"}, value : {"x", "y"}]
    BY <1>2, Apart DEF LinesFor
  <2>2. l.name \in Starts \/ Within(l)
    BY <2>1 DEF Within
  <2> QED BY <1>1, <1>2, <2>2, Apart
<1>3. CASE c \in NamedElements
  <2>1. l \in [name : {"tagtype", "other"}, value : {"x", "y"}]
    BY <1>3, Apart DEF LinesFor
  <2> QED BY <1>1, <1>3, <2>1, Apart
<1>4. CASE c \in Outputs
  <2>1. l \in [name : {"outputid", "outputname", "outputenabled"}, value : {"x", "y"}]
    BY <1>4, Apart DEF LinesFor
  <2> QED BY <1>1, <1>4, <2>1, Apart
<1>5. CASE c \in Records
  <2>1. l \in [name : {"volume", "state", "other"}, value : {"x", "y"}]
    BY <1>5, Apart DEF LinesFor
  <2> QED BY <1>1, <1>5, <2>1, Apart
<1> QED BY <1>2, <1>3, <1>4, <1>5 DEF Calls

\* A sequence is what is before its last, and its last.
LEMMA FrontAndLast ==
  ASSUME NEW A, NEW s \in Seq(A), s # <<>>
  PROVE  Front(s) \in Seq(A) /\ Last(s) \in A /\ s = Append(Front(s), Last(s))
<1>1. Len(s) \in Nat /\ Len(s) >= 1 /\ 1 \in 1 .. Len(s) + 1
  BY EmptySeq, LenProperties
<1>2. \A i \in 1 .. Len(s) : s[i] \in A
  BY ElementOfSeq
<1>3. Last(s) \in A
  BY <1>1, <1>2 DEF Last
<1>4. Front(s) \in Seq(A)
  <2>1. 1 \in Int /\ Len(s) - 1 \in Int /\ \A i \in 1 .. Len(s) - 1 : s[i] \in A
    BY <1>1, <1>2
  <2> QED BY <2>1, SubSeqProperties DEF Front
<1>5. s = Front(s) \o <<Last(s)>>
  <2>1. 1 \in 1 .. Len(s) /\ Len(s) \in 1 .. Len(s)
    BY <1>1
  <2>2. SubSeq(s, 1, Len(s)) = SubSeq(s, 1, Len(s) - 1) \o <<s[Len(s)]>>
    BY <2>1, SubSeqRecursiveSecond
  <2>3. SubSeq(s, 1, Len(s)) = s
    BY SubSeqFull
  <2> QED BY <2>2, <2>3 DEF Front, Last
<1> QED BY <1>3, <1>4, <1>5, AppendIsConcat

\* What was appended is the last.
LEMMA AppendsEnd ==
  ASSUME NEW A, NEW s \in Seq(A), NEW e \in A
  PROVE  /\ Append(s, e) \in Seq(A) /\ Append(s, e) # <<>>
         /\ Front(Append(s, e)) = s /\ Last(Append(s, e)) = e
<1>1. Append(s, e) \in Seq(A) /\ Append(s, e) # <<>>
  BY AppendProperties
<1>2. /\ Front(Append(s, e)) \in Seq(A) /\ Last(Append(s, e)) \in A
      /\ Append(s, e) = Append(Front(Append(s, e)), Last(Append(s, e)))
  BY <1>1, FrontAndLast
<1> QED BY <1>1, <1>2, AppendInjective

\* A line that starts an entity begins one.
LEMMA EntityOpens ==
  ASSUME NEW c \in Entities \cup FirstEntity, NEW r, NEW lines \in Seq(Line), NEW l \in Line, l.name \in Starts,
         Between(c, r, lines)
  PROVE  Inside(c, r, NewEntity(l), Append(lines, l))
<1> DEFINE es == AllEntities(lines)
           new == NewEntity(l)
<1>1. es \in Seq(Entity) /\ AllEntities(Append(lines, l)) = Append(es, new) /\ new \in Entity
  BY EntitiesMore
<1> HIDE DEF es, new
<1>2. Append(es, new) # <<>> /\ Front(Append(es, new)) = es /\ Last(Append(es, new)) = new
  BY <1>1, AppendsEnd
<1>3. CASE c \in Entities
  BY <1>1, <1>2, <1>3, Apart DEF Between, Inside, es, new
<1>4. CASE c \in FirstEntity
  <2>1. es = <<>> /\ r = <<>>
    BY <1>4, EntitiesNone DEF Between, es
  <2>2. Append(es, new) = <<new>>
    BY <2>1
  <2> QED BY <1>1, <1>4, <2>1, <2>2, Apart DEF Inside, new
<1> QED BY <1>3, <1>4

\* A line within an entity goes into what is put together.
LEMMA EntityGoesOn ==
  ASSUME NEW c \in Entities \cup FirstEntity, NEW r, NEW b, NEW lines \in Seq(Line), NEW l \in Line, Within(l),
         Inside(c, r, b, lines)
  PROVE  Inside(c, r, EntityAfter(b, l), Append(lines, l))
<1> DEFINE es == AllEntities(lines)
           more == AllEntities(Append(lines, l))
           new == EntityAfter(Last(es), l)
<1>1. es \in Seq(Entity)
  BY EntitiesMore
<1>2. es # <<>>
  BY Apart DEF Inside
<1>3. /\ Front(es) \in Seq(Entity) /\ Last(es) \in Entity /\ es = Append(Front(es), Last(es))
      /\ new \in Entity /\ more = Append(Front(es), new)
  BY <1>2, EntitiesMore
<1> HIDE DEF es, new, more
<1>4. more # <<>> /\ Front(more) = Front(es) /\ Last(more) = new
  BY <1>3, AppendsEnd
<1>5. CASE c \in Entities
  <2>1. b = Last(es) /\ r = Kept(c, Front(es))
    BY <1>5 DEF Inside, es
  <2>2. EntityAfter(b, l) = new
    BY <2>1 DEF new
  <2> QED BY <1>4, <1>5, <2>1, <2>2, Apart DEF Inside, more
<1>6. CASE c \in FirstEntity
  <2>1. es = <<b>> /\ r = <<>>
    BY <1>6 DEF Inside, es
  <2>2. b \in Entity /\ es = Append(<<>>, b) /\ <<>> \in Seq(Entity)
    <3>1. Len(es) = 1 /\ es[1] = b
      BY <2>1
    <3> QED BY <1>1, <2>1, <3>1
  <2>3. Front(es) = <<>> /\ Last(es) = b
    BY <2>2, AppendsEnd
  <2>4. more = <<new>> /\ new = EntityAfter(b, l)
    BY <1>3, <2>3 DEF new
  <2> QED BY <1>6, <2>1, <2>4, Apart DEF Inside, more
<1> QED BY <1>5, <1>6

\* The line of an id begins an output.
LEMMA OutputOpens ==
  ASSUME NEW c \in Outputs, NEW r, NEW lines \in Seq(Line), NEW l \in Line, l.name = "outputid",
         Between(c, r, lines)
  PROVE  Inside(c, r, FieldAfter(NewOutput, l), Append(lines, l))
<1> DEFINE os == AllOutputs(lines)
           new == FieldAfter(NewOutput, l)
<1>1. os \in Seq(OutputRecord) /\ AllOutputs(Append(lines, l)) = Append(os, new) /\ new \in OutputRecord
  BY OutputsMore
<1> HIDE DEF os, new
<1>2. Append(os, new) # <<>> /\ Front(Append(os, new)) = os /\ Last(Append(os, new)) = new
  BY <1>1, AppendsEnd
<1> QED BY <1>1, <1>2, Apart DEF Between, Inside, os, new

\* A line within an output goes into what is put together.
LEMMA OutputGoesOn ==
  ASSUME NEW c \in Outputs, NEW r, NEW b, NEW lines \in Seq(Line), NEW l \in Line,
         l.name \in {"outputname", "outputenabled"}, l.value # "",
         Inside(c, r, b, lines)
  PROVE  Inside(c, r, FieldAfter(b, l), Append(lines, l))
<1> DEFINE os == AllOutputs(lines)
           more == AllOutputs(Append(lines, l))
           new == FieldAfter(Last(os), l)
<1>1. os # <<>> /\ b = Last(os) /\ r = Front(os)
  BY DEF Inside
<1>2. Front(os) \in Seq(OutputRecord) /\ new \in OutputRecord /\ more = Append(Front(os), new)
  BY <1>1, OutputsMore
<1>3. FieldAfter(b, l) = new
  BY <1>1
<1> HIDE DEF os, new, more
<1>4. more # <<>> /\ Front(more) = Front(os) /\ Last(more) = new
  BY <1>2, AppendsEnd
<1> QED BY <1>1, <1>3, <1>4, Apart DEF Inside, more

\* An output that is being put together has its id.
LEMMA OutputHasId ==
  ASSUME NEW c \in Outputs, NEW r, NEW b, NEW lines \in Seq(Line), Inside(c, r, b, lines)
  PROVE  b.outputid # None /\ Between(c, Append(r, b), lines)
<1> DEFINE os == AllOutputs(lines)
<1>1. os # <<>> /\ b = Last(os) /\ r = Front(os)
  BY DEF Inside
<1>2. os \in Seq(OutputRecord)
  <2>1. [name |-> "OK", value |-> ""] \in Line
    BY DEF Line, LineNames
  <2> QED BY <2>1, OutputsMore
<1> HIDE DEF os
<1>3. b \in OutputRecord /\ os = Append(r, b)
  BY <1>1, <1>2, FrontAndLast
<1>4. b.outputid # None
  BY <1>3 DEF OutputRecord, None
<1> QED BY <1>3, <1>4, Apart DEF Between, os

\* A line of a list of names is a value, or passed over.
LEMMA NamedGoesOn ==
  ASSUME NEW c \in NamedElements, NEW r, NEW b, NEW lines \in Seq(Line), NEW l \in Line, l.value # "",
         Between(c, r, lines) \/ Inside(c, r, b, lines)
  PROVE  /\ l.name = "tagtype" => Between(c, Append(r, l.value), Append(lines, l))
         /\ l.name # "tagtype" => Inside(c, r, b, Append(lines, l))
<1>1. r = ValuesOf(lines, "tagtype")
  BY DEF Between, Inside
<1>2. /\ l.name = "tagtype" => ValuesOf(Append(lines, l), "tagtype") = Append(r, l.value)
      /\ l.name # "tagtype" => ValuesOf(Append(lines, l), "tagtype") = r
  BY <1>1, ValuesMore DEF Tells
<1> QED BY <1>2, Apart DEF Between, Inside

\* A line of a record goes into what is put together.
LEMMA RecordGoesOn ==
  ASSUME NEW c \in Records, NEW r, NEW b, NEW lines \in Seq(Line), NEW l \in Line,
         l.name \in {"volume", "state", "other"}, l.value # "", Inside(c, r, b, lines)
  PROVE  Inside(c, r, FieldAfter(b, l), Append(lines, l))
<1>1. Record(Append(lines, l)) = FieldAfter(Record(lines), l)
  BY RecordMore
<1> QED BY <1>1, Apart DEF Inside

\* A record is begun before its first line.
LEMMA RecordBegins == ASSUME NEW c \in Records PROVE Inside(c, <<>>, NewRecord, <<>>)
  BY RecordNone, Apart DEF Inside

\* Before the first line nothing is in the result.
LEMMA NothingBefore == ASSUME NEW c PROVE Between(c, <<>>, <<>>)
  BY EntitiesNone, OutputsNone, ValuesNone, SongsNone DEF Between, Kept

\* What was put together is given.
LEMMA EntityGiven ==
  ASSUME NEW c \in Entities \cup FirstEntity, NEW r, NEW b, NEW lines \in Seq(Line), Inside(c, r, b, lines)
  PROVE  /\ c \in Entities => Between(c, Added(c, r, b), lines)
         /\ c \in FirstEntity => Given(c, Added(c, r, b), lines)
<1> DEFINE es == AllEntities(lines)
<1>1. es \in Seq(Entity)
  <2>1. [name |-> "OK", value |-> ""] \in Line
    BY DEF Line, LineNames
  <2> QED BY <2>1, EntitiesMore
<1> HIDE DEF es
<1>2. ASSUME NEW s \in Seq(Entity), NEW e \in Entity
      PROVE  Kept(c, Append(s, e)) = Added(c, Kept(c, s), e)
  <2>1. Songs(Append(s, e)) = IF e.type = "file" THEN Append(Songs(s), e) ELSE Songs(s)
    BY <1>2, SongsMore
  <2> QED BY <2>1 DEF Kept, Added
<1>3. CASE c \in Entities
  <2>1. es # <<>> /\ b = Last(es) /\ r = Kept(c, Front(es))
    BY <1>3 DEF Inside, es
  <2>2. Front(es) \in Seq(Entity) /\ Last(es) \in Entity /\ es = Append(Front(es), Last(es))
    BY <1>1, <2>1, FrontAndLast
  <2>3. Kept(c, es) = Added(c, r, b)
    BY <1>2, <2>1, <2>2
  <2> QED BY <1>3, <2>3, Apart DEF Between, es
<1>4. CASE c \in FirstEntity
  <2>1. es = <<b>> /\ r = <<>>
    BY <1>4 DEF Inside, es
  <2>2. b \in Entity /\ <<b>> = Append(<<>>, b) /\ <<>> \in Seq(Entity) /\ Head(es) = b /\ es # <<>>
    <3>1. Len(es) = 1 /\ es[1] = b
      BY <2>1
    <3> QED BY <1>1, <2>1, <3>1
  <2>3. Kept(c, <<>>) = <<>>
    BY SongsNone DEF Kept
  <2>4. Kept(c, <<b>>) = Added(c, r, b)
    BY <1>2, <2>1, <2>2, <2>3
  <2> QED BY <1>4, <2>2, <2>4, Apart DEF Given, FirstKept, es
<1> QED BY <1>3, <1>4

\* A record is given as it was put together.
LEMMA RecordGiven ==
  ASSUME NEW c \in Records, NEW r, NEW b, NEW lines, Inside(c, r, b, lines)
  PROVE  Given(c, Append(r, b), lines)
  BY Apart DEF Inside, Given

\* What is in the result when a getter gives NULL is all.
LEMMA NullGiven ==
  ASSUME NEW c, c \notin Records, NEW r, NEW lines, Between(c, r, lines)
  PROVE  Given(c, r, lines)
  BY EntitiesNone, Apart DEF Between, Given, FirstKept

\* The first of some entities stays the first, once another has begun.
LEMMA FirstStays ==
  ASSUME NEW c \in FirstEntity, NEW r, NEW lines \in Seq(Line), NEW l \in Line, Given(c, r, lines),
         \/ l.name \in Starts /\ AllEntities(lines) # <<>>
         \/ Within(l) /\ Len(AllEntities(lines)) >= 2
  PROVE  Given(c, r, Append(lines, l)) /\ Len(AllEntities(Append(lines, l))) >= 2
<1> DEFINE es == AllEntities(lines)
           more == AllEntities(Append(lines, l))
<1>1. es \in Seq(Entity) /\ Len(es) \in Nat
  BY EntitiesMore, LenProperties
<1>2. es # <<>>
  BY <1>1, EmptySeq
<1>3. more # <<>> /\ Head(more) = Head(es) /\ Len(more) >= 2
  <2>1. CASE l.name \in Starts
    <3>1. more = Append(es, NewEntity(l)) /\ NewEntity(l) \in Entity
      BY <2>1, EntitiesMore
    <3>2. Len(es) >= 1
      BY <1>1, <1>2, EmptySeq
    <3> HIDE DEF es, more
    <3>3. more # <<>> /\ Head(more) = Head(es) /\ Len(more) = Len(es) + 1
      BY <1>1, <1>2, <3>1, HeadTailAppend, AppendProperties
    <3> QED BY <1>1, <3>2, <3>3
  <2>2. CASE Within(l) /\ Len(es) >= 2
    <3> DEFINE new == EntityAfter(Last(es), l)
               s == Front(es)
    <3>1. /\ s \in Seq(Entity) /\ Last(es) \in Entity /\ es = Append(s, Last(es))
          /\ new \in Entity /\ more = Append(s, new)
      BY <1>2, <2>2, EntitiesMore
    <3> HIDE DEF es, more, s, new
    <3>2. Len(es) = Len(s) + 1 /\ Len(more) = Len(s) + 1 /\ Len(s) \in Nat /\ more # <<>>
      <4>1. Len(Append(s, Last(es))) = Len(s) + 1 /\ Len(Append(s, new)) = Len(s) + 1 /\ Append(s, new) # <<>>
        BY <3>1, AppendProperties
      <4> QED BY <3>1, <4>1, LenProperties
    <3>3. s # <<>>
      <4>1. Len(s) # 0
        BY <2>2, <3>2
      <4> QED BY <3>1, <4>1, EmptySeq
    <3>4. Head(es) = Head(s) /\ Head(more) = Head(s)
      BY <3>1, <3>3, HeadTailAppend
    <3> QED BY <2>2, <3>2, <3>4
  <2> QED BY <2>1, <2>2
<1>4. r = FirstKept(c, es)
  BY DEF Given
<1>5. FirstKept(c, more) = FirstKept(c, es)
  BY <1>2, <1>3 DEF FirstKept
<1> QED BY <1>3, <1>4, <1>5, Apart DEF Given

-----------------------------------------------------------------------------
(* A reply in order is understood. *)

\* A value that is said is among the values.
LEMMA SomeValue ==
  ASSUME NEW lines \in Seq(Line), NEW i \in 1 .. Len(lines), NEW name, Tells(lines[i], name)
  PROVE  ValuesOf(lines, name) # <<>>
<1> DEFINE n == Len(lines)
           S == {j \in DOMAIN lines : lines[j].name = name /\ lines[j].value # ""}
           p == Ascending(S)
           q == Picked(lines, S)
           v == ValuesOf(lines, name)
<1>1. n \in Nat /\ S \in SUBSET (1 .. n) /\ i \in S
  <2>1. n \in Nat /\ DOMAIN lines = 1 .. n
    BY LenProperties
  <2>2. i \in DOMAIN lines /\ lines[i].name = name /\ lines[i].value # ""
    BY <2>1 DEF Tells
  <2> QED BY <2>1, <2>2
<1>2. v = [j \in DOMAIN q |-> q[j].value] /\ q = [k \in DOMAIN p |-> lines[p[k]]]
  BY DEF ValuesOf, Picked
<1> HIDE DEF S, p, q, v, n
<1>3. Ascends(p, S)
  BY <1>1, AscendingAscends DEF p
<1>4. IsFiniteSet(S) /\ Cardinality(S) \in Nat
  BY <1>1, SomeNumbers
<1>5. Cardinality(S) # 0
  BY <1>1, <1>4, FS_EmptySet
<1>6. DOMAIN v = 1 .. Cardinality(S)
  BY <1>2, <1>3 DEF Ascends
<1>7. 1 \in DOMAIN v
  BY <1>4, <1>5, <1>6
<1> QED BY <1>7 DEF v

\* The line a getter read last, in a reply that is in order.
LEMMA LastRead ==
  ASSUME NEW c \in Calls, NEW h \in LinesFor(c) \cup Bad \cup Ends, h \notin Bad
  PROVE  /\ h \in Line
         /\ h \in Ends => ElementOf(h) = NoElement
         /\ h \notin Ends => ElementOf(h) = h /\ h \in LinesFor(c) /\ h # NoElement
<1>1. h \in Line
  BY LinesAreLines
<1>2. h # NoElement
  BY <1>1, LinesAreElements
<1> QED BY <1>1, <1>2 DEF ElementOf

\* No line of an answer ends it.
LEMMA NoLineEnds ==
  ASSUME NEW c \in Calls, NEW l \in LinesFor(c)
  PROVE  l.name \notin {"OK", "ACK", "lost"} /\ l \notin Ends
<1>1. l.name \notin {"OK", "ACK", "lost"}
  <2>1. CASE c \in Entities \cup FirstEntity
    BY <2>1, LinesOf DEF Within, Starts
  <2>2. CASE c \in NamedElements
    BY <2>2, LinesOf
  <2>3. CASE c \in Outputs
    BY <2>3, LinesOf
  <2>4. CASE c \in Records
    BY <2>4, LinesOf
  <2> QED BY <2>1, <2>2, <2>3, <2>4 DEF Calls
<1> QED BY <1>1, NamesOfEnds

\* A reply so far that is in order: no line that cannot be understood, and
\* the first one is one the getter begins with.
Good ==
  /\ \A i \in 1 .. Len(said) : said[i] \notin Bad /\ said[i].name \notin {"ACK", "lost"}
  /\ said # <<>> /\ call \in Entities \cup FirstEntity => said[1].name \in Starts \cup {"OK"}
  /\ said # <<>> /\ call \in Outputs => said[1].name = "outputid"

\* Each line is one of those the call is answered with.
Drawn == pc # "idle" => \A i \in 1 .. Len(said) : said[i] \in LinesFor(call) \cup Bad \cup Ends

\* The lines before the last, and the lines without the end of the reply.
Earlier == Front(said)
Until   == IF said # <<>> /\ Here \in Ends THEN Earlier ELSE said

\* A status without a state is refused.
Stateless == call = "status_update" /\ Record(Until).state = None /\ pc \in {"unlock", "returned"}

AtEnter ==
  /\ element # NoElement => Opens(call, element)
  /\ call \in FirstEntity \cup Records => said = <<>>
  /\ IF call \in NamedElements THEN ~done /\ Between(call, result, said) ELSE Between(call, result, Earlier)

AtFirst ==
  /\ element # NoElement => Opens(call, element)
  /\ call \in Outputs => element # NoElement
  /\ Between(call, result, Earlier)

AtMore ==
  \/ Inside(call, result, built, Earlier)
  \/ /\ call \in Outputs /\ element # NoElement /\ element.name = "outputid" /\ built = NewOutput
     /\ Between(call, result, Earlier)

AtFinish ==
  /\ Given(call, result, Until)
  /\ call \in FirstEntity /\ ~done => Len(AllEntities(said)) >= 2
  /\ call \notin FirstEntity => done

\* How much of a reply in order has been understood, by the place in the getter.
Understood ==
  /\ error = None \/ Stateless
  /\ pc = "enter" => AtEnter
  /\ pc = "first" => AtFirst
  /\ pc = "read" => Inside(call, result, built, said)
  /\ pc = "check" => Inside(call, result, built, Earlier)
  /\ pc = "more" => AtMore
  /\ pc = "finish" => AtFinish
  /\ pc \in {"unlock", "returned"} => done /\ (Given(call, result, Until) \/ Stateless)

MeaningInv == Drawn /\ (pc # "idle" /\ Good => Understood)

\* What the connection knows of a reply in order.
Tracks ==
  /\ said \in Seq(Line) /\ Earlier \in Seq(Line)
  /\ element # NoElement =>
       /\ said # <<>> /\ ~done /\ Until = said
       /\ element \in LinesFor(call) /\ element \in Line /\ said = Append(Earlier, element)
  /\ element = NoElement /\ said # <<>> => done /\ Until = Earlier
  /\ said = <<>> => ~done /\ element = NoElement /\ Until = <<>> /\ Earlier = <<>>

\* That follows from what the connection keeps.
LEMMA GoodTracks == ReplyInv /\ Drawn /\ pc # "idle" /\ Good => Tracks
<1> SUFFICES ASSUME ReplyInv, Drawn, pc # "idle", Good PROVE Tracks
  OBVIOUS
<1>1. said \in Seq(Line) /\ call \in Calls /\ done = (said # <<>> /\ Here \in Ends)
  BY DEF ReplyInv, Reading, Place
<1>2. element = IF said = <<>> THEN NoElement ELSE ElementOf(Here)
  BY DEF ReplyInv, Reading
<1>3. CASE said = <<>>
  <2>1. Front(<<>>) = <<>>
    BY SubSeqEmpty DEF Front
  <2>2. Earlier = <<>> /\ Until = <<>>
    BY <1>3, <2>1 DEF Earlier, Until
  <2> QED BY <1>1, <1>2, <1>3, <2>2 DEF Tracks
<1>4. CASE said # <<>>
  <2>1. Len(said) \in 1 .. Len(said)
    BY <1>1, <1>4, HasLast
  <2>2. Here \in LinesFor(call) \cup Bad \cup Ends /\ Here \notin Bad
    BY <2>1 DEF Drawn, Good, Here
  <2>3. /\ Here \in Line
        /\ Here \in Ends => ElementOf(Here) = NoElement
        /\ Here \notin Ends => ElementOf(Here) = Here /\ Here \in LinesFor(call) /\ Here # NoElement
    BY <1>1, <2>2, LastRead
  <2>4. Earlier \in Seq(Line) /\ said = Append(Earlier, Here)
    BY <1>1, <1>4, FrontAndLast DEF Earlier, Here, Last
  <2>5. Until = IF Here \in Ends THEN Earlier ELSE said
    BY <1>4 DEF Until
  <2> QED BY <1>1, <1>2, <1>4, <2>3, <2>4, <2>5 DEF Tracks
<1> QED BY <1>3, <1>4

\* So it is after a step.
LEMMA GoodTracksNext == (ReplyInv /\ Drawn /\ pc # "idle" /\ Good => Tracks)'
  BY GoodTracks, PTL

\* Where only the place, what is put together, the result or the error changes.
LEMMA SameTracks ==
  ASSUME UNCHANGED <<call, said, element, done>>
  PROVE  /\ Earlier' = Earlier /\ Until' = Until
         /\ Good' = Good /\ (Tracks => Tracks')
         /\ pc # "idle" /\ Drawn => Drawn'
<1>1. Here' = Here
  BY DEF Here
<1>2. Earlier' = Earlier /\ Until' = Until
  BY <1>1 DEF Earlier, Until
<1>3. Good' = Good
  BY DEF Good
<1>4. Tracks => Tracks'
  BY <1>2 DEF Tracks, NoElement
<1>5. pc # "idle" /\ Drawn => Drawn'
  BY DEF Drawn
<1> QED BY <1>2, <1>3, <1>4, <1>5

\* Where a line is read.
LEMMA ReadsTracks ==
  ASSUME ReplyInv, ReplyInv', Drawn, call \in Calls, ~done, NEW then, then # "idle", Reads(then)
  PROVE  /\ Drawn' /\ pc' = then /\ UNCHANGED <<call, built, result>>
         /\ Good' => /\ Good /\ Tracks /\ Tracks' /\ Earlier' = said
                     /\ error = None => error' = None
<1> PICK heard \in Ends \cup (IF Len(said) < MaxLines THEN LinesFor(call) \cup Bad ELSE {}) :
      /\ said' = Append(said, heard)
      /\ element' = ElementOf(heard)
      /\ done' = (heard \in Ends)
      /\ error' = ErrorAfter(heard)
      /\ pc' = then
      /\ UNCHANGED <<call, built, result>>
  BY DEF Reads
<1>1. heard \in LinesFor(call) \cup Bad \cup Ends /\ heard \in Line
  BY LinesAreLines
<1>2. said \in Seq(Line) /\ pc # "idle"
  BY DEF ReplyInv, Reading, Place, Calls, Entities, FirstEntity, NamedElements, Outputs, Records, None
<1>3. /\ said' \in Seq(Line) /\ said' # <<>>
      /\ Len(said') = Len(said) + 1 /\ Len(said) \in Nat
      /\ \A i \in 1 .. Len(said) : said'[i] = said[i]
      /\ said'[Len(said) + 1] = heard
  BY <1>1, <1>2, AppendProperties, LenProperties
<1>4. Earlier' = said
  BY <1>1, <1>2, AppendsEnd DEF Earlier
<1>5. \A i \in 1 .. Len(said') : i \in 1 .. Len(said) \/ i = Len(said) + 1
  BY <1>3
<1>6. Drawn'
  <2>1. \A i \in 1 .. Len(said) : said[i] \in LinesFor(call) \cup Bad \cup Ends
    BY <1>2 DEF Drawn
  <2>2. \A i \in 1 .. Len(said') : said'[i] \in LinesFor(call) \cup Bad \cup Ends
    BY <1>1, <1>3, <1>5, <2>1
  <2> QED BY <2>2 DEF Drawn
<1>7. ASSUME Good' PROVE Good /\ Tracks /\ Tracks' /\ (error = None => error' = None)
  <2>1. /\ \A i \in 1 .. Len(said') : said'[i] \notin Bad /\ said'[i].name \notin {"ACK", "lost"}
        /\ call \in Entities \cup FirstEntity => said'[1].name \in Starts \cup {"OK"}
        /\ call \in Outputs => said'[1].name = "outputid"
    BY <1>3, <1>7 DEF Good
  <2>2. \A i \in 1 .. Len(said) : i \in 1 .. Len(said')
    BY <1>3
  <2>3. said # <<>> => said'[1] = said[1]
    <3>1. said # <<>> => 1 \in 1 .. Len(said)
      BY <1>2, <1>3, EmptySeq
    <3> QED BY <1>3, <3>1
  <2>4. Good
    BY <1>3, <2>1, <2>2, <2>3 DEF Good
  <2>5. Tracks
    BY <1>2, <2>4, GoodTracks
  <2>6. Tracks'
    BY <1>6, <1>7, GoodTracksNext
  <2>7. heard \notin Bad /\ heard.name \notin {"ACK", "lost"}
    <3>1. Len(said) + 1 \in 1 .. Len(said')
      BY <1>3
    <3> QED BY <1>3, <2>1, <3>1
  <2>8. heard.name # "malformed"
    <3> SUFFICES ASSUME heard.name = "malformed" PROVE FALSE
      OBVIOUS
    <3>1. heard \notin Ends
      BY NamesOfEnds
    <3>2. heard \in LinesFor(call)
      BY <1>1, <2>7, <3>1
    <3>3. CASE call \in Entities \cup FirstEntity
      BY <3>2, <3>3, LinesOf DEF Within, Starts
    <3>4. CASE call \in NamedElements
      BY <3>2, <3>4, LinesOf
    <3>5. CASE call \in Outputs
      BY <3>2, <3>5, LinesOf
    <3>6. CASE call \in Records
      BY <3>2, <3>6, LinesOf
    <3> QED BY <3>3, <3>4, <3>5, <3>6 DEF Calls
  <2>9. error' = error
    BY <2>7, <2>8 DEF ErrorAfter
  <2> QED BY <2>4, <2>5, <2>6, <2>9
<1> QED BY <1>4, <1>6, <1>7

-----------------------------------------------------------------------------
\* A function of libmpd is called.
LEMMA InCall == ASSUME ReplyInv, call \in Calls PROVE pc # "idle"
  BY DEF ReplyInv, Place, Calls, Entities, FirstEntity, NamedElements, Outputs, Records, None

\* Where nothing is read, what is understood is all that has to be shown.
LEMMA MeansStill ==
  ASSUME ReplyInv, MeaningInv, call \in Calls, UNCHANGED <<call, said, element, done>>,
         Tracks /\ Understood => Understood'
  PROVE  MeaningInv'
<1>1. pc # "idle"
  BY InCall
<1>2. Drawn' /\ Good' = Good
  BY <1>1, SameTracks DEF MeaningInv
<1>3. ASSUME Good PROVE Tracks /\ Understood
  <2>1. Tracks
    BY <1>1, <1>3, GoodTracks DEF MeaningInv
  <2> QED BY <1>1, <1>3, <2>1 DEF MeaningInv
<1> QED BY <1>2, <1>3 DEF MeaningInv

\* Where a line is read.
LEMMA MeansMore ==
  ASSUME ReplyInv, ReplyInv', MeaningInv, call \in Calls, ~done, NEW then, then # "idle", Reads(then),
         /\ Good' /\ Tracks /\ Tracks' /\ Understood /\ Earlier' = said /\ pc' = then
         /\ UNCHANGED <<call, built, result>> /\ (error = None => error' = None)
         => Understood'
  PROVE  MeaningInv'
<1>1. pc # "idle" /\ Drawn
  BY InCall DEF MeaningInv
<1>2. /\ Drawn' /\ pc' = then /\ UNCHANGED <<call, built, result>>
      /\ Good' => /\ Good /\ Tracks /\ Tracks' /\ Earlier' = said
                  /\ error = None => error' = None
  BY <1>1, ReadsTracks
<1>3. Good' => Understood
  BY <1>1, <1>2 DEF MeaningInv
<1> QED BY <1>2, <1>3 DEF MeaningInv

\* Before the first line all of nothing is understood.
LEMMA MeansCall == ASSUME NEW c \in Calls, Call(c) PROVE MeaningInv'
<1>1. /\ call' = c /\ pc' = "enter" /\ said' = <<>> /\ element' = NoElement /\ done' = FALSE
      /\ error' = None /\ result' = <<>>
  BY DEF Call
<1>2. Earlier' = <<>>
  <2>1. Front(<<>>) = <<>>
    BY SubSeqEmpty DEF Front
  <2> QED BY <1>1, <2>1 DEF Earlier
<1>3. Between(c, <<>>, <<>>)
  BY NothingBefore
<1>4. Understood'
  <2>1. Between(call, result, said)' /\ Between(call, result, Earlier)'
    BY <1>1, <1>2, <1>3
  <2>2. AtEnter'
    BY <1>1, <2>1 DEF AtEnter, NoElement
  <2> QED BY <1>1, <2>2 DEF Understood, None
<1>5. Drawn'
  <2>1. (\A i \in 1 .. Len(said) : FALSE)'
    BY <1>1
  <2> QED BY <2>1 DEF Drawn
<1> QED BY <1>4, <1>5 DEF MeaningInv

\* A getter that has nothing more to give.
LEMMA MeansNull ==
  ASSUME ReplyInv, MeaningInv, call \in Calls, GivesNull, pc \in {"enter", "first", "more"},
         Tracks /\ Understood => call \notin Records /\ done /\ Between(call, result, Earlier)
  PROVE  MeaningInv'
<1>1. UNCHANGED <<call, said, element, done, error, result>> /\ pc' = IF call \in Finishes THEN "finish" ELSE "unlock"
  BY DEF GivesNull
<1>2. Earlier' = Earlier /\ Until' = Until
  BY <1>1, SameTracks
<1>3. ASSUME Tracks, Understood PROVE Understood'
  <2>1. call \notin Records /\ done /\ Between(call, result, Earlier)
    BY <1>3
  <2>2. pc' = "finish"
    BY <1>1, <2>1 DEF Finishes, Calls
  <2>3. Until = Earlier
    BY <1>3, <2>1 DEF Tracks
  <2>4. Given(call, result, Until)
    BY <2>1, <2>3, NullGiven
  <2>5. Given(call, result, Until)'
    BY <1>1, <1>2, <2>4
  <2>6. AtFinish'
    BY <1>1, <2>1, <2>5 DEF AtFinish
  <2>7. error = None
    BY <1>3 DEF Understood, Stateless
  <2> QED BY <1>1, <2>2, <2>6, <2>7 DEF Understood, None
<1> QED BY <1>1, <1>3, MeansStill

\* The tests a getter begins with, and the first element.
LEMMA MeansEnter == ASSUME ReplyInv, ReplyInv', MeaningInv, call \in Calls, Enter PROVE MeaningInv'
<1>1. pc = "enter"
  BY DEF Enter
<1>2. ASSUME Tracks, Understood
      PROVE  AtEnter /\ error = None /\ (done => call \notin Records /\ Between(call, result, Earlier))
  <2>1. AtEnter /\ error = None
    BY <1>1, <1>2 DEF Understood, Stateless
  <2>2. done => call \notin NamedElements /\ said # <<>>
    BY <1>2, <2>1 DEF AtEnter, Tracks
  <2>3. done => call \notin Records /\ Between(call, result, Earlier)
    BY <2>1, <2>2 DEF AtEnter
  <2> QED BY <2>1, <2>3
<1>3. CASE (done \/ (call \in Outputs /\ error # None)) /\ GivesNull
  <2>1. Tracks /\ Understood => call \notin Records /\ done /\ Between(call, result, Earlier)
    BY <1>2, <1>3
  <2> QED BY <1>1, <1>3, <2>1, MeansNull
<1>4. CASE KeepsElement /\ pc' = "first" /\ UNCHANGED <<call, said, element, done, error, built, result>>
  <2>1. ASSUME Tracks, Understood PROVE Understood'
    <3>1. AtEnter /\ error = None
      BY <1>2, <2>1
    <3>2. Earlier' = Earlier
      BY <1>4, SameTracks
    <3>3. Between(call, result, Earlier)
      BY <1>4, <3>1 DEF AtEnter, KeepsElement
    <3>4. Between(call, result, Earlier)'
      BY <1>4, <3>2, <3>3
    <3>5. Opens(call, element)'
      BY <1>4, <3>1 DEF AtEnter, KeepsElement
    <3>6. (call \in Outputs => element # NoElement)'
      BY <1>4 DEF KeepsElement, NoElement
    <3> QED BY <1>4, <3>1, <3>4, <3>5, <3>6 DEF Understood, AtFirst, None
  <2> QED BY <1>4, <2>1, MeansStill
<1>5. CASE ~done /\ ~KeepsElement /\ Reads("first")
  <2>1. ASSUME Good', Tracks, Tracks', Understood, Earlier' = said, pc' = "first",
               UNCHANGED <<call, built, result>>, error = None => error' = None
        PROVE  Understood'
    <3>1. AtEnter /\ error' = None
      BY <1>2, <2>1
    <3>2. Between(call, result, said)
      <4>1. CASE call \in NamedElements
        BY <3>1, <4>1 DEF AtEnter
      <4>2. CASE call \notin NamedElements
        <5>1. said = <<>> /\ Earlier = <<>>
          BY <1>5, <2>1, <4>2 DEF KeepsElement, Tracks
        <5> QED BY <3>1, <4>2, <5>1 DEF AtEnter
      <4> QED BY <4>1, <4>2
    <3>3. Between(call, result, Earlier)'
      BY <2>1, <3>2
    <3>4. call \notin NamedElements => said = <<>>
      BY <1>5, <2>1 DEF KeepsElement, Tracks
    <3>5. ASSUME call \notin NamedElements
          PROVE  /\ element' # NoElement => element' = said'[1] /\ element' \in LinesFor(call)
                 /\ said' # <<>> /\ said'[1] \in LinesFor(call) \cup Ends
                 /\ said'[1] \in LinesFor(call) => element' # NoElement
      <4>1. said = <<>>
        BY <3>4, <3>5
      <4>2. PICK x \in Line : /\ x \in LinesFor(call) \cup Bad \cup Ends /\ said' = Append(said, x)
                              /\ element' = ElementOf(x)
        <5>1. PICK x \in Ends \cup (IF Len(said) < MaxLines THEN LinesFor(call) \cup Bad ELSE {}) :
                said' = Append(said, x) /\ element' = ElementOf(x)
          BY <1>5 DEF Reads
        <5>2. x \in LinesFor(call) \cup Bad \cup Ends
          BY <5>1
        <5> QED BY <5>1, <5>2, LinesAreLines
      <4>3. said' = <<x>> /\ said' # <<>> /\ said'[1] = x /\ Len(said') = 1
        BY <4>1, <4>2
      <4>4. x \notin Bad
        <5>1. 1 \in 1 .. Len(said')
          BY <4>3
        <5> QED BY <2>1, <4>3, <5>1 DEF Good
      <4>5. x \notin Ends => ElementOf(x) = x /\ x \in LinesFor(call) /\ x # NoElement
        BY <4>2, <4>4, LastRead
      <4>6. x \in Ends => ElementOf(x) = NoElement /\ x \notin LinesFor(call)
        BY NoLineEnds DEF ElementOf
      <4> QED BY <4>2, <4>3, <4>4, <4>5, <4>6
    <3>6. (element # NoElement => Opens(call, element))'
      <4> SUFFICES ASSUME element' # NoElement PROVE Opens(call, element')
        BY <2>1 DEF NoElement
      <4>1. CASE call \in NamedElements
        BY <4>1, Apart DEF Opens
      <4>2. CASE call \notin NamedElements
        <5>1. element' = said'[1] /\ element' \in LinesFor(call) /\ said' # <<>>
          BY <3>5, <4>2
        <5>2. element'.name # "OK"
          BY <5>1, NoLineEnds
        <5>3. call \in Entities \cup FirstEntity => said'[1].name \in Starts \cup {"OK"}
          BY <2>1, <5>1 DEF Good
        <5>4. call \in Outputs => said'[1].name = "outputid"
          BY <2>1, <5>1 DEF Good
        <5> QED BY <5>1, <5>2, <5>3, <5>4 DEF Opens
      <4> QED BY <4>1, <4>2
    <3>7. (call \in Outputs => element # NoElement)'
      <4> SUFFICES ASSUME call \in Outputs PROVE element' # NoElement
        BY <2>1 DEF NoElement
      <4>1. call \notin NamedElements
        BY Apart
      <4>2. said' # <<>> /\ said'[1] \in LinesFor(call) \cup Ends /\ (said'[1] \in LinesFor(call) => element' # NoElement)
        BY <3>5, <4>1
      <4>3. said'[1].name = "outputid"
        BY <2>1, <4>2 DEF Good
      <4>4. said'[1] \notin Ends
        BY <4>3, NamesOfEnds
      <4> QED BY <4>2, <4>4
    <3> QED BY <2>1, <3>1, <3>3, <3>6, <3>7 DEF Understood, AtFirst, None
  <2> QED BY <1>5, <2>1, MeansMore
<1> QED BY <1>3, <1>4, <1>5 DEF Enter

\* mpd_getNextInfoEntity, the line an entity starts with.
LEMMA MeansEntityStarts == ASSUME ReplyInv, MeaningInv, call \in Calls, EntityStarts PROVE MeaningInv'
<1>1. pc = "first" /\ call \in Entities \cup FirstEntity /\ said # <<>>
  BY DEF EntityStarts, ReplyInv, Place
<1>2. ASSUME Tracks, Understood PROVE AtFirst /\ error = None
  BY <1>1, <1>2 DEF Understood, Stateless
<1>3. CASE element = NoElement /\ GivesNull
  <2>1. ASSUME Tracks, Understood PROVE call \notin Records /\ done /\ Between(call, result, Earlier)
    <3>1. done
      BY <1>1, <1>3, <2>1 DEF Tracks
    <3>2. Between(call, result, Earlier)
      BY <1>2, <2>1 DEF AtFirst
    <3> QED BY <1>1, <3>1, <3>2, Apart
  <2> QED BY <1>1, <1>3, <2>1, MeansNull
<1>4. CASE /\ element # NoElement /\ element.name \notin Starts
           /\ UNCHANGED <<call, said, element, done>>
  <2>1. ASSUME Tracks, Understood PROVE FALSE
    <3>1. Opens(call, element)
      BY <1>2, <1>4, <2>1 DEF AtFirst
    <3> QED BY <1>1, <1>4, <3>1 DEF Opens
  <2> QED BY <1>4, <2>1, MeansStill
<1>5. CASE /\ element # NoElement /\ element.name \in Starts
           /\ built' = NewEntity(element) /\ pc' = "read"
           /\ UNCHANGED <<call, said, element, done, error, result>>
  <2>1. ASSUME Tracks, Understood PROVE Understood'
    <3>1. error = None /\ Between(call, result, Earlier)
      BY <1>2, <2>1 DEF AtFirst
    <3>2. element \in Line /\ Earlier \in Seq(Line) /\ said = Append(Earlier, element)
      BY <1>5, <2>1 DEF Tracks
    <3>3. Inside(call, result, NewEntity(element), said)
      BY <1>1, <1>5, <3>1, <3>2, EntityOpens
    <3>4. Inside(call, result, built, said)'
      BY <1>5, <3>3
    <3> QED BY <1>5, <3>1, <3>4 DEF Understood, None
  <2> QED BY <1>5, <2>1, MeansStill
<1> QED BY <1>3, <1>4, <1>5 DEF EntityStarts

\* mpd_getNextInfoEntity, the lines after it.
LEMMA MeansEntityContinues == ASSUME ReplyInv, MeaningInv, call \in Calls, EntityContinues PROVE MeaningInv'
<1>1. pc = "more" /\ call \in Entities \cup FirstEntity /\ said # <<>>
  BY DEF EntityContinues, ReplyInv, Place
<1>2. call \notin Outputs /\ call \notin NamedElements /\ call \notin Records
  BY <1>1, Apart
<1>3. ASSUME Tracks, Understood
      PROVE  error = None /\ Inside(call, result, built, Earlier) /\ Earlier \in Seq(Line)
  BY <1>1, <1>2, <1>3 DEF Understood, AtMore, Stateless, Tracks
<1>4. CASE (element = NoElement \/ element.name \in Starts) /\ Gives(built)
  <2>1. /\ result' = Added(call, result, built)
        /\ UNCHANGED <<call, said, element, done, error, built>>
    BY <1>4 DEF Gives, Added
  <2>2. Earlier' = Earlier /\ Until' = Until
    BY <2>1, SameTracks
  <2>3. CASE call \in Entities
    <3>1. pc' = "enter"
      BY <1>4, <2>3 DEF Gives
    <3>2. ASSUME Tracks, Understood PROVE Understood'
      <4>1. Between(call, Added(call, result, built), Earlier)
        BY <1>3, <2>3, <3>2, EntityGiven
      <4>2. Between(call, result, Earlier)'
        BY <2>1, <2>2, <4>1
      <4>3. (element # NoElement => Opens(call, element))'
        BY <1>2, <1>4, <2>1 DEF Opens, NoElement
      <4>4. call \notin FirstEntity
        BY <2>3, Apart
      <4>5. AtEnter'
        BY <1>2, <2>1, <4>2, <4>3, <4>4 DEF AtEnter
      <4> QED BY <1>3, <2>1, <3>1, <3>2, <4>5 DEF Understood, None
    <3> QED BY <2>1, <3>2, MeansStill
  <2>4. CASE call \in FirstEntity
    <3>1. call \notin Entities
      BY <2>4, Apart
    <3>2. pc' = "finish"
      BY <1>2, <1>4, <2>4, <3>1 DEF Gives, Finishes
    <3>3. ASSUME Tracks, Understood PROVE Understood'
      <4> DEFINE r == Added(call, result, built)
      <4>1. Given(call, r, Earlier)
        BY <1>3, <2>4, <3>3, EntityGiven
      <4>2. Given(call, r, Until) /\ (~done => Len(AllEntities(said)) >= 2)
        <5>1. CASE element = NoElement
          BY <1>1, <3>3, <4>1, <5>1 DEF Tracks
        <5>2. CASE element # NoElement
          <6>1. element \in Line /\ said = Append(Earlier, element) /\ Until = said /\ element.name \in Starts
            BY <1>4, <3>3, <5>2 DEF Tracks
          <6>2. AllEntities(Earlier) # <<>>
            <7>1. AllEntities(Earlier) = <<built>>
              BY <1>3, <2>4, <3>3 DEF Inside
            <7>2. <<built>> # <<>>
              OBVIOUS
            <7> QED BY <7>1, <7>2
          <6> HIDE DEF r
          <6> QED BY <1>3, <2>4, <3>3, <4>1, <6>1, <6>2, FirstStays
        <5> QED BY <5>1, <5>2
      <4> HIDE DEF r
      <4>3. Given(call, result, Until)'
        BY <2>1, <2>2, <4>2 DEF r
      <4>4. AtFinish'
        BY <2>1, <2>4, <4>2, <4>3 DEF AtFinish
      <4> QED BY <1>3, <2>1, <3>2, <3>3, <4>4 DEF Understood, None
    <3> QED BY <2>1, <3>3, MeansStill
  <2> QED BY <1>1, <2>3, <2>4
<1>5. CASE /\ element # NoElement /\ element.name \notin Starts
           /\ built' = EntityAfter(built, element) /\ pc' = "read"
           /\ UNCHANGED <<call, said, element, done, error, result>>
  <2>1. ASSUME Tracks, Understood PROVE Understood'
    <3>1. element \in LinesFor(call) /\ element \in Line /\ said = Append(Earlier, element)
      BY <1>5, <2>1 DEF Tracks
    <3>2. Within(element)
      BY <1>1, <1>5, <3>1, LinesOf
    <3>3. Inside(call, result, EntityAfter(built, element), said)
      BY <1>1, <1>3, <2>1, <3>1, <3>2, EntityGoesOn
    <3>4. Inside(call, result, built, said)'
      BY <1>5, <3>3
    <3> QED BY <1>3, <1>5, <2>1, <3>4 DEF Understood, None
  <2> QED BY <1>5, <2>1, MeansStill
<1> QED BY <1>4, <1>5 DEF EntityContinues

\* mpd_getNextReturnElementNamed
LEMMA MeansNamedElement == ASSUME ReplyInv, MeaningInv, call \in Calls, NamedElement PROVE MeaningInv'
<1>1. pc \in {"first", "more"} /\ call \in NamedElements /\ said # <<>>
  BY DEF NamedElement, ReplyInv, Place
<1>2. call \notin Outputs /\ call \notin FirstEntity /\ call \notin Records /\ call \notin SongsOnly /\ call \notin Entities
  BY <1>1, Apart
<1>3. ASSUME Tracks, Understood
      PROVE  error = None /\ Between(call, result, Earlier) /\ Earlier \in Seq(Line)
  <2>1. error = None /\ Earlier \in Seq(Line)
    BY <1>1, <1>3 DEF Understood, Stateless, Tracks
  <2>2. Inside(call, result, built, Earlier) => Between(call, result, Earlier)
    BY <1>1, <1>2 DEF Inside, Between
  <2>3. Between(call, result, Earlier)
    BY <1>1, <1>2, <1>3, <2>2 DEF Understood, AtFirst, AtMore
  <2> QED BY <2>1, <2>3
<1>4. CASE element = NoElement /\ GivesNull
  <2>1. ASSUME Tracks, Understood PROVE call \notin Records /\ done /\ Between(call, result, Earlier)
    BY <1>1, <1>2, <1>3, <1>4, <2>1 DEF Tracks
  <2> QED BY <1>1, <1>4, <2>1, MeansNull
<1>5. ASSUME element # NoElement, Tracks, Understood
      PROVE  /\ ~done
             /\ element.name = "tagtype" => Between(call, Append(result, element.value), said)
             /\ element.name # "tagtype" => Inside(call, result, built, said)
  <2>1. ~done /\ element \in LinesFor(call) /\ element \in Line /\ said = Append(Earlier, element)
    BY <1>5 DEF Tracks
  <2>2. element.value # ""
    BY <1>1, <2>1, LinesOf
  <2> QED BY <1>1, <1>3, <1>5, <2>1, <2>2, NamedGoesOn
<1>6. CASE element # NoElement /\ element.name = "tagtype" /\ Gives(element.value)
  <2>1. /\ result' = Append(result, element.value) /\ pc' = "enter"
        /\ UNCHANGED <<call, said, element, done, error, built>>
    BY <1>1, <1>2, <1>6 DEF Gives
  <2>2. ASSUME Tracks, Understood PROVE Understood'
    <3>1. ~done /\ Between(call, Append(result, element.value), said) /\ error = None
      BY <1>3, <1>5, <1>6, <2>2
    <3>2. Between(call, result, said)'
      BY <2>1, <3>1
    <3>3. Opens(call, element)'
      BY <1>2, <2>1 DEF Opens
    <3>4. AtEnter'
      BY <1>1, <1>2, <2>1, <3>1, <3>2, <3>3 DEF AtEnter
    <3> QED BY <2>1, <3>1, <3>4 DEF Understood, None
  <2> QED BY <2>1, <2>2, MeansStill
<1>7. CASE /\ element # NoElement /\ element.name # "tagtype" /\ pc' = "read"
           /\ UNCHANGED <<call, said, element, done, error, built, result>>
  <2>1. ASSUME Tracks, Understood PROVE Understood'
    <3>1. Inside(call, result, built, said) /\ error = None
      BY <1>3, <1>5, <1>7, <2>1
    <3>2. Inside(call, result, built, said)'
      BY <1>7, <3>1
    <3> QED BY <1>7, <3>1, <3>2 DEF Understood, None
  <2> QED BY <1>7, <2>1, MeansStill
<1> QED BY <1>4, <1>6, <1>7 DEF NamedElement

\* mpd_getNextOutput
LEMMA MeansOutputStarts == ASSUME ReplyInv, MeaningInv, call \in Calls, OutputStarts PROVE MeaningInv'
<1>1. /\ pc = "first" /\ call \in Outputs /\ built' = NewOutput /\ pc' = "more"
      /\ UNCHANGED <<call, said, element, done, error, result>>
  BY DEF OutputStarts
<1>2. Earlier' = Earlier
  BY <1>1, SameTracks
<1>3. ASSUME Tracks, Understood PROVE Understood'
  <2>1. AtFirst /\ error = None
    BY <1>1, <1>3 DEF Understood, Stateless
  <2>2. element # NoElement /\ Between(call, result, Earlier) /\ element.name = "outputid"
    BY <1>1, <2>1 DEF AtFirst, Opens
  <2>3. Between(call, result, Earlier)'
    BY <1>1, <1>2, <2>2
  <2>4. AtMore'
    BY <1>1, <2>2, <2>3 DEF AtMore, NoElement, NewOutput
  <2> QED BY <1>1, <2>1, <2>4 DEF Understood, None
<1> QED BY <1>1, <1>3, MeansStill

\* mpd_getNextOutput, the lines after the first.
LEMMA MeansOutputContinues == ASSUME ReplyInv, MeaningInv, call \in Calls, OutputContinues PROVE MeaningInv'
<1>1. pc = "more" /\ call \in Outputs /\ said # <<>>
  BY DEF OutputContinues, ReplyInv, Place
<1>2. call \notin SongsOnly /\ call \notin Entities /\ call \notin NamedElements /\ call \notin FirstEntity /\ call \notin Records
  BY <1>1, Apart
<1>3. ASSUME Tracks, Understood
      PROVE  error = None /\ AtMore /\ Earlier \in Seq(Line)
  BY <1>1, <1>3 DEF Understood, Stateless, Tracks
<1>4. CASE (element = NoElement \/ (element.name = "outputid" /\ built.outputid # None)) /\ Gives(built)
  <2>1. /\ result' = Append(result, built) /\ pc' = "enter"
        /\ UNCHANGED <<call, said, element, done, error, built>>
    BY <1>1, <1>2, <1>4 DEF Gives
  <2>2. Earlier' = Earlier
    BY <2>1, SameTracks
  <2>3. ASSUME Tracks, Understood PROVE Understood'
    <3>1. Inside(call, result, built, Earlier)
      <4>1. built = NewOutput => built.outputid = None
        BY DEF NewOutput
      <4> QED BY <1>3, <1>4, <2>3, <4>1 DEF AtMore
    <3>2. Between(call, Append(result, built), Earlier)
      BY <1>1, <1>3, <2>3, <3>1, OutputHasId
    <3>3. Between(call, result, Earlier)'
      BY <2>1, <2>2, <3>2
    <3>4. (element # NoElement => Opens(call, element))'
      BY <1>2, <1>4, <2>1 DEF Opens, NoElement
    <3>5. AtEnter'
      BY <1>2, <2>1, <3>3, <3>4 DEF AtEnter
    <3> QED BY <1>3, <2>1, <2>3, <3>5 DEF Understood, None
  <2> QED BY <2>1, <2>3, MeansStill
<1>5. CASE /\ element # NoElement /\ ~(element.name = "outputid" /\ built.outputid # None)
           /\ built' = FieldAfter(built, element) /\ pc' = "read"
           /\ UNCHANGED <<call, said, element, done, error, result>>
  <2>1. ASSUME Tracks, Understood PROVE Understood'
    <3>1. element \in LinesFor(call) /\ element \in Line /\ said = Append(Earlier, element)
      BY <1>5, <2>1 DEF Tracks
    <3>2. element.name \in {"outputid", "outputname", "outputenabled"} /\ element.value # ""
      BY <1>1, <3>1, LinesOf
    <3>3. Inside(call, result, FieldAfter(built, element), said)
      <4>1. CASE Inside(call, result, built, Earlier)
        <5>1. built.outputid # None
          BY <1>1, <1>3, <2>1, <4>1, OutputHasId
        <5>2. element.name \in {"outputname", "outputenabled"}
          BY <1>5, <3>2, <5>1
        <5> QED BY <1>1, <1>3, <2>1, <3>1, <3>2, <4>1, <5>2, OutputGoesOn
      <4>2. CASE element.name = "outputid" /\ built = NewOutput /\ Between(call, result, Earlier)
        BY <1>1, <1>3, <2>1, <3>1, <4>2, OutputOpens
      <4> QED BY <1>3, <2>1, <4>1, <4>2 DEF AtMore
    <3>4. Inside(call, result, built, said)'
      BY <1>5, <3>3
    <3> QED BY <1>3, <1>5, <2>1, <3>4 DEF Understood, None
  <2> QED BY <1>5, <2>1, MeansStill
<1> QED BY <1>4, <1>5 DEF OutputContinues

\* mpd_getStatus, mpd_getStats, mpd_getSearchStats
LEMMA MeansRecordStarts == ASSUME ReplyInv, MeaningInv, call \in Calls, RecordStarts PROVE MeaningInv'
<1>1. pc = "first" /\ call \in Records
  BY DEF RecordStarts
<1>2. ASSUME Tracks, Understood PROVE AtFirst /\ error = None
  BY <1>1, <1>2 DEF Understood, Stateless
<1>3. CASE error # None /\ GivesNull
  <2>1. Tracks /\ Understood => FALSE
    BY <1>2, <1>3
  <2> QED BY <1>1, <1>3, <2>1, MeansNull
<1>4. CASE built' = NewRecord /\ pc' = "more" /\ UNCHANGED <<call, said, element, done, error, result>>
  <2>1. ASSUME Tracks, Understood PROVE Understood'
    <3>1. error = None /\ Earlier = <<>> /\ result = <<>>
      BY <1>1, <1>2, <2>1 DEF AtFirst, Between
    <3>2. Inside(call, <<>>, NewRecord, <<>>)
      BY <1>1, RecordBegins
    <3>3. Earlier' = Earlier
      BY <1>4, SameTracks
    <3>4. Inside(call, result, built, Earlier)'
      BY <1>4, <3>1, <3>2, <3>3
    <3> QED BY <1>4, <3>1, <3>4 DEF Understood, AtMore, None
  <2> QED BY <1>4, <2>1, MeansStill
<1> QED BY <1>3, <1>4 DEF RecordStarts

\* The lines of a record, and its end.
LEMMA MeansRecordContinues == ASSUME ReplyInv, MeaningInv, call \in Calls, RecordContinues PROVE MeaningInv'
<1>1. pc = "more" /\ call \in Records /\ said # <<>>
  BY DEF RecordContinues, ReplyInv, Place
<1>2. call \notin SongsOnly /\ call \notin Entities /\ call \notin NamedElements /\ call \notin FirstEntity /\ call \notin Outputs
  BY <1>1, Apart
<1>3. ASSUME Tracks, Understood
      PROVE  error = None /\ Inside(call, result, built, Earlier) /\ Earlier \in Seq(Line)
  BY <1>1, <1>2, <1>3 DEF Understood, Stateless, Tracks, AtMore
<1>4. CASE /\ element # NoElement /\ built' = FieldAfter(built, element) /\ pc' = "read"
           /\ UNCHANGED <<call, said, element, done, error, result>>
  <2>1. ASSUME Tracks, Understood PROVE Understood'
    <3>1. element \in LinesFor(call) /\ element \in Line /\ said = Append(Earlier, element)
      BY <1>4, <2>1 DEF Tracks
    <3>2. element.name \in {"volume", "state", "other"} /\ element.value # ""
      BY <1>1, <3>1, LinesOf
    <3>3. Inside(call, result, FieldAfter(built, element), said)
      BY <1>1, <1>3, <2>1, <3>1, <3>2, RecordGoesOn
    <3>4. Inside(call, result, built, said)'
      BY <1>4, <3>3
    <3> QED BY <1>3, <1>4, <2>1, <3>4 DEF Understood, None
  <2> QED BY <1>4, <2>1, MeansStill
<1>5. CASE /\ element = NoElement /\ call = "status_update" /\ built.state = None
           /\ error' = "parse" /\ pc' = "unlock" /\ UNCHANGED <<call, said, element, done, built, result>>
  <2>1. ASSUME Tracks, Understood PROVE Understood'
    <3>1. done /\ Until = Earlier
      BY <1>1, <1>5, <2>1 DEF Tracks
    <3>2. built = Record(Earlier)
      BY <1>1, <1>3, <2>1 DEF Inside
    <3>3. Until' = Until
      BY <1>5, SameTracks
    <3>4. Stateless'
      BY <1>5, <3>1, <3>2, <3>3 DEF Stateless
    <3> QED BY <1>5, <3>1, <3>4 DEF Understood
  <2> QED BY <1>5, <2>1, MeansStill
<1>6. CASE element = NoElement /\ Gives(built)
  <2>1. /\ result' = Append(result, built) /\ pc' = "unlock"
        /\ UNCHANGED <<call, said, element, done, error, built>>
    BY <1>2, <1>6 DEF Gives, Finishes
  <2>2. ASSUME Tracks, Understood PROVE Understood'
    <3>1. done /\ Until = Earlier
      BY <1>1, <1>6, <2>2 DEF Tracks
    <3>2. Given(call, Append(result, built), Earlier)
      BY <1>1, <1>3, <2>2, RecordGiven
    <3>3. Until' = Until
      BY <2>1, SameTracks
    <3>4. Given(call, result, Until)'
      BY <2>1, <3>1, <3>2, <3>3
    <3> QED BY <1>3, <2>1, <2>2, <3>1, <3>4 DEF Understood, None
  <2> QED BY <2>1, <2>2, MeansStill
<1> QED BY <1>4, <1>5, <1>6 DEF RecordContinues

\* The next element.
LEMMA MeansReadMore == ASSUME ReplyInv, ReplyInv', MeaningInv, call \in Calls, ReadMore PROVE MeaningInv'
<1>1. CASE pc = "read" /\ Reads(IF call \in Records \cup Outputs THEN "check" ELSE "more")
  <2>1. ~done
    <3>1. said # <<>> /\ Here \notin Ends
      BY <1>1, ElementIsNoEnd DEF ReplyInv, Place
    <3> QED BY <1>1, <3>1 DEF ReplyInv, Reading
  <2>2. ASSUME Understood, Earlier' = said, pc' \in {"check", "more"}, UNCHANGED <<call, built, result>>,
               error = None => error' = None
        PROVE  Understood'
    <3>1. error = None /\ Inside(call, result, built, said)
      BY <1>1, <2>2 DEF Understood, Stateless
    <3>2. Inside(call, result, built, Earlier)'
      BY <2>2, <3>1
    <3> QED BY <2>2, <3>1, <3>2 DEF Understood, AtMore, None
  <2>3. CASE call \in Records \cup Outputs
    BY <1>1, <2>1, <2>2, <2>3, MeansMore
  <2>4. CASE call \notin Records \cup Outputs
    BY <1>1, <2>1, <2>2, <2>4, MeansMore
  <2> QED BY <2>3, <2>4
<1>2. CASE pc = "check" /\ error # None /\ GivesNull
  <2>1. UNCHANGED <<call, said, element, done>>
    BY <1>2 DEF GivesNull
  <2>2. Tracks /\ Understood => FALSE
    BY <1>2 DEF Understood, Stateless
  <2> QED BY <2>1, <2>2, MeansStill
<1>3. CASE pc = "check" /\ pc' = "more" /\ UNCHANGED <<call, said, element, done, error, built, result>>
  <2>1. ASSUME Understood PROVE Understood'
    <3>1. error = None /\ Inside(call, result, built, Earlier)
      BY <1>3, <2>1 DEF Understood, Stateless
    <3>2. Earlier' = Earlier
      BY <1>3, SameTracks
    <3>3. Inside(call, result, built, Earlier)'
      BY <1>3, <3>1, <3>2
    <3> QED BY <1>3, <3>1, <3>3 DEF Understood, AtMore, None
  <2> QED BY <1>3, <2>1, MeansStill
<1> QED BY <1>1, <1>2, <1>3 DEF ReadMore

\* mpd_finishCommand after one song.
LEMMA MeansFinishCommand == ASSUME ReplyInv, ReplyInv', MeaningInv, call \in Calls, FinishCommand PROVE MeaningInv'
<1>1. pc = "finish"
  BY DEF FinishCommand
<1>2. ASSUME Understood PROVE error = None /\ AtFinish
  BY <1>1, <1>2 DEF Understood, Stateless
<1>3. CASE done /\ pc' = "unlock" /\ UNCHANGED <<call, said, element, done, error, built, result>>
  <2>1. ASSUME Understood PROVE Understood'
    <3>1. error = None /\ Given(call, result, Until)
      BY <1>2, <2>1 DEF AtFinish
    <3>2. Until' = Until
      BY <1>3, SameTracks
    <3>3. Given(call, result, Until)'
      BY <1>3, <3>1, <3>2
    <3> QED BY <1>3, <3>1, <3>3 DEF Understood, None
  <2> QED BY <1>3, <2>1, MeansStill
<1>4. CASE ~done /\ Reads("finish")
  <2>1. ASSUME Tracks, Tracks', Understood, Earlier' = said, pc' = "finish",
               UNCHANGED <<call, built, result>>, error = None => error' = None
        PROVE  Understood'
    <3>1. error = None /\ AtFinish /\ call \in FirstEntity
      BY <1>2, <1>4, <2>1 DEF AtFinish
    <3>2. Until = said
      BY <1>4, <2>1 DEF Tracks
    <3>3. Given(call, result, said) /\ Len(AllEntities(said)) >= 2 /\ said \in Seq(Line)
      BY <1>4, <2>1, <3>1, <3>2 DEF AtFinish, Tracks
    <3>4. said' # <<>>
      BY <1>4, AppendProperties, LinesAreLines DEF Reads, ReplyInv, Reading
    <3>5. CASE element' = NoElement
      <4>1. done' /\ Until' = said
        BY <2>1, <3>4, <3>5 DEF Tracks, NoElement
      <4>2. Given(call, result, Until)'
        BY <2>1, <3>3, <4>1
      <4>3. AtFinish'
        BY <2>1, <3>1, <4>1, <4>2 DEF AtFinish
      <4> QED BY <2>1, <3>1, <4>3 DEF Understood, None
    <3>6. CASE element' # NoElement
      <4>1. /\ Until' = said' /\ element' \in LinesFor(call) /\ element' \in Line
            /\ said' = Append(said, element')
        BY <2>1, <3>6 DEF Tracks, NoElement
      <4>2. element'.name \in Starts \/ Within(element')
        BY <3>1, <4>1, LinesOf
      <4>3. AllEntities(said) # <<>>
        <5>1. Len(<<>>) = 0
          OBVIOUS
        <5> QED BY <3>3, <5>1
      <4>4. Given(call, result, Append(said, element')) /\ Len(AllEntities(Append(said, element'))) >= 2
        BY <3>1, <3>3, <4>1, <4>2, <4>3, FirstStays
      <4>5. Given(call, result, Until)' /\ (Len(AllEntities(said)) >= 2)'
        BY <2>1, <4>1, <4>4
      <4>6. AtFinish'
        BY <2>1, <3>1, <4>5 DEF AtFinish
      <4> QED BY <2>1, <3>1, <4>6 DEF Understood, None
    <3> QED BY <3>5, <3>6
  <2> QED BY <1>4, <2>1, MeansMore
<1> QED BY <1>3, <1>4 DEF FinishCommand

\* What is looked at after the unlock.
LEMMA MeansUnlock == ASSUME ReplyInv, MeaningInv, call \in Calls, Unlock PROVE MeaningInv'
<1>1. /\ pc = "unlock" /\ pc' = "returned" /\ UNCHANGED <<call, said, element, done, error, built>>
      /\ result' = IF error # None /\ call \in ChecksUnlock THEN <<>> ELSE result
  BY DEF Unlock
<1>2. Until' = Until
  BY <1>1, SameTracks
<1>3. ASSUME Understood PROVE Understood'
  <2>1. done /\ (Given(call, result, Until) \/ Stateless) /\ (error = None \/ Stateless)
    BY <1>1, <1>3 DEF Understood
  <2>2. CASE Stateless
    <3>1. Stateless'
      BY <1>1, <1>2, <2>2 DEF Stateless
    <3> QED BY <1>1, <2>1, <3>1 DEF Understood
  <2>3. CASE ~Stateless
    <3>1. result' = result /\ error = None /\ Given(call, result, Until)
      BY <1>1, <2>1, <2>3
    <3>2. Given(call, result, Until)'
      BY <1>1, <1>2, <3>1
    <3> QED BY <1>1, <2>1, <3>1, <3>2 DEF Understood, None
  <2> QED BY <2>2, <2>3
<1> QED BY <1>1, <1>3, MeansStill

\* So no step leaves anything out.
LEMMA MeansNext == ASSUME ReplyInv, ReplyInv', MeaningInv, [Next]_vars PROVE MeaningInv'
<1>1. CASE UNCHANGED vars
  <2>1. Here' = Here
    BY <1>1 DEF vars, Here
  <2>2. Until' = Until /\ Earlier' = Earlier
    BY <1>1, <2>1 DEF vars, Until, Earlier
  <2>3. Drawn' = Drawn /\ Good' = Good
    BY <1>1 DEF vars, Drawn, Good
  <2>4. Stateless' = Stateless
    BY <1>1, <2>2 DEF vars, Stateless
  <2>5. AtEnter' = AtEnter /\ AtFirst' = AtFirst /\ AtMore' = AtMore /\ AtFinish' = AtFinish
    BY <1>1, <2>2 DEF vars, AtEnter, AtFirst, AtMore, AtFinish, NoElement, NewOutput
  <2>6. Understood' = Understood
    BY <1>1, <2>2, <2>4, <2>5 DEF vars, Understood, None
  <2> QED BY <1>1, <2>3, <2>6 DEF vars, MeaningInv
<1>2. CASE \E c \in Calls : Call(c)
  BY <1>2, MeansCall
<1>3. CASE Returned
  BY <1>3 DEF Returned, MeaningInv, Drawn
<1>4. ASSUME \/ Enter \/ EntityStarts \/ EntityContinues \/ NamedElement \/ OutputStarts \/ OutputContinues
             \/ RecordStarts \/ RecordContinues \/ ReadMore \/ FinishCommand \/ Unlock
      PROVE  MeaningInv'
  <2>1. pc # "idle"
    BY <1>4 DEF Enter, EntityStarts, EntityContinues, NamedElement, OutputStarts, OutputContinues,
                RecordStarts, RecordContinues, ReadMore, FinishCommand, Unlock
  <2>2. call \in Calls
    BY <2>1 DEF ReplyInv, Place
  <2> QED BY <1>4, <2>2, MeansEnter, MeansEntityStarts, MeansEntityContinues, MeansNamedElement, MeansOutputStarts,
             MeansOutputContinues, MeansRecordStarts, MeansRecordContinues, MeansReadMore,
             MeansFinishCommand, MeansUnlock
<1> QED BY <1>1, <1>2, <1>3, <1>4 DEF Next

\* At the start there is nothing.
LEMMA MeansInit == Init => MeaningInv
  BY DEF Init, MeaningInv, Drawn

-----------------------------------------------------------------------------
\* At every place of every getter, the lines of a reply in order so far are
\* those that are in the result and in what is being put together.
THEOREM NothingLeftOut == Spec => []MeaningInv
<1>1. ReplyInv /\ MeaningInv /\ ReplyInv' /\ [Next]_vars => MeaningInv'
  BY MeansNext
<1> QED BY <1>1, MeansInit, Invariant, PTL DEF Spec

\* The lines of a reply that was not cut.
LEMMA InOrderIsGood ==
  ASSUME ReplyInv, MeaningInv, pc = "returned", said # <<>>, InOrder
  PROVE  Good /\ Tracks /\ Until = Body
<1>1. said \in Seq(Line) /\ call \in Calls
  BY DEF ReplyInv, Reading, Place
<1>2. Len(said) \in Nat /\ Len(said) \in 1 .. Len(said) /\ 1 \in 1 .. Len(said)
  <2>1. Len(said) \in Nat /\ Len(said) \in 1 .. Len(said)
    BY <1>1, HasLast, LenProperties
  <2> QED BY <2>1
<1>3. \A i \in 1 .. Len(said) : said[i] \in LinesFor(call) \cup Bad \cup Ends
  BY DEF MeaningInv, Drawn
<1>4. Body \in Seq(Line) /\ said = Append(Body, Here)
  BY <1>1, FrontAndLast DEF Body, Here, Last
<1>5. Len(said) = Len(Body) + 1 /\ Len(Body) \in Nat /\ \A i \in 1 .. Len(Body) : said[i] = Body[i]
  <2>1. Here \in Line
    BY <1>1, <1>2, ElementOfSeq DEF Here
  <2> HIDE DEF Body
  <2> QED BY <1>4, <2>1, AppendProperties, LenProperties
<1>6. Here.name = "OK"
  BY DEF InOrder, Last, Here
<1>7. Here \in Ends /\ Here \notin Bad
  <2>1. Here \in LinesFor(call) \cup Bad \cup Ends
    BY <1>2, <1>3 DEF Here
  <2> QED BY <1>1, <1>6, <2>1, NoLineEnds, NamesOfBad
<1>8. \A i \in 1 .. Len(said) : i \in 1 .. Len(Body) \/ i = Len(said)
  BY <1>5
<1>9. ASSUME NEW i \in 1 .. Len(said) PROVE said[i] \notin Bad /\ said[i].name \notin {"ACK", "lost"}
  <2>1. CASE i = Len(said)
    BY <1>6, <1>7, <2>1 DEF Here
  <2>2. CASE i \in 1 .. Len(Body)
    <3>1. i \in DOMAIN Body /\ said[i] = Body[i] /\ i # Len(said)
      BY <1>4, <1>5, <2>2, LenProperties
    <3>2. said[i] \notin Bad /\ said[i] \notin Ends
      BY <3>1 DEF InOrder, ReplyInv, Reading
    <3>3. said[i] \in LinesFor(call)
      BY <1>3, <3>2
    <3> QED BY <1>1, <3>2, <3>3, NoLineEnds
  <2> QED BY <1>8, <2>1, <2>2
<1>10. Body # <<>> => said[1] = Body[1]
  <2>1. Body # <<>> => 1 \in 1 .. Len(Body)
    BY <1>4, <1>5, EmptySeq
  <2> QED BY <1>5, <2>1
<1>11. Body = <<>> => said[1].name = "OK"
  <2>1. Body = <<>> => Len(said) = 1
    BY <1>5
  <2> QED BY <1>6, <2>1 DEF Here
<1>12. Good
  <2>1. call \in Entities \cup FirstEntity => said[1].name \in Starts \cup {"OK"}
    BY <1>10, <1>11 DEF InOrder
  <2>2. call \in Outputs => said[1].name = "outputid"
    BY <1>10 DEF InOrder
  <2> QED BY <1>9, <2>1, <2>2 DEF Good
<1>13. Tracks
  BY <1>12, GoodTracks DEF MeaningInv
<1>14. Until = Body
  BY <1>7 DEF Until, Earlier, Body
<1> QED BY <1>12, <1>13, <1>14

\* A reply that is in order is understood: every song, directory, playlist,
\* output and value that was asked for is given, in order, each with its own
\* lines and nothing of its neighbours', however long the reply is
\* (mpd_getNextInfoEntity, mpd_getNextOutput, mpd_getNextReturnElementNamed,
\* mpd_getStatus and the loops around them).
THEOREM EveryReplyIsGiven == Spec => []AllIsGiven
<1>1. ReplyInv /\ MeaningInv => AllIsGiven
  <2> SUFFICES ASSUME ReplyInv, MeaningInv, pc = "returned", said # <<>>, InOrder
               PROVE  error = None /\ result = Meaning
    BY DEF AllIsGiven
  <2>1. Good /\ Tracks /\ Until = Body
    BY InOrderIsGood
  <2>2. (error = None \/ Stateless) /\ (Given(call, result, Body) \/ Stateless)
    BY <2>1 DEF MeaningInv, Understood
  <2>3. call \in Calls /\ Body \in Seq(Line)
    BY <2>1 DEF ReplyInv, Place, Tracks, Earlier, Body
  <2>4. ~Stateless
    <3> SUFFICES ASSUME call = "status_update", Record(Body).state = None PROVE FALSE
      BY <2>1 DEF Stateless
    <3>1. PICK i \in DOMAIN Body : Body[i].name = "state"
      BY DEF InOrder
    <3> DEFINE lines == Body
               V == ValuesOf(Body, "state")
    <3>2. i \in 1 .. Len(Body) /\ Body[i] \in Line
      BY <2>3, <3>1, LenProperties, ElementOfSeq
    <3>3. Body[i] \in LinesFor(call)
      <4>1. said = Append(Body, Here) /\ Here \in Line
        <5>1. said \in Seq(Line)
          BY <2>1 DEF Tracks
        <5> QED BY <5>1, FrontAndLast DEF Body, Here, Last
      <4>2. Len(Body) \in Nat /\ Len(said) = Len(Body) + 1 /\ said[i] = Body[i]
        <5> HIDE DEF Body
        <5> QED BY <2>3, <3>2, <4>1, AppendProperties, LenProperties
      <4>3. i \in 1 .. Len(said)
        BY <3>2, <4>2
      <4>4. Body[i] \in LinesFor(call) \cup Bad \cup Ends
        BY <4>2, <4>3 DEF MeaningInv, Drawn
      <4> QED BY <3>1, <4>4, NamesOfBad, NamesOfEnds
    <3>4. call \in Records
      BY DEF Records
    <3>5. Tells(Body[i], "state")
      BY <2>3, <3>1, <3>3, <3>4, LinesOf DEF Tells
    <3> HIDE DEF Body
    <3>6. V # <<>>
      BY <2>3, <3>2, <3>5, SomeValue
    <3>7. V \in Seq(Words)
      BY <2>3, <3>2, ValuesMore
    <3> HIDE DEF V
    <3>8. LastOf(V) # None
      <4>1. "x" \in Words
        BY DEF Words
      <4> QED BY <3>6, <3>7, <4>1, FirstAndLast
    <3>9. Record(Body).state = LastOf(V)
      BY DEF Record, V
    <3> QED BY <3>8, <3>9
  <2>5. error = None /\ Given(call, result, Body)
    BY <2>2, <2>4
  <2> HIDE DEF Body
  <2>6. result = Meaning
    <3>1. CASE call = "playlist_get_changes"
      BY <2>5, <3>1 DEF Given, Kept, Meaning, Entities, SongsOnly, FirstEntity, NamedElements, Outputs, Records
    <3>2. CASE call = "database_get_directory"
      BY <2>5, <3>2 DEF Given, Kept, Meaning, Entities, SongsOnly, FirstEntity, NamedElements, Outputs, Records
    <3>3. CASE call \in FirstEntity
      BY <2>5, <3>3 DEF Given, FirstKept, Kept, Meaning, Entities, SongsOnly, FirstEntity, NamedElements, Outputs, Records
    <3>4. CASE call \in NamedElements
      BY <2>5, <3>4 DEF Given, Meaning, FirstEntity, NamedElements, Outputs, Records
    <3>5. CASE call \in Outputs
      BY <2>5, <3>5 DEF Given, Meaning, FirstEntity, NamedElements, Outputs, Records
    <3>6. CASE call \in Records
      BY <2>5, <3>6 DEF Given, Meaning, FirstEntity, NamedElements, Outputs, Records
    <3> QED BY <2>3, <3>1, <3>2, <3>3, <3>4, <3>5, <3>6 DEF Calls, Entities
  <2> QED BY <2>5, <2>6
<1> QED BY <1>1, Invariant, NothingLeftOut, PTL

=============================================================================
