---------------------------- MODULE MpdData_proofs ----------------------------
(***************************************************************************)
(* For any handles and nodes: the linked nodes are the lists libmpd.h      *)
(* promises, every node is in one of them, and links and firsts agree.     *)
(***************************************************************************)
EXTENDS MpdData, SequenceTheorems, FiniteSetTheorems, WellFoundedInduction, TLAPS

-----------------------------------------------------------------------------
(* Walks. *)

\* Of some natural numbers one is the least: induction for what is said of a
\* set of them.
LEMMA Least == ASSUME NEW T \in SUBSET Nat, T # {} PROVE \E x \in T : \A y \in T : x <= y
<1> DEFINE R == {ss \in Nat \X Nat : ss[1] < ss[2]}
<1>1. IsWellFoundedOn(OpToRel(<, Nat), Nat)
  BY NatLessThanWellFounded
<1>2. OpToRel(<, Nat) = R
  BY DEF OpToRel
<1>3. IsWellFoundedOn(R, Nat)
  BY <1>1, <1>2
<1>4. PICK x \in T : \A y \in T : ~(<<y, x>> \in R)
  <2> HIDE DEF R
  <2> QED BY <1>3, WFMin
<1>5. ASSUME NEW y \in T PROVE x <= y
  <2>1. x \in Nat /\ y \in Nat /\ <<y, x>> \notin R
    BY <1>4
  <2>2. ~(y < x)
    BY <2>1
  <2> QED BY <2>1, <2>2
<1> QED BY <1>5

Steps == Cardinality(Node) + 1

LEMMA StepsAreMany == Steps \in Nat /\ Cardinality(Node) \in Nat /\ Steps = Cardinality(Node) + 1
  BY DataAssumption, FS_CardinalityType DEF Steps

\* What the recursive function in Walk says of itself.
WalksBy(link, n, walk) ==
  walk = [i \in 1..(Cardinality(Node) + 1) |->
            IF i = 1 THEN n ELSE IF walk[i - 1] = Null THEN Null ELSE link[walk[i - 1]]]

LEMMA WalkDef ==
  ASSUME NEW link, NEW n, \E walk : WalksBy(link, n, walk)
  PROVE  WalksBy(link, n, Walk(link, n))
<1>1. Walk(link, n) = CHOOSE walk : WalksBy(link, n, walk)
  BY Zenon DEF Walk, WalksBy
<1>2. WalksBy(link, n, CHOOSE walk : WalksBy(link, n, walk))
  BY Zenon
<1> QED BY <1>1, <1>2

\* A sequence of different nodes in which each links to the next, the last
\* to none.
Path(link, s) ==
  /\ s \in Seq(Node) /\ s # <<>>
  /\ \A i, j \in 1 .. Len(s) : s[i] = s[j] => i = j
  /\ \A i \in 1 .. Len(s) : link[s[i]] = IF i = Len(s) THEN Null ELSE s[i + 1]

LEMMA PathLen == ASSUME NEW link, NEW s, Path(link, s) PROVE Len(s) \in 1 .. Cardinality(Node)
<1>1. Len(s) \in Nat /\ Len(s) # 0 /\ s \in [1 .. Len(s) -> Node] /\ DOMAIN s = 1 .. Len(s)
  BY EmptySeq, LenProperties DEF Path
<1>2. s \in Injection(1 .. Len(s), Node)
  BY <1>1 DEF Path, Injection, IsInjective
<1>3. Cardinality(1 .. Len(s)) <= Cardinality(Node)
  BY <1>2, FS_Injection, DataAssumption
<1>4. Cardinality(1 .. Len(s)) = Len(s)
  BY <1>1, FS_Interval
<1> QED BY <1>1, <1>3, <1>4, StepsAreMany

\* A walk from the first of the nodes of a path goes through the path, and
\* stays at its end.
LEMMA WalkIsPath ==
  ASSUME NEW link, NEW s, Path(link, s)
  PROVE  Walk(link, s[1]) = [i \in 1 .. Steps |-> IF i <= Len(s) THEN s[i] ELSE Null]
<1> DEFINE w == Walk(link, s[1])
           f == [i \in 1 .. Steps |-> IF i <= Len(s) THEN s[i] ELSE Null]
<1>0. /\ Steps \in Nat /\ Len(s) \in 1 .. Steps /\ Steps = Cardinality(Node) + 1
      /\ \A i \in 1 .. Len(s) : s[i] \in Node /\ s[i] # Null
  BY PathLen, StepsAreMany, ElementOfSeq, DataAssumption DEF Path
<1>1. WalksBy(link, s[1], f)
  <2>1. \A i \in 1 .. Steps :
          f[i] = IF i = 1 THEN s[1] ELSE IF f[i - 1] = Null THEN Null ELSE link[f[i - 1]]
    <3> SUFFICES ASSUME NEW i \in 1 .. Steps
                 PROVE  f[i] = IF i = 1 THEN s[1] ELSE IF f[i - 1] = Null THEN Null ELSE link[f[i - 1]]
      OBVIOUS
    <3>1. CASE i = 1
      BY <3>1, <1>0
    <3>2. CASE i # 1 /\ i - 1 < Len(s)
      BY <3>2, <1>0 DEF Path
    <3>3. CASE i # 1 /\ i - 1 = Len(s)
      BY <3>3, <1>0 DEF Path
    <3>4. CASE i # 1 /\ i - 1 > Len(s)
      BY <3>4, <1>0
    <3> QED BY <3>1, <3>2, <3>3, <3>4, <1>0
  <2> QED BY <2>1, <1>0 DEF WalksBy
<1>2. WalksBy(link, s[1], w)
  BY <1>1, WalkDef
<1> HIDE DEF w
<1>3. \A i \in 1 .. Steps : w[i] = f[i]
  <2> DEFINE T == {i \in 1 .. Steps : w[i] # f[i]}
  <2> SUFFICES ASSUME T # {} PROVE FALSE
    OBVIOUS
  <2>0. T \in SUBSET Nat
    BY <1>0
  <2>1. PICK i \in T : \A j \in T : i <= j
    <3> HIDE DEF T
    <3> QED BY <2>0, Least
  <2>2. i \in 1 .. Steps /\ (i # 1 => w[i - 1] = f[i - 1])
    BY <2>1, <1>0
  <2>3. w[i] = IF i = 1 THEN s[1] ELSE IF w[i - 1] = Null THEN Null ELSE link[w[i - 1]]
    BY <2>2, <1>2, <1>0 DEF WalksBy
  <2>4. f[i] = IF i = 1 THEN s[1] ELSE IF f[i - 1] = Null THEN Null ELSE link[f[i - 1]]
    BY <2>2, <1>1, <1>0 DEF WalksBy
  <2> HIDE DEF f
  <2> QED BY <2>1, <2>2, <2>3, <2>4
<1>4. DOMAIN w = 1 .. Steps /\ w = [i \in 1 .. Steps |-> w[i]]
  BY <1>2, <1>0 DEF WalksBy
<1>5. w = f
  BY <1>3, <1>4
<1> QED BY <1>5 DEF w

LEMMA ChainIsPath == ASSUME NEW link, NEW s, Path(link, s) PROVE Chain(link, s[1]) = s
<1> DEFINE f == [i \in 1 .. Steps |-> IF i <= Len(s) THEN s[i] ELSE Null]
<1>0. /\ Steps \in Nat /\ Len(s) \in 1 .. Steps /\ Len(s) \in Nat
      /\ \A i \in 1 .. Len(s) : s[i] \in Node /\ s[i] # Null
  BY PathLen, StepsAreMany, ElementOfSeq, DataAssumption DEF Path
<1>1. Chain(link, s[1]) = SubSeq(f, 1, Cardinality({i \in DOMAIN f : f[i] # Null}))
  BY WalkIsPath DEF Chain
<1>2. {i \in DOMAIN f : f[i] # Null} = 1 .. Len(s)
  BY <1>0
<1>3. Cardinality(1 .. Len(s)) = Len(s)
  BY <1>0, FS_Interval
<1>4. \A i \in 1 .. Len(s) : f[i] = s[i]
  BY <1>0
<1>5. Chain(link, s[1]) = SubSeq(f, 1, Len(s))
  BY <1>1, <1>2, <1>3
<1> HIDE DEF f
<1>6. /\ SubSeq(f, 1, Len(s)) \in Seq(Node)
      /\ Len(SubSeq(f, 1, Len(s))) = Len(s)
      /\ \A i \in 1 .. Len(s) : SubSeq(f, 1, Len(s))[i] = s[i]
  <2>1. \A i \in 1 .. Len(s) : f[i] \in Node
    BY <1>0, <1>4
  <2>2. /\ SubSeq(f, 1, Len(s)) \in Seq(Node)
        /\ Len(SubSeq(f, 1, Len(s))) = IF 1 <= Len(s) THEN Len(s) - 1 + 1 ELSE 0
        /\ \A i \in 1 .. Len(s) - 1 + 1 : SubSeq(f, 1, Len(s))[i] = f[1 + i - 1]
    <3> HIDE <1>1, <1>2, <1>3, <1>4, <1>5
    <3> QED BY <1>0, <2>1, SubSeqProperties
  <2> QED BY <2>2, <1>0, <1>4
<1>7. SubSeq(f, 1, Len(s)) = s
  BY <1>6, SeqEqual DEF Path
<1> QED BY <1>5, <1>7

-----------------------------------------------------------------------------
(* Lists. *)

\* No node is in two lists or in two places of one.
Distinct(l) ==
  \A h, g \in Handle : \A i \in 1 .. Len(l[h]), j \in 1 .. Len(l[g]) : l[h][i] = l[g][j] => h = g /\ i = j

\* Nodes are linked in the order of their list, and to its first.
Linked(l, nx, pv, fs) ==
  \A h \in Handle : \A i \in 1 .. Len(l[h]) :
    /\ nx[l[h][i]] = IF i = Len(l[h]) THEN Null ELSE l[h][i + 1]
    /\ pv[l[h][i]] = IF i = 1 THEN Null ELSE l[h][i - 1]
    /\ fs[l[h][i]] = l[h][1]

\* A node is in a list if and only if it was not freed.
Covers(l, lv) ==
  /\ \A h \in Handle : \A i \in 1 .. Len(l[h]) : l[h][i] \in lv
  /\ \A n \in lv : \E h \in Handle : \E i \in 1 .. Len(l[h]) : l[h][i] = n

\* A handle points at its place.
Pointed(l, at, hd) ==
  \A h \in Handle : \/ at[h] = 0 /\ Len(l[h]) = 0 /\ hd[h] = Null
                    \/ at[h] \in 1 .. Len(l[h]) /\ hd[h] = l[h][at[h]]

Heap(lv, nx, pv, fs, hd) ==
  /\ lv \in SUBSET Node
  /\ nx \in [Node -> Pointer] /\ pv \in [Node -> Pointer] /\ fs \in [Node -> Pointer]
  /\ hd \in [Handle -> Pointer]
  /\ \A n \in Node \ lv : nx[n] = Null

\* The heap holds the lists l with the places `at'.
Holds(l, at, lv, nx, pv, fs, hd) ==
  /\ l \in [Handle -> Seq(Node)] /\ at \in [Handle -> Nat]
  /\ Heap(lv, nx, pv, fs, hd)
  /\ Covers(l, lv) /\ Distinct(l) /\ Linked(l, nx, pv, fs) /\ Pointed(l, at, hd)

\* f with another value at one place, and at two.
Puts(f, h, v, f2)        == f2 = [f EXCEPT ![h] = v]
PutsTwo(f, h, v, g, w, f2) == f2 = [f EXCEPT ![h] = v, ![g] = w]

\* A node n put behind the node p, if there is one.
PutsBehind(lv, nx, pv, fs, p, n, lv2, nx2, pv2, fs2) ==
  /\ lv2 = lv \cup {n}
  /\ nx2 \in [Node -> Pointer] /\ pv2 \in [Node -> Pointer] /\ fs2 \in [Node -> Pointer]
  /\ \A x \in Node : nx2[x] = IF x = p THEN n ELSE nx[x]
  /\ \A x \in Node : pv2[x] = IF x = n THEN p ELSE pv[x]
  /\ \A x \in Node : fs2[x] = IF x # n THEN fs[x] ELSE IF p = Null THEN n ELSE fs[p]

\* The node d at place k of the m nodes s taken out.
TakesOut(s, k, m, d, nx, pv, fs, nx2, pv2, fs2) ==
  /\ nx2 \in [Node -> Pointer] /\ pv2 \in [Node -> Pointer] /\ fs2 \in [Node -> Pointer]
  /\ \A n \in Node : nx2[n] = IF n = d THEN Null ELSE IF k > 1 /\ n = s[k - 1] THEN nx[d] ELSE nx[n]
  /\ \A n \in Node : pv2[n] = IF n = d THEN Null ELSE IF k < m /\ n = s[k + 1] THEN pv[d] ELSE pv[n]
  /\ \A n \in Node : fs2[n] = IF n = d THEN Null
                               ELSE IF k = 1 /\ n \in {s[i] : i \in 2 .. m} THEN s[2] ELSE fs[n]

LEMMA HoldsFacts ==
  ASSUME NEW l, NEW at, NEW lv, NEW nx, NEW pv, NEW fs, NEW hd, Holds(l, at, lv, nx, pv, fs, hd),
         NEW h \in Handle
  PROVE  /\ l[h] \in Seq(Node) /\ Len(l[h]) \in Nat
         /\ \A i \in 1 .. Len(l[h]) : l[h][i] \in lv /\ l[h][i] \in Node /\ l[h][i] # Null
         /\ hd[h] = Null => at[h] = 0 /\ Len(l[h]) = 0 /\ l[h] = <<>>
         /\ hd[h] # Null => at[h] \in 1 .. Len(l[h]) /\ hd[h] = l[h][at[h]]
<1>1. l[h] \in Seq(Node) /\ Len(l[h]) \in Nat
  BY LenProperties DEF Holds
<1>2. \A i \in 1 .. Len(l[h]) : l[h][i] \in lv /\ l[h][i] \in Node /\ l[h][i] # Null
  BY <1>1, DataAssumption DEF Holds, Covers, Heap
<1>3. Len(l[h]) = 0 => l[h] = <<>>
  BY <1>1, EmptySeq
<1> QED BY <1>1, <1>2, <1>3 DEF Holds, Pointed

\* The handle goes to another place of its list.
LEMMA MoveHolds ==
  ASSUME NEW l, NEW at, NEW lv, NEW nx, NEW pv, NEW fs, NEW hd, Holds(l, at, lv, nx, pv, fs, hd),
         NEW h \in Handle, NEW i \in 1 .. Len(l[h]),
         NEW at2, Puts(at, h, i, at2), NEW hd2, Puts(hd, h, l[h][i], hd2)
  PROVE  Holds(l, at2, lv, nx, pv, fs, hd2)
<1> SUFFICES ASSUME at2 = [at EXCEPT ![h] = i], hd2 = [hd EXCEPT ![h] = l[h][i]]
             PROVE  Holds(l, at2, lv, nx, pv, fs, hd2)
  BY DEF Puts
<1>1. l[h][i] \in Pointer /\ Len(l[h]) \in Nat
  BY HoldsFacts DEF Pointer
<1>2. i \in Nat
  BY <1>1
<1>3. Pointed(l, at2, hd2)
  BY <1>1, <1>2 DEF Holds, Pointed, Heap
<1> QED BY <1>1, <1>2, <1>3 DEF Holds, Heap

LEMMA AppendHolds ==
  ASSUME NEW l, NEW at, NEW lv, NEW nx, NEW pv, NEW fs, NEW hd, Holds(l, at, lv, nx, pv, fs, hd),
         NEW h \in Handle, NEW n \in Node \ lv, hd[h] # Null => nx[hd[h]] = Null,
         NEW lv2, NEW nx2, NEW pv2, NEW fs2, PutsBehind(lv, nx, pv, fs, hd[h], n, lv2, nx2, pv2, fs2),
         NEW l2, Puts(l, h, Append(l[h], n), l2), NEW at2, Puts(at, h, at[h] + 1, at2),
         NEW hd2, Puts(hd, h, n, hd2)
  PROVE  at[h] = Len(l[h]) /\ Holds(l2, at2, lv2, nx2, pv2, fs2, hd2)
<1>p. /\ lv2 = lv \cup {n}
      /\ nx2 \in [Node -> Pointer] /\ pv2 \in [Node -> Pointer] /\ fs2 \in [Node -> Pointer]
      /\ \A x \in Node : nx2[x] = IF x = hd[h] THEN n ELSE nx[x]
      /\ \A x \in Node : pv2[x] = IF x = n THEN hd[h] ELSE pv[x]
      /\ \A x \in Node : fs2[x] = IF x # n THEN fs[x] ELSE IF hd[h] = Null THEN n ELSE fs[hd[h]]
  BY DEF PutsBehind
<1> DEFINE k == Len(l[h])
<1>1. /\ k \in Nat /\ l[h] \in Seq(Node)
      /\ \A g \in Handle : /\ l[g] \in Seq(Node) /\ Len(l[g]) \in Nat
                           /\ \A i \in 1 .. Len(l[g]) : l[g][i] \in lv /\ l[g][i] \in Node /\ l[g][i] # Null
  BY HoldsFacts
<1>2. at[h] = k /\ (hd[h] = Null => k = 0) /\ (hd[h] # Null => k \in 1 .. k /\ hd[h] = l[h][k])
  <2>1. CASE hd[h] = Null
    BY <2>1, HoldsFacts
  <2>2. CASE hd[h] # Null
    <3>1. at[h] \in 1 .. k /\ hd[h] = l[h][at[h]]
      BY <2>2, HoldsFacts
    <3>2. nx[l[h][at[h]]] = IF at[h] = k THEN Null ELSE l[h][at[h] + 1]
      BY <3>1 DEF Holds, Linked
    <3>3. at[h] # k => at[h] + 1 \in 1 .. k
      BY <3>1, <1>1
    <3> QED BY <2>2, <3>1, <3>2, <3>3, <1>1
  <2> QED BY <2>1, <2>2
<1>3. /\ l2 \in [Handle -> Seq(Node)]
      /\ \A g \in Handle : g # h => l2[g] = l[g]
      /\ Len(l2[h]) = k + 1 /\ l2[h][k + 1] = n
      /\ \A i \in 1 .. k : l2[h][i] = l[h][i]
  BY <1>1, AppendProperties DEF Holds, Puts
<1>4. /\ nx \in [Node -> Pointer] /\ pv \in [Node -> Pointer] /\ fs \in [Node -> Pointer]
      /\ hd \in [Handle -> Pointer] /\ lv \in SUBSET Node /\ \A m \in Node \ lv : nx[m] = Null
      /\ hd[h] \in lv \cup {Null} /\ n \in Node /\ n \notin lv /\ n # Null
  BY <1>1, <1>2, DataAssumption DEF Holds, Heap
<1>5. Heap(lv2, nx2, pv2, fs2, hd2)
  <2>1. lv2 \in SUBSET Node /\ hd2 \in [Handle -> Pointer]
    BY <1>4, <1>p DEF Pointer, Puts
  <2>2. ASSUME NEW x \in Node \ lv2 PROVE nx2[x] = Null
    BY <1>4, <1>p, DataAssumption
  <2> QED BY <2>1, <2>2, <1>p DEF Heap
<1>6. Covers(l2, lv2)
  <2>1. ASSUME NEW g \in Handle, NEW i \in 1 .. Len(l2[g]) PROVE l2[g][i] \in lv \cup {n}
    <3>1. CASE g # h
      BY <3>1, <1>1, <1>3
    <3>2. CASE g = h
      <4>1. i = k + 1 \/ i \in 1 .. k
        BY <3>2, <1>1, <1>3
      <4> QED BY <3>2, <4>1, <1>1, <1>3
    <3> QED BY <3>1, <3>2
  <2>2. ASSUME NEW m \in lv PROVE \E g \in Handle : \E i \in 1 .. Len(l2[g]) : l2[g][i] = m
    <3>1. PICK g \in Handle : \E i \in 1 .. Len(l[g]) : l[g][i] = m
      BY DEF Holds, Covers
    <3> QED BY <3>1, <1>1, <1>3
  <2>3. \E i \in 1 .. Len(l2[h]) : l2[h][i] = n
    <3>1. k + 1 \in 1 .. Len(l2[h])
      BY <1>1, <1>3
    <3> QED BY <3>1, <1>3
  <2> QED BY <2>1, <2>2, <2>3, <1>p DEF Covers
<1>7. Distinct(l2)
  <2>1. \A g \in Handle : \A i \in 1 .. Len(l2[g]) :
          \/ g = h /\ i = k + 1 /\ l2[g][i] = n
          \/ i \in 1 .. Len(l[g]) /\ l2[g][i] = l[g][i] /\ l[g][i] \in lv
    BY <1>1, <1>3
  <2> SUFFICES ASSUME NEW g1 \in Handle, NEW g2 \in Handle, NEW i \in 1 .. Len(l2[g1]), NEW j \in 1 .. Len(l2[g2]),
                      l2[g1][i] = l2[g2][j]
               PROVE  g1 = g2 /\ i = j
    BY DEF Distinct
  <2>2. CASE l2[g1][i] = n
    <3>1. g1 = h /\ i = k + 1
      BY <2>1, <2>2, <1>4
    <3>2. g2 = h /\ j = k + 1
      <4>1. l2[g2][j] = n
        BY <2>2
      <4> QED BY <4>1, <2>1, <1>4
    <3> QED BY <3>1, <3>2
  <2>3. CASE l2[g1][i] # n
    <3>1. i \in 1 .. Len(l[g1]) /\ j \in 1 .. Len(l[g2]) /\ l[g1][i] = l[g2][j]
      BY <2>1, <2>3
    <3> QED BY <3>1 DEF Distinct, Holds
  <2> QED BY <2>2, <2>3
<1>8. Linked(l2, nx2, pv2, fs2)
  <2> SUFFICES ASSUME NEW g \in Handle, NEW i \in 1 .. Len(l2[g])
               PROVE  /\ nx2[l2[g][i]] = IF i = Len(l2[g]) THEN Null ELSE l2[g][i + 1]
                      /\ pv2[l2[g][i]] = IF i = 1 THEN Null ELSE l2[g][i - 1]
                      /\ fs2[l2[g][i]] = l2[g][1]
    BY DEF Linked
  <2>1. CASE g # h
    <3>1. l2[g] = l[g] /\ l[g][i] \in lv /\ l[g][i] \in Node
      BY <2>1, <1>1, <1>3
    <3>2. l[g][i] # n /\ l[g][i] # hd[h]
      <4>1. CASE hd[h] = Null
        BY <4>1, <3>1, <1>1, <1>4, <1>p
      <4>2. CASE hd[h] # Null
        <5>1. k \in 1 .. Len(l[h]) /\ hd[h] = l[h][k] /\ i \in 1 .. Len(l[g])
          BY <4>2, <1>2, <3>1
        <5>2. l[g][i] # l[h][k]
          BY <2>1, <5>1 DEF Holds, Distinct
        <5> QED BY <3>1, <5>1, <5>2, <1>4, <1>p
      <4> QED BY <4>1, <4>2
    <3>3. nx2[l[g][i]] = nx[l[g][i]] /\ pv2[l[g][i]] = pv[l[g][i]] /\ fs2[l[g][i]] = fs[l[g][i]]
      BY <3>1, <3>2, <1>4, <1>p
    <3> QED BY <3>1, <3>3 DEF Holds, Linked
  <2>2. CASE g = h /\ i <= k
    <3>1. i \in 1 .. k /\ l2[h][i] = l[h][i] /\ l[h][i] \in lv /\ l[h][i] \in Node /\ hd[h] = l[h][k]
      BY <2>2, <1>1, <1>2, <1>3
    <3>2. pv2[l[h][i]] = pv[l[h][i]] /\ fs2[l[h][i]] = fs[l[h][i]]
      BY <3>1, <1>4, <1>p
    <3>3. nx2[l[h][i]] = IF i = k THEN n ELSE nx[l[h][i]]
      <4>1. k \in 1 .. k /\ k \in 1 .. Len(l[h])
        BY <3>1, <1>1
      <4>2. l[h][i] = l[h][k] <=> i = k
        <5>1. Distinct(l)
          BY DEF Holds
        <5> QED BY <3>1, <4>1, <5>1 DEF Distinct
      <4>3. hd[h] # Null /\ hd[h] \in Node
        BY <3>1, <4>1, <1>1
      <4> QED BY <3>1, <4>2, <4>3, <1>4, <1>p
    <3>4. /\ nx[l[h][i]] = IF i = k THEN Null ELSE l[h][i + 1]
          /\ pv[l[h][i]] = IF i = 1 THEN Null ELSE l[h][i - 1]
          /\ fs[l[h][i]] = l[h][1]
      BY <3>1 DEF Holds, Linked
    <3>5. 1 \in 1 .. k /\ (i # 1 => i - 1 \in 1 .. k) /\ (i # k => i + 1 \in 1 .. k) /\ i # k + 1
      BY <3>1, <1>1
    <3>6. /\ l2[h][1] = l[h][1] /\ (i # 1 => l2[h][i - 1] = l[h][i - 1])
          /\ l2[h][i + 1] = IF i = k THEN n ELSE l[h][i + 1]
      BY <3>5, <1>3
    <3> QED BY <2>2, <3>1, <3>2, <3>3, <3>4, <3>5, <3>6, <1>3
  <2>3. CASE g = h /\ i = k + 1
    <3>1. l2[h][i] = n /\ pv2[n] = hd[h] /\ fs2[n] = IF k = 0 THEN n ELSE fs[hd[h]]
      BY <2>3, <1>1, <1>2, <1>3, <1>4, <1>p
    <3>2. nx2[n] = Null
      BY <1>4, <1>p
    <3>3. k # 0 => fs[hd[h]] = l[h][1]
      BY <1>1, <1>2 DEF Holds, Linked
    <3> QED BY <2>3, <3>1, <3>2, <3>3, <1>1, <1>2, <1>3
  <2> QED BY <2>1, <2>2, <2>3, <1>1, <1>3
<1>9. Pointed(l2, at2, hd2)
  <2> SUFFICES ASSUME NEW g \in Handle
               PROVE  \/ at2[g] = 0 /\ Len(l2[g]) = 0 /\ hd2[g] = Null
                      \/ at2[g] \in 1 .. Len(l2[g]) /\ hd2[g] = l2[g][at2[g]]
    BY DEF Pointed
  <2>1. CASE g = h
    BY <2>1, <1>1, <1>2, <1>3, <1>4 DEF Holds, Puts
  <2>2. CASE g # h
    BY <2>2, <1>3, <1>4 DEF Holds, Pointed, Puts
  <2> QED BY <2>1, <2>2
<1>10. at2 \in [Handle -> Nat]
  BY DEF Holds, Puts
<1> QED BY <1>2, <1>3, <1>5, <1>6, <1>7, <1>8, <1>9, <1>10 DEF Holds

LEMMA FreeHolds ==
  ASSUME NEW l, NEW at, NEW lv, NEW nx, NEW pv, NEW fs, NEW hd, Holds(l, at, lv, nx, pv, fs, hd),
         NEW h \in Handle, NEW gone, gone = ToSet(l[h]),
         NEW l2, Puts(l, h, <<>>, l2), NEW at2, Puts(at, h, 0, at2), NEW hd2, Puts(hd, h, Null, hd2)
  PROVE  Holds(l2, at2, lv \ gone, Without(nx, gone), Without(pv, gone), Without(fs, gone), hd2)
<1> SUFFICES ASSUME l2 = [l EXCEPT ![h] = <<>>], at2 = [at EXCEPT ![h] = 0],
                    NEW lv2, lv2 = lv \ gone, NEW nx2, nx2 = Without(nx, gone),
                    NEW pv2, pv2 = Without(pv, gone), NEW fs2, fs2 = Without(fs, gone),
                    hd2 = [hd EXCEPT ![h] = Null]
             PROVE  Holds(l2, at2, lv2, nx2, pv2, fs2, hd2)
  BY DEF Puts
<1>1. \A g \in Handle : /\ l[g] \in Seq(Node) /\ Len(l[g]) \in Nat
                        /\ \A i \in 1 .. Len(l[g]) : l[g][i] \in lv /\ l[g][i] \in Node
  BY HoldsFacts
<1>2. /\ l2 \in [Handle -> Seq(Node)] /\ l2[h] = <<>> /\ Len(l2[h]) = 0
      /\ \A g \in Handle : g # h => l2[g] = l[g]
  BY <1>1, EmptySeq DEF Holds
<1>3. \A m : m \in gone <=> \E i \in 1 .. Len(l[h]) : l[h][i] = m
  BY <1>1, LenProperties DEF ToSet
<1>4. \A g \in Handle : g # h => \A i \in 1 .. Len(l[g]) : l[g][i] \notin gone
  BY <1>3 DEF Holds, Distinct
<1>5. /\ nx \in [Node -> Pointer] /\ pv \in [Node -> Pointer] /\ fs \in [Node -> Pointer]
      /\ hd \in [Handle -> Pointer] /\ lv \in SUBSET Node /\ \A m \in Node \ lv : nx[m] = Null
  BY DEF Holds, Heap
<1>6. Heap(lv2, nx2, pv2, fs2, hd2)
  <2> HIDE <1>1, <1>2, <1>3, <1>4
  <2> QED BY <1>5 DEF Heap, Without, Pointer
<1>7. Covers(l2, lv2)
  <2>1. \A g \in Handle : \A i \in 1 .. Len(l2[g]) : l2[g][i] \in lv \ gone
    BY <1>1, <1>2, <1>4
  <2>2. ASSUME NEW m \in lv \ gone PROVE \E g \in Handle : \E i \in 1 .. Len(l2[g]) : l2[g][i] = m
    <3>1. PICK g \in Handle : \E i \in 1 .. Len(l[g]) : l[g][i] = m
      BY DEF Holds, Covers
    <3>2. g # h
      BY <3>1, <1>3
    <3> QED BY <3>1, <3>2, <1>2
  <2> QED BY <2>1, <2>2 DEF Covers
<1>8. Distinct(l2)
  <2>1. Distinct(l)
    BY DEF Holds
  <2> SUFFICES ASSUME NEW e \in Handle, NEW g \in Handle, NEW i \in 1 .. Len(l2[e]), NEW j \in 1 .. Len(l2[g]),
                      l2[e][i] = l2[g][j]
               PROVE  e = g /\ i = j
    BY DEF Distinct
  <2>2. e # h /\ g # h /\ l2[e] = l[e] /\ l2[g] = l[g]
    BY <1>2
  <2> QED BY <2>1, <2>2 DEF Distinct
<1>9. Linked(l2, nx2, pv2, fs2)
  <2> SUFFICES ASSUME NEW g \in Handle, NEW i \in 1 .. Len(l2[g])
               PROVE  /\ nx2[l2[g][i]] = IF i = Len(l2[g]) THEN Null ELSE l2[g][i + 1]
                      /\ pv2[l2[g][i]] = IF i = 1 THEN Null ELSE l2[g][i - 1]
                      /\ fs2[l2[g][i]] = l2[g][1]
    BY DEF Linked
  <2>1. g # h /\ l2[g] = l[g] /\ l[g][i] \in Node /\ l[g][i] \notin gone
    BY <1>1, <1>2, <1>4
  <2>2. /\ nx2[l[g][i]] = nx[l[g][i]] /\ pv2[l[g][i]] = pv[l[g][i]]
        /\ fs2[l[g][i]] = fs[l[g][i]]
    BY <2>1 DEF Without
  <2> QED BY <2>1, <2>2 DEF Holds, Linked
<1>10. Pointed(l2, at2, hd2)
  BY <1>2, <1>5 DEF Holds, Pointed
<1>11. at2 \in [Handle -> Nat]
  BY DEF Holds
<1> QED BY <1>2, <1>6, <1>7, <1>8, <1>9, <1>10, <1>11 DEF Holds


\* One of the lists is empty, and the other has both handles' nodes.
LEMMA TakeHolds ==
  ASSUME NEW l, NEW at, NEW lv, NEW nx, NEW pv, NEW fs, NEW hd, Holds(l, at, lv, nx, pv, fs, hd),
         NEW h \in Handle, NEW g \in Handle, h # g, hd[h] = Null \/ hd[g] = Null,
         NEW lists, PutsTwo(l, h, l[h] \o l[g], g, <<>>, lists),
         NEW place, place = IF at[h] = 0 THEN at[g] ELSE IF at[g] = 0 THEN at[h] ELSE 1,
         NEW places, PutsTwo(at, g, 0, h, place, places),
         NEW point, point = IF hd[h] = Null THEN hd[g] ELSE hd[h],
         NEW points, PutsTwo(hd, h, point, g, Null, points)
  PROVE  Holds(lists, places, lv, nx, pv, fs, points)
<1> DEFINE l2 == [l EXCEPT ![h] = l[h] \o l[g], ![g] = <<>>]
           a  == IF at[h] = 0 THEN at[g] ELSE IF at[g] = 0 THEN at[h] ELSE 1
           p  == IF hd[h] = Null THEN hd[g] ELSE hd[h]
           at2 == [at EXCEPT ![g] = 0, ![h] = a]
           hd2 == [hd EXCEPT ![h] = p, ![g] = Null]
           \* whose nodes are now at h
           b  == IF hd[h] = Null THEN g ELSE h
<1>1. \A f \in Handle : /\ l[f] \in Seq(Node) /\ Len(l[f]) \in Nat
                        /\ \A i \in 1 .. Len(l[f]) : l[f][i] \in lv /\ l[f][i] \in Node /\ l[f][i] # Null
                        /\ hd[f] = Null => at[f] = 0 /\ Len(l[f]) = 0 /\ l[f] = <<>>
                        /\ hd[f] # Null => at[f] \in 1 .. Len(l[f]) /\ hd[f] = l[f][at[f]]
  BY HoldsFacts
<1>2. l[h] \o l[g] = l[b] /\ b \in {h, g} /\ b \in Handle
  <2>1. CASE hd[h] = Null
    <3>1. l[h] = <<>> /\ b = g
      BY <2>1, <1>1
    <3> QED BY <3>1, <1>1, ConcatEmptySeq
  <2>2. CASE hd[h] # Null
    <3>1. l[g] = <<>> /\ b = h
      BY <2>2, <1>1
    <3> QED BY <3>1, <1>1, ConcatEmptySeq
  <2> QED BY <2>1, <2>2
<1>3. /\ l2 \in [Handle -> Seq(Node)] /\ l2[h] = l[b] /\ l2[g] = <<>> /\ Len(l2[g]) = 0
      /\ \A f \in Handle : f # h /\ f # g => l2[f] = l[f]
      /\ \A f \in {h, g} : f # b => Len(l[f]) = 0
  BY <1>1, <1>2, EmptySeq DEF Holds
<1>4. /\ hd \in [Handle -> Pointer] /\ at \in [Handle -> Nat] /\ Heap(lv, nx, pv, fs, hd)
  BY DEF Holds, Heap
<1>5. /\ p = hd[b] /\ a = at[b]
      /\ at2 \in [Handle -> Nat] /\ hd2 \in [Handle -> Pointer]
      /\ at2[h] = a /\ hd2[h] = p /\ at2[g] = 0 /\ hd2[g] = Null
      /\ \A f \in Handle : f # h /\ f # g => at2[f] = at[f] /\ hd2[f] = hd[f]
  <2>1. p = hd[b] /\ a = at[b]
    BY <1>1, <1>4
  <2>2. a \in Nat /\ p \in Pointer
    BY <2>1, <1>2, <1>4
  <2> HIDE DEF a, p, b
  <2> QED BY <2>1, <2>2, <1>4
<1> HIDE DEF l2, a, p, at2, hd2, b
<1>6. Heap(lv, nx, pv, fs, hd2)
  BY <1>4, <1>5 DEF Heap
<1>7. Covers(l2, lv)
  <2>1. ASSUME NEW f \in Handle, NEW i \in 1 .. Len(l2[f]) PROVE l2[f][i] \in lv
    <3>1. f # g
      BY <1>3
    <3> QED BY <3>1, <1>1, <1>2, <1>3
  <2>2. ASSUME NEW m \in lv PROVE \E f \in Handle : \E i \in 1 .. Len(l2[f]) : l2[f][i] = m
    <3>1. PICK f \in Handle : \E i \in 1 .. Len(l[f]) : l[f][i] = m
      BY DEF Holds, Covers
    <3>2. CASE f = b
      BY <3>1, <3>2, <1>3
    <3>3. CASE f # b
      <4>1. f # h /\ f # g
        BY <3>1, <3>3, <1>3
      <4> QED BY <3>1, <4>1, <1>3
    <3> QED BY <3>2, <3>3
  <2> QED BY <2>1, <2>2 DEF Covers
\* Each list is one of those before.
<1>8. \A f \in Handle : \A i \in 1 .. Len(l2[f]) : \E e \in Handle : /\ l2[f] = l[e]
                                                                     /\ e = IF f = h THEN b ELSE f
  BY <1>2, <1>3
<1>9. Distinct(l2)
  <2> SUFFICES ASSUME NEW g1 \in Handle, NEW g2 \in Handle, NEW i \in 1 .. Len(l2[g1]), NEW j \in 1 .. Len(l2[g2]),
                      l2[g1][i] = l2[g2][j]
               PROVE  g1 = g2 /\ i = j
    BY DEF Distinct
  <2> DEFINE e1 == IF g1 = h THEN b ELSE g1
             e2 == IF g2 = h THEN b ELSE g2
  <2>1. l2[g1] = l[e1] /\ l2[g2] = l[e2] /\ e1 \in Handle /\ e2 \in Handle
    BY <1>8
  <2>2. e1 = e2 /\ i = j
    <3> HIDE DEF e1, e2
    <3> QED BY <2>1 DEF Holds, Distinct
  <2>3. g1 # g /\ g2 # g
    BY <1>3
  <2> QED BY <2>2, <2>3, <1>2
<1>10. Linked(l2, nx, pv, fs)
  <2> SUFFICES ASSUME NEW f \in Handle, NEW i \in 1 .. Len(l2[f])
               PROVE  /\ nx[l2[f][i]] = IF i = Len(l2[f]) THEN Null ELSE l2[f][i + 1]
                      /\ pv[l2[f][i]] = IF i = 1 THEN Null ELSE l2[f][i - 1]
                      /\ fs[l2[f][i]] = l2[f][1]
    BY DEF Linked
  <2>1. PICK e \in Handle : l2[f] = l[e]
    BY <1>8
  <2> QED BY <2>1 DEF Linked, Holds
<1>11. Pointed(l2, at2, hd2)
  <2> SUFFICES ASSUME NEW f \in Handle
               PROVE  \/ at2[f] = 0 /\ Len(l2[f]) = 0 /\ hd2[f] = Null
                      \/ at2[f] \in 1 .. Len(l2[f]) /\ hd2[f] = l2[f][at2[f]]
    BY DEF Pointed
  <2>1. CASE f = h
    BY <2>1, <1>1, <1>2, <1>3, <1>5
  <2>2. CASE f = g
    BY <2>2, <1>3, <1>5
  <2>3. CASE f # h /\ f # g
    BY <2>3, <1>1, <1>3, <1>5
  <2> QED BY <2>1, <2>2, <2>3
<1>12. Holds(l2, at2, lv, nx, pv, fs, hd2)
  BY <1>3, <1>5, <1>6, <1>7, <1>9, <1>10, <1>11 DEF Holds
<1>13. lists = l2 /\ places = at2 /\ points = hd2
  BY DEF PutsTwo, l2, at2, hd2, a, p
<1> QED BY <1>12, <1>13

\* Two lists become one.
LEMMA JoinHolds ==
  ASSUME NEW l, NEW at, NEW lv, NEW nx, NEW pv, NEW fs, NEW hd, Holds(l, at, lv, nx, pv, fs, hd),
         NEW h \in Handle, NEW g \in Handle, h # g, hd[h] # Null, hd[g] # Null,
         NEW fs2, fs2 = [n \in Node |-> IF n \in ToSet(l[g]) THEN l[h][1] ELSE fs[n]]
  PROVE  \A lists, place, places, ahead, back, points :
           /\ PutsTwo(l, h, l[h] \o l[g], g, <<>>, lists)
           /\ place = IF at[h] = 0 THEN at[g] ELSE IF at[g] = 0 THEN at[h] ELSE 1
           /\ PutsTwo(at, g, 0, h, place, places)
           /\ Puts(nx, l[h][Len(l[h])], l[g][1], ahead)
           /\ Puts(pv, l[g][1], l[h][Len(l[h])], back)
           /\ PutsTwo(hd, h, l[h][1], g, Null, points)
           => Holds(lists, places, lv, ahead, back, fs2, points)
<1> DEFINE l2 == [l EXCEPT ![h] = l[h] \o l[g], ![g] = <<>>]
           k  == Len(l[h])
           m  == Len(l[g])
           at2 == [at EXCEPT ![g] = 0, ![h] = IF at[h] = 0 THEN at[g] ELSE IF at[g] = 0 THEN at[h] ELSE 1]
           nx2 == [nx EXCEPT ![l[h][k]] = l[g][1]]
           pv2 == [pv EXCEPT ![l[g][1]] = l[h][k]]
           hd2 == [hd EXCEPT ![h] = l[h][1], ![g] = Null]
<1>1. \A f \in Handle : /\ l[f] \in Seq(Node) /\ Len(l[f]) \in Nat
                        /\ \A i \in 1 .. Len(l[f]) : l[f][i] \in lv /\ l[f][i] \in Node /\ l[f][i] # Null
                        /\ hd[f] = Null => at[f] = 0 /\ Len(l[f]) = 0 /\ l[f] = <<>>
                        /\ hd[f] # Null => at[f] \in 1 .. Len(l[f]) /\ hd[f] = l[f][at[f]]
  BY HoldsFacts
<1>2. /\ k \in Nat /\ m \in Nat /\ k >= 1 /\ m >= 1 /\ at[h] # 0 /\ at[g] # 0
      /\ Len(l[h]) = k /\ Len(l[g]) = m
  BY <1>1
<1>3. /\ l2 \in [Handle -> Seq(Node)] /\ l2[g] = <<>> /\ Len(l2[g]) = 0
      /\ \A f \in Handle : f # h /\ f # g => l2[f] = l[f]
      /\ Len(l2[h]) = k + m
      /\ \A i \in 1 .. k + m : l2[h][i] = IF i <= k THEN l[h][i] ELSE l[g][i - k]
  <2>1. /\ l[h] \o l[g] \in Seq(Node) /\ Len(l[h] \o l[g]) = k + m
        /\ \A i \in 1 .. k + m : (l[h] \o l[g])[i] = IF i <= k THEN l[h][i] ELSE l[g][i - k]
    <3>1. l[h] \in Seq(Node) /\ l[g] \in Seq(Node)
      BY <1>1
    <3> HIDE <1>1, <1>2
    <3> QED BY <3>1, ConcatProperties
  <2>2. <<>> \in Seq(Node) /\ Len(<<>>) = 0
    BY EmptySeq
  <2>3. l \in [Handle -> Seq(Node)]
    BY DEF Holds
  <2>4. l2[h] = l[h] \o l[g] /\ l2[g] = <<>> /\ l2 \in [Handle -> Seq(Node)]
    BY <2>1, <2>2, <2>3
  <2>5. \A f \in Handle : f # h /\ f # g => l2[f] = l[f]
    BY <2>3
  <2> HIDE DEF l2, k, m
  <2> QED BY <2>1, <2>2, <2>4, <2>5
<1>4. /\ nx \in [Node -> Pointer] /\ pv \in [Node -> Pointer] /\ fs \in [Node -> Pointer]
      /\ hd \in [Handle -> Pointer] /\ at \in [Handle -> Nat]
      /\ lv \in SUBSET Node /\ \A n \in Node \ lv : nx[n] = Null
  BY DEF Holds, Heap
<1>5. /\ k \in 1 .. Len(l[h]) /\ 1 \in 1 .. Len(l[h]) /\ 1 \in 1 .. Len(l[g])
      /\ l[h][k] \in lv /\ l[g][1] \in lv /\ l[h][1] \in lv
      /\ l[h][k] \in Node /\ l[g][1] \in Node /\ l[h][1] \in Node
  BY <1>1, <1>2
<1>6. /\ at2 \in [Handle -> Nat] /\ hd2 \in [Handle -> Pointer] /\ at2[h] = 1 /\ at2[g] = 0
      /\ hd2[h] = l[h][1] /\ hd2[g] = Null
      /\ \A f \in Handle : f # h /\ f # g => at2[f] = at[f] /\ hd2[f] = hd[f]
  BY <1>2, <1>4, <1>5 DEF Pointer
<1>7. Heap(lv, nx2, pv2, fs2, hd2)
  BY <1>4, <1>5, <1>6 DEF Heap, Pointer
<1> HIDE DEF k, m
\* Where a node of the new lists was.
<1>8. \A f \in Handle : \A i \in 1 .. Len(l2[f]) :
        \/ f # g /\ i \in 1 .. Len(l[f]) /\ l2[f][i] = l[f][i]
        \/ f = h /\ i - k \in 1 .. Len(l[g]) /\ i \in Nat /\ l2[f][i] = l[g][i - k]
  <2> HIDE DEF l2
  <2> SUFFICES ASSUME NEW f \in Handle, NEW i \in 1 .. Len(l2[f])
               PROVE  \/ f # g /\ i \in 1 .. Len(l[f]) /\ l2[f][i] = l[f][i]
                      \/ f = h /\ i - k \in 1 .. Len(l[g]) /\ i \in Nat /\ l2[f][i] = l[g][i - k]
    OBVIOUS
  <2>1. f # g
    BY <1>3
  <2>2. CASE f # h
    BY <2>1, <2>2, <1>3
  <2>3. CASE f = h /\ i <= k
    BY <2>1, <2>3, <1>2, <1>3
  <2>4. CASE f = h /\ i > k
    <3>1. i \in 1 .. k + m /\ i - k \in 1 .. Len(l[g]) /\ i \in Nat
      BY <2>4, <1>2, <1>3
    <3> QED BY <2>4, <3>1, <1>2, <1>3
  <2> QED BY <2>2, <2>3, <2>4, <1>2, <1>3
<1>9. Covers(l2, lv)
  <2> HIDE DEF l2
  <2>1. ASSUME NEW f \in Handle, NEW i \in 1 .. Len(l2[f]) PROVE l2[f][i] \in lv
    <3>1. CASE i \in 1 .. Len(l[f]) /\ l2[f][i] = l[f][i]
      BY <3>1, <1>1
    <3>2. CASE i - k \in 1 .. Len(l[g]) /\ l2[f][i] = l[g][i - k]
      BY <3>2, <1>1
    <3> QED BY <3>1, <3>2, <1>8
  <2>2. ASSUME NEW n \in lv PROVE \E f \in Handle : \E i \in 1 .. Len(l2[f]) : l2[f][i] = n
    <3>0. PICK f \in Handle : \E i \in 1 .. Len(l[f]) : l[f][i] = n
      BY DEF Holds, Covers
    <3>1. PICK i \in 1 .. Len(l[f]) : l[f][i] = n
      BY <3>0
    <3>2. CASE f = h
      <4>1. i \in 1 .. k + m /\ l2[h][i] = n
        BY <3>1, <3>2, <1>2, <1>3
      <4> QED BY <4>1, <1>3
    <3>3. CASE f = g
      <4>1. i + k \in 1 .. k + m /\ l2[h][i + k] = n
        BY <3>1, <3>3, <1>2, <1>3
      <4> QED BY <4>1, <1>3
    <3>4. CASE f # h /\ f # g
      BY <3>1, <3>4, <1>3
    <3> QED BY <3>2, <3>3, <3>4
  <2> QED BY <2>1, <2>2 DEF Covers
<1>10. Distinct(l2)
  <2> HIDE DEF l2
  <2> SUFFICES ASSUME NEW g1 \in Handle, NEW g2 \in Handle, NEW i \in 1 .. Len(l2[g1]), NEW j \in 1 .. Len(l2[g2]),
                      l2[g1][i] = l2[g2][j]
               PROVE  g1 = g2 /\ i = j
    BY DEF Distinct
  <2>1. Distinct(l) /\ i \in Int /\ j \in Int
    BY <1>1, <1>3 DEF Holds
  <2>2. CASE /\ g1 # g /\ i \in 1 .. Len(l[g1]) /\ l2[g1][i] = l[g1][i]
             /\ g2 # g /\ j \in 1 .. Len(l[g2]) /\ l2[g2][j] = l[g2][j]
    <3>1. i \in 1 .. Len(l[g1]) /\ j \in 1 .. Len(l[g2]) /\ l[g1][i] = l[g2][j]
      BY <2>2
    <3> QED BY <2>1, <3>1 DEF Distinct
  <2>3. CASE /\ g1 # g /\ i \in 1 .. Len(l[g1]) /\ l2[g1][i] = l[g1][i]
             /\ g2 = h /\ j - k \in 1 .. Len(l[g]) /\ l2[g2][j] = l[g][j - k]
    <3>1. PICK x \in 1 .. Len(l[g]) : l[g1][i] = l[g][x]
      BY <2>3
    <3>2. g1 = g
      BY <2>1, <2>3, <3>1 DEF Distinct
    <3> QED BY <2>3, <3>2
  <2>4. CASE /\ g1 = h /\ i - k \in 1 .. Len(l[g]) /\ l2[g1][i] = l[g][i - k]
             /\ g2 # g /\ j \in 1 .. Len(l[g2]) /\ l2[g2][j] = l[g2][j]
    <3>1. PICK x \in 1 .. Len(l[g]) : l[g2][j] = l[g][x]
      BY <2>4
    <3> QED BY <2>1, <2>4, <3>1 DEF Distinct
  <2>5. CASE /\ g1 = h /\ i - k \in 1 .. Len(l[g]) /\ l2[g1][i] = l[g][i - k]
             /\ g2 = h /\ j - k \in 1 .. Len(l[g]) /\ l2[g2][j] = l[g][j - k]
    <3>1. i - k = j - k
      BY <2>1, <2>5 DEF Distinct
    <3> QED BY <3>1, <2>1, <2>5, <1>2
  <2> QED BY <2>2, <2>3, <2>4, <2>5, <1>8
<1>11. Linked(l2, nx2, pv2, fs2)
  <2> SUFFICES ASSUME NEW f \in Handle, NEW i \in 1 .. Len(l2[f])
               PROVE  /\ nx2[l2[f][i]] = IF i = Len(l2[f]) THEN Null ELSE l2[f][i + 1]
                      /\ pv2[l2[f][i]] = IF i = 1 THEN Null ELSE l2[f][i - 1]
                      /\ fs2[l2[f][i]] = l2[f][1]
    BY DEF Linked
  <2>1. \A n : n \in ToSet(l[g]) <=> \E j \in 1 .. Len(l[g]) : l[g][j] = n
    <3>1. DOMAIN l[g] = 1 .. Len(l[g])
      BY <1>1, LenProperties
    <3> QED BY <3>1 DEF ToSet
  \* What becomes of the links of the j-th node of e.
  <2>2. \A e \in Handle : \A j \in 1 .. Len(l[e]) :
          /\ nx2[l[e][j]] = IF e = h /\ j = k THEN l[g][1] ELSE IF j = Len(l[e]) THEN Null ELSE l[e][j + 1]
          /\ pv2[l[e][j]] = IF e = g /\ j = 1 THEN l[h][k] ELSE IF j = 1 THEN Null ELSE l[e][j - 1]
          /\ fs2[l[e][j]] = IF e = g THEN l[h][1] ELSE l[e][1]
    <3> SUFFICES ASSUME NEW e \in Handle, NEW j \in 1 .. Len(l[e])
                 PROVE  /\ nx2[l[e][j]] = IF e = h /\ j = k THEN l[g][1] ELSE IF j = Len(l[e]) THEN Null ELSE l[e][j + 1]
                        /\ pv2[l[e][j]] = IF e = g /\ j = 1 THEN l[h][k] ELSE IF j = 1 THEN Null ELSE l[e][j - 1]
                        /\ fs2[l[e][j]] = IF e = g THEN l[h][1] ELSE l[e][1]
      OBVIOUS
    <3>1. l[e][j] \in Node
      BY <1>1
    <3>2. /\ nx[l[e][j]] = IF j = Len(l[e]) THEN Null ELSE l[e][j + 1]
          /\ pv[l[e][j]] = IF j = 1 THEN Null ELSE l[e][j - 1]
          /\ fs[l[e][j]] = l[e][1]
      BY DEF Holds, Linked
    <3>3. l[e][j] = l[h][k] <=> e = h /\ j = k
      BY <1>5 DEF Holds, Distinct
    <3>4. l[e][j] = l[g][1] <=> e = g /\ j = 1
      BY <1>5 DEF Holds, Distinct
    <3>5. l[e][j] \in ToSet(l[g]) <=> e = g
      <4>1. e = g => l[e][j] \in ToSet(l[g])
        BY <2>1
      <4>2. ASSUME l[e][j] \in ToSet(l[g]) PROVE e = g
        <5>1. PICK j2 \in 1 .. Len(l[g]) : l[g][j2] = l[e][j]
          BY <2>1, <4>2
        <5> QED BY <5>1 DEF Holds, Distinct
      <4> QED BY <4>1, <4>2
    <3>6. nx2[l[e][j]] = IF e = h /\ j = k THEN l[g][1] ELSE nx[l[e][j]]
      BY <3>1, <3>3, <1>4, <1>5
    <3>7. pv2[l[e][j]] = IF e = g /\ j = 1 THEN l[h][k] ELSE pv[l[e][j]]
      BY <3>1, <3>4, <1>4, <1>5
    <3>8. fs2[l[e][j]] = IF e = g THEN l[h][1] ELSE fs[l[e][j]]
      BY <3>1, <3>5
    <3> HIDE DEF nx2, pv2
    <3> QED BY <3>2, <3>6, <3>7, <3>8
  <2> HIDE DEF l2, nx2, pv2
  <2>3. f # g
    BY <1>3
  <2>4. CASE f # h
    <3>1. l2[f] = l[f] /\ i \in 1 .. Len(l[f])
      BY <2>3, <2>4, <1>3
    <3> QED BY <2>2, <2>3, <2>4, <3>1
  <2>5. CASE f = h /\ i <= k
    <3>1. i \in 1 .. Len(l[h]) /\ i \in 1 .. k + m /\ 1 \in 1 .. k + m /\ i # k + m /\ i + 1 \in 1 .. k + m
          /\ (i # 1 => i - 1 \in 1 .. k + m)
      BY <2>5, <1>2, <1>3
    <3>2. /\ l2[h][i] = l[h][i] /\ l2[h][1] = l[h][1] /\ (i # 1 => l2[h][i - 1] = l[h][i - 1])
          /\ l2[h][i + 1] = IF i = k THEN l[g][1] ELSE l[h][i + 1]
      <4>1. i \in Int /\ i <= k /\ 1 <= k /\ (i # 1 => i - 1 <= k) /\ (i # k => i + 1 <= k) /\ k + 1 - k = 1 /\ ~(k + 1 <= k)
        BY <2>5, <3>1, <1>2
      <4> QED BY <3>1, <4>1, <1>3
    <3>3. /\ nx2[l[h][i]] = IF i = k THEN l[g][1] ELSE l[h][i + 1]
          /\ pv2[l[h][i]] = IF i = 1 THEN Null ELSE l[h][i - 1]
          /\ fs2[l[h][i]] = l[h][1]
      BY <2>2, <3>1, <1>2
    <3> QED BY <2>5, <3>1, <3>2, <3>3, <1>3
  <2>6. CASE f = h /\ i > k
    <3>1. i \in 1 .. k + m /\ i - k \in 1 .. Len(l[g]) /\ i # 1 /\ i - 1 \in 1 .. k + m /\ 1 \in 1 .. k + m
          /\ (i # k + m => i + 1 \in 1 .. k + m) /\ (i = k + m <=> i - k = m) /\ (i - k = 1 <=> i - 1 = k)
      BY <2>6, <1>2, <1>3
    <3>2. /\ l2[h][i] = l[g][i - k] /\ l2[h][1] = l[h][1]
          /\ l2[h][i - 1] = IF i - k = 1 THEN l[h][k] ELSE l[g][i - k - 1]
          /\ i # k + m => l2[h][i + 1] = l[g][i - k + 1]
      <4>1. i - 1 - k = i - k - 1 /\ i + 1 - k = i - k + 1
        BY <3>1, <1>2
      <4> QED BY <2>6, <3>1, <4>1, <1>2, <1>3
    <3>3. /\ nx2[l[g][i - k]] = IF i - k = m THEN Null ELSE l[g][i - k + 1]
          /\ pv2[l[g][i - k]] = IF i - k = 1 THEN l[h][k] ELSE l[g][i - k - 1]
          /\ fs2[l[g][i - k]] = l[h][1]
      <4>1. PICK j \in 1 .. Len(l[g]) : j = i - k
        BY <3>1
      <4>2. /\ nx2[l[g][j]] = IF j = m THEN Null ELSE l[g][j + 1]
            /\ pv2[l[g][j]] = IF j = 1 THEN l[h][k] ELSE l[g][j - 1]
            /\ fs2[l[g][j]] = l[h][1]
        BY <2>2, <1>2
      <4> QED BY <4>1, <4>2
    <3> QED BY <2>6, <3>1, <3>2, <3>3, <1>3
  <2> QED BY <2>4, <2>5, <2>6, <1>2, <1>3
<1>12. Pointed(l2, at2, hd2)
  <2> HIDE DEF l2, at2, hd2
  <2> SUFFICES ASSUME NEW f \in Handle
               PROVE  \/ at2[f] = 0 /\ Len(l2[f]) = 0 /\ hd2[f] = Null
                      \/ at2[f] \in 1 .. Len(l2[f]) /\ hd2[f] = l2[f][at2[f]]
    BY DEF Pointed
  <2>1. CASE f = h
    BY <2>1, <1>2, <1>3, <1>6
  <2>2. CASE f = g
    BY <2>2, <1>3, <1>6
  <2>3. CASE f # h /\ f # g
    BY <2>3, <1>1, <1>3, <1>6
  <2> QED BY <2>1, <2>2, <2>3
<1>13. Holds(l2, at2, lv, nx2, pv2, fs2, hd2)
  BY <1>3, <1>6, <1>7, <1>9, <1>10, <1>11, <1>12 DEF Holds, k
<1>14. ASSUME NEW lists, NEW places, NEW ahead, NEW back, NEW points,
              lists = l2, places = at2, ahead = nx2, back = pv2, points = hd2
       PROVE  Holds(lists, places, lv, ahead, back, fs2, points)
  <2> HIDE DEF l2, at2, nx2, pv2, hd2
  <2> QED BY <1>13, <1>14
<1> QED BY <1>14, Zenon DEF Puts, PutsTwo, k

LEMMA RemoveAtProperties ==
  ASSUME NEW s \in Seq(Node), NEW m, m = Len(s), NEW k \in 1 .. m
  PROVE  /\ RemoveAt(s, k) \in Seq(Node) /\ Len(RemoveAt(s, k)) = m - 1
         /\ \A i \in 1 .. m - 1 : RemoveAt(s, k)[i] = IF i < k THEN s[i] ELSE s[i + 1]
<1> DEFINE a == SubSeq(s, 1, k - 1)
           b == SubSeq(s, k + 1, m)
<1>1. m \in Nat /\ k \in Int /\ m \in Int /\ \A i \in 1 .. m : s[i] \in Node
  BY ElementOfSeq, LenProperties
<1>2. a \in Seq(Node) /\ Len(a) = k - 1 /\ \A i \in 1 .. k - 1 : a[i] = s[i]
  <2>1. /\ SubSeq(s, 1, k - 1) \in Seq(Node)
        /\ Len(SubSeq(s, 1, k - 1)) = IF 1 <= k - 1 THEN k - 1 - 1 + 1 ELSE 0
        /\ \A i \in 1 .. k - 1 - 1 + 1 : SubSeq(s, 1, k - 1)[i] = s[1 + i - 1]
    <3>1. \A i \in 1 .. k - 1 : s[i] \in Node
      BY <1>1
    <3>2. 1 \in Int /\ k - 1 \in Int
      BY <1>1
    <3> HIDE <1>1
    <3> QED BY <3>1, <3>2, SubSeqProperties
  <2> QED BY <2>1, <1>1
<1>3. b \in Seq(Node) /\ Len(b) = m - k /\ \A i \in 1 .. m - k : b[i] = s[k + i]
  <2>1. /\ SubSeq(s, k + 1, m) \in Seq(Node)
        /\ Len(SubSeq(s, k + 1, m)) = IF k + 1 <= m THEN m - (k + 1) + 1 ELSE 0
        /\ \A i \in 1 .. m - (k + 1) + 1 : SubSeq(s, k + 1, m)[i] = s[(k + 1) + i - 1]
    <3>1. \A i \in k + 1 .. m : s[i] \in Node
      BY <1>1
    <3>2. k + 1 \in Int /\ m \in Int
      BY <1>1
    <3> HIDE <1>1
    <3> QED BY <3>1, <3>2, SubSeqProperties
  <2>2. \A i \in 1 .. m - k : (k + 1) + i - 1 = k + i /\ m - (k + 1) + 1 = m - k
    BY <1>1
  <2> QED BY <2>1, <2>2, <1>1
<1> HIDE DEF a, b
<1>4. /\ a \o b \in Seq(Node) /\ Len(a \o b) = Len(a) + Len(b)
      /\ \A i \in 1 .. Len(a) + Len(b) : (a \o b)[i] = IF i <= Len(a) THEN a[i] ELSE b[i - Len(a)]
  BY <1>2, <1>3, ConcatProperties
<1>5. Len(a) + Len(b) = m - 1
  BY <1>1, <1>2, <1>3
<1>6. ASSUME NEW i \in 1 .. m - 1 PROVE (a \o b)[i] = IF i < k THEN s[i] ELSE s[i + 1]
  <2>1. (a \o b)[i] = IF i <= k - 1 THEN a[i] ELSE b[i - (k - 1)]
    BY <1>2, <1>4, <1>5
  <2>2. CASE i < k
    <3>1. i <= k - 1 /\ i \in 1 .. k - 1
      BY <2>2, <1>1
    <3> QED BY <2>1, <2>2, <3>1, <1>2
  <2>3. CASE ~(i < k)
    <3>1. ~(i <= k - 1) /\ i - (k - 1) \in 1 .. m - k /\ k + (i - (k - 1)) = i + 1
      BY <2>3, <1>1
    <3> QED BY <2>1, <2>3, <3>1, <1>3
  <2> QED BY <2>2, <2>3
<1>7. RemoveAt(s, k) = a \o b
  BY DEF RemoveAt, a, b
<1> QED BY <1>4, <1>5, <1>6, <1>7

LEMMA RemoveAtSeq ==
  \A s \in Seq(Node) : \A k \in 1 .. Len(s) :
    /\ RemoveAt(s, k) \in Seq(Node) /\ Len(RemoveAt(s, k)) = Len(s) - 1
    /\ \A i \in 1 .. Len(s) - 1 : RemoveAt(s, k)[i] = IF i < k THEN s[i] ELSE s[i + 1]
BY RemoveAtProperties

\* The node at the place of a handle is taken out and freed.
LEMMA DeleteHolds ==
  ASSUME NEW l, NEW at, NEW lv, NEW nx, NEW pv, NEW fs, NEW hd, Holds(l, at, lv, nx, pv, fs, hd),
         NEW h \in Handle, NEW k, k = at[h], NEW m, m = Len(l[h]), k # 0,
         NEW d, d = l[h][k],
         NEW nx2, NEW pv2, NEW fs2, TakesOut(l[h], k, m, d, nx, pv, fs, nx2, pv2, fs2)
  PROVE  \A lists, place, places, point, points :
           /\ Puts(l, h, RemoveAt(l[h], k), lists)
           /\ place = IF k = 1 /\ m > 1 THEN 1 ELSE k - 1
           /\ Puts(at, h, place, places)
           /\ point = IF k > 1 THEN l[h][k - 1] ELSE IF m > 1 THEN l[h][2] ELSE Null
           /\ Puts(hd, h, point, points)
           => Holds(lists, places, lv \ {d}, nx2, pv2, fs2, points)
<1> DEFINE l2 == [l EXCEPT ![h] = RemoveAt(l[h], k)]
           at2 == [at EXCEPT ![h] = IF k = 1 /\ m > 1 THEN 1 ELSE k - 1]
           hd2 == [hd EXCEPT ![h] = IF k > 1 THEN l[h][k - 1] ELSE IF m > 1 THEN l[h][2] ELSE Null]
<1>p. /\ nx2 \in [Node -> Pointer] /\ pv2 \in [Node -> Pointer] /\ fs2 \in [Node -> Pointer]
      /\ \A n \in Node : nx2[n] = IF n = d THEN Null ELSE IF k > 1 /\ n = l[h][k - 1] THEN nx[d] ELSE nx[n]
      /\ \A n \in Node : pv2[n] = IF n = d THEN Null ELSE IF k < m /\ n = l[h][k + 1] THEN pv[d] ELSE pv[n]
      /\ \A n \in Node : fs2[n] = IF n = d THEN Null
                                   ELSE IF k = 1 /\ n \in {l[h][i] : i \in 2 .. m} THEN l[h][2] ELSE fs[n]
  BY DEF TakesOut
<1>1. \A f \in Handle : /\ l[f] \in Seq(Node) /\ Len(l[f]) \in Nat
                        /\ \A i \in 1 .. Len(l[f]) : l[f][i] \in lv /\ l[f][i] \in Node /\ l[f][i] # Null
                        /\ hd[f] = Null => at[f] = 0 /\ Len(l[f]) = 0 /\ l[f] = <<>>
                        /\ hd[f] # Null => at[f] \in 1 .. Len(l[f]) /\ hd[f] = l[f][at[f]]
  BY HoldsFacts
<1>2. k \in 1 .. m /\ m \in Nat /\ k \in Int /\ hd[h] = d /\ d \in Node /\ d \in lv
  BY <1>1
<1>3. /\ l2 \in [Handle -> Seq(Node)] /\ Len(l2[h]) = m - 1
      /\ \A f \in Handle : f # h => l2[f] = l[f]
      /\ \A i \in 1 .. m - 1 : l2[h][i] = IF i < k THEN l[h][i] ELSE l[h][i + 1]
  <2>1. /\ RemoveAt(l[h], k) \in Seq(Node) /\ Len(RemoveAt(l[h], k)) = m - 1
        /\ \A i \in 1 .. m - 1 : RemoveAt(l[h], k)[i] = IF i < k THEN l[h][i] ELSE l[h][i + 1]
    <3>1. l[h] \in Seq(Node)
      BY <1>1
    <3>2. k \in 1 .. Len(l[h])
      BY <1>2
    <3> QED BY <3>1, <3>2, RemoveAtSeq
  <2>2. l \in [Handle -> Seq(Node)]
    BY DEF Holds
  <2>3. l2[h] = RemoveAt(l[h], k) /\ l2 \in [Handle -> Seq(Node)] /\ \A f \in Handle : f # h => l2[f] = l[f]
    BY <2>1, <2>2
  <2> HIDE DEF l2
  <2> QED BY <2>1, <2>3
<1>4. /\ hd \in [Handle -> Pointer] /\ at \in [Handle -> Nat] /\ Distinct(l) /\ Linked(l, nx, pv, fs)
      /\ lv \in SUBSET Node /\ \A n \in Node \ lv : nx[n] = Null
  BY DEF Holds, Heap
<1>5. /\ at2[h] = IF k = 1 /\ m > 1 THEN 1 ELSE k - 1
      /\ hd2[h] = IF k > 1 THEN l[h][k - 1] ELSE IF m > 1 THEN l[h][2] ELSE Null
      /\ \A f \in Handle : f # h => at2[f] = at[f] /\ hd2[f] = hd[f]
      /\ at2 \in [Handle -> Nat] /\ hd2 \in [Handle -> Pointer]
  <2>1. (IF k = 1 /\ m > 1 THEN 1 ELSE k - 1) \in Nat
    BY <1>2
  <2>2. (IF k > 1 THEN l[h][k - 1] ELSE IF m > 1 THEN l[h][2] ELSE Null) \in Pointer
    <3>1. (k > 1 => k - 1 \in 1 .. Len(l[h])) /\ (m > 1 => 2 \in 1 .. Len(l[h]))
      BY <1>2
    <3> QED BY <3>1, <1>1 DEF Pointer
  <2> QED BY <2>1, <2>2, <1>4
<1> HIDE DEF l2, at2, hd2
\* Where a node of the new lists was.
<1>6. ASSUME NEW f \in Handle, NEW i \in 1 .. Len(l2[f])
      PROVE  \E j \in 1 .. Len(l[f]) : /\ l2[f][i] = l[f][j] /\ ~(f = h /\ j = k) /\ j \in Int /\ i \in Int
                                       /\ j = IF f = h /\ ~(i < k) THEN i + 1 ELSE i
  <2>1. CASE f # h
    BY <2>1, <1>1, <1>3
  <2>2. CASE f = h
    <3>1. i \in 1 .. m - 1 /\ i \in Int
      BY <2>2, <1>2, <1>3
    <3>2. CASE i < k
      BY <2>2, <3>1, <3>2, <1>2, <1>3
    <3>3. CASE ~(i < k)
      <4>1. i + 1 \in 1 .. Len(l[f]) /\ i + 1 # k
        BY <2>2, <3>1, <3>3, <1>2
      <4> QED BY <2>2, <3>1, <3>3, <4>1, <1>2, <1>3
    <3> QED BY <3>2, <3>3
  <2> QED BY <2>1, <2>2
<1>7. \A f \in Handle : \A j \in 1 .. Len(l[f]) : l[f][j] = d <=> f = h /\ j = k
  <2>1. k \in 1 .. Len(l[h])
    BY <1>2
  <2> QED BY <2>1, <1>4 DEF Distinct
<1>8. Heap(lv \ {d}, nx2, pv2, fs2, hd2)
  <2>1. ASSUME NEW n \in Node \ (lv \ {d}) PROVE nx2[n] = Null
    <3>1. CASE n = d
      BY <1>p, <3>1
    <3>2. CASE n # d
      <4>1. n \notin lv
        BY <3>2
      <4>2. k > 1 => n # l[h][k - 1]
        <5>1. k > 1 => k - 1 \in 1 .. Len(l[h])
          BY <1>2
        <5> QED BY <4>1, <5>1, <1>1
      <4> QED BY <3>2, <4>1, <4>2, <1>4, <1>p
    <3> QED BY <3>1, <3>2
  <2> QED BY <1>p, <2>1, <1>4, <1>5 DEF Heap
<1>9. Covers(l2, lv \ {d})
  <2>1. ASSUME NEW f \in Handle, NEW i \in 1 .. Len(l2[f]) PROVE l2[f][i] \in lv \ {d}
    <3>1. PICK j \in 1 .. Len(l[f]) : l2[f][i] = l[f][j] /\ ~(f = h /\ j = k)
      BY <1>6
    <3> QED BY <3>1, <1>1, <1>7
  <2>2. ASSUME NEW n \in lv \ {d} PROVE \E f \in Handle : \E i \in 1 .. Len(l2[f]) : l2[f][i] = n
    <3>0. PICK f \in Handle : \E j \in 1 .. Len(l[f]) : l[f][j] = n
      BY DEF Holds, Covers
    <3>1. PICK j \in 1 .. Len(l[f]) : l[f][j] = n
      BY <3>0
    <3>2. CASE f # h
      BY <3>1, <3>2, <1>3
    <3>3. CASE f = h /\ j < k
      <4>1. j \in 1 .. m - 1
        BY <3>3, <1>2
      <4> QED BY <3>1, <3>3, <4>1, <1>3
    <3>4. CASE f = h /\ j > k
      <4>1. j - 1 \in 1 .. m - 1 /\ ~(j - 1 < k) /\ j - 1 + 1 = j
        BY <3>4, <1>2
      <4> QED BY <3>1, <3>4, <4>1, <1>3
    <3>5. f = h => j # k /\ j \in Int
      BY <3>1, <1>1, <1>7
    <3> QED BY <3>2, <3>3, <3>4, <3>5, <1>2
  <2> QED BY <2>1, <2>2 DEF Covers
<1>10. Distinct(l2)
  <2> SUFFICES ASSUME NEW g1 \in Handle, NEW g2 \in Handle, NEW i1 \in 1 .. Len(l2[g1]), NEW i2 \in 1 .. Len(l2[g2]),
                      l2[g1][i1] = l2[g2][i2]
               PROVE  g1 = g2 /\ i1 = i2
    BY DEF Distinct
  <2>1. PICK j1 \in 1 .. Len(l[g1]) : /\ l2[g1][i1] = l[g1][j1] /\ i1 \in Int /\ j1 \in Int
                                      /\ j1 = IF g1 = h /\ ~(i1 < k) THEN i1 + 1 ELSE i1
    BY <1>6
  <2>2. PICK j2 \in 1 .. Len(l[g2]) : /\ l2[g2][i2] = l[g2][j2] /\ i2 \in Int /\ j2 \in Int
                                      /\ j2 = IF g2 = h /\ ~(i2 < k) THEN i2 + 1 ELSE i2
    BY <1>6
  <2>3. l[g1][j1] = l[g2][j2]
    BY <2>1, <2>2
  <2>4. g1 = g2 /\ j1 = j2
    BY <2>3, <1>4 DEF Distinct
  <2> QED BY <2>1, <2>2, <2>4, <1>2
<1>11. Linked(l2, nx2, pv2, fs2)
  \* What becomes of the links of a node that stays.
  <2>1. ASSUME NEW e \in Handle, NEW j \in 1 .. Len(l[e]), ~(e = h /\ j = k)
        PROVE  /\ nx2[l[e][j]] = IF e = h /\ k > 1 /\ j = k - 1 THEN (IF k = m THEN Null ELSE l[h][k + 1])
                                 ELSE IF j = Len(l[e]) THEN Null ELSE l[e][j + 1]
               /\ pv2[l[e][j]] = IF e = h /\ k < m /\ j = k + 1 THEN (IF k = 1 THEN Null ELSE l[h][k - 1])
                                 ELSE IF j = 1 THEN Null ELSE l[e][j - 1]
               /\ fs2[l[e][j]] = IF e = h /\ k = 1 THEN l[h][2] ELSE l[e][1]
    <3>1. l[e][j] \in Node /\ l[e][j] # d
      BY <2>1, <1>1, <1>7
    <3>2. /\ nx[l[e][j]] = IF j = Len(l[e]) THEN Null ELSE l[e][j + 1]
          /\ pv[l[e][j]] = IF j = 1 THEN Null ELSE l[e][j - 1]
          /\ fs[l[e][j]] = l[e][1]
      BY <1>4 DEF Linked
    <3>3. nx[d] = (IF k = m THEN Null ELSE l[h][k + 1]) /\ pv[d] = IF k = 1 THEN Null ELSE l[h][k - 1]
      BY <1>2, <1>4 DEF Linked
    <3>4. k > 1 => (l[e][j] = l[h][k - 1] <=> e = h /\ j = k - 1)
      <4>1. k > 1 => k - 1 \in 1 .. Len(l[h])
        BY <1>2
      <4> QED BY <4>1, <1>4 DEF Distinct
    <3>5. k < m => (l[e][j] = l[h][k + 1] <=> e = h /\ j = k + 1)
      <4>1. k < m => k + 1 \in 1 .. Len(l[h])
        BY <1>2
      <4> QED BY <4>1, <1>4 DEF Distinct
    <3>6. k = 1 => (l[e][j] \in {l[h][i] : i \in 2 .. m} <=> e = h)
      <4> SUFFICES ASSUME k = 1 PROVE l[e][j] \in {l[h][i] : i \in 2 .. m} <=> e = h
        OBVIOUS
      <4>1. ASSUME e = h PROVE l[e][j] \in {l[h][i] : i \in 2 .. m}
        <5>1. j \in 2 .. m
          BY <2>1, <4>1, <1>2
        <5> QED BY <4>1, <5>1
      <4>2. ASSUME l[e][j] \in {l[h][i] : i \in 2 .. m} PROVE e = h
        <5>1. PICK i \in 2 .. m : l[e][j] = l[h][i]
          BY <4>2
        <5>2. i \in 1 .. Len(l[h])
          BY <1>2
        <5> QED BY <5>1, <5>2, <1>4 DEF Distinct
      <4> QED BY <4>1, <4>2
    <3>7. nx2[l[e][j]] = IF e = h /\ k > 1 /\ j = k - 1 THEN nx[d] ELSE nx[l[e][j]]
      BY <1>p, <3>1, <3>4
    <3>8. pv2[l[e][j]] = IF e = h /\ k < m /\ j = k + 1 THEN pv[d] ELSE pv[l[e][j]]
      BY <1>p, <3>1, <3>5
    <3>9. fs2[l[e][j]] = IF e = h /\ k = 1 THEN l[h][2] ELSE fs[l[e][j]]
      BY <1>p, <3>1, <3>6
    <3> QED BY <3>2, <3>3, <3>7, <3>8, <3>9
  <2> SUFFICES ASSUME NEW f \in Handle, NEW i \in 1 .. Len(l2[f])
               PROVE  /\ nx2[l2[f][i]] = IF i = Len(l2[f]) THEN Null ELSE l2[f][i + 1]
                      /\ pv2[l2[f][i]] = IF i = 1 THEN Null ELSE l2[f][i - 1]
                      /\ fs2[l2[f][i]] = l2[f][1]
    BY DEF Linked
  <2>2. PICK j \in 1 .. Len(l[f]) : /\ l2[f][i] = l[f][j] /\ ~(f = h /\ j = k) /\ j \in Int /\ i \in Int
                                    /\ j = IF f = h /\ ~(i < k) THEN i + 1 ELSE i
    BY <1>6
  <2>3. CASE f # h
    BY <2>1, <2>2, <2>3, <1>3
  <2>4. CASE f = h
    <3>1. /\ nx2[l[h][j]] = IF k > 1 /\ j = k - 1 THEN (IF k = m THEN Null ELSE l[h][k + 1])
                            ELSE IF j = m THEN Null ELSE l[h][j + 1]
          /\ pv2[l[h][j]] = IF k < m /\ j = k + 1 THEN (IF k = 1 THEN Null ELSE l[h][k - 1])
                            ELSE IF j = 1 THEN Null ELSE l[h][j - 1]
          /\ fs2[l[h][j]] = IF k = 1 THEN l[h][2] ELSE l[h][1]
      <4>1. j \in 1 .. Len(l[h]) /\ ~(h = h /\ j = k)
        BY <2>2, <2>4
      <4> HIDE <2>2
      <4>2. /\ nx2[l[h][j]] = IF h = h /\ k > 1 /\ j = k - 1 THEN (IF k = m THEN Null ELSE l[h][k + 1])
                              ELSE IF j = Len(l[h]) THEN Null ELSE l[h][j + 1]
            /\ pv2[l[h][j]] = IF h = h /\ k < m /\ j = k + 1 THEN (IF k = 1 THEN Null ELSE l[h][k - 1])
                              ELSE IF j = 1 THEN Null ELSE l[h][j - 1]
            /\ fs2[l[h][j]] = IF h = h /\ k = 1 THEN l[h][2] ELSE l[h][1]
        BY <2>1, <4>1
      <4> QED BY <4>2
    <3>2. i \in 1 .. m - 1 /\ l2[h][i] = l[h][j]
      BY <2>2, <2>4, <1>3
    <3>3. i # m - 1 => l2[h][i + 1] = IF i + 1 < k THEN l[h][i + 1] ELSE l[h][i + 1 + 1]
      <4>1. i # m - 1 => i + 1 \in 1 .. m - 1
        BY <3>2, <1>2
      <4> QED BY <4>1, <1>3
    <3>4. i # 1 => l2[h][i - 1] = IF i - 1 < k THEN l[h][i - 1] ELSE l[h][i - 1 + 1]
      <4>1. i # 1 => i - 1 \in 1 .. m - 1
        BY <3>2, <1>2
      <4> QED BY <4>1, <1>3
    <3>5. l2[h][1] = IF 1 < k THEN l[h][1] ELSE l[h][2]
      <4>1. 1 \in 1 .. m - 1 /\ 1 + 1 = 2
        BY <3>2, <1>2
      <4> QED BY <4>1, <1>3
    <3>6. nx2[l2[h][i]] = IF i = m - 1 THEN Null ELSE l2[h][i + 1]
      <4>0. /\ i \in Int /\ k \in Int /\ m \in Int /\ j = IF i < k THEN i ELSE i + 1
            /\ nx2[l2[h][i]] = IF k > 1 /\ j = k - 1 THEN (IF k = m THEN Null ELSE l[h][k + 1])
                               ELSE IF j = m THEN Null ELSE l[h][j + 1]
        BY <2>2, <2>4, <3>1, <3>2, <1>2
      <4>1. CASE i < k - 1
        BY <4>0, <4>1, <3>2, <3>3, <1>2
      <4>2. CASE i = k - 1
        BY <4>0, <4>2, <3>2, <3>3, <1>2
      <4>3. CASE i > k - 1
        BY <4>0, <4>3, <3>2, <3>3, <1>2
      <4>4. i < k - 1 \/ i = k - 1 \/ i > k - 1
        BY <3>2, <1>2
      <4> QED BY <4>1, <4>2, <4>3, <4>4
    <3>7. pv2[l2[h][i]] = IF i = 1 THEN Null ELSE l2[h][i - 1]
      <4>1. CASE i < k
        BY <4>1, <2>2, <2>4, <3>1, <3>2, <3>4, <1>2
      <4>2. CASE i = k
        BY <4>2, <2>2, <2>4, <3>1, <3>2, <3>4, <1>2
      <4>3. CASE i > k
        BY <4>3, <2>2, <2>4, <3>1, <3>2, <3>4, <1>2
      <4> QED BY <4>1, <4>2, <4>3, <3>2, <1>2
    <3>8. fs2[l2[h][i]] = l2[h][1]
      BY <3>1, <3>2, <3>5, <1>2
    <3> QED BY <2>4, <3>6, <3>7, <3>8, <1>3
  <2> QED BY <2>3, <2>4
<1>12. Pointed(l2, at2, hd2)
  <2> SUFFICES ASSUME NEW f \in Handle
               PROVE  \/ at2[f] = 0 /\ Len(l2[f]) = 0 /\ hd2[f] = Null
                      \/ at2[f] \in 1 .. Len(l2[f]) /\ hd2[f] = l2[f][at2[f]]
    BY DEF Pointed
  <2>1. CASE f = h /\ k > 1
    <3>1. k - 1 \in 1 .. m - 1 /\ k - 1 < k
      BY <2>1, <1>2
    <3>2. at2[h] = k - 1 /\ hd2[h] = l[h][k - 1]
      BY <2>1, <1>2, <1>5
    <3> QED BY <2>1, <3>1, <3>2, <1>3
  <2>2. CASE f = h /\ k = 1 /\ m > 1
    <3>1. 1 \in 1 .. m - 1 /\ ~(1 < k) /\ 1 + 1 = 2
      BY <2>2, <1>2
    <3>2. at2[h] = 1 /\ hd2[h] = l[h][2]
      BY <2>2, <1>5
    <3> QED BY <2>2, <3>1, <3>2, <1>3
  <2>3. CASE f = h /\ k = 1 /\ m = 1
    <3>1. at2[h] = k - 1 /\ hd2[h] = Null /\ k - 1 = 0 /\ m - 1 = 0
      BY <2>3, <1>2, <1>5
    <3> QED BY <2>3, <3>1, <1>3
  <2>4. CASE f # h
    <3>1. \/ at[f] = 0 /\ Len(l[f]) = 0 /\ hd[f] = Null
          \/ at[f] \in 1 .. Len(l[f]) /\ hd[f] = l[f][at[f]]
      BY DEF Holds, Pointed
    <3> QED BY <2>4, <3>1, <1>3, <1>5
  <2>5. k > 1 \/ (k = 1 /\ m > 1) \/ (k = 1 /\ m = 1)
    <3>1. \A x \in Nat : \A y \in 1 .. x : y > 1 \/ (y = 1 /\ x > 1) \/ (y = 1 /\ x = 1)
      OBVIOUS
    <3> QED BY <3>1, <1>2
  <2> QED BY <2>1, <2>2, <2>3, <2>4, <2>5
<1>13. Holds(l2, at2, lv \ {d}, nx2, pv2, fs2, hd2)
  BY <1>3, <1>5, <1>8, <1>9, <1>10, <1>11, <1>12 DEF Holds
<1>14. ASSUME NEW lists, NEW places, NEW points, lists = l2, places = at2, points = hd2
       PROVE  Holds(lists, places, lv \ {d}, nx2, pv2, fs2, points)
  BY <1>13, <1>14
<1> QED BY <1>14, Zenon DEF Puts, l2, at2, hd2

-----------------------------------------------------------------------------
(* What the links of a heap lead to. *)

\* c is s from place k on.
EndsAs(c, s, k) ==
  /\ c \in Seq(Node) /\ Len(c) = Len(s) - k + 1
  /\ \A i \in 1 .. Len(s) - k + 1 : c[i] = s[k + i - 1]

LEMMA SuffixChain ==
  ASSUME NEW l, NEW at, NEW lv, NEW nx, NEW pv, NEW fs, NEW hd, Holds(l, at, lv, nx, pv, fs, hd),
         NEW h \in Handle, NEW k \in 1 .. Len(l[h])
  PROVE  EndsAs(Chain(nx, l[h][k]), l[h], k)
<1> SUFFICES ASSUME NEW m, m = Len(l[h]), k \in 1 .. m
             PROVE  EndsAs(Chain(nx, l[h][k]), l[h], k)
  OBVIOUS
<1> DEFINE s == SubSeq(l[h], k, m)
<1>1. m \in Nat /\ k \in Int /\ m \in Int /\ \A i \in 1 .. m : l[h][i] \in Node
  BY HoldsFacts
<1>2. s \in Seq(Node) /\ Len(s) = m - k + 1 /\ \A i \in 1 .. m - k + 1 : s[i] = l[h][k + i - 1]
  <2>1. \A i \in k .. m : l[h][i] \in Node
    BY <1>1
  <2>2. \A t : (\A i \in k .. m : t[i] \in Node) =>
          /\ SubSeq(t, k, m) \in Seq(Node)
          /\ Len(SubSeq(t, k, m)) = IF k <= m THEN m - k + 1 ELSE 0
          /\ \A i \in 1 .. m - k + 1 : SubSeq(t, k, m)[i] = t[k + i - 1]
    BY <1>1, SubSeqProperties
  <2> QED BY <2>1, <2>2, <1>1
<1> HIDE DEF s
<1>3. Path(nx, s)
  <2>1. s # <<>>
    BY <1>1, <1>2
  <2>2. ASSUME NEW i \in 1 .. Len(s), NEW j \in 1 .. Len(s), s[i] = s[j] PROVE i = j
    <3>1. k + i - 1 \in 1 .. Len(l[h]) /\ k + j - 1 \in 1 .. Len(l[h]) /\ l[h][k + i - 1] = l[h][k + j - 1]
      BY <2>2, <1>1, <1>2
    <3>2. k + i - 1 = k + j - 1
      BY <3>1 DEF Holds, Distinct
    <3> QED BY <3>2, <1>1, <1>2
  <2>3. ASSUME NEW i \in 1 .. Len(s) PROVE nx[s[i]] = IF i = Len(s) THEN Null ELSE s[i + 1]
    <3>1. k + i - 1 \in 1 .. Len(l[h]) /\ s[i] = l[h][k + i - 1] /\ (k + i - 1 = m <=> i = Len(s))
      BY <1>1, <1>2
    <3>2. nx[l[h][k + i - 1]] = IF k + i - 1 = m THEN Null ELSE l[h][k + i - 1 + 1]
      <4>1. PICK j \in 1 .. Len(l[h]) : j = k + i - 1
        BY <3>1
      <4>2. nx[l[h][j]] = IF j = m THEN Null ELSE l[h][j + 1]
        BY DEF Holds, Linked
      <4> QED BY <4>1, <4>2
    <3>3. i # Len(s) => s[i + 1] = l[h][k + i - 1 + 1]
      <4>1. \A x, y \in Int : x + (y + 1) - 1 = x + y - 1 + 1
        OBVIOUS
      <4>2. i \in Int /\ k + (i + 1) - 1 = k + i - 1 + 1
        BY <4>1, <1>1, <1>2
      <4>3. i # Len(s) => i + 1 \in 1 .. m - k + 1
        <5>1. \A x \in Int : \A y \in 1 .. x : y # x => y + 1 \in 1 .. x
          OBVIOUS
        <5>2. Len(s) \in Int
          BY <1>1, <1>2
        <5> QED BY <5>1, <5>2, <1>2
      <4>4. i # Len(s) => s[i + 1] = l[h][k + (i + 1) - 1]
        BY <4>3, <1>2
      <4> QED BY <4>2, <4>4
    <3> QED BY <3>1, <3>2, <3>3
  <2> QED BY <2>1, <2>2, <2>3, <1>2 DEF Path
<1>4. s[1] = l[h][k]
  <2>1. 1 \in 1 .. m - k + 1 /\ k + 1 - 1 = k
    BY <1>1
  <2> QED BY <2>1, <1>2
<1>5. Chain(nx, s[1]) = s
  BY <1>3, ChainIsPath
<1> QED BY <1>2, <1>4, <1>5 DEF EndsAs

\* The whole list is reached from its first node, and its end from any.
LEMMA HoldsChain ==
  ASSUME NEW l, NEW at, NEW lv, NEW nx, NEW pv, NEW fs, NEW hd, Holds(l, at, lv, nx, pv, fs, hd),
         NEW h \in Handle, hd[h] # Null
  PROVE  /\ fs[hd[h]] = l[h][1] /\ Chain(nx, l[h][1]) = l[h]
         /\ Last(Chain(nx, hd[h])) = l[h][Len(l[h])]
<1>1. /\ l[h] \in Seq(Node) /\ Len(l[h]) \in Nat /\ at[h] \in 1 .. Len(l[h]) /\ hd[h] = l[h][at[h]]
  BY HoldsFacts
<1>2. fs[hd[h]] = l[h][1]
  BY <1>1 DEF Holds, Linked
<1>3. Chain(nx, l[h][1]) = l[h]
  <2>1. 1 \in 1 .. Len(l[h])
    BY <1>1
  <2>2. /\ Chain(nx, l[h][1]) \in Seq(Node) /\ Len(Chain(nx, l[h][1])) = Len(l[h]) - 1 + 1
        /\ \A i \in 1 .. Len(l[h]) - 1 + 1 : Chain(nx, l[h][1])[i] = l[h][1 + i - 1]
    BY <2>1, SuffixChain DEF EndsAs
  <2>3. /\ Len(Chain(nx, l[h][1])) = Len(l[h])
        /\ \A i \in 1 .. Len(l[h]) : Chain(nx, l[h][1])[i] = l[h][i]
    BY <2>2, <1>1
  <2> QED BY <2>2, <2>3, <1>1, SeqEqual
<1>4. Last(Chain(nx, hd[h])) = l[h][Len(l[h])]
  <2>1. /\ Len(Chain(nx, l[h][at[h]])) = Len(l[h]) - at[h] + 1
        /\ \A i \in 1 .. Len(l[h]) - at[h] + 1 : Chain(nx, l[h][at[h]])[i] = l[h][at[h] + i - 1]
    <3>0. PICK m : m = Len(l[h])
      OBVIOUS
    <3>1. PICK k \in 1 .. m : k = at[h]
      BY <1>1, <3>0
    <3>2. /\ Chain(nx, l[h][k]) \in Seq(Node) /\ Len(Chain(nx, l[h][k])) = m - k + 1
          /\ \A i \in 1 .. m - k + 1 : Chain(nx, l[h][k])[i] = l[h][k + i - 1]
      <4>1. EndsAs(Chain(nx, l[h][k]), l[h], k)
        BY <3>0, SuffixChain
      <4> QED BY <3>0, <4>1 DEF EndsAs
    <3> QED BY <3>0, <3>1, <3>2
  <2>2. /\ Len(l[h]) - at[h] + 1 \in 1 .. Len(l[h]) - at[h] + 1
        /\ at[h] + (Len(l[h]) - at[h] + 1) - 1 = Len(l[h])
    <3>1. \A x \in Nat : \A y \in 1 .. x : x - y + 1 \in 1 .. x - y + 1 /\ y + (x - y + 1) - 1 = x
      OBVIOUS
    <3> QED BY <3>1, <1>1
  <2> QED BY <2>1, <2>2, <1>1 DEF Last
<1> QED BY <1>2, <1>3, <1>4

ListIn(nx, fs, hd, h)  == IF hd[h] = Null THEN <<>> ELSE Chain(nx, fs[hd[h]])
PlaceIn(nx, fs, hd, h) == IF hd[h] = Null THEN 0
                          ELSE CHOOSE i \in DOMAIN ListIn(nx, fs, hd, h) : ListIn(nx, fs, hd, h)[i] = hd[h]

\* The lists that a heap holds are those found in it, and so are the places.
LEMMA HoldsLists ==
  ASSUME NEW l, NEW at, NEW lv, NEW nx, NEW pv, NEW fs, NEW hd, Holds(l, at, lv, nx, pv, fs, hd)
  PROVE  /\ l = [h \in Handle |-> ListIn(nx, fs, hd, h)]
         /\ at = [h \in Handle |-> PlaceIn(nx, fs, hd, h)]
<1>1. ASSUME NEW h \in Handle PROVE ListIn(nx, fs, hd, h) = l[h]
  <2>1. CASE hd[h] = Null
    BY <2>1, HoldsFacts DEF ListIn
  <2>2. CASE hd[h] # Null
    BY <2>2, HoldsChain DEF ListIn
  <2> QED BY <2>1, <2>2
<1>2. ASSUME NEW h \in Handle PROVE PlaceIn(nx, fs, hd, h) = at[h]
  <2>1. CASE hd[h] = Null
    BY <2>1, HoldsFacts DEF PlaceIn
  <2>2. CASE hd[h] # Null
    <3>1. at[h] \in 1 .. Len(l[h]) /\ hd[h] = l[h][at[h]] /\ DOMAIN l[h] = 1 .. Len(l[h])
      BY <2>2, HoldsFacts, LenProperties
    <3>2. \A i \in DOMAIN l[h] : l[h][i] = hd[h] <=> i = at[h]
      BY <3>1 DEF Holds, Distinct
    <3>3. PlaceIn(nx, fs, hd, h) = CHOOSE i \in DOMAIN l[h] : l[h][i] = hd[h]
      BY <2>2, <1>1 DEF PlaceIn
    <3> QED BY <3>1, <3>2, <3>3
  <2> QED BY <2>1, <2>2
<1>3. l \in [Handle -> Seq(Node)] /\ at \in [Handle -> Nat]
  BY DEF Holds
<1> QED BY <1>1, <1>2, <1>3

-----------------------------------------------------------------------------
(* The lists of the state. *)

Lists  == [h \in Handle |-> ListOf(h)]
Places == [h \in Handle |-> Place(h)]

\* The heap holds the lists of the handles, each with its place.
IInv == Holds(Lists, Places, live, next, prev, first, handle)

LEMMA ListsAre ==
  ASSUME NEW l, NEW at, Holds(l, at, live, next, prev, first, handle)
  PROVE  l = Lists /\ at = Places
<1>1. \A h \in Handle : ListOf(h) = ListIn(next, first, handle, h) /\ Place(h) = PlaceIn(next, first, handle, h)
  BY DEF ListOf, Place, ListIn, PlaceIn
<1> QED BY <1>1, HoldsLists DEF Lists, Places

LEMMA ListsWillBe ==
  ASSUME NEW l, NEW at, Holds(l, at, live', next', prev', first', handle')
  PROVE  l = Lists' /\ at = Places' /\ IInv'
<1>1. \A h \in Handle : ListOf(h)' = ListIn(next', first', handle', h) /\ Place(h)' = PlaceIn(next', first', handle', h)
  BY DEF ListOf, Place, ListIn, PlaceIn
<1>2. l = Lists' /\ at = Places'
  BY <1>1, HoldsLists DEF Lists, Places
<1> QED BY <1>2 DEF IInv

\* The lists of the abstract specification are those of the heap.
LEMMA UsedIsLive == ASSUME IInv PROVE Promised!Used = live /\ NothingLost
<1>1. \A h \in Handle : [f \in Handle |-> ListOf(f)][h] = Lists[h] /\ [f \in Handle |-> ListOf(f)] = Lists
  BY DEF Lists
<1>2. Promised!Used = UNION {ToSet(Lists[h]) : h \in Handle}
  <2>1. Promised!Used = UNION {ToSet([f \in Handle |-> ListOf(f)][h]) : h \in Handle}
    BY DEF Promised!Used, Promised!ToSet, ToSet
  <2>2. {ToSet([f \in Handle |-> ListOf(f)][h]) : h \in Handle} = {ToSet(Lists[h]) : h \in Handle}
    BY DEF Lists
  <2> QED BY <2>1, <2>2
<1>3. \A h \in Handle : ToSet(Lists[h]) = {Lists[h][i] : i \in 1 .. Len(Lists[h])}
  BY HoldsFacts, LenProperties DEF IInv, ToSet
<1>4. ASSUME NEW n \in Promised!Used PROVE n \in live
  <2>1. PICK S \in {ToSet(Lists[h]) : h \in Handle} : n \in S
    BY <1>2
  <2>2. PICK h \in Handle : S = ToSet(Lists[h])
    BY <2>1
  <2>3. PICK i \in 1 .. Len(Lists[h]) : n = Lists[h][i]
    BY <1>3, <2>1, <2>2
  <2> QED BY <2>3, HoldsFacts DEF IInv
<1>5. ASSUME NEW n \in live PROVE n \in Promised!Used
  <2>1. PICK h \in Handle : \E i \in 1 .. Len(Lists[h]) : Lists[h][i] = n
    BY DEF IInv, Holds, Covers
  <2>2. n \in ToSet(Lists[h])
    BY <1>3, <2>1
  <2> QED BY <1>2, <2>2
<1>6. Promised!Used = live
  BY <1>4, <1>5
<1>7. {ToSet(Lists[h]) : h \in Handle} = {ToSet(ListOf(h)) : h \in Handle}
  BY DEF Lists
<1> QED BY <1>2, <1>6, <1>7 DEF NothingLost

\* A step of the lists, as the abstract specification has it.
LEMMA Sets ==
  ASSUME NEW h \in Handle, NEW s, NEW i, Puts(Lists, h, s, Lists'), Puts(Places, h, i, Places')
  PROVE  Promised!Set(h, s, i)
BY DEF Promised!Set, Puts, Lists, Places

\* Each operation keeps the lists, and changes them as is promised.
LEMMA AppendStep == ASSUME IInv, NEW h \in Handle, AppendItem(h) PROVE IInv' /\ Promised!AppendItem(h)
<1> SUFFICES ASSUME NEW l, l = Lists, NEW at, at = Places,
                    Holds(l, at, live, next, prev, first, handle)
             PROVE  IInv' /\ Promised!AppendItem(h)
  BY DEF IInv
<1>1. PICK n \in Node \ live :
        /\ handle[h] # Null => next[handle[h]] = Null
        /\ live' = live \cup {n}
        /\ next' = IF handle[h] = Null THEN next ELSE [next EXCEPT ![handle[h]] = n]
        /\ prev' = [prev EXCEPT ![n] = handle[h]]
        /\ first' = [first EXCEPT ![n] = IF handle[h] = Null THEN n ELSE first[handle[h]]]
        /\ handle' = [handle EXCEPT ![h] = n]
  BY DEF AppendItem, Point
<1>2. PICK l2 : Puts(l, h, Append(l[h], n), l2)
  BY DEF Puts
<1>3. PICK at2 : Puts(at, h, at[h] + 1, at2)
  BY DEF Puts
<1>4. /\ live \in SUBSET Node /\ next \in [Node -> Pointer] /\ prev \in [Node -> Pointer]
      /\ first \in [Node -> Pointer] /\ handle[h] \in Pointer
  BY DEF Holds, Heap
<1>5. /\ next' \in [Node -> Pointer] /\ prev' \in [Node -> Pointer] /\ first' \in [Node -> Pointer]
      /\ \A x \in Node : next'[x] = IF x = handle[h] THEN n ELSE next[x]
      /\ \A x \in Node : prev'[x] = IF x = n THEN handle[h] ELSE prev[x]
      /\ \A x \in Node : first'[x] = IF x # n THEN first[x] ELSE IF handle[h] = Null THEN n ELSE first[handle[h]]
  BY <1>1, <1>4, DataAssumption DEF Pointer
<1>6. at[h] = Len(l[h]) /\ Holds(l2, at2, live', next', prev', first', handle')
  <2>1. Puts(handle, h, n, handle')
    BY <1>1 DEF Puts
  <2>2. PutsBehind(live, next, prev, first, handle[h], n, live', next', prev', first')
    BY <1>1, <1>5 DEF PutsBehind
  <2>3. handle[h] # Null => next[handle[h]] = Null
    BY <1>1
  <2> QED BY <1>2, <1>3, <2>1, <2>2, <2>3, AppendHolds
<1>7. l2 = Lists' /\ at2 = Places' /\ IInv'
  BY <1>6, ListsWillBe
<1>8. n \in Node \ Promised!Used
  BY <1>1, UsedIsLive DEF IInv
<1>9. Promised!Set(h, Append(l[h], n), at[h] + 1)
  BY <1>2, <1>3, <1>7, Sets
<1>10. [f \in Handle |-> ListOf(f)][h] = l[h] /\ [f \in Handle |-> Place(f)][h] = at[h]
  BY DEF Lists, Places
<1> QED BY <1>6, <1>7, <1>8, <1>9, <1>10 DEF Promised!AppendItem

LEMMA FirstStep == ASSUME IInv, NEW h \in Handle, GetFirst(h) PROVE IInv' /\ Promised!GetFirst(h)
<1> SUFFICES ASSUME NEW l, l = Lists, NEW at, at = Places,
                    Holds(l, at, live, next, prev, first, handle)
             PROVE  IInv' /\ Promised!GetFirst(h)
  BY DEF IInv
<1>1. /\ handle[h] # Null /\ handle' = [handle EXCEPT ![h] = first[handle[h]]]
      /\ live' = live /\ next' = next /\ prev' = prev /\ first' = first
  BY DEF GetFirst, Point, heap
<1>2. PICK at2 : Puts(at, h, 1, at2)
  BY DEF Puts
<1>3. first[handle[h]] = l[h][1] /\ at[h] # 0 /\ 1 \in 1 .. Len(l[h])
  BY <1>1, HoldsChain, HoldsFacts
<1>4. Puts(handle, h, l[h][1], handle')
  BY <1>1, <1>3 DEF Puts
<1>5. Holds(l, at2, live', next', prev', first', handle')
  <2>1. Holds(l, at2, live, next, prev, first, handle')
    BY <1>2, <1>3, <1>4, MoveHolds
  <2> QED BY <2>1, <1>1
<1>6. l = Lists' /\ at2 = Places' /\ IInv'
  BY <1>5, ListsWillBe
<1>7. Puts(l, h, l[h], l)
  BY DEF Holds, Puts
<1>8. Promised!Set(h, l[h], 1)
  BY <1>2, <1>6, <1>7, Sets
<1>9. [f \in Handle |-> ListOf(f)][h] = l[h] /\ [f \in Handle |-> Place(f)][h] = at[h]
  BY DEF Lists, Places
<1> QED BY <1>3, <1>6, <1>8, <1>9 DEF Promised!GetFirst

LEMMA FreeStep == ASSUME IInv, NEW h \in Handle, Free(h) PROVE IInv' /\ Promised!Free(h)
<1> SUFFICES ASSUME NEW l, l = Lists, NEW at, at = Places,
                    Holds(l, at, live, next, prev, first, handle)
             PROVE  IInv' /\ Promised!Free(h)
  BY DEF IInv
<1>1. handle[h] # Null
  BY DEF Free
<1>2. PICK gone : gone = ToSet(l[h])
  OBVIOUS
<1>3. FreedWith(handle[h]) = l[h] /\ at[h] # 0
  BY <1>1, HoldsChain, HoldsFacts DEF FreedWith
<1>4. /\ live' = live \ gone /\ next' = Without(next, gone) /\ prev' = Without(prev, gone)
      /\ first' = Without(first, gone) /\ Puts(handle, h, Null, handle')
  BY <1>2, <1>3 DEF Free, FreeNodes, Point, Puts
<1>5. PICK l2 : Puts(l, h, <<>>, l2)
  BY DEF Puts
<1>6. PICK at2 : Puts(at, h, 0, at2)
  BY DEF Puts
<1>7. Holds(l2, at2, live', next', prev', first', handle')
  <2>1. Holds(l2, at2, live \ gone, Without(next, gone), Without(prev, gone), Without(first, gone), handle')
    BY <1>2, <1>4, <1>5, <1>6, FreeHolds
  <2> QED BY <2>1, <1>4
<1>8. l2 = Lists' /\ at2 = Places' /\ IInv'
  BY <1>7, ListsWillBe
<1>9. Promised!Set(h, <<>>, 0)
  BY <1>5, <1>6, <1>8, Sets
<1>10. [f \in Handle |-> Place(f)][h] = at[h]
  BY DEF Places
<1> QED BY <1>3, <1>8, <1>9, <1>10 DEF Promised!Free

LEMMA GetNextStep == ASSUME IInv, NEW h \in Handle, GetNext(h) PROVE IInv' /\ Promised!GetNext(h)
<1> SUFFICES ASSUME NEW l, l = Lists, NEW at, at = Places,
                    Holds(l, at, live, next, prev, first, handle)
             PROVE  IInv' /\ Promised!GetNext(h)
  BY DEF IInv
<1>1. PICK k : k = at[h]
  OBVIOUS
<1>2. handle[h] # Null
  BY DEF GetNext
<1>3. k \in 1 .. Len(l[h]) /\ Len(l[h]) \in Nat /\ k # 0 /\ handle[h] = l[h][k]
  BY <1>1, <1>2, HoldsFacts
<1>4. next[handle[h]] = IF k = Len(l[h]) THEN Null ELSE l[h][k + 1]
  BY <1>3 DEF Holds, Linked
<1>5. [f \in Handle |-> ListOf(f)][h] = l[h] /\ [f \in Handle |-> Place(f)][h] = k
  BY <1>1 DEF Lists, Places
<1>6. CASE next[handle[h]] # Null
  <2>1. /\ handle' = [handle EXCEPT ![h] = next[handle[h]]]
        /\ live' = live /\ next' = next /\ prev' = prev /\ first' = first
    BY <1>6 DEF GetNext, Point, heap
  <2>2. k < Len(l[h]) /\ k + 1 \in 1 .. Len(l[h]) /\ Puts(handle, h, l[h][k + 1], handle')
    <3>1. next[handle[h]] = l[h][k + 1] /\ k # Len(l[h])
      BY <1>4, <1>6
    <3>2. Puts(handle, h, l[h][k + 1], handle')
      BY <2>1, <3>1 DEF Puts
    <3>3. k < Len(l[h]) /\ k + 1 \in 1 .. Len(l[h])
      BY <1>3, <3>1
    <3> QED BY <3>2, <3>3
  <2>3. PICK at2 : Puts(at, h, k + 1, at2)
    BY DEF Puts
  <2>4. Holds(l, at2, live', next', prev', first', handle')
    <3>1. PICK j \in 1 .. Len(l[h]) : j = k + 1
      BY <2>2
    <3>2. Holds(l, at2, live, next, prev, first, handle')
      BY <2>2, <2>3, <3>1, MoveHolds
    <3> QED BY <3>2, <2>1
  <2>5. l = Lists' /\ at2 = Places' /\ IInv'
    BY <2>4, ListsWillBe
  <2>6. Puts(l, h, l[h], l)
    BY DEF Holds, Puts
  <2>7. Promised!Set(h, l[h], k + 1)
    BY <2>3, <2>5, <2>6, Sets
  <2> QED BY <1>3, <1>5, <2>2, <2>5, <2>7 DEF Promised!GetNext
<1>7. CASE next[handle[h]] = Null
  <2>1. Free(h)
    BY <1>7 DEF GetNext
  <2>2. IInv' /\ Promised!Free(h)
    BY <2>1, FreeStep
  <2>3. Promised!Set(h, <<>>, 0)
    BY <2>2 DEF Promised!Free
  <2>4. k = Len(l[h])
    <3> SUFFICES ASSUME k # Len(l[h]) PROVE FALSE
      OBVIOUS
    <3>1. k + 1 \in 1 .. Len(l[h])
      BY <1>3
    <3>2. l[h][k + 1] # Null
      BY <3>1, HoldsFacts
    <3> QED BY <1>4, <1>7, <3>2
  <2> QED BY <1>3, <1>5, <2>2, <2>3, <2>4 DEF Promised!GetNext
<1> QED BY <1>6, <1>7

\* A step of two lists, as the abstract specification has it.
LEMMA SetsTwo ==
  ASSUME NEW h \in Handle, NEW g \in Handle, h # g,
         PutsTwo(Lists, h, Lists[h] \o Lists[g], g, <<>>, Lists'),
         NEW p, p = IF Places[h] = 0 THEN Places[g] ELSE IF Places[g] = 0 THEN Places[h] ELSE 1,
         PutsTwo(Places, g, 0, h, p, Places')
  PROVE  Promised!Concatenate(h, g)
<1>1. /\ Lists' = [Lists EXCEPT ![h] = Lists[h] \o Lists[g], ![g] = <<>>]
      /\ Places' = [Places EXCEPT ![g] = 0, ![h] = p]
  BY DEF PutsTwo
<1>2. /\ Lists' = [Lists EXCEPT ![h] = Lists[h] \o Lists[g], ![g] = <<>>]
      /\ Places' = [Places EXCEPT ![g] = 0, ![h] = IF Places[h] = 0 THEN Places[g]
                                                   ELSE IF Places[g] = 0 THEN Places[h] ELSE 1]
  BY <1>1
<1> QED BY <1>2, Zenon DEF Promised!Concatenate, Lists, Places

LEMMA ConcatenateStep ==
  ASSUME IInv, NEW h \in Handle, NEW g \in Handle, Concatenate(h, g) PROVE IInv' /\ Promised!Concatenate(h, g)
<1> SUFFICES ASSUME NEW l, l = Lists, NEW at, at = Places,
                    Holds(l, at, live, next, prev, first, handle)
             PROVE  IInv' /\ Promised!Concatenate(h, g)
  BY DEF IInv
<1>1. h # g
  BY DEF Concatenate
<1>2. PICK p : p = IF at[h] = 0 THEN at[g] ELSE IF at[g] = 0 THEN at[h] ELSE 1
  OBVIOUS
<1>3. PICK l2 : PutsTwo(l, h, l[h] \o l[g], g, <<>>, l2)
  BY DEF PutsTwo
<1>4. PICK at2 : PutsTwo(at, g, 0, h, p, at2)
  BY DEF PutsTwo
<1>5. Holds(l2, at2, live', next', prev', first', handle')
  <2>1. CASE handle[h] = Null \/ handle[g] = Null
    <3>1. PICK q : q = IF handle[h] = Null THEN handle[g] ELSE handle[h]
      OBVIOUS
    <3>2. /\ PutsTwo(handle, h, q, g, Null, handle')
          /\ live' = live /\ next' = next /\ prev' = prev /\ first' = first
      BY <2>1, <3>1 DEF Concatenate, heap, PutsTwo
    <3>3. Holds(l2, at2, live, next, prev, first, handle')
      BY <1>1, <1>2, <1>3, <1>4, <2>1, <3>1, <3>2, TakeHolds
    <3> QED BY <3>2, <3>3
  <2>2. CASE handle[h] # Null /\ handle[g] # Null
    <3>1. /\ first[handle[h]] = l[h][1] /\ Last(Chain(next, handle[h])) = l[h][Len(l[h])]
          /\ first[handle[g]] = l[g][1] /\ Chain(next, l[g][1]) = l[g]
      BY <2>2, HoldsChain
    <3>2. PICK fs2 : fs2 = [n \in Node |-> IF n \in ToSet(l[g]) THEN l[h][1] ELSE first[n]]
      OBVIOUS
    <3>3. /\ Puts(next, l[h][Len(l[h])], l[g][1], next') /\ Puts(prev, l[g][1], l[h][Len(l[h])], prev')
          /\ PutsTwo(handle, h, l[h][1], g, Null, handle')
          /\ live' = live
      BY <2>2, <3>1 DEF Concatenate, Puts, PutsTwo
    <3>4. first' = fs2
      <4>1. \A n \in Node : FirstAfterJoin(n, l[h][1], l[g][1]) = IF n \in ToSet(l[g]) THEN l[h][1] ELSE first[n]
        BY <3>1 DEF FirstAfterJoin
      <4>2. first' = [n \in Node |-> FirstAfterJoin(n, l[h][1], l[g][1])]
        BY <2>2, <3>1 DEF Concatenate
      <4> QED BY <3>2, <4>1, <4>2
    <3>5. Holds(l2, at2, live, next', prev', fs2, handle')
      BY <1>1, <1>2, <1>3, <1>4, <2>2, <3>2, <3>3, JoinHolds
    <3> QED BY <3>3, <3>4, <3>5
  <2> QED BY <2>1, <2>2
<1>6. l2 = Lists' /\ at2 = Places' /\ IInv'
  BY <1>5, ListsWillBe
<1>7. Promised!Concatenate(h, g)
  BY <1>1, <1>2, <1>3, <1>4, <1>6, SetsTwo
<1> QED BY <1>6, <1>7

\* The links back lead from the node behind the removed one no further.
LEMMA StartChain ==
  ASSUME NEW pv \in [Node -> Pointer], NEW t \in Node, NEW back, Puts(pv, t, Null, back)
  PROVE  Last(Chain(back, t)) = t
<1>1. <<t>> \in Seq(Node) /\ Len(<<t>>) = 1 /\ <<t>>[1] = t /\ <<t>> # <<>>
  OBVIOUS
<1>2. back[t] = Null
  BY DEF Puts
<1>3. Path(back, <<t>>)
  BY <1>1, <1>2 DEF Path
<1>4. Chain(back, t) = <<t>>
  BY <1>1, <1>3, ChainIsPath
<1> QED BY <1>4 DEF Last

\* The nodes behind the first one.
Behind(s) == {s[i] : i \in 2 .. Len(s)}

LEMMA RestChain ==
  ASSUME NEW l, NEW at, NEW lv, NEW nx, NEW pv, NEW fs, NEW hd, Holds(l, at, lv, nx, pv, fs, hd),
         NEW h \in Handle, 2 \in 1 .. Len(l[h])
  PROVE  ToSet(Chain(nx, l[h][2])) = Behind(l[h])
<1>1. PICK m : m = Len(l[h])
  OBVIOUS
<1>2. m \in Nat /\ 2 \in 1 .. m
  BY <1>1, HoldsFacts
<1>3. PICK c : c = Chain(nx, l[h][2])
  OBVIOUS
<1>4. c \in Seq(Node) /\ Len(c) = m - 2 + 1 /\ \A i \in 1 .. m - 2 + 1 : c[i] = l[h][2 + i - 1]
  <2>1. PICK k \in 1 .. m : k = 2
    BY <1>2
  <2>2. /\ Chain(nx, l[h][k]) \in Seq(Node) /\ Len(Chain(nx, l[h][k])) = m - k + 1
        /\ \A i \in 1 .. m - k + 1 : Chain(nx, l[h][k])[i] = l[h][k + i - 1]
    <3>1. EndsAs(Chain(nx, l[h][k]), l[h], k)
      BY <1>1, SuffixChain
    <3> QED BY <1>1, <3>1 DEF EndsAs
  <2>3. Chain(nx, l[h][k]) = c
    BY <1>3, <2>1
  <2> QED BY <2>1, <2>2, <2>3
<1>5. ToSet(c) = {c[i] : i \in 1 .. m - 2 + 1}
  BY <1>4, LenProperties DEF ToSet
<1>6. ASSUME NEW x \in ToSet(c) PROVE \E i \in 2 .. m : x = l[h][i]
  <2>1. PICK i \in 1 .. m - 2 + 1 : x = c[i]
    BY <1>5, <1>6
  <2>2. x = l[h][2 + i - 1] /\ 2 + i - 1 \in 2 .. m
    BY <1>2, <1>4, <2>1
  <2> QED BY <2>2
<1>7. ASSUME NEW i \in 2 .. m PROVE l[h][i] \in ToSet(c)
  <2>1. PICK j \in 1 .. m - 2 + 1 : 2 + j - 1 = i
    <3>1. i - 1 \in 1 .. m - 2 + 1 /\ 2 + (i - 1) - 1 = i
      BY <1>2
    <3> QED BY <3>1
  <2>2. c[j] = l[h][i]
    BY <1>4, <2>1
  <2> QED BY <1>5, <2>2
<1> QED BY <1>1, <1>3, <1>6, <1>7 DEF Behind

LEMMA DeleteStep == ASSUME IInv, NEW h \in Handle, DeleteItem(h) PROVE IInv' /\ Promised!DeleteItem(h)
<1> SUFFICES ASSUME NEW l, l = Lists, NEW at, at = Places,
                    Holds(l, at, live, next, prev, first, handle)
             PROVE  IInv' /\ Promised!DeleteItem(h)
  BY DEF IInv
<1>1. PICK k : k = at[h]
  OBVIOUS
<1>2. PICK m : m = Len(l[h])
  OBVIOUS
<1>3. PICK d : d = l[h][k]
  OBVIOUS
<1>4. /\ handle[h] # Null /\ handle[h] = d /\ k \in 1 .. m /\ m \in Nat /\ k # 0 /\ k \in Int
      /\ \A i \in 1 .. m : l[h][i] \in Node /\ l[h][i] # Null
  <2>1. handle[h] # Null
    BY DEF DeleteItem
  <2> QED BY <2>1, <1>1, <1>2, <1>3, HoldsFacts
<1>5. /\ next[d] = IF k = m THEN Null ELSE l[h][k + 1]
      /\ prev[d] = IF k = 1 THEN Null ELSE l[h][k - 1]
      /\ first[d] = l[h][1]
  <2>1. Linked(l, next, prev, first)
    BY DEF Holds
  <2>2. k \in 1 .. Len(l[h])
    BY <1>2, <1>4
  <2> QED BY <1>2, <1>3, <2>1, <2>2 DEF Linked
<1>6. PICK temp : temp = IF prev[d] # Null THEN prev[d] ELSE next[d]
  OBVIOUS
<1>7. PICK ahead : ahead = IF prev[d] = Null THEN next ELSE [next EXCEPT ![prev[d]] = next[d]]
  OBVIOUS
<1>8. PICK back : back = BackLinks(d)
  OBVIOUS
<1>9. /\ live' = live \ {d} /\ next' = Without(ahead, {d}) /\ prev' = Without(back, {d})
      /\ Puts(handle, h, temp, handle')
      /\ first' = IF temp # Null /\ first[temp] = d
                  THEN [n \in Node |-> IF n \in {d} THEN Null
                                       ELSE IF n \in ToSet(Chain(ahead, Last(Chain(back, temp))))
                                            THEN Last(Chain(back, temp)) ELSE first[n]]
                  ELSE Without(first, {d})
  BY <1>4, <1>6, <1>7, <1>8 DEF DeleteItem, FreedByDelete, Point, Puts
<1>10. temp = IF k > 1 THEN l[h][k - 1] ELSE IF m > 1 THEN l[h][2] ELSE Null
  <2>1. k > 1 => k - 1 \in 1 .. m
    BY <1>4
  <2>2. k = 1 \/ k > 1
    BY <1>4
  <2>3. CASE k > 1
    BY <1>4, <1>5, <1>6, <2>1, <2>3
  <2>4. CASE k = 1
    <3>1. m > 1 \/ m = 1
      BY <1>4, <2>4
    <3> QED BY <1>4, <1>5, <1>6, <2>4, <3>1
  <2> QED BY <2>2, <2>3, <2>4
<1>11. TakesOut(l[h], k, m, d, next, prev, first, next', prev', first')
  <2>1. /\ next \in [Node -> Pointer] /\ prev \in [Node -> Pointer] /\ first \in [Node -> Pointer]
        /\ d \in Node /\ next[d] \in Pointer /\ prev[d] \in Pointer /\ Null \in Pointer
        /\ \A i \in 1 .. m : l[h][i] \in Node /\ l[h][i] # Null
    BY <1>3, <1>4 DEF Holds, Heap, Pointer
  <2>2. /\ ahead \in [Node -> Pointer]
        /\ \A n \in Node : ahead[n] = IF k > 1 /\ n = l[h][k - 1] THEN next[d] ELSE next[n]
    <3>1. CASE k = 1
      BY <1>5, <1>7, <2>1, <3>1
    <3>2. CASE k # 1
      <4>1. k > 1 /\ k - 1 \in 1 .. m
        BY <1>4, <3>2
      <4>2. prev[d] = l[h][k - 1] /\ prev[d] \in Node /\ prev[d] # Null
        BY <1>5, <2>1, <3>2, <4>1
      <4>3. ahead = [next EXCEPT ![prev[d]] = next[d]]
        BY <1>7, <4>2
      <4> QED BY <2>1, <4>1, <4>2, <4>3
    <3> QED BY <3>1, <3>2
  <2>3. /\ back \in [Node -> Pointer]
        /\ \A n \in Node : back[n] = IF k < m /\ n = l[h][k + 1] THEN prev[d] ELSE prev[n]
    <3>1. CASE k = m
      <4>1. back = prev
        BY <1>5, <1>8, <3>1 DEF BackLinks
      <4> QED BY <1>4, <2>1, <3>1, <4>1
    <3>2. CASE k # m
      <4>1. k < m /\ k + 1 \in 1 .. m
        BY <1>4, <3>2
      <4>2. next[d] = l[h][k + 1] /\ next[d] \in Node /\ next[d] # Null
        BY <1>5, <2>1, <3>2, <4>1
      <4>3. back = [prev EXCEPT ![next[d]] = prev[d]]
        BY <1>8, <4>2 DEF BackLinks
      <4> QED BY <2>1, <4>1, <4>2, <4>3
    <3> QED BY <3>1, <3>2
  <2>4. /\ next' \in [Node -> Pointer]
        /\ \A n \in Node : next'[n] = IF n = d THEN Null ELSE IF k > 1 /\ n = l[h][k - 1] THEN next[d] ELSE next[n]
    BY <1>9, <2>1, <2>2 DEF Without
  <2>5. /\ prev' \in [Node -> Pointer]
        /\ \A n \in Node : prev'[n] = IF n = d THEN Null ELSE IF k < m /\ n = l[h][k + 1] THEN prev[d] ELSE prev[n]
    BY <1>9, <2>1, <2>3 DEF Without
  <2>6. /\ first' \in [Node -> Pointer]
        /\ \A n \in Node : first'[n] = IF n = d THEN Null
                                       ELSE IF k = 1 /\ n \in {l[h][i] : i \in 2 .. m} THEN l[h][2] ELSE first[n]
    <3>1. CASE k # 1
      <4>1. k > 1 /\ k - 1 \in 1 .. m /\ 1 \in 1 .. m
        BY <1>4, <3>1
      <4>2. first[l[h][k - 1]] = l[h][1]
        BY <1>2, <4>1 DEF Holds, Linked
      <4>3. l[h][1] # d
        BY <1>2, <1>3, <1>4, <3>1, <4>1 DEF Holds, Distinct
      <4>4. first' = Without(first, {d})
        BY <1>9, <1>10, <4>1, <4>2, <4>3
      <4> QED BY <2>1, <3>1, <4>4 DEF Without
    <3>2. CASE k = 1 /\ m = 1
      <4>1. first' = Without(first, {d})
        BY <1>9, <1>10, <3>2
      <4>2. {l[h][i] : i \in 2 .. m} = {}
        BY <3>2
      <4> QED BY <2>1, <4>1, <4>2 DEF Without
    <3>3. CASE k = 1 /\ m # 1
      <4>1. m > 1 /\ 2 \in 1 .. m /\ 1 \in 1 .. m /\ k + 1 = 2
        BY <1>4, <3>3
      <4>2. temp = l[h][2] /\ temp # Null /\ temp \in Node
        BY <1>10, <2>1, <3>3, <4>1
      <4>3. first[temp] = d
        <5>1. first[l[h][2]] = l[h][1]
          BY <1>2, <4>1 DEF Holds, Linked
        <5> QED BY <1>3, <3>3, <4>2, <5>1
      <4>4. next[d] = l[h][2] /\ prev[d] = Null
        BY <1>5, <3>3, <4>1
      <4>5. ahead = next /\ Puts(prev, l[h][2], Null, back)
        <5>1. next[d] # Null
          BY <4>2, <4>4
        <5> QED BY <1>7, <1>8, <4>4, <5>1 DEF BackLinks, Puts
      <4>6. /\ Last(Chain(back, temp)) = l[h][2]
            /\ ToSet(Chain(next, l[h][2])) = {l[h][i] : i \in 2 .. m}
        <5>1. 2 \in 1 .. Len(l[h])
          BY <1>2, <4>1
        <5>2. Last(Chain(back, l[h][2])) = l[h][2]
          BY <2>1, <4>1, <4>5, StartChain
        <5>3. ToSet(Chain(next, l[h][2])) = Behind(l[h])
          BY <5>1, RestChain
        <5> QED BY <1>2, <4>2, <5>2, <5>3 DEF Behind
      <4>7. first' = [n \in Node |-> IF n \in {d} THEN Null
                                     ELSE IF n \in {l[h][i] : i \in 2 .. m} THEN l[h][2] ELSE first[n]]
        <5>1. first' = [n \in Node |-> IF n \in {d} THEN Null
                                       ELSE IF n \in ToSet(Chain(ahead, Last(Chain(back, temp))))
                                            THEN Last(Chain(back, temp)) ELSE first[n]]
          BY <1>9, <4>2, <4>3
        <5>2. first' = [n \in Node |-> IF n \in {d} THEN Null
                                       ELSE IF n \in ToSet(Chain(next, l[h][2])) THEN l[h][2] ELSE first[n]]
          BY <4>5, <4>6, <5>1
        <5> QED BY <4>6, <5>2
      <4>8. l[h][2] \in Pointer
        BY <2>1, <4>1 DEF Pointer
      <4> QED BY <2>1, <3>3, <4>7, <4>8
    <3> QED BY <3>1, <3>2, <3>3
  <2> QED BY <2>4, <2>5, <2>6 DEF TakesOut
<1>12. PICK l2 : Puts(l, h, RemoveAt(l[h], k), l2)
  BY DEF Puts
<1>13. PICK p : p = IF k = 1 /\ m > 1 THEN 1 ELSE k - 1
  OBVIOUS
<1>14. PICK at2 : Puts(at, h, p, at2)
  BY DEF Puts
<1>15. Holds(l2, at2, live', next', prev', first', handle')
  <2>1. Holds(l2, at2, live \ {d}, next', prev', first', handle')
    BY <1>1, <1>2, <1>3, <1>4, <1>9, <1>10, <1>11, <1>12, <1>13, <1>14, DeleteHolds
  <2> QED BY <2>1, <1>9
<1>16. l2 = Lists' /\ at2 = Places' /\ IInv'
  BY <1>15, ListsWillBe
<1>17. Promised!DeleteItem(h)
  <2>1. Promised!Set(h, RemoveAt(l[h], k), p)
    BY <1>12, <1>14, <1>16, Sets
  <2>2. [f \in Handle |-> ListOf(f)][h] = l[h] /\ [f \in Handle |-> Place(f)][h] = k
    BY <1>1 DEF Lists, Places
  <2>3. Promised!RemoveAt(l[h], k) = RemoveAt(l[h], k)
    BY DEF Promised!RemoveAt, RemoveAt
  <2> QED BY <1>2, <1>4, <1>13, <2>1, <2>2, <2>3 DEF Promised!DeleteItem
<1> QED BY <1>16, <1>17

LEMMA InitHolds == ASSUME Init PROVE IInv /\ Promised!Init
<1>1. PICK l : l = [h \in Handle |-> <<>>]
  OBVIOUS
<1>2. PICK at : at = [h \in Handle |-> 0]
  OBVIOUS
<1>3. Holds(l, at, live, next, prev, first, handle)
  <2>1. l \in [Handle -> Seq(Node)] /\ at \in [Handle -> Nat] /\ \A h \in Handle : l[h] = <<>> /\ Len(l[h]) = 0
    BY <1>1, <1>2
  <2>2. Heap(live, next, prev, first, handle)
    BY DEF Init, Heap, Pointer
  <2>3. Covers(l, live) /\ Distinct(l) /\ Linked(l, next, prev, first)
    BY <2>1 DEF Init, Covers, Distinct, Linked
  <2>4. Pointed(l, at, handle)
    BY <1>2, <2>1 DEF Init, Pointed
  <2> QED BY <2>1, <2>2, <2>3, <2>4 DEF Holds
<1>4. l = Lists /\ at = Places
  BY <1>3, ListsAre
<1> QED BY <1>1, <1>2, <1>3, <1>4 DEF IInv, Promised!Init, Lists, Places

\* A step that changes nothing.
LEMMA Stutter == ASSUME UNCHANGED vars PROVE Lists' = Lists /\ Places' = Places /\ (IInv => IInv')
<1>1. /\ next' = next /\ first' = first /\ handle' = handle /\ live' = live /\ prev' = prev
  BY DEF vars, heap
<1>2. Lists' = Lists /\ Places' = Places
  BY <1>1 DEF Lists, Places, ListOf, Place
<1> QED BY <1>1, <1>2 DEF IInv

\* Every step keeps the invariant and is one that libmpd.h promises.
LEMMA NextHolds == ASSUME IInv, [Next]_vars PROVE IInv' /\ [Promised!Next]_(Promised!vars)
<1>1. CASE UNCHANGED vars
  <2>1. Lists' = Lists /\ Places' = Places /\ IInv'
    BY <1>1, Stutter
  <2> QED BY <2>1 DEF Promised!vars, Lists, Places
<1>2. ASSUME NEW h \in Handle, AppendItem(h) \/ GetFirst(h) \/ GetNext(h) \/ DeleteItem(h) \/ Free(h)
      PROVE  IInv' /\ Promised!Next
  <2>1. \/ IInv' /\ Promised!AppendItem(h)
        \/ IInv' /\ Promised!GetFirst(h)
        \/ IInv' /\ Promised!GetNext(h)
        \/ IInv' /\ Promised!DeleteItem(h)
        \/ IInv' /\ Promised!Free(h)
    BY <1>2, AppendStep, FirstStep, GetNextStep, DeleteStep, FreeStep
  <2> QED BY <2>1 DEF Promised!Next
<1>3. ASSUME NEW h \in Handle, NEW g \in Handle, Concatenate(h, g)
      PROVE  IInv' /\ Promised!Next
  <2>1. IInv' /\ Promised!Concatenate(h, g)
    BY <1>3, ConcatenateStep
  <2> QED BY <2>1 DEF Promised!Next
<1> QED BY <1>1, <1>2, <1>3 DEF Next

-----------------------------------------------------------------------------
(* Theorems *)

\* At all times the nodes are linked into one list per handle, no node in two,
\* and what was not freed is in one of them (the handling of MpdData in
\* libmpd.c).
THEOREM Invariant == Spec => []IInv
<1>1. Init => IInv
  BY InitHolds
<1>2. IInv /\ [Next]_vars => IInv'
  BY NextHolds
<1> QED BY <1>1, <1>2, PTL DEF Spec

\* mpd_data_concatenate and mpd_data_delete_item leave lists that can be
\* walked from both ends and to the first node from anywhere, and nothing
\* that leads to a freed node, whatever the calls.
THEOREM ListsAreLinked == Spec => []WellLinked
<1>1. ASSUME IInv PROVE WellLinked
  <2>1. PICK l, at : Holds(l, at, live, next, prev, first, handle)
    BY <1>1 DEF IInv
  <2>2. Covers(l, live) /\ Linked(l, next, prev, first) /\ Pointed(l, at, handle)
    BY <2>1 DEF Holds
  <2>3. TypeOK
    <3>1. \A h \in Handle : handle[h] \in live \cup {Null}
      BY <2>1, HoldsFacts
    <3> QED BY <2>1, <3>1 DEF Holds, Heap, TypeOK
  <2>4. ASSUME NEW n \in live
        PROVE  /\ next[n] # Null => next[n] \in live /\ prev[next[n]] = n /\ first[next[n]] = first[n]
               /\ prev[n] # Null => prev[n] \in live /\ next[prev[n]] = n
               /\ prev[n] = Null => first[n] = n
    <3>1. PICK h \in Handle : \E i \in 1 .. Len(l[h]) : l[h][i] = n
      BY <2>2 DEF Covers
    <3>2. PICK m : m = Len(l[h])
      OBVIOUS
    <3>3. PICK i \in 1 .. m : l[h][i] = n
      BY <3>1, <3>2
    <3>4. m \in Nat /\ \A j \in 1 .. m : l[h][j] \in live /\ l[h][j] # Null
      BY <2>1, <3>2, HoldsFacts
    <3>5. \A j \in 1 .. m : /\ next[l[h][j]] = IF j = m THEN Null ELSE l[h][j + 1]
                            /\ prev[l[h][j]] = IF j = 1 THEN Null ELSE l[h][j - 1]
                            /\ first[l[h][j]] = l[h][1]
      BY <2>2, <3>2 DEF Linked
    <3>6. next[n] # Null => next[n] \in live /\ prev[next[n]] = n /\ first[next[n]] = first[n]
      <4>1. CASE i = m
        BY <3>3, <3>5, <4>1
      <4>2. CASE i # m
        <5>1. PICK j \in 1 .. m : j = i + 1 /\ j # 1 /\ j - 1 = i
          BY <3>4, <4>2
        <5> QED BY <3>3, <3>4, <3>5, <4>2, <5>1
      <4> QED BY <4>1, <4>2
    <3>7. prev[n] # Null => prev[n] \in live /\ next[prev[n]] = n
      <4>1. CASE i = 1
        BY <3>3, <3>5, <4>1
      <4>2. CASE i # 1
        <5>1. PICK j \in 1 .. m : j = i - 1 /\ j # m /\ j + 1 = i
          BY <3>4, <4>2
        <5> QED BY <3>3, <3>4, <3>5, <4>2, <5>1
      <4> QED BY <4>1, <4>2
    <3>8. prev[n] = Null => first[n] = n
      <4>1. CASE i = 1
        BY <3>3, <3>5, <4>1
      <4>2. CASE i # 1
        <5>1. PICK j \in 1 .. m : j = i - 1
          BY <3>4, <4>2
        <5> QED BY <3>3, <3>4, <3>5, <4>2, <5>1
      <4> QED BY <4>1, <4>2
    <3> QED BY <3>6, <3>7, <3>8
  <2> QED BY <2>3, <2>4 DEF WellLinked
<1> QED BY <1>1, Invariant, PTL

\* No call leaves a node behind that no list has, and mpd_data_free and
\* mpd_data_delete_item free none that a list still has.
THEOREM NodesAreKept == Spec => []NothingLost
<1>1. IInv => NothingLost
  BY UsedIsLive
<1> QED BY <1>1, Invariant, PTL

\* The linked nodes are the lists that libmpd.h promises: every call changes
\* the list of its handle, and the place in it, as the abstract one does.
THEOREM ListsAreAsPromised == Spec => ImplementsLists
<1>1. Init => Promised!Init
  BY InitHolds
<1>2. IInv /\ [Next]_vars => [Promised!Next]_(Promised!vars)
  BY NextHolds
<1> QED BY <1>1, <1>2, Invariant, PTL DEF Spec, ImplementsLists, Promised!Spec

=============================================================================
