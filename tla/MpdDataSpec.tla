------------------------------ MODULE MpdDataSpec ------------------------------
(***************************************************************************)
(* What the MpdData of libmpd.h promises ("a fast linked list              *)
(* implementation where data returned from mpd is stored in"): a list per  *)
(* handle, and the place of the handle in its list.  `at' is 0 when there  *)
(* is no list, which is the NULL pointer.                                  *)
(***************************************************************************)
EXTENDS Integers, SequencesExt

CONSTANTS Handle, Element

VARIABLES lists, at

vars == <<lists, at>>

Init == lists = [h \in Handle |-> <<>>] /\ at = [h \in Handle |-> 0]

Set(h, l, i) == lists' = [lists EXCEPT ![h] = l] /\ at' = [at EXCEPT ![h] = i]

Used == UNION {ToSet(lists[h]) : h \in Handle}

AppendItem(h) ==
  /\ at[h] = Len(lists[h])
  /\ \E e \in Element \ Used : Set(h, Append(lists[h], e), at[h] + 1)

GetFirst(h) == at[h] # 0 /\ Set(h, lists[h], 1)

\* The list is gone when its end is passed.
GetNext(h) ==
  \/ at[h] # 0 /\ at[h] < Len(lists[h]) /\ Set(h, lists[h], at[h] + 1)
  \/ at[h] # 0 /\ at[h] = Len(lists[h]) /\ Set(h, <<>>, 0)

\* The element before the one that is removed is returned, or the new first.
DeleteItem(h) ==
  /\ at[h] # 0
  /\ Set(h, RemoveAt(lists[h], at[h]), IF at[h] = 1 /\ Len(lists[h]) > 1 THEN 1 ELSE at[h] - 1)

Concatenate(h, g) ==
  /\ h # g
  /\ lists' = [lists EXCEPT ![h] = lists[h] \o lists[g], ![g] = <<>>]
  /\ at' = [at EXCEPT ![g] = 0, ![h] = IF at[h] = 0 THEN at[g] ELSE IF at[g] = 0 THEN at[h] ELSE 1]

Free(h) == at[h] # 0 /\ Set(h, <<>>, 0)

Next ==
  \/ \E h \in Handle : AppendItem(h) \/ GetFirst(h) \/ GetNext(h) \/ DeleteItem(h) \/ Free(h)
  \/ \E h, g \in Handle : Concatenate(h, g)

Spec == Init /\ [][Next]_vars

=============================================================================
