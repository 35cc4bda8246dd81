------------------------------- MODULE LineSpec -------------------------------
(***************************************************************************)
(* What reading from the server promises: the lines of what the server     *)
(* sent, whole, each once and in their order, however the bytes arrive.    *)
(* `next' counts the bytes of the lines that were handed up, `line' is the *)
(* last of them without its end.                                           *)
(***************************************************************************)
EXTENDS Integers, Sequences

CONSTANT NewLine

VARIABLES stream, next, line

Init == next = 0 /\ line = <<>>

\* The stream has a line of n bytes after its first `from'.
LineAt(from, n) ==
  /\ from + n < Len(stream)
  /\ \A i \in 1 .. n : stream[from + i] # NewLine
  /\ stream[from + n + 1] = NewLine

ReadLine ==
  \E n \in 0 .. Len(stream) :
    /\ LineAt(next, n)
    /\ line' = [i \in 1 .. n |-> stream[next + i]]
    /\ next' = next + n + 1
    /\ UNCHANGED stream

Spec == Init /\ [][ReadLine]_<<stream, next, line>>

=============================================================================
