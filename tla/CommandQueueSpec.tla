--------------------------- MODULE CommandQueueSpec ---------------------------
(***************************************************************************)
(* What the command queue of libmpd promises (libmpd-playlist.h, "These    *)
(* functions allow you to queue commands, and send them in one command     *)
(* list to mpd"): queued commands wait in the order they were queued, a    *)
(* commit hands them over in that order and each of them once, and a       *)
(* disconnect discards them.                                               *)
(***************************************************************************)
EXTENDS Sequences

CONSTANTS Items,         \* queued commands
          Sendable(_)    \* whether a command is one the server is sent

VARIABLES pending,   \* commands queued and not handed over
          sending,   \* a command list is being written
          batch      \* commands written to that list so far

vars == <<pending, sending, batch>>

Init == pending = <<>> /\ sending = FALSE /\ batch = <<>>

Enqueue ==
  /\ ~sending
  /\ \E x \in Items : pending' = Append(pending, x)
  /\ UNCHANGED <<sending, batch>>

Begin ==
  /\ ~sending /\ pending # <<>>
  /\ sending' = TRUE
  /\ UNCHANGED <<pending, batch>>

SendNext ==
  /\ sending /\ pending # <<>>
  /\ pending' = Tail(pending)
  /\ batch' = IF Sendable(Head(pending)) THEN Append(batch, Head(pending)) ELSE batch
  /\ UNCHANGED sending

End ==
  /\ sending /\ pending = <<>>
  /\ sending' = FALSE /\ batch' = <<>>
  /\ UNCHANGED pending

Discard ==
  /\ ~sending
  /\ pending' = <<>>
  /\ UNCHANGED <<sending, batch>>

Next == Enqueue \/ Begin \/ SendNext \/ End \/ Discard

Spec == Init /\ [][Next]_vars

=============================================================================
