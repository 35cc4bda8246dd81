---------------------------- MODULE MCMpdSession ----------------------------
(* Instances of MpdSession for TLC. *)
EXTENDS MpdSession

\* Every function a program may call; one for all that have the same steps.
AllOperations == {CHOOSE op \in Public : Code[op] = steps : steps \in {Code[op] : op \in Public}}
=============================================================================
