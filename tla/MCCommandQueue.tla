--------------------------- MODULE MCCommandQueue ---------------------------
(* Instance of CommandQueue for TLC: one song id of each sign. *)
EXTENDS CommandQueue

MCIds == {-1, 0}

=============================================================================
