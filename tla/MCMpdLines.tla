------------------------------ MODULE MCMpdLines ------------------------------
(* Every stream of up to MaxStream bytes, two kinds of them and line ends. *)
EXTENDS MpdLines

CONSTANT MaxStream

MCBytes == {"a", "b", "nl"}
MCStreams == UNION {[1 .. n -> MCBytes] : n \in 0 .. MaxStream}
=============================================================================
