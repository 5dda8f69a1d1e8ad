---------------------------- MODULE MCPackaging ----------------------------
(* An instance of Packaging: two files of different size.                   *)
EXTENDS Packaging

MCSize == [f \in {1, 2} |-> f]
=============================================================================
