--------------------------- MODULE MCQbitService ---------------------------
(* Two jobs of one torrent with two files, one of them selected by each. *)
EXTENDS QbitService, TLC

CONSTANTS j1, j2
OneEach == (j1 :> {0}) @@ (j2 :> {1})
TwoJobs == {j1, j2}
=============================================================================
