---------------------------- MODULE MCDirectJobs ----------------------------
(* Values of the constants of DirectJobs for TLC. *)
EXTENDS DirectJobs

CONSTANTS j1, j2

OneMagnet == {j1}

\* Every property is about runs without a lost update, so TLC stops at the first.
Undamaged == hurt = {}
=============================================================================
