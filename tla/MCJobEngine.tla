---------------------------- MODULE MCJobEngine ----------------------------
(* Values for TLC: every policy that matters is "keep all" or "delete all". *)
EXTENDS JobEngine, TLC

AllOrNothing == { {}, Artifacts }
OnlyKeep == { {} }

JobSymmetry == Permutations(Jobs)

=============================================================================
