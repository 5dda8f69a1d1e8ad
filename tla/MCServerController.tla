------------------------- MODULE MCServerController -------------------------
(* The places of calls and the transfers are numbered as they are taken, so  *)
(* no symmetry is left to use (nor would TLC's be sound for the liveness     *)
(* property).                                                                *)
EXTENDS ServerController

CONSTANT MaxTogether  \* bound: changes of the adapter and jobs, taken together

\* Radmin is up at first: a change before the first call takes it down.  The
\* addresses are alike, so it does not matter which of them it has.
MCInit == Init /\ adapter = CHOOSE a \in Addresses : TRUE

MCSpec == MCInit /\ [][Next]_vars /\ Fairness

\* Two jobs beside one change of the adapter, or one beside two.
Together == flaps + Cardinality({j \in Jobs : jobs[j] # "none"}) <= MaxTogether
=============================================================================
