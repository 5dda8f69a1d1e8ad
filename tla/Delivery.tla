------------------------------ MODULE Delivery ------------------------------
(***************************************************************************)
(* What the job engine promises about a delivery, without saying how: the  *)
(* downloaded payload of a job is given up only for a published URL or     *)
(* because its user asked, a URL appears only while the job's own transfer *)
(* is the one running, and a published URL stays published.                *)
(***************************************************************************)
CONSTANTS Jobs

VARIABLES
  running,    \* the jobs whose transfer is executing
  published,  \* jobs whose URL is in durable storage
  held,       \* jobs whose payload is on the server
  released    \* jobs whose user cancelled or discarded them

vars == << running, published, held, released >>

Init ==
  /\ running = {} /\ published = {} /\ held = {} /\ released = {}

\* A transfer begins only when no other executes; it ends, or the process dies.
Schedule ==
  \/ running' = running
  \/ running = {} /\ \E j \in Jobs : running' = {j}
  \/ running' = {}

Publish == published \subseteq published' /\ published' \ published \subseteq running

Keep == held \ held' \subseteq published \cup released'

Fetch == held' \ held \subseteq running

Release == released \subseteq released'

Next == Schedule /\ Publish /\ Keep /\ Fetch /\ Release

Spec == Init /\ [][Next]_vars
=============================================================================
