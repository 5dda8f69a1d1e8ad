---------------------------- MODULE RelayManager ----------------------------
(***************************************************************************)
(* RelayManager (relay/lifecycle.ts): the listener of the relay on the     *)
(* address of the Radmin adapter.  start, stop, rebind and the watcher's   *)
(* ticks of one manager run one after the other on its promise chain; each *)
(* is cut here where it awaits app.close() or app.listen().  Managers are  *)
(* separate objects: only the address they bind keeps two of them apart.   *)
(***************************************************************************)
EXTENDS Naturals, Sequences

CONSTANTS
  Managers,      \* RelayManager objects
  Addresses,     \* IPv4 addresses the adapter can have
  NoAddress,     \* no adapter, no socket, nothing known
  Nobody,        \* the caller of a watcher's tick
  MaxFlaps,      \* bound: changes of the adapter
  MaxBindFaults  \* bound: listen() calls that fail for no lasting reason

ASSUME RelayConstants ==
  /\ NoAddress \notin Addresses
  /\ MaxFlaps \in Nat
  /\ MaxBindFaults \in Nat

VARIABLES
  adapter,    \* the adapter's address now
  mgr,        \* the managers
  flaps,      \* changes of the adapter so far
  bindFaults  \* failed calls of listen() so far

relayVars == << adapter, mgr, flaps, bindFaults >>

Places == Addresses \cup {NoAddress}
Tasks  == {"start", "stop", "rebind", "tick"}

\* `sock` is the socket of this.app, `address` and `named` what the manager
\* remembers of the adapter, `target` the address it is binding; `task` is the
\* link of the chain that runs, `chain` the links after it, each with its caller.
\* `moved` is a history field: a tick saw another address under the listening relay,
\* and since then none saw the adapter gone, nor was the relay stopped or rebound.
Fresh == [ state |-> "stopped", sock |-> NoAddress, address |-> NoAddress, named |-> FALSE,
           target |-> NoAddress, watcher |-> FALSE, moved |-> FALSE,
           pc |-> "idle", task |-> "tick", by |-> Nobody, chain |-> << >> ]

RelayTypeOK(callers) ==
  /\ adapter \in Places
  /\ flaps \in 0 .. MaxFlaps /\ bindFaults \in 0 .. MaxBindFaults
  /\ \A r \in Managers :
       /\ mgr[r].state \in {"stopped", "starting", "listening", "unavailable", "error"}
       /\ {mgr[r].sock, mgr[r].address, mgr[r].target} \subseteq Places
       /\ {mgr[r].named, mgr[r].watcher, mgr[r].moved} \subseteq BOOLEAN
       /\ mgr[r].pc \in {"idle", "closing", "binding"}
       /\ mgr[r].task \in Tasks \cup {"shutdown", "follow"}
       /\ mgr[r].chain \in Seq([task : Tasks, by : callers \cup {Nobody}])

RelayInit ==
  /\ adapter \in Places
  /\ mgr = [r \in Managers |-> Fresh]
  /\ flaps = 0
  /\ bindFaults = 0

-----------------------------------------------------------------------------

\* The promise of a task of this caller is still pending.
Pending(r, caller) ==
  \/ mgr[r].pc # "idle" /\ mgr[r].by = caller
  \/ \E i \in DOMAIN mgr[r].chain : mgr[r].chain[i].by = caller

Over(m) == [m EXCEPT !.pc = "idle", !.task = "tick", !.by = Nobody, !.target = NoAddress]

\* startLocked() takes a state of "listening" or "starting" at its word; without
\* an adapter it forgets what it knew of one.
StartLocked(m) ==
  CASE m.state \in {"listening", "starting"} -> Over(m)
    [] m.state \notin {"listening", "starting"} /\ adapter = NoAddress ->
         Over([m EXCEPT !.state = "unavailable", !.named = FALSE, !.address = NoAddress])
    [] OTHER -> [m EXCEPT !.state = "starting", !.pc = "binding", !.target = adapter]

\* What a task does after stopListenerLocked(), which changes no state.
Closed(m) ==
  CASE m.task = "stop"     -> Over([m EXCEPT !.state = "stopped", !.named = FALSE,
                                             !.address = NoAddress])
    [] m.task = "shutdown" -> Over([m EXCEPT !.state = "unavailable"])
    [] m.task = "rebind"   -> StartLocked([m EXCEPT !.state = "stopped"])
    [] OTHER               -> StartLocked(m)

\* stopListenerLocked() has something to await only when there is an app.
CloseThen(m) ==
  IF m.sock = NoAddress THEN Closed(m) ELSE [m EXCEPT !.sock = NoAddress, !.pc = "closing"]

\* Mutant: a relay whose bind failed is not retried.
TickLeavesErrors(m) ==
  CASE m.named /\ adapter = NoAddress /\ m.state = "listening" ->
         CloseThen([m EXCEPT !.task = "shutdown", !.moved = FALSE])
    [] /\ m.named /\ adapter # NoAddress /\ m.state \in {"listening", "unavailable"}
       /\ m.state = "listening" => adapter # m.address ->
         CloseThen([m EXCEPT !.task = "follow", !.address = adapter,
                             !.moved = (m.state = "listening")])
    [] ~m.named /\ adapter # NoAddress /\ m.state = "unavailable" -> StartLocked(m)
    [] OTHER -> Over(m)

\* planWatchTick(), and what watchTickLocked() does when it says "keep".
Tick(m) ==
  CASE m.named /\ adapter = NoAddress /\ m.state \in {"listening", "error"} ->
         CloseThen([m EXCEPT !.task = "shutdown", !.moved = FALSE])
    [] /\ m.named /\ adapter # NoAddress /\ m.state \in {"listening", "unavailable", "error"}
       /\ m.state = "listening" => adapter # m.address ->
         CloseThen([m EXCEPT !.task = "follow", !.address = adapter,
                             !.moved = (m.state = "listening")])
    [] ~m.named /\ adapter # NoAddress /\ m.state = "unavailable" -> StartLocked(m)
    [] OTHER -> Over(m)

\* Mutant: stop() leaves the watcher running.
RunWatchesOn(m) ==
  CASE m.task = "start"  -> StartLocked(m)
    [] m.task = "stop"   -> CloseThen([m EXCEPT !.moved = FALSE])
    [] m.task = "rebind" -> CloseThen([m EXCEPT !.moved = FALSE])
    [] m.task = "tick"   -> Tick(m)

Run(m) ==
  CASE m.task = "start"  -> StartLocked(m)
    [] m.task = "stop"   -> CloseThen([m EXCEPT !.watcher = FALSE, !.moved = FALSE])
    [] m.task = "rebind" -> CloseThen([m EXCEPT !.moved = FALSE])
    [] m.task = "tick"   -> Tick(m)

\* run(): the task is chained behind those of the manager m; one that finds no other
\* begins before anything else can happen.
Chained(m, task, caller) ==
  IF m.pc = "idle" /\ m.chain = << >>
  THEN Run([m EXCEPT !.task = task, !.by = caller])
  ELSE [m EXCEPT !.chain = Append(@, [task |-> task, by |-> caller])]

-----------------------------------------------------------------------------

Step(r, m) == mgr' = [mgr EXCEPT ![r] = m] /\ UNCHANGED << adapter, flaps >>

Begin(r) ==
  /\ mgr[r].pc = "idle" /\ mgr[r].chain # << >>
  /\ LET link == Head(mgr[r].chain)
     IN  Step(r, Run([mgr[r] EXCEPT !.task = link.task, !.by = link.by, !.chain = Tail(@)]))
  /\ UNCHANGED bindFaults

CloseDone(r) ==
  /\ mgr[r].pc = "closing"
  /\ Step(r, Closed(mgr[r]))
  /\ UNCHANGED bindFaults

\* listen() needs the adapter to have the address still, and nobody else's socket there.
Bindable(r) ==
  /\ adapter = mgr[r].target
  /\ \A x \in Managers \ {r} : mgr[x].sock # mgr[r].target

Bound(r) ==
  /\ mgr[r].pc = "binding" /\ Bindable(r)
  /\ Step(r, Over([mgr[r] EXCEPT !.state = "listening", !.sock = mgr[r].target,
                                 !.named = TRUE, !.address = mgr[r].target, !.watcher = TRUE]))
  /\ UNCHANGED bindFaults

\* The app is dropped without being closed; the watcher is not started.
BindFailed(r) ==
  /\ mgr[r].pc = "binding"
  /\ Bindable(r) => bindFaults < MaxBindFaults
  /\ bindFaults' = IF Bindable(r) THEN bindFaults + 1 ELSE bindFaults
  /\ Step(r, Over([mgr[r] EXCEPT !.state = "error"]))

\* setInterval: a tick that finds one waiting already would see the same.
WatchTick(r) ==
  /\ mgr[r].watcher
  /\ ~Pending(r, Nobody)
  /\ Step(r, Chained(mgr[r], "tick", Nobody))
  /\ UNCHANGED bindFaults

\* Radmin goes down, comes up, or gives the adapter another address.
AdapterChanges ==
  /\ flaps < MaxFlaps
  /\ flaps' = flaps + 1
  /\ adapter' \in Places \ {adapter}
  /\ UNCHANGED << mgr, bindFaults >>

RelayStep(r) == Begin(r) \/ CloseDone(r) \/ Bound(r) \/ BindFailed(r)

-----------------------------------------------------------------------------
(* One manager with a caller of its own, as createRelayManager() is tested *)

\* The controller awaits each of its calls.
Call(r, task) ==
  /\ ~Pending(r, "owner")
  /\ Step(r, Chained(mgr[r], task, "owner"))
  /\ UNCHANGED bindFaults

RelayNext ==
  \/ \E r \in Managers : RelayStep(r) \/ WatchTick(r)
  \/ \E r \in Managers, task \in {"start", "stop", "rebind"} : Call(r, task)
  \/ AdapterChanges

RelaySpec == RelayInit /\ [][RelayNext]_relayVars

\* A6_RELAY_AUTH.md:91: "rebinds automatically, including to a NEW address": a
\* manager that has nothing left to do and says "listening" has its socket.
ListeningServes ==
  \A r \in Managers :
    (mgr[r].pc = "idle" /\ mgr[r].state = "listening") => mgr[r].sock # NoAddress
=============================================================================
