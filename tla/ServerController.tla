-------------------------- MODULE ServerController --------------------------
(***************************************************************************)
(* ServerController (server/controller.ts): the calls of the desktop UI,   *)
(* which it does not serialise, over the engine graph, the relay and the   *)
(* pairings; the requests of clients that reach a graph through a relay;   *)
(* and the push loop.  A call is cut where it awaits the relay or a save.  *)
(* Relays and graphs are numbered as they are made, 0 is null.             *)
(***************************************************************************)
EXTENDS RelayManager, Pairing

CONSTANTS
  Callers,   \* places for calls of the UI in flight, numbered
  Jobs,      \* transfers, numbered as they come
  NoJob,     \* #lastJob is null
  MaxCalls   \* bound: calls, restarts of the program included

ASSUME ControllerConstants ==
  /\ MaxCalls \in Nat
  /\ Managers = 1 .. MaxCalls
  /\ MaxCalls < MaxGraphs
  /\ Callers \subseteq Nat /\ Jobs \subseteq Nat
  /\ NoJob \notin Jobs
  /\ Nobody \notin Callers

VARIABLES
  graph,      \* #graph
  graphs,     \* graphs made so far
  relay,      \* #relay
  relays,     \* managers made so far
  wiring,     \* the graph each manager serves
  sweepDone,  \* #sweepDone
  call,       \* the calls
  ticking,    \* #pushTimer
  lastJob,    \* #lastJob
  jobs,       \* the records, as the graph in use has them
  driver,     \* the graph whose engine drives each job (0: none)
  slipped,    \* jobs a change of folder left running without #lastJob having shown them
  crossed,    \* two calls crossed: one swept beside the other, or took its graph or its relay
  calls       \* calls made

vars == << relayVars, pairingVars, graph, graphs, relay, relays, wiring, sweepDone, call,
           ticking, lastJob, jobs, driver, slipped, crossed, calls >>

serverVars == << relay, relays, wiring, sweepDone, call, ticking >>
jobVars    == << lastJob, jobs, driver >>
ghostVars  == << slipped, crossed, calls >>

Idle == [pc |-> "idle", what |-> "none", mgr |-> 0, graph |-> 0, todo |-> {}]

JobState == {"none", "draft", "running", "ended"}

ServerTypeOK ==
  /\ RelayTypeOK(Callers) /\ PairingTypeOK
  /\ graph \in 0 .. graphs /\ graphs \in 0 .. MaxGraphs
  /\ relay \in 0 .. relays /\ relays \in 0 .. MaxCalls
  /\ \A r \in Managers : wiring[r] \in 0 .. graphs /\ (wiring[r] # 0 => r <= relays)
  /\ \A c \in Callers : call[c].pc \in {"idle", "sweeping", "starting", "stopping", "rebinding"}
  /\ {sweepDone, ticking, crossed} \subseteq BOOLEAN
  /\ lastJob \in Jobs \cup {NoJob}
  /\ \A j \in Jobs : jobs[j] \in JobState /\ driver[j] \in 0 .. graphs
  /\ slipped \subseteq Jobs /\ calls \in 0 .. MaxCalls

Init ==
  /\ RelayInit /\ PairingInit
  /\ graph = 0 /\ graphs = 0 /\ relay = 0 /\ relays = 0
  /\ wiring = [r \in Managers |-> 0]
  /\ sweepDone = FALSE
  /\ call = [c \in Callers |-> Idle]
  /\ ticking = FALSE
  /\ lastJob = NoJob
  /\ jobs = [j \in Jobs |-> "none"] /\ driver = [j \in Jobs |-> 0]
  /\ slipped = {} /\ crossed = FALSE /\ calls = 0

-----------------------------------------------------------------------------
(* The graph *)

\* ensureGraph()
EnsureGraph ==
  IF graph # 0
  THEN UNCHANGED << graph, graphs, pairingVars >>
  ELSE graph' = graphs + 1 /\ graphs' = graphs + 1 /\ BuildAuth(graphs + 1)

Running(j) == jobs[j] = "running"
Active(j)  == jobs[j] \in {"draft", "running"}

-----------------------------------------------------------------------------
(* Calls of the UI *)

\* A call takes the first free place.
Calling(c) ==
  /\ call[c].pc = "idle" /\ \A d \in Callers : d < c => call[d].pc # "idle"
  /\ calls < MaxCalls /\ calls' = calls + 1

Return(c) == call' = [call EXCEPT ![c] = Idle]

\* The relay's task is chained; the call goes on when its promise is settled.
Chain(c, r, task) ==
  /\ mgr' = [mgr EXCEPT ![r] = Chained(@, task, c)]
  /\ UNCHANGED << adapter, flaps, bindFaults >>

Await(c, pc, what, r) ==
  call' = [call EXCEPT ![c] = [Idle EXCEPT !.pc = pc, !.what = what, !.mgr = r]]

\* startServer() after the sweep: buildRelay() and #relay.start().
BuildRelay(c, g) ==
  /\ relays' = relays + 1 /\ relay' = relays'
  /\ wiring' = [wiring EXCEPT ![relays'] = g]
  /\ Chain(c, relays', "start")
  /\ Await(c, "starting", "start", relays')
  /\ crossed' = (crossed \/ relay # 0)

\* The jobs of earlier sessions that startupSweep() will mark.
ToSweep == {j \in Jobs : Running(j) /\ driver[j] # graph'}

Sweeping == \E c \in Callers : call[c].pc = "sweeping"

StartServer(c) ==
  /\ EnsureGraph
  /\ IF sweepDone
     THEN BuildRelay(c, graph')
     ELSE /\ call' = [call EXCEPT ![c] = [Idle EXCEPT !.pc = "sweeping", !.graph = graph',
                                                      !.todo = ToSweep]]
          /\ crossed' = (crossed \/ Sweeping)
          /\ UNCHANGED << relayVars, relay, relays, wiring >>
  /\ UNCHANGED << sweepDone, ticking, jobVars, slipped >>

Start(c) == Calling(c) /\ StartServer(c)

\* A marked record is saved, and shown as ended.
SweepOne(c) ==
  /\ call[c].pc = "sweeping"
  /\ \E j \in call[c].todo :
       /\ call' = [call EXCEPT ![c].todo = @ \ {j}]
       /\ jobs' = [jobs EXCEPT ![j] = "ended"]
       /\ lastJob' = NoJob
  /\ UNCHANGED << relayVars, pairingVars, graph, graphs, relay, relays, wiring, sweepDone,
                  ticking, driver, ghostVars >>

SweepEnds(c) ==
  /\ call[c].pc = "sweeping" /\ call[c].todo = {}
  /\ sweepDone' = TRUE
  /\ BuildRelay(c, call[c].graph)
  /\ UNCHANGED << pairingVars, graph, graphs, ticking, jobVars, slipped, calls >>

\* Its snapshot() throws when another call has made #relay null.
StartEnds(c) ==
  /\ call[c].pc = "starting" /\ ~Pending(call[c].mgr, c)
  /\ ticking' = (ticking \/ relay # 0)
  /\ Return(c)
  /\ UNCHANGED << relayVars, pairingVars, graph, graphs, relay, relays, wiring, sweepDone,
                  jobVars, ghostVars >>

Stop(c) ==
  /\ Calling(c) /\ relay # 0
  /\ Chain(c, relay, "stop") /\ Await(c, "stopping", "stop", relay)
  /\ UNCHANGED << pairingVars, graph, graphs, relay, relays, wiring, sweepDone, ticking,
                  jobVars, slipped, crossed >>

\* selectRadminInterface(): an address that is bound already needs no rebind.
SelectInterface(c) ==
  /\ Calling(c) /\ relay # 0 /\ mgr[relay].address # adapter
  /\ Chain(c, relay, "rebind") /\ Await(c, "rebinding", "select", relay)
  /\ crossed' = (crossed \/ \E x \in Callers : call[x].pc = "stopping")
  /\ UNCHANGED << pairingVars, graph, graphs, relay, relays, wiring, sweepDone, ticking,
                  jobVars, slipped >>

SelectEnds(c) ==
  /\ call[c].pc = "rebinding" /\ ~Pending(call[c].mgr, c)
  /\ Return(c)
  /\ UNCHANGED << relayVars, pairingVars, graph, graphs, relay, relays, wiring, sweepDone,
                  ticking, jobVars, ghostVars >>

\* Mutant: the gate is gone.
NoGate == FALSE

\* hasActiveTransfer(), the gate of every change of configuration
HasActiveTransfer == lastJob # NoJob

\* The jobs seen running when the folder was changed, and those the graph leaves behind.
Seen == {j \in Jobs : Running(j) /\ lastJob = j}
LeftBehind == {j \in Jobs : graph # 0 /\ driver[j] = graph /\ Running(j)}

\* setWorkingFolderPath() and #rebuildGraphForFolderChange() up to the relay's stop();
\* behind the gate the new folder is stored and nothing else happens.
NewFolder(c) ==
  /\ Calling(c) /\ ~HasActiveTransfer
  /\ IF relay # 0
     THEN /\ Chain(c, relay, "stop")
          /\ call' = [call EXCEPT ![c] = [Idle EXCEPT !.pc = "stopping", !.what = "folder",
                                            !.mgr = relay, !.todo = Seen]]
          /\ UNCHANGED << graph, ticking, slipped, crossed >>
     ELSE /\ graph' = 0
          /\ slipped' = slipped \cup (LeftBehind \ Seen)
          /\ crossed' = (crossed \/ Sweeping)
          /\ ticking' = FALSE
          /\ UNCHANGED << relayVars, call >>
  /\ UNCHANGED << pairingVars, graphs, relay, relays, wiring, sweepDone, jobVars >>

\* setWorkingFolderPath(), of the wizard, and updateSettings(), of the settings
\* panel, whose other fields are read when the next relay or service is made.
ChangeFolder(c) == NewFolder(c)
UpdateSettings(c) == NewFolder(c)

\* resetProfile() up to the relay's stop().  (Where ensureGraph() has a graph to make,
\* Look makes it first.)
Reset(c) ==
  /\ Calling(c)
  /\ ticking' = FALSE
  /\ IF relay # 0
     THEN /\ Chain(c, relay, "stop") /\ Await(c, "stopping", "reset", relay)
          /\ UNCHANGED << graph, graphs, pairingVars >>
     ELSE /\ graph # 0 /\ RevokeAllAndForget(graph)
          /\ UNCHANGED << relayVars, call, graph, graphs >>
  /\ UNCHANGED << relay, relays, wiring, sweepDone, jobVars, slipped, crossed >>

\* After stop() each call makes #relay null, whatever is in it by now.
StopEnds(c) ==
  /\ call[c].pc = "stopping" /\ ~Pending(call[c].mgr, c)
  /\ relay' = 0
  /\ crossed' = (crossed \/ relay \notin {0, call[c].mgr})
  /\ UNCHANGED << wiring, relays, sweepDone, jobVars, calls >>

StopReturns(c) ==
  /\ call[c].what = "stop" /\ StopEnds(c) /\ Return(c)
  /\ UNCHANGED << relayVars, pairingVars, graph, graphs, ticking, slipped >>

ResetReturns(c) ==
  /\ call[c].what = "reset" /\ StopEnds(c) /\ Return(c)
  /\ graph # 0
  /\ RevokeAllAndForget(graph)
  /\ UNCHANGED << relayVars, graph, graphs, ticking, slipped >>

\* The graph is dropped with whatever its engine still drives; startServer(), whose
\* sweep is done already, builds the next graph at once.
FolderReturns(c) ==
  /\ call[c].what = "folder"
  /\ call[c].pc = "stopping" /\ ~Pending(call[c].mgr, c)
  /\ crossed' = (crossed \/ relay \notin {0, call[c].mgr})
  /\ slipped' = slipped \cup (LeftBehind \ call[c].todo)
  /\ graph' = graphs + 1 /\ graphs' = graphs + 1 /\ BuildAuth(graphs + 1)
  /\ relays' = relays + 1 /\ relay' = relays'
  /\ wiring' = [wiring EXCEPT ![relays'] = graphs']
  /\ Chain(c, relays', "start") /\ Await(c, "starting", "start", relays')
  /\ ticking' = FALSE
  /\ UNCHANGED << sweepDone, jobVars, calls >>

\* A restart of the program: what is not stored is gone, the engines' drivers with it.
Restart ==
  /\ calls < MaxCalls /\ calls' = calls + 1
  /\ graph # 0
  /\ graph' = 0 /\ relay' = 0
  /\ mgr' = [r \in Managers |-> Fresh]
  /\ sweepDone' = FALSE
  /\ call' = [c \in Callers |-> Idle]
  /\ ticking' = FALSE
  /\ lastJob' = NoJob
  /\ driver' = [j \in Jobs |-> 0]
  /\ Forget
  /\ wiring' = [r \in Managers |-> 0]
  /\ UNCHANGED << adapter, flaps, bindFaults, graphs, relays, jobs, slipped, crossed >>

-----------------------------------------------------------------------------
(* Calls that await nothing *)

\* Whatever the UI reads makes the graph: getActiveJob(), getHistory(), listPairedClients().
Look ==
  /\ graph = 0
  /\ EnsureGraph
  /\ UNCHANGED << relayVars, serverVars, jobVars, ghostVars >>

GeneratePairingCode ==
  /\ graph # 0 /\ BeginPairing(graph)
  /\ UNCHANGED << relayVars, serverVars, jobVars, ghostVars, graph, graphs >>

RevokePairedClient ==
  /\ graph # 0
  /\ \E t \in Tokens : Revoke(graph, t)
  /\ UNCHANGED << relayVars, serverVars, jobVars, ghostVars, graph, graphs >>

TimePasses ==
  /\ CodeExpires
  /\ UNCHANGED << relayVars, serverVars, jobVars, ghostVars, graph, graphs >>

-----------------------------------------------------------------------------
(* Requests of clients, and the engines *)

\* A client reaches the graph of a manager that listens where the adapter is.
Serving(g) ==
  \E r \in Managers : mgr[r].sock # NoAddress /\ mgr[r].sock = adapter /\ wiring[r] = g

\* The preHandler lets a request with the token t through.
Admitted(g) == Serving(g) /\ \E t \in auth[g].known : Accepts(auth[g], t)

Pair ==
  /\ \E g \in Graphs : Serving(g) /\ \E c \in auth[g].pending : PairAttempt(g, c)
  /\ UNCHANGED << relayVars, serverVars, jobVars, ghostVars, graph, graphs >>

\* onRecordChanged(): every record a graph saves replaces #lastJob, a terminal one by null.
Saves(j, state) ==
  /\ jobs' = [jobs EXCEPT ![j] = state]
  /\ lastJob' = IF state = "ended" THEN NoJob ELSE j
  /\ UNCHANGED << relayVars, pairingVars, serverVars, ghostVars, graph, graphs >>

Intake(j) ==
  /\ jobs[j] = "none" /\ \A i \in Jobs : i < j => jobs[i] # "none"
  /\ graph # 0 /\ Admitted(graph)
  /\ Saves(j, "draft")
  /\ UNCHANGED driver

\* A start or a retry; the engine refuses one while it drives another.
Commit(j) ==
  /\ jobs[j] \in {"draft", "ended"} /\ driver[j] = 0
  /\ graph # 0 /\ Admitted(graph)
  /\ \A i \in Jobs : driver[i] # graph
  /\ driver' = [driver EXCEPT ![j] = graph]
  /\ Saves(j, "running")

CancelDraft(j) ==
  /\ jobs[j] = "draft"
  /\ graph # 0 /\ Admitted(graph)
  /\ Saves(j, "ended")
  /\ UNCHANGED driver

Progress(j) ==
  /\ driver[j] # 0 /\ lastJob # j
  /\ Saves(j, jobs[j])
  /\ UNCHANGED driver

\* The end of a job that another graph drives is not in the records of the graph in use.
Finish(j) ==
  /\ driver[j] # 0
  /\ driver' = [driver EXCEPT ![j] = 0]
  /\ jobs' = [jobs EXCEPT ![j] = IF driver[j] = graph THEN "ended" ELSE @]
  /\ lastJob' = NoJob
  /\ UNCHANGED << relayVars, pairingVars, serverVars, ghostVars, graph, graphs >>

\* pushTick(): the first job that is not terminal.  (The power blocker follows #lastJob.)
PushTick ==
  /\ ticking
  /\ IF \E j \in Jobs : Active(j) THEN \E j \in Jobs : Active(j) /\ lastJob' = j
                                  ELSE lastJob' = NoJob
  /\ EnsureGraph
  /\ UNCHANGED << relayVars, relay, relays, wiring, sweepDone, call, ticking, jobs, driver,
                  ghostVars >>

-----------------------------------------------------------------------------

CallStep(c) ==
  \/ SweepOne(c) \/ SweepEnds(c) \/ StartEnds(c) \/ SelectEnds(c)
  \/ StopReturns(c) \/ ResetReturns(c) \/ FolderReturns(c)

UserCall(c) == Start(c) \/ Stop(c) \/ SelectInterface(c) \/ ChangeFolder(c) \/ UpdateSettings(c)
               \/ Reset(c)

AboveRelay == << pairingVars, serverVars, jobVars, ghostVars, graph, graphs >>

ChainStep(r)  == RelayStep(r) /\ UNCHANGED AboveRelay
WatcherDue(r) == WatchTick(r) /\ UNCHANGED AboveRelay
AdapterMoves  == AdapterChanges /\ UNCHANGED AboveRelay

Next ==
  \/ AdapterMoves
  \/ \E r \in Managers : ChainStep(r) \/ WatcherDue(r)
  \/ \E c \in Callers : CallStep(c) \/ UserCall(c)
  \/ Restart
  \/ Look \/ GeneratePairingCode \/ RevokePairedClient \/ TimePasses
  \/ Pair \/ PushTick
  \/ \E j \in Jobs : Intake(j) \/ Commit(j) \/ CancelDraft(j) \/ Progress(j) \/ Finish(j)

Spec == Init /\ [][Next]_vars

\* The event loop runs what is due: links of the chains and watch ticks.
Fairness == \A r \in Managers : WF_vars(ChainStep(r)) /\ WF_vars(WatcherDue(r))

FairSpec == Spec /\ Fairness

-----------------------------------------------------------------------------
(* Properties, up to the first two calls that cross *)

Uncrossed == ~crossed

\* Once a call that stops the relay has returned nothing of it is left: a socket or
\* a watcher belongs to #relay, or to a manager whose stop() is still awaited.
NoStrayListener ==
  Uncrossed => \A r \in Managers :
    (mgr[r].sock # NoAddress \/ mgr[r].watcher) =>
      r = relay \/ \E c \in Callers : call[c].pc = "stopping" /\ call[c].mgr = r

\* auth-persistence.ts:4: paired clients survive restarts, and so do revocations:
\* whatever folder changes, resets and restarts there were, the graph in use, and one
\* built from safeStorage, accept the tokens of those who are paired and nobody
\* else's; but for tokens issued under a secret that a reset has deleted.
PairedLast ==
  \A t \in DOMAIN issued :
    \A s \in {stored} \cup (IF graph = 0 THEN {} ELSE {auth[graph]}) :
      /\ t \in removed => ~Accepts(s, t)
      /\ t \notin removed /\ issued[t] = stored.secret => Accepts(s, t)

\* A job that its record calls running is driven by the engine the UI talks to, or
\* waits for the sweep; but for those that #lastJob did not show when the folder was
\* changed, or that began while the relay was being stopped.
Driven ==
  Uncrossed => \A j \in Jobs \ slipped :
    Running(j) => \/ driver[j] # 0 /\ driver[j] = graph
                  \/ driver[j] = 0 /\ ~sweepDone

\* When Radmin has settled, the relay in use that watches an adapter it knows is
\* listening there, however often it went and came, on the address it had or on
\* another, and whatever calls came between; but for a relay whose watcher found
\* another address while it listened (lifecycle.ts:333), until it finds it gone.
Recovers ==
  <>[](\A r \in Managers :
        (/\ r = relay /\ mgr[r].watcher /\ mgr[r].named /\ ~mgr[r].moved
         /\ adapter # NoAddress) => mgr[r].state = "listening" /\ mgr[r].sock = adapter)
=============================================================================
