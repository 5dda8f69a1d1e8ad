----------------------- MODULE ServerControllerProofs -----------------------
(* What ServerController keeps while its calls do not cross: nothing listens  *)
(* but the relay in use, tokens outlive graphs and restarts, and a running    *)
(* job has its engine, for any number of callers, jobs, managers and tokens.  *)
(* At the end, ServerWindow: what the setup wizard in front of the controller *)
(* shows as done is so, for any number of clicks, answers and jobs.           *)
EXTENDS ServerController, SetupWizard, FiniteSetTheorems, TLAPS

-----------------------------------------------------------------------------
(* Types *)

LinkRecords == [task : Tasks, by : Callers \cup {Nobody}]

Relays ==
  [ state : {"stopped", "starting", "listening", "unavailable", "error"},
    sock : Places, address : Places, named : BOOLEAN, target : Places, watcher : BOOLEAN,
    moved : BOOLEAN,
    pc : {"idle", "closing", "binding"}, task : Tasks \cup {"shutdown", "follow"},
    by : Callers \cup {Nobody}, chain : Seq(LinkRecords) ]

CallRecords ==
  [ pc : {"idle", "sweeping", "starting", "stopping", "rebinding"},
    what : {"none", "start", "stop", "select", "folder", "reset"},
    mgr : Nat, graph : Nat, todo : SUBSET Jobs ]

Stores == [secret : Nat, known : SUBSET Nat, revoked : SUBSET Nat]
Auths  == [secret : Nat, known : SUBSET Nat, revoked : SUBSET Nat, pending : SUBSET Nat]

RelayTyped == adapter \in Places /\ mgr \in [Managers -> Relays]

ServerTyped ==
  /\ graph \in Nat /\ graphs \in Nat /\ relay \in Nat /\ relays \in Nat
  /\ wiring \in [Managers -> Nat] /\ call \in [Callers -> CallRecords]
  /\ sweepDone \in BOOLEAN /\ calls \in 0 .. MaxCalls

JobsTyped ==
  /\ lastJob \in Jobs \cup {NoJob}
  /\ jobs \in [Jobs -> JobState] /\ driver \in [Jobs -> Nat] /\ slipped \subseteq Jobs

PairingTyped ==
  /\ auth \in [Graphs -> Auths] /\ stored \in Stores
  /\ secrets \in Nat /\ issued \in Seq(Nat) /\ shown \in Nat /\ removed \subseteq Nat

Typed == RelayTyped /\ ServerTyped /\ JobsTyped /\ PairingTyped

-----------------------------------------------------------------------------
(* Chains *)

LEMMA Appended ==
  ASSUME NEW s \in Seq(LinkRecords), NEW x \in LinkRecords
  PROVE  /\ Append(s, x) \in Seq(LinkRecords)
         /\ DOMAIN s = 1 .. Len(s) /\ DOMAIN Append(s, x) = 1 .. Len(s) + 1 /\ Len(s) \in Nat
         /\ \A i \in 1 .. Len(s) : Append(s, x)[i] = s[i]
         /\ Append(s, x)[Len(s) + 1] = x
OBVIOUS

LEMMA Popped ==
  ASSUME NEW s \in Seq(LinkRecords), s # << >>
  PROVE  /\ Tail(s) \in Seq(LinkRecords) /\ Head(s) \in LinkRecords /\ Head(s) = s[1]
         /\ DOMAIN s = 1 .. Len(s) /\ DOMAIN Tail(s) = 1 .. Len(s) - 1 /\ Len(s) \in Nat \ {0}
         /\ \A i \in 1 .. Len(s) - 1 : Tail(s)[i] = s[i + 1]
OBVIOUS

Tame(chain) == \A i \in DOMAIN chain : chain[i].task \in {"tick", "stop"}

\* Nothing behind a stop brings the listener up again.
InOrder(chain) ==
  \A i, k \in DOMAIN chain : i < k /\ chain[i].task = "stop" => chain[k].task \in {"tick", "stop"}

Silent(m) == m.sock = NoAddress /\ ~m.watcher /\ Tame(m.chain)
Dead(m)  == m.pc = "idle" /\ m.state = "stopped" /\ Silent(m)
Dying(m) == m.pc = "closing" /\ m.task = "stop" /\ Silent(m)
Stopped(m) == Dead(m) \/ Dying(m)

-----------------------------------------------------------------------------
(* One manager *)

LEMMA FreshTyped == Fresh \in Relays /\ Dead(Fresh)
BY DEF Fresh, Relays, Places, Tasks, Dead, Silent, Tame

LEMMA OverTyped ==
  ASSUME NEW m \in Relays
  PROVE  /\ Over(m) \in Relays /\ Over(m).pc = "idle" /\ Over(m).chain = m.chain
         /\ Over(m).state = m.state /\ Over(m).sock = m.sock /\ Over(m).watcher = m.watcher
BY DEF Over, Relays, Places, Tasks

\* What a task leaves of the manager that runs it.
Goes(m, n) ==
  /\ n \in Relays /\ n.chain = m.chain /\ n.by \in {m.by, Nobody}
  /\ n.pc = "idle" \/ (n.by = m.by /\ (n.task = m.task \/ (m.task = "tick" /\ n.task \in {"shutdown", "follow"})))

LEMMA StartGoes ==
  ASSUME RelayTyped, NEW m \in Relays
  PROVE  Goes(m, StartLocked(m)) /\ StartLocked(m).pc # "closing"
<1>1. CASE m.state \in {"listening", "starting"}
  BY <1>1, OverTyped DEF StartLocked, Goes, Over, Relays
<1>2. CASE m.state \notin {"listening", "starting"} /\ adapter = NoAddress
  <2> DEFINE n == [m EXCEPT !.state = "unavailable", !.named = FALSE, !.address = NoAddress]
  <2>1. n \in Relays /\ n.chain = m.chain
    BY DEF Relays, Places
  <2>2. StartLocked(m) = Over(n)
    BY <1>2 DEF StartLocked
  <2>3. Over(n).by = Nobody
    BY <2>1 DEF Over, Relays
  <2> HIDE DEF n
  <2> QED
    BY <2>1, <2>2, <2>3, OverTyped DEF Goes
<1>3. CASE m.state \notin {"listening", "starting"} /\ adapter # NoAddress
  <2> DEFINE n == [m EXCEPT !.state = "starting", !.pc = "binding", !.target = adapter]
  <2>1. n \in Relays /\ n.chain = m.chain /\ n.by = m.by /\ n.task = m.task /\ n.pc = "binding"
    BY DEF Relays, RelayTyped
  <2>2. StartLocked(m) = n
    BY <1>3 DEF StartLocked
  <2> QED
    BY <2>1, <2>2 DEF Goes
<1> QED
  BY <1>1, <1>2, <1>3

LEMMA ClosedGoes ==
  ASSUME RelayTyped, NEW m \in Relays
  PROVE  /\ Goes(m, Closed(m)) /\ Closed(m).pc # "closing"
         /\ m.task = "stop" /\ Silent(m) => Dead(Closed(m))
<1>1. CASE m.task = "stop"
  <2> DEFINE n == [m EXCEPT !.state = "stopped", !.named = FALSE, !.address = NoAddress]
  <2>1. /\ n \in Relays /\ n.chain = m.chain /\ n.state = "stopped"
        /\ n.sock = m.sock /\ n.watcher = m.watcher
    BY DEF Relays, Places
  <2>2. Closed(m) = Over(n)
    BY <1>1 DEF Closed
  <2>3. Over(n).by = Nobody
    BY <2>1 DEF Over, Relays
  <2> HIDE DEF n
  <2> QED
    BY <2>1, <2>2, <2>3, OverTyped DEF Goes, Dead, Silent
<1>2. CASE m.task = "shutdown"
  <2> DEFINE n == [m EXCEPT !.state = "unavailable"]
  <2>1. n \in Relays /\ n.chain = m.chain
    BY DEF Relays
  <2>2. Closed(m) = Over(n)
    BY <1>2 DEF Closed
  <2>3. Over(n).by = Nobody
    BY <2>1 DEF Over, Relays
  <2> HIDE DEF n
  <2> QED
    BY <1>2, <2>1, <2>2, <2>3, OverTyped DEF Goes
<1>3. CASE m.task = "rebind"
  <2> DEFINE n == [m EXCEPT !.state = "stopped"]
  <2>1. n \in Relays /\ n.chain = m.chain /\ n.by = m.by /\ n.task = m.task
    BY DEF Relays
  <2>2. Closed(m) = StartLocked(n)
    BY <1>3 DEF Closed
  <2> HIDE DEF n
  <2>3. Goes(n, StartLocked(n)) /\ StartLocked(n).pc # "closing"
    BY <2>1, StartGoes
  <2> QED
    BY <1>3, <2>1, <2>2, <2>3 DEF Goes
<1>4. CASE m.task \notin {"stop", "shutdown", "rebind"}
  <2>1. Closed(m) = StartLocked(m)
    BY <1>4 DEF Closed
  <2> QED
    BY <1>4, <2>1, StartGoes
<1> QED
  BY <1>1, <1>2, <1>3, <1>4

LEMMA CloseGoes ==
  ASSUME RelayTyped, NEW m \in Relays
  PROVE  /\ Goes(m, CloseThen(m))
         /\ m.task = "stop" /\ ~m.watcher /\ Tame(m.chain) => Stopped(CloseThen(m))
<1>1. CASE m.sock = NoAddress
  BY <1>1, ClosedGoes DEF CloseThen, Stopped, Silent
<1>2. CASE m.sock # NoAddress
  <2> DEFINE n == [m EXCEPT !.sock = NoAddress, !.pc = "closing"]
  <2>1. /\ n \in Relays /\ n.chain = m.chain /\ n.by = m.by /\ n.task = m.task
        /\ n.sock = NoAddress /\ n.pc = "closing" /\ n.watcher = m.watcher
    BY DEF Relays, Places
  <2>2. CloseThen(m) = n
    BY <1>2 DEF CloseThen
  <2> HIDE DEF n
  <2> QED
    BY <2>1, <2>2 DEF Goes, Stopped, Dying, Silent
<1> QED
  BY <1>1, <1>2

LEMMA TickGoes ==
  ASSUME RelayTyped, NEW m \in Relays, m.task = "tick"
  PROVE  Goes(m, Tick(m)) /\ (Silent(m) /\ m.state = "stopped" => Dead(Tick(m)))
<1>1. Goes(m, Over(m)) /\ (Silent(m) /\ m.state = "stopped" => Dead(Over(m)))
  BY OverTyped DEF Goes, Over, Dead, Silent, Relays
<1>2. ASSUME NEW t \in {"shutdown", "follow"}, NEW a \in Places, NEW b \in BOOLEAN
      PROVE  Goes(m, CloseThen([m EXCEPT !.task = t, !.address = a, !.moved = b]))
  <2> DEFINE n == [m EXCEPT !.task = t, !.address = a, !.moved = b]
  <2>1. n \in Relays /\ n.chain = m.chain /\ n.by = m.by /\ n.task = t
    BY DEF Relays
  <2> HIDE DEF n
  <2>2. Goes(n, CloseThen(n))
    BY <2>1, CloseGoes
  <2>3. Goes(m, CloseThen(n))
    BY <2>1, <2>2 DEF Goes
  <2> QED
    BY <2>3 DEF n
<1>3. Goes(m, CloseThen([m EXCEPT !.task = "shutdown", !.moved = FALSE]))
  <2>1. [m EXCEPT !.task = "shutdown", !.moved = FALSE]
          = [m EXCEPT !.task = "shutdown", !.address = m.address, !.moved = FALSE]
    BY DEF Relays
  <2> QED
    BY <1>2, <2>1 DEF Relays
<1>4. Goes(m, CloseThen([m EXCEPT !.task = "follow", !.address = adapter,
                                  !.moved = (m.state = "listening")]))
  BY <1>2 DEF RelayTyped
<1>5. Goes(m, StartLocked(m))
  BY StartGoes
<1>6. m.state = "stopped" => Tick(m) = Over(m)
  BY DEF Tick
<1> QED
  BY <1>1, <1>3, <1>4, <1>5, <1>6 DEF Tick

\* A stop is the end of a manager, and a manager that was stopped stays so.
LEMMA RunGoes ==
  ASSUME RelayTyped, NEW m \in Relays, m.task \in Tasks
  PROVE  /\ Goes(m, Run(m))
         /\ m.task = "stop" => (Tame(m.chain) => Stopped(Run(m)))
         /\ m.task = "tick" /\ Silent(m) /\ m.state = "stopped" => Dead(Run(m))
<1>1. CASE m.task = "start"
  BY <1>1, StartGoes DEF Run
<1>2. CASE m.task = "stop"
  <2> DEFINE n == [m EXCEPT !.watcher = FALSE, !.moved = FALSE]
  <2>1. n \in Relays /\ n.chain = m.chain /\ n.by = m.by /\ n.task = m.task /\ ~n.watcher
    BY DEF Relays
  <2>2. Run(m) = CloseThen(n)
    BY <1>2 DEF Run
  <2> HIDE DEF n
  <2>3. Goes(n, CloseThen(n)) /\ (Tame(m.chain) => Stopped(CloseThen(n)))
    BY <1>2, <2>1, CloseGoes
  <2> QED
    BY <1>2, <2>1, <2>2, <2>3 DEF Goes
<1>3. CASE m.task = "rebind"
  <2> DEFINE n == [m EXCEPT !.moved = FALSE]
  <2>1. n \in Relays /\ n.chain = m.chain /\ n.by = m.by /\ n.task = m.task
    BY DEF Relays
  <2>2. Run(m) = CloseThen(n)
    BY <1>3 DEF Run
  <2> HIDE DEF n
  <2>3. Goes(n, CloseThen(n))
    BY <2>1, CloseGoes
  <2> QED
    BY <1>3, <2>1, <2>2, <2>3 DEF Goes
<1>4. CASE m.task = "tick"
  BY <1>4, TickGoes DEF Run
<1> QED
  BY <1>1, <1>2, <1>3, <1>4 DEF Tasks

-----------------------------------------------------------------------------
(* The managers and the calls that wait for them *)

Awaiting == [start |-> "starting", stop |-> "stopping", rebind |-> "rebinding"]

\* Every task but a tick has a call that waits for it.
LinkOK(cs, r, task, by) ==
  IF task \in {"start", "stop", "rebind"}
  THEN by \in Callers /\ cs[by].mgr = r /\ cs[by].pc = Awaiting[task]
  ELSE by = Nobody

LinksOK(cs, r, m) ==
  /\ \A i \in DOMAIN m.chain : LinkOK(cs, r, m.chain[i].task, m.chain[i].by)
  /\ m.pc # "idle" => LinkOK(cs, r, m.task, m.by)

StopsLast(m) == InOrder(m.chain) /\ (m.pc # "idle" /\ m.task = "stop" => Dying(m))

Linked == \A r \in Managers : LinksOK(call, r, mgr[r]) /\ StopsLast(mgr[r])

Awaits(m, c) ==
  \/ m.pc # "idle" /\ m.by = c
  \/ \E i \in DOMAIN m.chain : m.chain[i].by = c

\* A stop that is not pending any more has stopped its manager.
StopDone(cs, r, m) ==
  \A c \in Callers : cs[c].pc = "stopping" /\ cs[c].mgr = r => Awaits(m, c) \/ Stopped(m)

\* Only the relay in use is not stopped.
OneUp ==
  /\ \A r \in Managers : r # relay => Stopped(mgr[r])
  /\ \A r \in Managers : r > relays => mgr[r] = Fresh
  /\ \A r \in Managers : StopDone(call, r, mgr[r])
  /\ relay <= relays /\ \A c \in Callers : call[c].pc = "stopping" => call[c].mgr <= relays

LInv == Linked /\ OneUp

\* m, which runs a task of its chain, may be what a manager r is then.
Runs(cs, r, m) ==
  /\ m \in Relays /\ InOrder(m.chain)
  /\ \A i \in DOMAIN m.chain : LinkOK(cs, r, m.chain[i].task, m.chain[i].by)
  /\ LinkOK(cs, r, m.task, m.by)
  /\ m.task = "stop" => Tame(m.chain)

LEMMA RunLinked ==
  ASSUME RelayTyped, NEW cs, NEW r, NEW m, Runs(cs, r, m), m.task \in Tasks
  PROVE  /\ LinksOK(cs, r, Run(m)) /\ StopsLast(Run(m)) /\ Run(m) \in Relays
         /\ Run(m).chain = m.chain
         /\ m.task = "stop" => Stopped(Run(m))
<1>1. Goes(m, Run(m)) /\ (m.task = "stop" => Stopped(Run(m)))
  BY RunGoes DEF Runs
<1>2. LinksOK(cs, r, Run(m))
  BY <1>1 DEF Goes, LinksOK, Runs, LinkOK
<1>3. StopsLast(Run(m))
  BY <1>1 DEF Goes, StopsLast, Runs, Stopped, Dead
<1> QED
  BY <1>1, <1>2, <1>3 DEF Goes

\* One manager moves on.
LEMMA MgrMoves ==
  ASSUME Typed, LInv, NEW r \in Managers, NEW n, mgr' = [mgr EXCEPT ![r] = n], n \in Relays,
         LinksOK(call, r, n), StopsLast(n), Stopped(mgr[r]) => Stopped(n),
         \A c \in Callers : call[c].pc = "stopping" /\ call[c].mgr = r /\ Awaits(mgr[r], c)
                              => Awaits(n, c) \/ Stopped(n),
         mgr[r] # Fresh,
         UNCHANGED << call, relay, relays >>
  PROVE  LInv'
<1>1. mgr'[r] = n /\ \A x \in Managers \ {r} : mgr'[x] = mgr[x]
  BY DEF Typed, RelayTyped
<1>2. Linked'
  BY <1>1 DEF Linked, LInv, LinksOK, LinkOK
<1>3. \A x \in Managers : x > relays => mgr'[x] = Fresh
  BY <1>1 DEF LInv, OneUp
<1>4. \A x \in Managers : StopDone(call, x, mgr[x]) /\ (x # relay => Stopped(mgr[x]))
  BY DEF LInv, OneUp
<1>5. ASSUME NEW x \in Managers
      PROVE  StopDone(call, x, mgr[x])'
  <2>1. CASE x = r
    BY <1>1, <1>4, <2>1 DEF StopDone
  <2>2. CASE x # r
    BY <1>1, <1>4, <2>2 DEF StopDone
  <2> QED
    BY <2>1, <2>2
<1>6. \A x \in Managers : x # relay => Stopped(mgr'[x])
  BY <1>1, <1>4
<1> QED
  BY <1>2, <1>3, <1>5, <1>6 DEF LInv, OneUp

LEMMA ChainedLinked ==
  ASSUME RelayTyped, NEW cs, NEW r, NEW m \in Relays, NEW task \in Tasks, NEW by \in Callers \cup {Nobody},
         LinksOK(cs, r, m), StopsLast(m), LinkOK(cs, r, task, by),
         task \in {"start", "rebind"} =>
           /\ \A i \in DOMAIN m.chain : m.chain[i].task # "stop"
           /\ ~(m.pc # "idle" /\ m.task = "stop")
  PROVE  LET n == Chained(m, task, by) IN
         /\ n \in Relays /\ LinksOK(cs, r, n) /\ StopsLast(n)
         /\ \A c : Awaits(m, c) => Awaits(n, c)
         /\ task \in {"tick", "stop"} /\ Stopped(m) => Stopped(n)
         /\ task = "stop" => Awaits(n, by) \/ Stopped(n)
<1>1. CASE m.pc = "idle" /\ m.chain = << >>
  <2> DEFINE k == [m EXCEPT !.task = task, !.by = by]
  <2>1. /\ k \in Relays /\ k.chain = m.chain /\ k.by = by /\ k.task = task
        /\ k.sock = m.sock /\ k.watcher = m.watcher /\ k.state = m.state
    BY DEF Relays
  <2>2. Chained(m, task, by) = Run(k)
    BY <1>1 DEF Chained
  <2> HIDE DEF k
  <2>3. DOMAIN k.chain = {}
    BY <1>1, <2>1
  <2>4. Runs(cs, r, k)
    BY <2>1, <2>3 DEF Runs, InOrder, Tame
  <2>5. /\ LinksOK(cs, r, Run(k)) /\ StopsLast(Run(k)) /\ Run(k) \in Relays /\ Run(k).chain = m.chain
        /\ task = "stop" => Stopped(Run(k))
    BY <2>1, <2>4, RunLinked
  <2>6. task = "tick" /\ Stopped(m) => Stopped(Run(k))
    BY <1>1, <2>1, RunGoes DEF Stopped, Dead, Dying, Silent
  <2>7. \A c : ~Awaits(m, c)
    BY <1>1, <2>1, <2>3 DEF Awaits
  <2> QED
    BY <2>2, <2>5, <2>6, <2>7
<1>2. CASE m.pc # "idle" \/ m.chain # << >>
  <2> DEFINE x == [task |-> task, by |-> by]
             n == [m EXCEPT !.chain = Append(m.chain, x)]
  <2>1. x \in LinkRecords /\ x.task = task /\ x.by = by
    BY DEF LinkRecords
  <2>2. Chained(m, task, by) = n
    BY <1>2 DEF Chained
  <2>3. m.chain \in Seq(LinkRecords)
    BY DEF Relays
  <2>4. /\ Append(m.chain, x) \in Seq(LinkRecords)
        /\ DOMAIN m.chain = 1 .. Len(m.chain) /\ DOMAIN Append(m.chain, x) = 1 .. Len(m.chain) + 1
        /\ Len(m.chain) \in Nat
        /\ \A i \in 1 .. Len(m.chain) : Append(m.chain, x)[i] = m.chain[i]
        /\ Append(m.chain, x)[Len(m.chain) + 1] = x
    <3> HIDE DEF x
    <3> QED
      BY <2>1, <2>3, Appended
  <2>5. /\ n \in Relays /\ n.chain = Append(m.chain, x) /\ n.pc = m.pc /\ n.task = m.task /\ n.by = m.by
        /\ n.sock = m.sock /\ n.watcher = m.watcher /\ n.state = m.state
    BY <2>3, <2>4 DEF Relays
  <2> DEFINE l == Len(m.chain)
  <2>6. /\ DOMAIN m.chain = 1 .. l /\ DOMAIN n.chain = 1 .. l + 1 /\ l \in Nat
        /\ \A i \in 1 .. l : n.chain[i] = m.chain[i]
        /\ n.chain[l + 1].task = task /\ n.chain[l + 1].by = by
    BY <2>1, <2>4, <2>5
  <2> HIDE DEF x, n, l
  <2>7. LinksOK(cs, r, n)
    <3>1. \A i \in 1 .. l + 1 : i = l + 1 \/ i \in 1 .. l
      BY <2>6
    <3>2. \A i \in DOMAIN n.chain : LinkOK(cs, r, n.chain[i].task, n.chain[i].by)
      BY <2>6, <3>1 DEF LinksOK
    <3> QED
      BY <2>5, <3>2 DEF LinksOK
  <2>8. Tame(m.chain) /\ task \in {"tick", "stop"} => Tame(n.chain)
    BY <2>6 DEF Tame
  <2>9. InOrder(n.chain)
    <3> SUFFICES ASSUME NEW i \in 1 .. l + 1, NEW k \in 1 .. l + 1, i < k, n.chain[i].task = "stop"
                 PROVE  n.chain[k].task \in {"tick", "stop"}
      BY <2>6 DEF InOrder
    <3>1. i \in 1 .. l /\ m.chain[i].task = "stop"
      BY <2>6
    <3>2. CASE k = l + 1
      BY <2>6, <3>1, <3>2 DEF Tasks
    <3>3. CASE k \in 1 .. l
      BY <2>6, <3>1, <3>3 DEF StopsLast, InOrder
    <3> QED
      BY <2>6, <3>2, <3>3
  <2>10. StopsLast(n)
    BY <2>5, <2>8, <2>9 DEF StopsLast, Dying, Silent, Tasks
  <2>11. \A c : Awaits(m, c) => Awaits(n, c)
    BY <2>5, <2>6 DEF Awaits
  <2>12. task \in {"tick", "stop"} /\ Stopped(m) => Stopped(n)
    BY <2>5, <2>8 DEF Stopped, Dead, Dying, Silent
  <2>13. Awaits(n, by)
    BY <2>6 DEF Awaits
  <2> QED
    BY <2>2, <2>5, <2>7, <2>10, <2>11, <2>12, <2>13
<1> QED
  BY <1>1, <1>2

-----------------------------------------------------------------------------
(* The steps of a chain *)

\* Calls that stop wait for nothing but stops.
LEMMA StopAwaited ==
  ASSUME Typed, LInv, NEW r \in Managers, NEW c \in Callers,
         call[c].pc = "stopping"
  PROVE  /\ mgr[r].pc # "idle" /\ mgr[r].by = c => mgr[r].task = "stop" /\ Dying(mgr[r])
         /\ \A i \in DOMAIN mgr[r].chain : mgr[r].chain[i].by = c => mgr[r].chain[i].task = "stop"
BY ControllerConstants DEF LInv, Linked, LinksOK, LinkOK, Awaiting, StopsLast

LEMMA BeginLinked ==
  ASSUME Typed, LInv, NEW r \in Managers, Begin(r),
         UNCHANGED << call, relay, relays >>
  PROVE  LInv' /\ mgr' \in [Managers -> Relays]
<1> DEFINE m == mgr[r]
           link == Head(m.chain)
           k == [m EXCEPT !.task = link.task, !.by = link.by, !.chain = Tail(m.chain)]
<1>1. m \in Relays /\ m.pc = "idle" /\ m.chain # << >> /\ m.chain \in Seq(LinkRecords)
  BY DEF Begin, Typed, RelayTyped, Relays
<1>2. mgr' = [mgr EXCEPT ![r] = Run(k)]
  BY DEF Begin, Step
<1>3. LinksOK(call, r, m) /\ StopsLast(m)
  BY DEF LInv, Linked
<1> DEFINE l == Len(m.chain)
<1>4. /\ Tail(m.chain) \in Seq(LinkRecords) /\ link \in LinkRecords /\ link = m.chain[1]
      /\ DOMAIN m.chain = 1 .. l /\ DOMAIN Tail(m.chain) = 1 .. l - 1 /\ l \in Nat \ {0}
      /\ \A i \in 1 .. l - 1 : Tail(m.chain)[i] = m.chain[i + 1]
  <2> HIDE DEF m
  <2> QED
    BY <1>1, Popped
<1>5. link.task \in Tasks /\ link.by \in Callers \cup {Nobody}
  BY <1>4 DEF LinkRecords
<1>6. /\ k \in Relays /\ k.chain = Tail(m.chain) /\ k.task = link.task /\ k.by = link.by
      /\ k.sock = m.sock /\ k.watcher = m.watcher /\ k.state = m.state
  BY <1>1, <1>4, <1>5 DEF Relays
<1>7. DOMAIN k.chain = 1 .. l - 1 /\ \A i \in 1 .. l - 1 : i + 1 \in DOMAIN m.chain /\ k.chain[i] = m.chain[i + 1]
  BY <1>4, <1>6
<1>8. 1 \in DOMAIN m.chain /\ \A i \in DOMAIN m.chain : i = 1 \/ i - 1 \in DOMAIN k.chain
  BY <1>4, <1>7
<1>9. LinkOK(call, r, k.task, k.by)
  BY <1>3, <1>4, <1>6, <1>8 DEF LinksOK
<1>10. mgr[r] # Fresh
  BY <1>1 DEF Fresh
<1> HIDE DEF k, link
<1>11. InOrder(k.chain)
  <2> SUFFICES ASSUME NEW i \in 1 .. l - 1, NEW j \in 1 .. l - 1, i < j, k.chain[i].task = "stop"
               PROVE  k.chain[j].task \in {"tick", "stop"}
    BY <1>7 DEF InOrder
  <2>1. i + 1 < j + 1 /\ m.chain[i + 1].task = "stop"
    BY <1>4, <1>7
  <2> QED
    BY <1>3, <1>7, <2>1 DEF StopsLast, InOrder
<1>12. k.task = "stop" => Tame(k.chain)
  <2> SUFFICES ASSUME k.task = "stop", NEW i \in 1 .. l - 1
               PROVE  k.chain[i].task \in {"tick", "stop"}
    BY <1>7 DEF Tame
  <2>1. 1 < i + 1 /\ m.chain[1].task = "stop"
    BY <1>4, <1>6
  <2> QED
    BY <1>3, <1>7, <1>8, <2>1 DEF StopsLast, InOrder
<1>13. Runs(call, r, k)
  BY <1>3, <1>6, <1>7, <1>9, <1>11, <1>12 DEF Runs, LinksOK
<1> DEFINE n == Run(k)
<1>14. /\ LinksOK(call, r, n) /\ StopsLast(n) /\ n \in Relays /\ n.chain = k.chain
       /\ k.task = "stop" => Stopped(n)
  BY <1>5, <1>6, <1>13, RunLinked DEF Typed
<1>15. Stopped(m) => Stopped(n)
  <2> SUFFICES ASSUME Stopped(m)
               PROVE  Stopped(n)
    OBVIOUS
  <2>1. m.state = "stopped" /\ Silent(m)
    BY <1>1 DEF Stopped, Dead, Dying
  <2>2. k.task \in {"tick", "stop"}
    BY <1>4, <1>6, <1>8, <2>1 DEF Silent, Tame
  <2>3. k.state = "stopped" /\ Silent(k)
    BY <1>6, <1>7, <2>1 DEF Silent, Tame
  <2> QED
    BY <1>5, <1>6, <1>14, <2>2, <2>3, RunGoes DEF Stopped, Typed
<1>16. ASSUME NEW c \in Callers, call[c].pc = "stopping", call[c].mgr = r, Awaits(m, c)
       PROVE  Awaits(n, c) \/ Stopped(n)
  <2>1. PICK i \in DOMAIN m.chain : m.chain[i].by = c
    BY <1>1, <1>16 DEF Awaits
  <2>2. CASE i = 1
    BY <1>4, <1>6, <1>14, <1>16, <2>1, <2>2, StopAwaited
  <2>3. CASE i # 1
    <3>1. i - 1 \in DOMAIN k.chain /\ (i - 1) + 1 = i
      BY <1>4, <1>8, <2>1, <2>3
    <3>2. k.chain[i - 1].by = c
      BY <1>4, <1>7, <2>1, <3>1
    <3> QED
      BY <1>14, <3>1, <3>2 DEF Awaits
  <2> QED
    BY <2>2, <2>3
<1> HIDE DEF n
<1>17. mgr' = [mgr EXCEPT ![r] = n]
  BY <1>2 DEF n
<1>18. LInv'
  BY <1>10, <1>14, <1>15, <1>16, <1>17, MgrMoves
<1> QED
  BY <1>14, <1>17, <1>18 DEF Typed, RelayTyped

LEMMA CloseLinked ==
  ASSUME Typed, LInv, NEW r \in Managers, CloseDone(r),
         UNCHANGED << call, relay, relays >>
  PROVE  LInv' /\ mgr' \in [Managers -> Relays]
<1> DEFINE m == mgr[r]
           n == Closed(m)
<1>1. m \in Relays /\ m.pc = "closing" /\ mgr' = [mgr EXCEPT ![r] = n] /\ m # Fresh
  BY DEF CloseDone, Step, Typed, RelayTyped, Fresh
<1>2. LinksOK(call, r, m) /\ StopsLast(m)
  BY DEF LInv, Linked
<1>3. Goes(m, n) /\ n.pc # "closing" /\ (m.task = "stop" /\ Silent(m) => Dead(n))
  BY <1>1, ClosedGoes DEF Typed
<1> HIDE DEF n
<1>4. m.task = "stop" => Dead(n)
  BY <1>1, <1>2, <1>3 DEF StopsLast, Dying
<1>5. LinksOK(call, r, n)
  BY <1>1, <1>2, <1>3 DEF Goes, LinksOK, LinkOK
<1>6. StopsLast(n)
  BY <1>2, <1>3, <1>4 DEF Goes, StopsLast, Dead
<1>7. Stopped(m) => Stopped(n)
  BY <1>1, <1>4 DEF Stopped, Dead, Dying
<1>8. \A c \in Callers : call[c].pc = "stopping" /\ Awaits(m, c) => Awaits(n, c) \/ Stopped(n)
  BY <1>1, <1>3, <1>4, StopAwaited DEF Awaits, Goes, Stopped
<1>9. LInv'
  BY <1>1, <1>3, <1>5, <1>6, <1>7, <1>8, MgrMoves DEF Goes
<1> QED
  BY <1>1, <1>3, <1>9 DEF Goes, Typed, RelayTyped

LEMMA BindLinked ==
  ASSUME Typed, LInv, NEW r \in Managers, Bound(r) \/ BindFailed(r),
         UNCHANGED << call, relay, relays >>
  PROVE  LInv' /\ mgr' \in [Managers -> Relays]
<1> DEFINE m == mgr[r]
<1>1. m \in Relays /\ m.pc = "binding" /\ m # Fresh
  BY DEF Bound, BindFailed, Typed, RelayTyped, Fresh
<1>2. PICK k \in Relays : k.chain = m.chain /\ mgr' = [mgr EXCEPT ![r] = Over(k)]
  <2>1. CASE Bound(r)
    <3> DEFINE k == [m EXCEPT !.state = "listening", !.sock = m.target,
                              !.named = TRUE, !.address = m.target, !.watcher = TRUE]
    <3>1. k \in Relays /\ k.chain = m.chain
      BY <1>1 DEF Relays
    <3>2. mgr' = [mgr EXCEPT ![r] = Over(k)]
      BY <2>1 DEF Bound, Step
    <3> QED
      BY <3>1, <3>2
  <2>2. CASE BindFailed(r)
    <3> DEFINE k == [m EXCEPT !.state = "error"]
    <3>1. k \in Relays /\ k.chain = m.chain
      BY <1>1 DEF Relays
    <3>2. mgr' = [mgr EXCEPT ![r] = Over(k)]
      BY <2>2 DEF BindFailed, Step
    <3> QED
      BY <3>1, <3>2
  <2> QED
    BY <2>1, <2>2
<1> DEFINE n == Over(k)
<1>3. n \in Relays /\ n.pc = "idle" /\ n.chain = m.chain
  BY <1>2, OverTyped
<1> HIDE DEF n
<1>4. LinksOK(call, r, m) /\ StopsLast(m)
  BY DEF LInv, Linked
<1>5. LinksOK(call, r, n) /\ StopsLast(n)
  BY <1>3, <1>4 DEF LinksOK, StopsLast
<1>6. ~Stopped(m)
  BY <1>1 DEF Stopped, Dead, Dying
<1>7. \A c \in Callers : call[c].pc = "stopping" /\ Awaits(m, c) => Awaits(n, c)
  BY <1>1, <1>3, StopAwaited DEF Awaits, Dying
<1>8. mgr' = [mgr EXCEPT ![r] = n]
  BY <1>2 DEF n
<1>9. LInv'
  BY <1>1, <1>3, <1>5, <1>6, <1>7, <1>8, MgrMoves
<1> QED
  BY <1>3, <1>8, <1>9 DEF Typed, RelayTyped

LEMMA WatchLinked ==
  ASSUME Typed, LInv, NEW r \in Managers, WatchTick(r),
         UNCHANGED << call, relay, relays >>
  PROVE  LInv' /\ mgr' \in [Managers -> Relays]
<1> DEFINE m == mgr[r]
           n == Chained(m, "tick", Nobody)
<1>1. m \in Relays /\ m.watcher /\ mgr' = [mgr EXCEPT ![r] = n] /\ m # Fresh
  BY DEF WatchTick, Step, Typed, RelayTyped, Fresh
<1>2. LinksOK(call, r, m) /\ StopsLast(m)
  BY DEF LInv, Linked
<1>3. LinkOK(call, r, "tick", Nobody) /\ "tick" \in Tasks
  BY DEF LinkOK, Tasks
<1>4. /\ n \in Relays /\ LinksOK(call, r, n) /\ StopsLast(n)
      /\ \A c : Awaits(m, c) => Awaits(n, c)
  BY <1>1, <1>2, <1>3, ChainedLinked DEF Typed
<1> HIDE DEF n
<1>5. ~Stopped(m)
  BY <1>1 DEF Stopped, Dead, Dying, Silent
<1>6. LInv'
  BY <1>1, <1>4, <1>5, MgrMoves
<1> QED
  BY <1>1, <1>4, <1>6 DEF Typed, RelayTyped

-----------------------------------------------------------------------------
(* The calls *)

Unlinked(c) == \A r \in Managers : ~Awaits(mgr[r], c)

LEMMA Freed ==
  ASSUME Typed, LInv, NEW c \in Callers,
         call[c].pc \in {"idle", "sweeping"} \/ ~Pending(call[c].mgr, c)
  PROVE  Unlinked(c)
<1> SUFFICES ASSUME NEW r \in Managers, Awaits(mgr[r], c)
             PROVE  FALSE
  BY DEF Unlinked
<1>1. PICK task : LinkOK(call, r, task, c)
  BY DEF LInv, Linked, LinksOK, Awaits
<1>2. call[c].mgr = r /\ call[c].pc \in {"starting", "stopping", "rebinding"}
  BY <1>1, ControllerConstants DEF LinkOK, Awaiting
<1> QED
  BY <1>2 DEF Pending, Awaits

LEMMA OthersLinked ==
  ASSUME NEW c \in Callers, NEW cs, NEW ds, \A d \in Callers \ {c} : ds[d] = cs[d],
         NEW r, NEW m, LinksOK(cs, r, m), ~Awaits(m, c)
  PROVE  LinksOK(ds, r, m)
BY DEF LinksOK, LinkOK, Awaits

\* A call begins or returns without a task for a manager.
LEMMA CallMoves ==
  ASSUME Typed, LInv, NEW c \in Callers, NEW v, call' = [call EXCEPT ![c] = v], Unlinked(c),
         v.pc # "stopping", mgr' = mgr, relays' = relays, relay' \in {relay, 0},
         relay' = relay \/ (relay \in Managers => Stopped(mgr[relay]))
  PROVE  LInv'
<1>1. call'[c] = v /\ \A d \in Callers \ {c} : call'[d] = call[d]
  BY DEF Typed, ServerTyped
<1>2. Linked'
  BY <1>1, OthersLinked DEF Linked, LInv, Unlinked
<1>3. \A r \in Managers : StopDone(call', r, mgr[r])
  BY <1>1 DEF StopDone, LInv, OneUp
<1>4. relay' <= relays /\ \A d \in Callers : call'[d].pc = "stopping" => call'[d].mgr <= relays
  BY <1>1 DEF LInv, OneUp, Typed, ServerTyped
<1> QED
  BY <1>2, <1>3, <1>4 DEF LInv, OneUp

\* A call begins, or goes on, with a task for a manager.
LEMMA CallChains ==
  ASSUME Typed, LInv, NEW c \in Callers, NEW v, call' = [call EXCEPT ![c] = v], Unlinked(c),
         NEW task \in {"start", "stop", "rebind"}, NEW r \in Nat,
         mgr' = [mgr EXCEPT ![r] = Chained(mgr[r], task, c)],
         v.mgr = r, v.pc = Awaiting[task], relay' = r,
         IF task = "start"
         THEN r = relays + 1 /\ relays' = r /\ (relay \in Managers => Stopped(mgr[relay]))
         ELSE r = relay /\ relays' = relays,
         task = "rebind" => \A d \in Callers : call[d].pc # "stopping"
  PROVE  LInv' /\ mgr' \in [Managers -> Relays]
<1>1. call'[c] = v /\ \A d \in Callers \ {c} : call'[d] = call[d]
  BY DEF Typed, ServerTyped
<1>2. \A x \in Managers : LinksOK(call', x, mgr[x]) /\ StopsLast(mgr[x]) /\ mgr[x] \in Relays
  BY <1>1, OthersLinked DEF Linked, LInv, Unlinked, Typed, RelayTyped
<1>3. LinkOK(call', r, task, c)
  BY <1>1 DEF LinkOK
<1>4. task \in Tasks
  BY DEF Tasks
<1>5. r \in Managers /\ task = "start" => mgr[r] = Fresh
  BY DEF LInv, OneUp, Typed, ServerTyped
<1>6. ASSUME r \in Managers, task \in {"start", "rebind"}
      PROVE  /\ \A i \in DOMAIN mgr[r].chain : mgr[r].chain[i].task # "stop"
             /\ ~(mgr[r].pc # "idle" /\ mgr[r].task = "stop")
  <2>1. CASE task = "start"
    BY <1>5, <1>6, <2>1 DEF Fresh
  <2>2. CASE task = "rebind"
    BY <1>6, <2>2 DEF LInv, Linked, LinksOK, LinkOK, Awaiting
  <2> QED
    BY <1>6, <2>1, <2>2
<1> DEFINE n == Chained(mgr[r], task, c)
<1>7. ASSUME r \in Managers
      PROVE  /\ n \in Relays /\ LinksOK(call', r, n) /\ StopsLast(n)
             /\ \A d : Awaits(mgr[r], d) => Awaits(n, d)
             /\ task = "stop" /\ Stopped(mgr[r]) => Stopped(n)
             /\ task = "stop" => Awaits(n, c) \/ Stopped(n)
  BY <1>2, <1>3, <1>4, <1>6, <1>7, ChainedLinked DEF Typed
<1> HIDE DEF n
<1>8. \A x \in Managers : mgr'[x] = IF x = r THEN n ELSE mgr[x]
  BY DEF n, Typed, RelayTyped
<1>9. mgr' \in [Managers -> Relays]
  BY <1>7, <1>8 DEF n, Typed, RelayTyped
<1>10. Linked'
  BY <1>2, <1>7, <1>8 DEF Linked
<1>11. \A x \in Managers : x # r => Stopped(mgr[x])
  BY DEF LInv, OneUp
<1>12. \A x \in Managers : x > relays' => x > relays /\ x # r
  BY ControllerConstants DEF LInv, OneUp, Typed, ServerTyped
<1>13. ASSUME NEW x \in Managers
       PROVE  StopDone(call, x, mgr[x])'
  <2> SUFFICES ASSUME NEW d \in Callers, call'[d].pc = "stopping", call'[d].mgr = x
               PROVE  Awaits(mgr'[x], d) \/ Stopped(mgr'[x])
    BY DEF StopDone
  <2>1. CASE d = c
    <3>1. task = "stop" /\ x = r
      BY <1>1, <2>1 DEF Awaiting
    <3> QED
      BY <1>7, <1>8, <2>1, <3>1
  <2>2. CASE d # c
    <3>1. call[d].pc = "stopping" /\ call[d].mgr = x
      BY <1>1, <2>2
    <3>2. Awaits(mgr[x], d) \/ Stopped(mgr[x])
      BY <3>1 DEF LInv, OneUp, StopDone
    <3>3. CASE x # r
      BY <1>8, <3>2, <3>3
    <3>4. CASE x = r
      <4>1. task # "rebind"
        BY <3>1
      <4>2. CASE task = "stop"
        BY <1>7, <1>8, <3>2, <3>4, <4>2
      <4>3. task # "start"
        BY <3>1, <3>4 DEF LInv, OneUp, Typed, ServerTyped
      <4> QED
        BY <4>1, <4>2, <4>3
    <3> QED
      BY <3>3, <3>4
  <2> QED
    BY <2>1, <2>2
<1>14. relay' <= relays' /\ \A d \in Callers : call'[d].pc = "stopping" => call'[d].mgr <= relays'
  <2>1. relay' <= relays' /\ relays <= relays'
    BY DEF LInv, OneUp, Typed, ServerTyped
  <2>2. \A d \in Callers : call[d].pc = "stopping" => call[d].mgr <= relays /\ call[d].mgr \in Nat
    BY DEF LInv, OneUp, Typed, ServerTyped, CallRecords
  <2> QED
    BY <1>1, <2>1, <2>2 DEF Typed, ServerTyped
<1>15. OneUp'
  BY <1>8, <1>11, <1>12, <1>13, <1>14 DEF LInv, OneUp
<1> QED
  BY <1>9, <1>10, <1>15 DEF LInv

-----------------------------------------------------------------------------
(* The managers through every step *)

LEMMA IdleTyped == Idle \in CallRecords /\ Idle.pc = "idle" /\ Idle.todo = {} /\ Idle.what = "none"
BY DEF Idle, CallRecords

\* A task is chained to the relay r, and the call waits for it.
LEMMA AwaitLinked ==
  ASSUME Typed, LInv, NEW c \in Callers, Unlinked(c),
         NEW task \in {"start", "stop", "rebind"}, NEW r \in Nat, Chain(c, r, task),
         NEW what \in {"start", "stop", "select", "folder", "reset"},
         Await(c, Awaiting[task], what, r), relay' = r,
         IF task = "start"
         THEN r = relays + 1 /\ relays' = r /\ (relay \in Managers => Stopped(mgr[relay]))
         ELSE r = relay /\ relays' = relays,
         task = "rebind" => \A d \in Callers : call[d].pc # "stopping"
  PROVE  LInv' /\ RelayTyped' /\ call' \in [Callers -> CallRecords]
<1> DEFINE v == [Idle EXCEPT !.pc = Awaiting[task], !.what = what, !.mgr = r]
<1>1. Awaiting[task] \in {"starting", "stopping", "rebinding"}
  BY DEF Awaiting
<1>2. v \in CallRecords /\ v.pc = Awaiting[task] /\ v.mgr = r
  BY <1>1 DEF Idle, CallRecords
<1>3. call' = [call EXCEPT ![c] = v]
  BY DEF Await
<1>4. mgr' = [mgr EXCEPT ![r] = Chained(mgr[r], task, c)] /\ adapter' = adapter
  BY DEF Chain
<1> HIDE DEF v
<1>5. LInv' /\ mgr' \in [Managers -> Relays]
  BY <1>2, <1>3, <1>4, CallChains
<1>6. call' \in [Callers -> CallRecords]
  BY <1>2, <1>3 DEF Typed, ServerTyped
<1> QED
  BY <1>4, <1>5, <1>6 DEF RelayTyped, Typed

LEMMA BuildLinked ==
  ASSUME Typed, LInv, NEW c \in Callers, Unlinked(c), NEW g, BuildRelay(c, g), ~crossed'
  PROVE  LInv' /\ RelayTyped' /\ call' \in [Callers -> CallRecords]
<1>1. relay = 0 /\ relay \notin Managers
  <2>1. relay = 0
    BY Zenon DEF BuildRelay
  <2> QED
    BY <2>1, ControllerConstants
<1>2. Awaiting["start"] = "starting"
  BY DEF Awaiting
<1>3. relays + 1 \in Nat
  BY DEF Typed, ServerTyped
<1> QED
  BY <1>1, <1>2, <1>3, AwaitLinked DEF BuildRelay

\* A call that returns.
LEMMA ReturnLinked ==
  ASSUME Typed, LInv, NEW c \in Callers, Return(c), ~Pending(call[c].mgr, c),
         UNCHANGED relayVars, relays' = relays,
         relay' = relay \/ (StopEnds(c) /\ ~crossed')
  PROVE  LInv' /\ RelayTyped' /\ call' \in [Callers -> CallRecords]
<1>1. Unlinked(c)
  BY Freed
<1>2. call' = [call EXCEPT ![c] = Idle] /\ call' \in [Callers -> CallRecords]
  BY IdleTyped DEF Return, Typed, ServerTyped
<1>3. mgr' = mgr /\ RelayTyped'
  BY DEF relayVars, Typed, RelayTyped
<1>4. CASE relay' = relay
  BY <1>1, <1>2, <1>3, <1>4, CallMoves, IdleTyped
<1>5. CASE StopEnds(c) /\ ~crossed'
  <2>1. relay' = 0 /\ relay \in {0, call[c].mgr} /\ call[c].pc = "stopping"
    BY <1>5 DEF StopEnds
  <2>2. relay \in Managers => Stopped(mgr[relay])
    <3>1. 0 \notin Managers
      BY ControllerConstants
    <3> QED
      BY <2>1, <3>1 DEF LInv, OneUp, StopDone, Pending, Awaits
  <2> QED
    BY <1>1, <1>2, <1>3, <2>1, <2>2, CallMoves, IdleTyped
<1> QED
  BY <1>4, <1>5

LEMMA SameLinked ==
  ASSUME Typed, LInv, UNCHANGED << mgr, relay, relays, call >>, adapter' \in Places
  PROVE  LInv' /\ RelayTyped' /\ call' \in [Callers -> CallRecords]
BY DEF LInv, Linked, OneUp, Typed, RelayTyped, ServerTyped

LEMMA CallStepLinked ==
  ASSUME Typed, LInv, NEW c \in Callers, CallStep(c), ~crossed'
  PROVE  LInv' /\ RelayTyped' /\ call' \in [Callers -> CallRecords]
<1>1. CASE SweepOne(c)
  <2>1. PICK j \in call[c].todo : call' = [call EXCEPT ![c].todo = @ \ {j}]
    BY <1>1 DEF SweepOne
  <2> DEFINE v == [call[c] EXCEPT !.todo = @ \ {j}]
  <2>2. v \in CallRecords /\ v.pc = "sweeping"
    BY <1>1 DEF SweepOne, Typed, ServerTyped, CallRecords
  <2>3. call' = [call EXCEPT ![c] = v]
    BY <2>1
  <2> HIDE DEF v
  <2>4. Unlinked(c) /\ mgr' = mgr /\ relays' = relays /\ relay' = relay /\ adapter' = adapter
    BY <1>1, Freed DEF SweepOne, relayVars
  <2>5. LInv'
    BY <2>2, <2>3, <2>4, CallMoves
  <2> QED
    BY <2>2, <2>3, <2>4, <2>5 DEF Typed, ServerTyped, RelayTyped
<1>2. CASE SweepEnds(c)
  BY <1>2, BuildLinked, Freed DEF SweepEnds
<1>3. CASE StartEnds(c) \/ SelectEnds(c)
  BY <1>3, ReturnLinked DEF StartEnds, SelectEnds
<1>4. CASE StopReturns(c) \/ ResetReturns(c)
  <2>1. StopEnds(c) /\ Return(c) /\ UNCHANGED relayVars
    BY <1>4 DEF StopReturns, ResetReturns
  <2> QED
    BY <2>1, ReturnLinked DEF StopEnds
<1>5. CASE FolderReturns(c)
  <2>1. /\ call[c].pc = "stopping" /\ ~Pending(call[c].mgr, c) /\ relay \in {0, call[c].mgr}
        /\ relays' = relays + 1 /\ relay' = relays + 1
        /\ Chain(c, relays + 1, "start") /\ Await(c, "starting", "start", relays + 1)
    BY <1>5 DEF FolderReturns
  <2>2. relay \in Managers => Stopped(mgr[relay])
    <3>1. 0 \notin Managers
      BY ControllerConstants
    <3> QED
      BY <2>1, <3>1 DEF LInv, OneUp, StopDone, Pending, Awaits
  <2>3. Unlinked(c) /\ relays + 1 \in Nat /\ Awaiting["start"] = "starting"
    BY <2>1, Freed DEF Typed, ServerTyped, Awaiting
  <2> QED
    BY <2>1, <2>2, <2>3, AwaitLinked
<1> QED
  BY <1>1, <1>2, <1>3, <1>4, <1>5 DEF CallStep

LEMMA UserCallLinked ==
  ASSUME Typed, LInv, NEW c \in Callers, UserCall(c), ~crossed'
  PROVE  LInv' /\ RelayTyped' /\ call' \in [Callers -> CallRecords]
<1>1. call[c].pc = "idle" /\ Unlinked(c)
  BY Freed DEF UserCall, Start, Stop, SelectInterface, ChangeFolder, UpdateSettings, NewFolder, Reset, Calling
<1>2. relay \in Nat /\ Awaiting["stop"] = "stopping" /\ Awaiting["rebind"] = "rebinding"
  BY DEF Typed, ServerTyped, Awaiting
<1>3. ASSUME UNCHANGED << relayVars, call, relay, relays >>
      PROVE  LInv' /\ RelayTyped' /\ call' \in [Callers -> CallRecords]
  BY <1>3, SameLinked DEF relayVars, Typed, RelayTyped
<1>4. CASE Start(c)
  <2>1. CASE BuildRelay(c, graph')
    BY <1>1, <2>1, BuildLinked
  <2>2. CASE ~BuildRelay(c, graph')
    <3> DEFINE v == [Idle EXCEPT !.pc = "sweeping", !.graph = graph', !.todo = ToSweep]
    <3>1. call' = [call EXCEPT ![c] = v] /\ UNCHANGED << relayVars, relay, relays >>
      BY <1>4, <2>2 DEF Start, StartServer
    <3>2. graph' \in Nat
      BY <1>4 DEF Start, StartServer, EnsureGraph, Typed, ServerTyped
    <3>3. ToSweep \in SUBSET Jobs
      BY DEF ToSweep
    <3>4. v \in CallRecords /\ v.pc = "sweeping"
      BY <3>2, <3>3 DEF Idle, CallRecords
    <3> HIDE DEF v
    <3>5. LInv'
      BY <1>1, <3>1, <3>4, CallMoves DEF relayVars
    <3> QED
      BY <3>1, <3>4, <3>5 DEF relayVars, Typed, ServerTyped, RelayTyped
  <2> QED
    BY <2>1, <2>2
<1>5. CASE Stop(c)
  BY <1>1, <1>2, <1>5, AwaitLinked DEF Stop
<1>6. CASE SelectInterface(c)
  <2>1. \A d \in Callers : call[d].pc # "stopping"
    BY <1>6 DEF SelectInterface
  <2> QED
    BY <1>1, <1>2, <1>6, <2>1, AwaitLinked DEF SelectInterface
<1>7. CASE NewFolder(c)
  <2>1. CASE relay = 0
    BY <1>3, <1>7, <2>1 DEF NewFolder
  <2>2. CASE relay # 0
    <3> DEFINE v == [Idle EXCEPT !.pc = "stopping", !.what = "folder", !.mgr = relay, !.todo = Seen]
    <3>1. call' = [call EXCEPT ![c] = v] /\ Chain(c, relay, "stop") /\ UNCHANGED << relay, relays >>
      BY <1>7, <2>2 DEF NewFolder
    <3>2. Seen \in SUBSET Jobs
      BY DEF Seen
    <3>3. v \in CallRecords /\ v.pc = "stopping" /\ v.mgr = relay
      BY <1>2, <3>2 DEF Idle, CallRecords
    <3> HIDE DEF v
    <3>4. mgr' = [mgr EXCEPT ![relay] = Chained(mgr[relay], "stop", c)] /\ adapter' = adapter
      BY <3>1 DEF Chain
    <3>5. LInv' /\ mgr' \in [Managers -> Relays]
      BY <1>1, <1>2, <3>1, <3>3, <3>4, CallChains
    <3> QED
      BY <3>1, <3>3, <3>4, <3>5 DEF Typed, ServerTyped, RelayTyped
  <2> QED
    BY <2>1, <2>2
<1>8. CASE Reset(c)
  <2>1. CASE relay = 0
    BY <1>3, <1>8, <2>1 DEF Reset
  <2>2. CASE relay # 0
    BY <1>1, <1>2, <1>8, <2>2, AwaitLinked DEF Reset
  <2> QED
    BY <2>1, <2>2
<1> QED
  BY <1>4, <1>5, <1>6, <1>7, <1>8 DEF UserCall, ChangeFolder, UpdateSettings

LEMMA FreshLinked ==
  ASSUME NEW cs, NEW r
  PROVE  LinksOK(cs, r, Fresh) /\ StopsLast(Fresh) /\ Stopped(Fresh)
BY FreshTyped DEF Fresh, LinksOK, StopsLast, InOrder, Stopped

LEMMA RestartLinked ==
  ASSUME Typed, LInv, Restart
  PROVE  LInv' /\ RelayTyped' /\ call' \in [Callers -> CallRecords]
<1>1. \A r \in Managers : mgr'[r] = Fresh
  BY DEF Restart
<1>2. \A c \in Callers : call'[c] = Idle
  BY DEF Restart
<1>3. \A r \in Managers : LinksOK(call', r, Fresh) /\ StopsLast(Fresh) /\ Stopped(Fresh)
  BY FreshLinked
<1>4. Linked'
  BY <1>1, <1>3 DEF Linked
<1>5. OneUp'
  BY <1>1, <1>2, <1>3, IdleTyped DEF OneUp, StopDone, Restart, Typed, ServerTyped
<1> QED
  BY <1>4, <1>5, FreshTyped, IdleTyped DEF LInv, Restart, Typed, RelayTyped

LEMMA NextLinked ==
  ASSUME Typed, LInv, Next, ~crossed'
  PROVE  LInv' /\ RelayTyped' /\ call' \in [Callers -> CallRecords]
<1>1. CASE AdapterMoves
  BY <1>1, SameLinked DEF AdapterMoves, AdapterChanges, AboveRelay, serverVars
<1>2. ASSUME NEW r \in Managers, ChainStep(r) \/ WatcherDue(r)
      PROVE  LInv' /\ RelayTyped' /\ call' \in [Callers -> CallRecords]
  <2>1. UNCHANGED << call, relay, relays >> /\ adapter' = adapter
    BY <1>2 DEF ChainStep, WatcherDue, AboveRelay, serverVars, RelayStep, Begin, CloseDone, Bound,
       BindFailed, WatchTick, Step
  <2>2. LInv' /\ mgr' \in [Managers -> Relays]
    BY <1>2, <2>1, BeginLinked, CloseLinked, BindLinked, WatchLinked DEF ChainStep, WatcherDue, RelayStep
  <2> QED
    BY <2>1, <2>2 DEF Typed, RelayTyped, ServerTyped
<1>3. ASSUME NEW c \in Callers, CallStep(c) \/ UserCall(c)
      PROVE  LInv' /\ RelayTyped' /\ call' \in [Callers -> CallRecords]
  BY <1>3, CallStepLinked, UserCallLinked
<1>4. CASE Restart
  BY <1>4, RestartLinked
<1>5. CASE UNCHANGED << mgr, adapter, relay, relays, call >>
  BY <1>5, SameLinked DEF Typed, RelayTyped
<1>6. CASE Look \/ GeneratePairingCode \/ RevokePairedClient \/ TimePasses \/ Pair \/ PushTick
  BY <1>5, <1>6 DEF Look, GeneratePairingCode, RevokePairedClient, TimePasses, Pair, PushTick, relayVars,
     serverVars
<1>7. CASE \E j \in Jobs : Intake(j) \/ Commit(j) \/ CancelDraft(j) \/ Progress(j) \/ Finish(j)
  BY <1>5, <1>7 DEF Intake, Commit, CancelDraft, Progress, Finish, Saves, relayVars, serverVars
<1> QED
  BY <1>1, <1>2, <1>3, <1>4, <1>6, <1>7 DEF Next

-----------------------------------------------------------------------------
(* Types of everything else *)

LEMMA BuildAuthTyped ==
  ASSUME PairingTyped, NEW g, BuildAuth(g)
  PROVE  PairingTyped'
<1> DEFINE secret == IF stored.secret # 0 THEN stored.secret ELSE secrets + 1
<1>1. stored.secret \in Nat /\ stored.known \in SUBSET Nat /\ stored.revoked \in SUBSET Nat
  BY DEF PairingTyped, Stores
<1>2. secret \in Nat
  BY <1>1 DEF PairingTyped
<1>3. [secret |-> secret, known |-> stored.known, revoked |-> stored.revoked, pending |-> {}] \in Auths
  BY <1>1, <1>2 DEF Auths
<1>4. auth' \in [Graphs -> Auths]
  BY <1>3 DEF BuildAuth, PairingTyped
<1>5. [stored EXCEPT !.secret = secret] \in Stores
  BY <1>2 DEF PairingTyped, Stores
<1>6. stored' \in Stores /\ secrets' \in Nat
  BY <1>2, <1>5 DEF BuildAuth, PairingTyped
<1> QED
  BY <1>4, <1>6 DEF BuildAuth, PairingTyped

LEMMA PairingStepTyped ==
  ASSUME PairingTyped,
         \/ UNCHANGED pairingVars \/ Forget \/ CodeExpires
         \/ \E g : BuildAuth(g)
         \/ \E g \in Graphs : \/ BeginPairing(g) \/ RevokeAllAndForget(g)
                              \/ \E c : PairAttempt(g, c)
                              \/ \E t \in Tokens : Revoke(g, t)
  PROVE  PairingTyped'
<1>1. CASE UNCHANGED pairingVars
  BY <1>1 DEF pairingVars, PairingTyped
<1>2. CASE Forget \/ CodeExpires
  <2>1. NoAuth \in Auths
    BY DEF NoAuth, Auths
  <2> QED
    BY <1>2, <2>1 DEF Forget, CodeExpires, PairingTyped
<1>3. CASE \E g : BuildAuth(g)
  BY <1>3, BuildAuthTyped
<1>4. ASSUME NEW g \in Graphs, BeginPairing(g)
      PROVE  PairingTyped'
  <2>1. auth[g] \in Auths /\ shown' \in Nat
    BY <1>4 DEF BeginPairing, PairingTyped
  <2>2. Kept(auth[g].pending) \subseteq auth[g].pending
    BY DEF Kept
  <2>3. [auth[g] EXCEPT !.pending = Kept(@) \cup {shown'}] \in Auths
    BY <2>1, <2>2 DEF Auths
  <2> QED
    BY <1>4, <2>1, <2>3 DEF BeginPairing, PairingTyped
<1>5. ASSUME NEW g \in Graphs, RevokeAllAndForget(g)
      PROVE  PairingTyped'
  <2>1. auth[g] \in Auths
    BY DEF PairingTyped
  <2>2. [auth[g] EXCEPT !.revoked = auth[g].known] \in Auths
    BY <2>1 DEF Auths
  <2>3. DOMAIN issued \subseteq Nat
    BY DEF PairingTyped
  <2> QED
    BY <1>5, <2>2, <2>3 DEF RevokeAllAndForget, PairingTyped, NoStore, Stores
<1>6. ASSUME NEW g \in Graphs, NEW c, PairAttempt(g, c)
      PROVE  PairingTyped'
  <2>1. auth[g] \in Auths /\ auth[g].secret \in Nat /\ Len(issued) \in Nat
    BY DEF PairingTyped, Auths
  <2>2. [auth[g] EXCEPT !.pending = @ \ {c}] \in Auths
    BY <2>1 DEF Auths
  <2>3. issued' \in Seq(Nat) => Len(issued') \in Nat
    OBVIOUS
  <2>4. issued' \in Seq(Nat)
    BY <1>6, <2>1 DEF PairAttempt, PairingTyped
  <2>5. [auth[g] EXCEPT !.pending = @ \ {c}, !.known = @ \cup {Len(issued')}] \in Auths
    BY <2>1, <2>3, <2>4 DEF Auths
  <2>6. auth' \in [Graphs -> Auths]
    BY <1>6, <2>2, <2>5 DEF PairAttempt, PairingTyped
  <2>7. auth'[g].known \in SUBSET Nat /\ auth'[g].revoked \in SUBSET Nat
    BY <2>6 DEF Auths
  <2>8. stored' \in Stores
    BY <1>6, <2>7 DEF PairAttempt, Persist, PairingTyped, Stores
  <2> QED
    BY <1>6, <2>4, <2>6, <2>8 DEF PairAttempt, PairingTyped
<1>7. ASSUME NEW g \in Graphs, NEW t \in Tokens, Revoke(g, t)
      PROVE  PairingTyped'
  <2>1. auth[g] \in Auths /\ t \in Nat
    BY DEF PairingTyped, Tokens
  <2>2. [auth[g] EXCEPT !.revoked = @ \cup {t}] \in Auths
    BY <2>1 DEF Auths
  <2>3. auth' \in [Graphs -> Auths]
    BY <1>7, <2>2 DEF Revoke, PairingTyped
  <2>4. auth'[g].known \in SUBSET Nat /\ auth'[g].revoked \in SUBSET Nat
    BY <2>3 DEF Auths
  <2>5. stored' \in Stores
    BY <1>7, <2>4 DEF Revoke, Persist, PairingTyped, Stores
  <2> QED
    BY <1>7, <2>1, <2>3, <2>5 DEF Revoke, PairingTyped
<1> QED
  BY <1>1, <1>2, <1>3, <1>4, <1>5, <1>6, <1>7

-----------------------------------------------------------------------------
(* Graphs: how many there can be *)

Folders(cs) == {c \in Callers : cs[c].pc = "stopping" /\ cs[c].what = "folder"}

Changing(cs) == Cardinality(Folders(cs))

Missing(g) == IF g = 0 THEN 1 ELSE 0

\* Every graph but the first is paid for by a call or a restart.
Counted ==
  /\ graph <= graphs
  /\ IsFiniteSet(Folders(call))
  /\ graphs + Missing(graph) + Changing(call) <= calls + 1
  /\ \A c \in Callers : call[c].what = "folder" => call[c].todo = {}

LEMMA FoldersCount ==
  ASSUME Typed, Counted, NEW c \in Callers, NEW v, call' = [call EXCEPT ![c] = v]
  PROVE  /\ IsFiniteSet(Folders(call')) /\ Changing(call') \in Nat
         /\ Changing(call) \in Nat
         /\ Changing(call') <= Changing(call) + 1
         /\ ~(v.pc = "stopping" /\ v.what = "folder") =>
              /\ Changing(call') <= Changing(call)
              /\ c \in Folders(call) => Changing(call') + 1 = Changing(call)
<1> DEFINE F == Folders(call)
           G == Folders(call')
<1>1. G = IF v.pc = "stopping" /\ v.what = "folder" THEN F \cup {c} ELSE F \ {c}
  BY DEF Typed, ServerTyped, Folders
<1>2. IsFiniteSet(F)
  BY DEF Counted
<1> HIDE DEF F, G
<1>3. Cardinality(F) \in Nat
  BY <1>2, FS_CardinalityType
<1>4. /\ IsFiniteSet(F \cup {c})
      /\ Cardinality(F \cup {c}) = IF c \in F THEN Cardinality(F) ELSE Cardinality(F) + 1
  BY <1>2, FS_AddElement
<1>5. /\ IsFiniteSet(F \ {c})
      /\ Cardinality(F \ {c}) = IF c \in F THEN Cardinality(F) - 1 ELSE Cardinality(F)
  BY <1>2, FS_RemoveElement
<1>6. IsFiniteSet(G)
  BY <1>1, <1>4, <1>5
<1>7. Cardinality(G) \in Nat
  BY <1>6, FS_CardinalityType
<1>8. /\ Cardinality(G) <= Cardinality(F) + 1
      /\ ~(v.pc = "stopping" /\ v.what = "folder") =>
           Cardinality(G) <= Cardinality(F) /\ (c \in F => Cardinality(G) + 1 = Cardinality(F))
  BY <1>1, <1>3, <1>4, <1>5, <1>7
<1> QED
  BY <1>3, <1>6, <1>7, <1>8 DEF F, G, Changing

LEMMA NextGraph ==
  ASSUME Typed, Counted, EnsureGraph
  PROVE  /\ graph' \in Nat \ {0} /\ graphs' \in Nat /\ graph' <= graphs'
         /\ graphs' <= graphs + Missing(graph) /\ Missing(graph') = 0
         /\ graph # 0 => graph' = graph /\ UNCHANGED << graphs, pairingVars >>
         /\ graph = 0 => graph' = graphs + 1 /\ graph' \in Graphs /\ BuildAuth(graph')
<1>1. Changing(call) \in Nat
  BY FS_CardinalityType DEF Counted, Changing
<1> QED
  BY <1>1, ControllerConstants, PairingConstants
     DEF Typed, ServerTyped, Counted, EnsureGraph, Missing, Graphs

LEMMA GraphInUse ==
  ASSUME Typed, Counted, graph # 0
  PROVE  graph \in Graphs
<1>1. Changing(call) \in Nat
  BY FS_CardinalityType DEF Counted, Changing
<1> QED
  BY <1>1, ControllerConstants, PairingConstants DEF Typed, ServerTyped, Counted, Missing, Graphs

\* Before the folder is changed, #lastJob shows no job.
LEMMA NothingSeen ==
  ASSUME Typed, ~HasActiveTransfer
  PROVE  Seen = {}
BY ControllerConstants DEF HasActiveTransfer, Seen, Typed, JobsTyped

\* Graphs, calls and what they wait for, through a step.
Counts ==
  /\ graph' \in Nat /\ graphs' \in Nat /\ calls' \in 0 .. MaxCalls
  /\ Counted'

LEMMA CallStepCounts ==
  ASSUME Typed, Counted, NEW c \in Callers, CallStep(c)
  PROVE  Counts
<1>1. CASE SweepOne(c)
  <2>1. PICK j \in call[c].todo : call' = [call EXCEPT ![c].todo = @ \ {j}]
    BY <1>1 DEF SweepOne
  <2> DEFINE v == [call[c] EXCEPT !.todo = @ \ {j}]
  <2>2. call[c] \in CallRecords
    BY DEF Typed, ServerTyped
  <2>3. v.pc = "sweeping" /\ v.what = call[c].what /\ v.todo \subseteq call[c].todo
    BY <1>1, <2>2 DEF SweepOne, CallRecords
  <2>4. call' = [call EXCEPT ![c] = v]
    BY <2>1
  <2> HIDE DEF v
  <2>5. IsFiniteSet(Folders(call')) /\ Changing(call') \in Nat
        /\ Changing(call) \in Nat /\ Changing(call') <= Changing(call)
    BY <2>3, <2>4, FoldersCount
  <2>6. \A d \in Callers : call'[d].what = "folder" => call'[d].todo = {}
    BY <2>3, <2>4 DEF Counted, Typed, ServerTyped
  <2>7. UNCHANGED << graph, graphs, calls >>
    BY <1>1 DEF SweepOne, ghostVars
  <2> QED
    BY <2>5, <2>6, <2>7 DEF Counts, Counted, Typed, ServerTyped, Missing
<1>2. ASSUME NEW v, call' = [call EXCEPT ![c] = v], v.what # "folder", calls' = calls
      PROVE  /\ IsFiniteSet(Folders(call')) /\ Changing(call') \in Nat
             /\ Changing(call) \in Nat /\ Changing(call') <= Changing(call)
             /\ c \in Folders(call) => Changing(call') + 1 = Changing(call)
             /\ \A d \in Callers : call'[d].what = "folder" => call'[d].todo = {}
  <2>1. \A d \in Callers : call'[d] = IF d = c THEN v ELSE call[d]
    BY <1>2 DEF Typed, ServerTyped
  <2> QED
    BY <1>2, <2>1, FoldersCount DEF Counted
<1>3. ASSUME NEW v, call' = [call EXCEPT ![c] = v], v.what # "folder", UNCHANGED << graph, graphs, calls >>
      PROVE  Counts
  <2>1. /\ IsFiniteSet(Folders(call')) /\ Changing(call') \in Nat /\ Changing(call) \in Nat
        /\ Changing(call') <= Changing(call)
        /\ \A d \in Callers : call'[d].what = "folder" => call'[d].todo = {}
    BY <1>2, <1>3
  <2>2. graph \in Nat /\ graphs \in Nat /\ calls \in 0 .. MaxCalls /\ calls \in Nat
    BY ControllerConstants DEF Typed, ServerTyped
  <2>3. graph' = graph /\ graphs' = graphs /\ calls' = calls
    BY <1>3
  <2>4. graphs' + Missing(graph') + Changing(call') <= calls' + 1
    BY <2>1, <2>2, <2>3 DEF Counted, Missing
  <2> QED
    BY <2>1, <2>2, <2>3, <2>4 DEF Counts, Counted
<1>4. CASE SweepEnds(c)
  <2>1. [Idle EXCEPT !.pc = "starting", !.what = "start", !.mgr = relays'].what # "folder"
    BY DEF Idle
  <2> QED
    BY <1>3, <1>4, <2>1 DEF SweepEnds, BuildRelay, Await
<1>5. CASE StartEnds(c) \/ SelectEnds(c) \/ StopReturns(c) \/ ResetReturns(c)
  BY <1>3, <1>5, IdleTyped DEF StartEnds, SelectEnds, StopReturns, ResetReturns, StopEnds, Return, ghostVars
<1>6. CASE FolderReturns(c)
  <2>1. [Idle EXCEPT !.pc = "starting", !.what = "start", !.mgr = relays'].what # "folder"
    BY DEF Idle
  <2>2. c \in Folders(call) /\ graph' = graphs + 1 /\ graphs' = graphs + 1 /\ calls' = calls
    BY <1>6 DEF FolderReturns, Folders
  <2>3. call' = [call EXCEPT ![c] = [Idle EXCEPT !.pc = "starting", !.what = "start", !.mgr = relays']]
    BY <1>6 DEF FolderReturns, Await
  <2>4. /\ IsFiniteSet(Folders(call')) /\ Changing(call') \in Nat /\ Changing(call) \in Nat
        /\ Changing(call') + 1 = Changing(call)
        /\ \A d \in Callers : call'[d].what = "folder" => call'[d].todo = {}
    BY <1>2, <2>1, <2>2, <2>3
  <2>5. graph \in Nat /\ graphs \in Nat /\ calls \in 0 .. MaxCalls /\ calls \in Nat
    BY ControllerConstants DEF Typed, ServerTyped
  <2>6. Missing(graph') = 0 /\ Missing(graph) \in Nat
    BY <2>2, <2>5 DEF Missing
  <2>7. graphs + Missing(graph) + Changing(call) <= calls + 1
    BY DEF Counted
  <2>8. graphs' + Missing(graph') + Changing(call') <= calls' + 1
    BY <2>2, <2>4, <2>5, <2>6, <2>7
  <2> QED
    BY <2>2, <2>4, <2>5, <2>8 DEF Counts, Counted
<1> QED
  BY <1>1, <1>4, <1>5, <1>6 DEF CallStep

LEMMA Awaited ==
  ASSUME NEW c, NEW pc, NEW what, NEW r, Await(c, pc, what, r)
  PROVE  \E v : call' = [call EXCEPT ![c] = v] /\ v.what = what
<1> DEFINE v == [Idle EXCEPT !.pc = pc, !.what = what, !.mgr = r]
<1>1. v.what = what
  BY DEF Idle
<1>2. call' = [call EXCEPT ![c] = v]
  BY DEF Await
<1> HIDE DEF v
<1> QED
  BY <1>1, <1>2

LEMMA UserCallCounts ==
  ASSUME Typed, Counted, NEW c \in Callers, UserCall(c)
  PROVE  Counts
<1>1. /\ graph \in Nat /\ graphs \in Nat /\ calls \in Nat /\ MaxCalls \in Nat /\ calls' = calls + 1
      /\ calls < MaxCalls /\ call[c].pc = "idle"
  BY ControllerConstants DEF UserCall, Start, Stop, SelectInterface, ChangeFolder, UpdateSettings,
     NewFolder, Reset, Calling, Typed, ServerTyped
<1>2. graphs + Missing(graph) + Changing(call) <= calls + 1 /\ Missing(graph) \in {0, 1}
  BY DEF Counted, Missing
<1>3. Changing(call) \in Nat
  BY FS_CardinalityType DEF Counted, Changing
<1>4. ASSUME IsFiniteSet(Folders(call')), Changing(call') \in Nat,
             \A d \in Callers : call'[d].what = "folder" => call'[d].todo = {},
             graph' \in Nat, graphs' \in Nat, graph' <= graphs',
             graphs' + Missing(graph') + Changing(call') <= graphs + Missing(graph) + Changing(call) + 1
      PROVE  Counts
  <2>1. graphs' + Missing(graph') + Changing(call') <= calls' + 1
    <3>1. Missing(graph') \in {0, 1}
      BY DEF Missing
    <3> QED
      BY <1>1, <1>2, <1>3, <1>4, <3>1
  <2>2. calls' \in 0 .. MaxCalls
    BY <1>1
  <2> QED
    BY <1>4, <2>1, <2>2 DEF Counts, Counted
<1>5. ASSUME NEW v, call' = [call EXCEPT ![c] = v], v.what = "folder" => v.todo = {}
      PROVE  /\ IsFiniteSet(Folders(call')) /\ Changing(call') \in Nat
             /\ Changing(call') <= Changing(call) + 1
             /\ v.what # "folder" => Changing(call') <= Changing(call)
             /\ \A d \in Callers : call'[d].what = "folder" => call'[d].todo = {}
  <2>1. \A d \in Callers : call'[d] = IF d = c THEN v ELSE call[d]
    BY <1>5 DEF Typed, ServerTyped
  <2> QED
    BY <1>5, <2>1, FoldersCount DEF Counted
<1>6. ASSUME call' = call
      PROVE  /\ IsFiniteSet(Folders(call')) /\ Changing(call') = Changing(call)
             /\ \A d \in Callers : call'[d].what = "folder" => call'[d].todo = {}
  BY <1>6 DEF Counted
<1>7. CASE Start(c)
  <2>1. EnsureGraph
    BY <1>7 DEF Start, StartServer
  <2> DEFINE w == [Idle EXCEPT !.pc = "sweeping", !.graph = graph', !.todo = ToSweep]
  <2>6. w.what = "none"
    BY DEF Idle
  <2>7. call' = [call EXCEPT ![c] = w] \/ Await(c, "starting", "start", relays')
    BY <1>7 DEF Start, StartServer, BuildRelay
  <2> HIDE DEF w
  <2>2. PICK v : call' = [call EXCEPT ![c] = v] /\ v.what # "folder"
    BY <2>6, <2>7, Awaited
  <2>3. /\ graph' \in Nat /\ graphs' \in Nat /\ graph' <= graphs'
        /\ graphs' <= graphs + Missing(graph) /\ Missing(graph') = 0
    BY <2>1, NextGraph
  <2>4. /\ IsFiniteSet(Folders(call')) /\ Changing(call') \in Nat
        /\ Changing(call') <= Changing(call)
        /\ \A d \in Callers : call'[d].what = "folder" => call'[d].todo = {}
    BY <2>2, <1>5
  <2>5. graphs' + Missing(graph') + Changing(call') <= graphs + Missing(graph) + Changing(call) + 1
    BY <1>1, <1>2, <1>3, <2>3, <2>4
  <2> QED
    BY <1>4, <2>3, <2>4, <2>5
<1>8. ASSUME UNCHANGED << graph, graphs >>, NEW v, call' = [call EXCEPT ![c] = v], v.what = "folder" => v.todo = {}
      PROVE  Counts
  <2>1. /\ IsFiniteSet(Folders(call')) /\ Changing(call') \in Nat
        /\ Changing(call') <= Changing(call) + 1
        /\ \A d \in Callers : call'[d].what = "folder" => call'[d].todo = {}
    BY <1>5, <1>8
  <2>2. graph' = graph /\ graphs' = graphs /\ graph <= graphs
    BY <1>8 DEF Counted
  <2>3. graphs' + Missing(graph') + Changing(call') <= graphs + Missing(graph) + Changing(call) + 1
    BY <1>1, <1>2, <1>3, <2>1, <2>2
  <2> QED
    BY <1>1, <1>4, <2>1, <2>2, <2>3
<1>9. CASE Stop(c) \/ SelectInterface(c)
  <2>1. PICK v : call' = [call EXCEPT ![c] = v] /\ v.what # "folder"
    BY <1>9, Awaited DEF Stop, SelectInterface
  <2> QED
    BY <1>8, <1>9, <2>1 DEF Stop, SelectInterface
<1>10. CASE NewFolder(c)
  <2>1. CASE relay # 0
    <3> DEFINE v == [Idle EXCEPT !.pc = "stopping", !.what = "folder", !.mgr = relay, !.todo = Seen]
    <3>1. v.todo = {}
      BY <1>10, NothingSeen DEF NewFolder, Idle
    <3>2. call' = [call EXCEPT ![c] = v] /\ UNCHANGED << graph, graphs >>
      BY <1>10, <2>1 DEF NewFolder
    <3> HIDE DEF v
    <3> QED
      BY <1>8, <3>1, <3>2
  <2>2. CASE relay = 0
    <3>1. graph' = 0 /\ call' = call /\ graphs' = graphs
      BY <1>10, <2>2 DEF NewFolder
    <3>2. Missing(graph') <= Missing(graph) + 1 /\ Missing(graph') \in Nat
      BY <1>2, <3>1 DEF Missing
    <3>3. graphs' + Missing(graph') + Changing(call') <= graphs + Missing(graph) + Changing(call) + 1
      BY <1>1, <1>2, <1>3, <3>1, <3>2, <1>6
    <3> QED
      BY <1>1, <1>3, <1>4, <1>6, <3>1, <3>3
  <2> QED
    BY <2>1, <2>2
<1>11. CASE Reset(c)
  <2>1. CASE relay # 0
    <3>1. PICK v : call' = [call EXCEPT ![c] = v] /\ v.what # "folder"
      BY <1>11, <2>1, Awaited DEF Reset
    <3> QED
      BY <1>8, <1>11, <2>1, <3>1 DEF Reset
  <2>2. CASE relay = 0
    <3>1. graph' = graph /\ call' = call /\ graphs' = graphs
      BY <1>11, <2>2 DEF Reset
    <3>2. graphs' + Missing(graph') + Changing(call') <= graphs + Missing(graph) + Changing(call) + 1
      BY <1>1, <1>2, <1>3, <3>1, <1>6
    <3> QED
      BY <1>1, <1>3, <1>4, <1>6, <3>1, <3>2 DEF Counted
  <2> QED
    BY <2>1, <2>2
<1> QED
  BY <1>7, <1>9, <1>10, <1>11 DEF UserCall, ChangeFolder, UpdateSettings

LEMMA NextCounts ==
  ASSUME Typed, Counted, Next
  PROVE  Counts
<1>1. ASSUME UNCHANGED << graph, graphs, call, calls >>
      PROVE  Counts
  BY <1>1 DEF Counts, Counted, Typed, ServerTyped
<1>2. ASSUME NEW c \in Callers, CallStep(c) \/ UserCall(c)
      PROVE  Counts
  BY <1>2, CallStepCounts, UserCallCounts
<1>3. CASE Restart
  <2>1. /\ graph # 0 /\ graph' = 0 /\ graphs' = graphs /\ calls' = calls + 1 /\ calls < MaxCalls
        /\ graph \in Nat /\ graphs \in Nat /\ calls \in Nat /\ MaxCalls \in Nat
    BY <1>3, ControllerConstants DEF Restart, Typed, ServerTyped
  <2>2. \A c \in Callers : call'[c] = Idle
    BY <1>3 DEF Restart
  <2>3. Folders(call') = {}
    BY <2>2, IdleTyped DEF Folders
  <2>4. IsFiniteSet(Folders(call')) /\ Changing(call') = 0
    BY <2>3, FS_EmptySet DEF Changing
  <2>5. Changing(call) \in Nat
    BY FS_CardinalityType DEF Counted, Changing
  <2>6. graphs + Missing(graph) + Changing(call) <= calls + 1 /\ Missing(graph) = 0 /\ Missing(graph') = 1
    BY <2>1 DEF Counted, Missing
  <2>7. graphs' + Missing(graph') + Changing(call') <= calls' + 1
    BY <2>1, <2>4, <2>5, <2>6
  <2>8. calls' \in 0 .. MaxCalls
    BY <2>1
  <2> QED
    BY <2>1, <2>2, <2>4, <2>7, <2>8, IdleTyped DEF Counts, Counted
<1>4. CASE Look \/ PushTick
  <2>1. EnsureGraph /\ call' = call /\ calls' = calls
    BY <1>4 DEF Look, PushTick, serverVars, ghostVars
  <2>2. /\ graph' \in Nat /\ graphs' \in Nat /\ graph' <= graphs'
        /\ graphs' <= graphs + Missing(graph) /\ Missing(graph') = 0
    BY <2>1, NextGraph
  <2>3. Changing(call) \in Nat
    BY FS_CardinalityType DEF Counted, Changing
  <2>4. graphs \in Nat /\ calls \in Nat /\ calls \in 0 .. MaxCalls /\ Missing(graph) \in Nat
    BY ControllerConstants DEF Typed, ServerTyped, Missing
  <2>5. graphs + Missing(graph) + Changing(call) <= calls + 1
    BY DEF Counted
  <2>6. graphs' + Missing(graph') + Changing(call) <= calls + 1
    BY <2>2, <2>3, <2>4, <2>5
  <2> QED
    BY <2>1, <2>2, <2>4, <2>6 DEF Counts, Counted
<1>5. CASE AdapterMoves \/ GeneratePairingCode \/ RevokePairedClient \/ TimePasses \/ Pair
  BY <1>1, <1>5 DEF AdapterMoves, AboveRelay, GeneratePairingCode, RevokePairedClient, TimePasses, Pair,
     serverVars, ghostVars
<1>6. CASE \E r \in Managers : ChainStep(r) \/ WatcherDue(r)
  BY <1>1, <1>6 DEF ChainStep, WatcherDue, AboveRelay, serverVars, ghostVars
<1>7. CASE \E j \in Jobs : Intake(j) \/ Commit(j) \/ CancelDraft(j) \/ Progress(j) \/ Finish(j)
  BY <1>1, <1>7 DEF Intake, Commit, CancelDraft, Progress, Finish, Saves, serverVars, ghostVars
<1> QED
  BY <1>2, <1>3, <1>4, <1>5, <1>6, <1>7 DEF Next

\* The jobs as they are after a step.
LEMMA NextJobs ==
  ASSUME Typed, Next
  PROVE  lastJob' \in Jobs \cup {NoJob} /\ jobs' \in [Jobs -> JobState]
         /\ slipped' \subseteq Jobs /\ driver' \in [Jobs -> Nat]
<1> USE DEF Typed, JobsTyped
<1>1. CASE AdapterMoves \/ \E r \in Managers : ChainStep(r) \/ WatcherDue(r)
  BY <1>1 DEF AdapterMoves, ChainStep, WatcherDue, AboveRelay, jobVars, ghostVars
<1>2. ASSUME NEW c \in Callers, CallStep(c)
      PROVE  lastJob' \in Jobs \cup {NoJob} /\ jobs' \in [Jobs -> JobState]
             /\ slipped' \subseteq Jobs /\ driver' \in [Jobs -> Nat]
  <2>1. CASE SweepOne(c)
    <3>1. PICK j \in call[c].todo : jobs' = [jobs EXCEPT ![j] = "ended"]
      BY <2>1 DEF SweepOne
    <3> QED
      BY <2>1, <3>1 DEF SweepOne, JobState, ghostVars
  <2>2. CASE ~SweepOne(c)
    BY <1>2, <2>2 DEF CallStep, SweepEnds, StartEnds, SelectEnds, StopReturns, ResetReturns, FolderReturns,
       StopEnds, jobVars, ghostVars, LeftBehind
  <2> QED
    BY <2>1, <2>2
<1>3. ASSUME NEW c \in Callers, UserCall(c)
      PROVE  lastJob' \in Jobs \cup {NoJob} /\ jobs' \in [Jobs -> JobState]
             /\ slipped' \subseteq Jobs /\ driver' \in [Jobs -> Nat]
  BY <1>3 DEF UserCall, Start, StartServer, Stop, SelectInterface, ChangeFolder, UpdateSettings, NewFolder,
     Reset, jobVars, LeftBehind
<1>4. CASE Restart
  BY <1>4 DEF Restart
<1>5. CASE Look \/ GeneratePairingCode \/ RevokePairedClient \/ TimePasses \/ Pair
  BY <1>5 DEF Look, GeneratePairingCode, RevokePairedClient, TimePasses, Pair, jobVars, ghostVars
<1>6. CASE PushTick
  BY <1>6 DEF PushTick, ghostVars
<1>7. ASSUME NEW j \in Jobs, Intake(j) \/ Commit(j) \/ CancelDraft(j) \/ Progress(j) \/ Finish(j)
      PROVE  lastJob' \in Jobs \cup {NoJob} /\ jobs' \in [Jobs -> JobState]
             /\ slipped' \subseteq Jobs /\ driver' \in [Jobs -> Nat]
  <2>1. graph \in Nat
    BY DEF ServerTyped
  <2>2. slipped' \subseteq Jobs /\ lastJob' \in Jobs \cup {NoJob}
    BY <1>7 DEF Intake, Commit, CancelDraft, Progress, Finish, Saves, ghostVars
  <2>3. driver' \in [Jobs -> Nat]
    BY <1>7, <2>1 DEF Intake, Commit, CancelDraft, Progress, Finish
  <2>4. jobs' \in [Jobs -> JobState]
    <3>1. jobs[j] \in JobState /\ {"draft", "running", "ended"} \subseteq JobState
      BY DEF JobState
    <3>2. PICK state \in JobState : jobs' = [jobs EXCEPT ![j] = state]
      BY <1>7, <3>1 DEF Intake, Commit, CancelDraft, Progress, Finish, Saves
    <3> QED
      BY <3>2
  <2> QED
    BY <2>2, <2>3, <2>4
<1> QED
  BY <1>1, <1>2, <1>3, <1>4, <1>5, <1>6, <1>7 DEF Next

\* What a step does to codes and tokens.
PairingStep ==
  \/ UNCHANGED pairingVars \/ Forget \/ CodeExpires
  \/ \E g : BuildAuth(g)
  \/ \E g \in Graphs : \/ BeginPairing(g) \/ RevokeAllAndForget(g)
                       \/ \E c : PairAttempt(g, c)
                       \/ \E t \in Tokens : Revoke(g, t)

LEMMA NextPairing ==
  ASSUME Typed, Counted, Next
  PROVE  PairingStep
<1>1. EnsureGraph => PairingStep
  BY DEF EnsureGraph, PairingStep
<1>2. graph # 0 => graph \in Graphs
  BY GraphInUse
<1>3. CASE AdapterMoves \/ \E r \in Managers : ChainStep(r) \/ WatcherDue(r)
  BY <1>3 DEF AdapterMoves, ChainStep, WatcherDue, AboveRelay, PairingStep, pairingVars
<1>4. ASSUME NEW c \in Callers, CallStep(c)
      PROVE  PairingStep
  <2>1. CASE ResetReturns(c)
    BY <1>2, <2>1 DEF ResetReturns, PairingStep
  <2>2. CASE FolderReturns(c)
    BY <2>2 DEF FolderReturns, PairingStep
  <2>3. CASE SweepOne(c) \/ SweepEnds(c) \/ StartEnds(c) \/ SelectEnds(c) \/ StopReturns(c)
    BY <2>3 DEF SweepOne, SweepEnds, StartEnds, SelectEnds, StopReturns, PairingStep
  <2> QED
    BY <1>4, <2>1, <2>2, <2>3 DEF CallStep
<1>5. ASSUME NEW c \in Callers, UserCall(c)
      PROVE  PairingStep
  <2>1. CASE Start(c)
    BY <1>1, <2>1 DEF Start, StartServer
  <2>2. CASE Reset(c)
    BY <1>2, <2>2 DEF Reset, PairingStep
  <2>3. CASE Stop(c) \/ SelectInterface(c) \/ NewFolder(c)
    BY <2>3 DEF Stop, SelectInterface, NewFolder, PairingStep
  <2> QED
    BY <1>5, <2>1, <2>2, <2>3 DEF UserCall, ChangeFolder, UpdateSettings
<1>6. CASE Restart
  BY <1>6 DEF Restart, PairingStep
<1>7. CASE Look \/ PushTick
  BY <1>1, <1>7 DEF Look, PushTick
<1>8. CASE GeneratePairingCode \/ RevokePairedClient \/ TimePasses \/ Pair
  BY <1>2, <1>8 DEF GeneratePairingCode, RevokePairedClient, TimePasses, Pair, PairingStep
<1>9. CASE \E j \in Jobs : Intake(j) \/ Commit(j) \/ CancelDraft(j) \/ Progress(j) \/ Finish(j)
  BY <1>9 DEF Intake, Commit, CancelDraft, Progress, Finish, Saves, PairingStep
<1> QED
  BY <1>3, <1>4, <1>5, <1>6, <1>7, <1>8, <1>9 DEF Next

LEMMA NextRelays ==
  ASSUME Typed, Counted, Next
  PROVE  relay' \in Nat /\ relays' \in Nat /\ wiring' \in [Managers -> Nat] /\ sweepDone' \in BOOLEAN
<1> USE DEF Typed, ServerTyped
<1>1. ASSUME NEW c, NEW g \in Nat, BuildRelay(c, g)
      PROVE  relay' \in Nat /\ relays' \in Nat /\ wiring' \in [Managers -> Nat]
  <2>1. relays' = relays + 1 /\ relay' = relays' /\ wiring' = [wiring EXCEPT ![relays'] = g]
    BY <1>1 DEF BuildRelay
  <2>2. relays' \in Nat
    BY <2>1
  <2> QED
    BY <2>1, <2>2
<1>2. ASSUME UNCHANGED << relay, relays, wiring, sweepDone >>
      PROVE  relay' \in Nat /\ relays' \in Nat /\ wiring' \in [Managers -> Nat] /\ sweepDone' \in BOOLEAN
  BY <1>2
<1>3. CASE AdapterMoves \/ \E r \in Managers : ChainStep(r) \/ WatcherDue(r)
  BY <1>2, <1>3 DEF AdapterMoves, ChainStep, WatcherDue, AboveRelay, serverVars
<1>4. ASSUME NEW c \in Callers, CallStep(c)
      PROVE  relay' \in Nat /\ relays' \in Nat /\ wiring' \in [Managers -> Nat] /\ sweepDone' \in BOOLEAN
  <2>1. CASE StopReturns(c) \/ ResetReturns(c)
    BY <2>1 DEF StopReturns, ResetReturns, StopEnds
  <2>2. CASE FolderReturns(c)
    <3>1. /\ relays' = relays + 1 /\ relay' = relays' /\ wiring' = [wiring EXCEPT ![relays'] = graphs']
          /\ graphs' = graphs + 1 /\ sweepDone' = sweepDone
      BY <2>2 DEF FolderReturns
    <3>2. relays' \in Nat /\ graphs' \in Nat
      BY <3>1
    <3> QED
      BY <3>1, <3>2
  <2>3. CASE SweepOne(c) \/ StartEnds(c) \/ SelectEnds(c)
    BY <1>2, <2>3 DEF SweepOne, StartEnds, SelectEnds
  <2>4. CASE SweepEnds(c)
    <3>1. call[c].graph \in Nat
      BY DEF CallRecords
    <3> QED
      BY <1>1, <2>4, <3>1 DEF SweepEnds
  <2> QED
    BY <1>4, <2>1, <2>2, <2>3, <2>4 DEF CallStep
<1>5. ASSUME NEW c \in Callers, UserCall(c)
      PROVE  relay' \in Nat /\ relays' \in Nat /\ wiring' \in [Managers -> Nat] /\ sweepDone' \in BOOLEAN
  <2>1. CASE Start(c)
    <3>1. graph' \in Nat
      BY <2>1, NextGraph DEF Start, StartServer
    <3> QED
      BY <1>1, <2>1, <3>1 DEF Start, StartServer
  <2>2. CASE Reset(c) \/ Stop(c) \/ SelectInterface(c) \/ NewFolder(c)
    BY <1>2, <2>2 DEF Reset, Stop, SelectInterface, NewFolder
  <2> QED
    BY <1>5, <2>1, <2>2 DEF UserCall, ChangeFolder, UpdateSettings
<1>6. CASE Restart
  BY <1>6 DEF Restart
<1>7. CASE Look \/ PushTick \/ GeneratePairingCode \/ RevokePairedClient \/ TimePasses \/ Pair
  BY <1>2, <1>7 DEF Look, PushTick, GeneratePairingCode, RevokePairedClient, TimePasses, Pair, serverVars
<1>8. CASE \E j \in Jobs : Intake(j) \/ Commit(j) \/ CancelDraft(j) \/ Progress(j) \/ Finish(j)
  BY <1>2, <1>8 DEF Intake, Commit, CancelDraft, Progress, Finish, Saves, serverVars
<1> QED
  BY <1>3, <1>4, <1>5, <1>6, <1>7, <1>8 DEF Next

LEMMA NextTyped ==
  ASSUME Typed, Counted, LInv, Next, ~crossed'
  PROVE  Typed' /\ Counted' /\ LInv'
<1>1. PairingTyped'
  BY NextPairing, PairingStepTyped DEF PairingStep, Typed
<1>2. ServerTyped'
  BY NextRelays, NextCounts, NextLinked DEF ServerTyped, Counts
<1>3. JobsTyped'
  BY NextJobs DEF JobsTyped
<1> QED
  BY <1>1, <1>2, <1>3, NextLinked, NextCounts DEF Typed, Counts

-----------------------------------------------------------------------------
(* The graph in use, the sweep and the running jobs *)

Wired == relay # 0 => graph # 0 /\ (relay \in Managers => wiring[relay] = graph)

\* A running job that the folder changes did not lose is driven, or waits for the sweep.
JobOK(j) ==
  jobs[j] = "running" /\ j \notin slipped =>
    \/ driver[j] # 0 /\ driver[j] = graph
    \/ driver[j] = 0 /\ ~sweepDone

\* The one call that sweeps has every running job before it that its graph does not drive.
SweepOK(c) ==
  call[c].pc = "sweeping" =>
    /\ ~sweepDone /\ graph # 0 /\ call[c].graph = graph
    /\ \A d \in Callers : call[d].pc = "sweeping" => d = c
    /\ \A j \in Jobs : jobs[j] = "running" /\ j \notin slipped /\ driver[j] # graph => j \in call[c].todo

\* The relay is first built by the call that has swept.
BeforeSweep == ~sweepDone => relay = 0 /\ \A c \in Callers : call[c].pc # "stopping"

SInv ==
  /\ Wired /\ BeforeSweep
  /\ \A j \in Jobs : JobOK(j)
  /\ \A c \in Callers : SweepOK(c)

LEMMA NotCrossed ==
  ASSUME Next, ~crossed'
  PROVE  ~crossed
<1>1. CASE AdapterMoves \/ \E r \in Managers : ChainStep(r) \/ WatcherDue(r)
  BY <1>1 DEF AdapterMoves, ChainStep, WatcherDue, AboveRelay, ghostVars
<1>2. ASSUME NEW c \in Callers, CallStep(c)
      PROVE  ~crossed
  <2>1. CASE crossed' = crossed
    BY <2>1
  <2>2. CASE StopEnds(c) \/ FolderReturns(c) \/ SweepEnds(c)
    BY <2>2, Zenon DEF StopEnds, FolderReturns, SweepEnds, BuildRelay
  <2> QED
    BY <1>2, <2>1, <2>2 DEF CallStep, SweepOne, StartEnds, SelectEnds, StopReturns, ResetReturns, ghostVars
<1>3. ASSUME NEW c \in Callers, UserCall(c)
      PROVE  ~crossed
  <2>1. CASE crossed' = crossed
    BY <2>1
  <2>2. CASE Start(c)
    BY <2>2, Zenon DEF Start, StartServer, BuildRelay
  <2>3. CASE SelectInterface(c)
    BY <2>3, Zenon DEF SelectInterface
  <2>4. CASE NewFolder(c)
    <3>1. CASE relay = 0
      BY <2>4, <3>1, Zenon DEF NewFolder
    <3> QED
      BY <2>1, <2>4, <3>1 DEF NewFolder
  <2> QED
    BY <1>3, <2>1, <2>2, <2>3, <2>4 DEF UserCall, ChangeFolder, UpdateSettings, Stop, Reset
<1>4. CASE Restart
  BY <1>4 DEF Restart
<1>5. CASE Look \/ GeneratePairingCode \/ RevokePairedClient \/ TimePasses \/ Pair \/ PushTick
  BY <1>5 DEF Look, GeneratePairingCode, RevokePairedClient, TimePasses, Pair, PushTick, ghostVars
<1>6. CASE \E j \in Jobs : Intake(j) \/ Commit(j) \/ CancelDraft(j) \/ Progress(j) \/ Finish(j)
  BY <1>6 DEF Intake, Commit, CancelDraft, Progress, Finish, Saves, ghostVars
<1> QED
  BY <1>1, <1>2, <1>3, <1>4, <1>5, <1>6 DEF Next

\* A step that builds no relay, begins no sweep and drops no graph.
LEMMA SameSweep ==
  ASSUME Typed, SInv, sweepDone' = sweepDone, wiring' = wiring, relay' \in {relay, 0},
         graph' = graph \/ (graph = 0 /\ graph' # 0),
         \A c \in Callers : call'[c].pc = "sweeping" => call'[c] = call[c],
         \A c \in Callers : call'[c].pc = "stopping" => call[c].pc = "stopping" \/ sweepDone,
         \A j \in Jobs : jobs'[j] = "running" /\ j \notin slipped' =>
           \/ jobs[j] = "running" /\ j \notin slipped /\ driver'[j] = driver[j]
           \/ driver'[j] # 0 /\ driver'[j] = graph'
  PROVE  SInv'
<1>1. Wired' /\ BeforeSweep'
  BY DEF SInv, Wired, BeforeSweep
<1>2. ASSUME NEW j \in Jobs
      PROVE  JobOK(j)'
  BY <1>2 DEF SInv, JobOK
<1>3. ASSUME NEW c \in Callers
      PROVE  SweepOK(c)'
  <2> SUFFICES ASSUME call'[c].pc = "sweeping"
               PROVE  SweepOK(c)'
    BY DEF SweepOK
  <2>1. call'[c] = call[c] /\ SweepOK(c) /\ graph # 0 /\ graph' = graph
    BY DEF SInv, SweepOK
  <2> QED
    BY <2>1 DEF SweepOK
<1> QED
  BY <1>1, <1>2, <1>3 DEF SInv

\* A relay for the graph in use, when no job is left for the sweep.
LEMMA BuildSweep ==
  ASSUME Typed, SInv, NEW c \in Callers, NEW v, call' = [call EXCEPT ![c] = v], v.pc = "starting",
         relays' = relays + 1, relay' = relays', graph' # 0, wiring' = [wiring EXCEPT ![relay'] = graph'],
         sweepDone', \A d \in Callers \ {c} : call[d].pc # "sweeping", UNCHANGED << jobs, driver >>,
         \A j \in Jobs : jobs[j] = "running" /\ j \notin slipped' => driver[j] = graph'
  PROVE  SInv'
<1>1. \A d \in Callers : call'[d].pc # "sweeping"
  BY DEF Typed, ServerTyped
<1>2. Wired' /\ BeforeSweep'
  BY DEF Wired, BeforeSweep, Typed, ServerTyped
<1> QED
  BY <1>1, <1>2 DEF SInv, JobOK, SweepOK

LEMMA Ensured ==
  ASSUME Typed, Counted, EnsureGraph
  PROVE  graph' # 0 /\ (graph' = graph \/ (graph = 0 /\ graph' # 0))
BY NextGraph

LEMMA CallStepSweep ==
  ASSUME Typed, Counted, SInv, NEW c \in Callers, CallStep(c), ~crossed'
  PROVE  SInv'
<1>1. CASE SweepOne(c)
  <2>1. PICK j \in call[c].todo : /\ call' = [call EXCEPT ![c].todo = @ \ {j}]
                                  /\ jobs' = [jobs EXCEPT ![j] = "ended"]
    BY <1>1 DEF SweepOne
  <2>2. UNCHANGED << graph, relay, wiring, sweepDone, driver, slipped >> /\ call[c].pc = "sweeping"
    BY <1>1 DEF SweepOne, ghostVars
  <2>3. \A i \in Jobs : jobs'[i] = "running" => i # j /\ jobs[i] = "running"
    BY <2>1 DEF Typed, JobsTyped
  <2>4. \A d \in Callers : /\ call'[d].pc = call[d].pc /\ call'[d].graph = call[d].graph
                           /\ \A i \in Jobs : i # j /\ i \in call[d].todo => i \in call'[d].todo
    BY <2>1 DEF Typed, ServerTyped, CallRecords
  <2>5. Wired' /\ BeforeSweep'
    BY <2>2, <2>4 DEF SInv, Wired, BeforeSweep
  <2>6. \A i \in Jobs : JobOK(i)'
    BY <2>2, <2>3 DEF SInv, JobOK
  <2>7. \A d \in Callers : SweepOK(d)'
    BY <2>2, <2>3, <2>4 DEF SInv, SweepOK
  <2> QED
    BY <2>5, <2>6, <2>7 DEF SInv
<1>2. CASE SweepEnds(c)
  <2> DEFINE v == [Idle EXCEPT !.pc = "starting", !.what = "start", !.mgr = relays']
  <2>1. call[c].pc = "sweeping" /\ call[c].todo = {} /\ sweepDone'
        /\ UNCHANGED << graph, jobs, driver, slipped >>
    BY <1>2 DEF SweepEnds, jobVars
  <2>2. /\ call' = [call EXCEPT ![c] = v] /\ relays' = relays + 1 /\ relay' = relays'
        /\ wiring' = [wiring EXCEPT ![relay'] = call[c].graph]
    BY <1>2 DEF SweepEnds, BuildRelay, Await
  <2>3. v.pc = "starting"
    BY DEF Idle
  <2>4. graph # 0 /\ call[c].graph = graph /\ \A d \in Callers \ {c} : call[d].pc # "sweeping"
    BY <2>1 DEF SInv, SweepOK
  <2>5. \A j \in Jobs : jobs[j] = "running" /\ j \notin slipped' => driver[j] = graph'
    BY <2>1 DEF SInv, SweepOK
  <2> HIDE DEF v
  <2> QED
    BY <2>1, <2>2, <2>3, <2>4, <2>5, BuildSweep
<1>3. ASSUME call' = [call EXCEPT ![c] = Idle], relay' \in {relay, 0},
             UNCHANGED << wiring, sweepDone, graph, jobs, driver, slipped >>
      PROVE  SInv'
  <2>1. \A d \in Callers : call'[d] = IF d = c THEN Idle ELSE call[d]
    BY <1>3 DEF Typed, ServerTyped
  <2> QED
    BY <1>3, <2>1, SameSweep, IdleTyped
<1>4. CASE StartEnds(c) \/ SelectEnds(c)
  BY <1>3, <1>4 DEF StartEnds, SelectEnds, Return, jobVars, ghostVars
<1>5. CASE StopReturns(c) \/ ResetReturns(c)
  BY <1>3, <1>5 DEF StopReturns, ResetReturns, StopEnds, Return, jobVars
<1>6. CASE FolderReturns(c)
  <2> DEFINE v == [Idle EXCEPT !.pc = "starting", !.what = "start", !.mgr = relays']
  <2>1. /\ call[c].what = "folder" /\ call[c].pc = "stopping" /\ sweepDone' = sweepDone
        /\ slipped' = slipped \cup (LeftBehind \ call[c].todo) /\ UNCHANGED << jobs, driver >>
        /\ graph' = graphs + 1 /\ graphs' = graph'
    BY <1>6 DEF FolderReturns, jobVars
  <2>2. /\ call' = [call EXCEPT ![c] = v] /\ relays' = relays + 1 /\ relay' = relays'
        /\ wiring' = [wiring EXCEPT ![relay'] = graph']
    BY <1>6 DEF FolderReturns, Await
  <2>3. v.pc = "starting"
    BY DEF Idle
  <2>4. sweepDone /\ call[c].todo = {} /\ graph' # 0
    BY <2>1 DEF SInv, BeforeSweep, Counted, Typed, ServerTyped
  <2>5. \A d \in Callers : call[d].pc # "sweeping"
    BY <2>4 DEF SInv, SweepOK
  <2>6. \A j \in Jobs : jobs[j] = "running" /\ j \notin slipped' => driver[j] = graph'
    BY <2>1, <2>4 DEF SInv, JobOK, LeftBehind, Running
  <2> HIDE DEF v
  <2> QED
    BY <2>1, <2>2, <2>3, <2>4, <2>5, <2>6, BuildSweep
<1> QED
  BY <1>1, <1>2, <1>4, <1>5, <1>6 DEF CallStep

LEMMA UserCallSweep ==
  ASSUME Typed, Counted, SInv, NEW c \in Callers, UserCall(c), ~crossed'
  PROVE  SInv'
<1>1. call[c].pc = "idle"
  BY DEF UserCall, Start, Stop, SelectInterface, ChangeFolder, UpdateSettings, NewFolder, Reset, Calling
<1>2. ASSUME NEW v, call' = [call EXCEPT ![c] = v], v.pc # "sweeping", v.pc = "stopping" => sweepDone,
             UNCHANGED << graph, relay, wiring, sweepDone, jobs, driver, slipped >>
      PROVE  SInv'
  <2>1. \A d \in Callers : call'[d] = IF d = c THEN v ELSE call[d]
    BY <1>2 DEF Typed, ServerTyped
  <2> QED
    BY <1>2, <2>1, SameSweep
<1>3. relay # 0 => sweepDone
  BY DEF SInv, BeforeSweep
<1>4. CASE Start(c)
  <2>1. EnsureGraph /\ UNCHANGED << sweepDone, jobs, driver, slipped >>
    BY <1>4 DEF Start, StartServer, jobVars
  <2>2. graph' # 0 /\ (graph' = graph \/ (graph = 0 /\ graph' # 0))
    BY <2>1, Ensured
  <2>3. CASE sweepDone
    <3> DEFINE v == [Idle EXCEPT !.pc = "starting", !.what = "start", !.mgr = relays']
    <3>1. /\ call' = [call EXCEPT ![c] = v] /\ relays' = relays + 1 /\ relay' = relays'
          /\ wiring' = [wiring EXCEPT ![relay'] = graph']
      BY <1>4, <2>3 DEF Start, StartServer, BuildRelay, Await
    <3>2. v.pc = "starting"
      BY DEF Idle
    <3>3. \A d \in Callers : call[d].pc # "sweeping"
      BY <2>3 DEF SInv, SweepOK
    <3>4. \A j \in Jobs : jobs[j] = "running" /\ j \notin slipped' => driver[j] = graph'
      BY <2>1, <2>2, <2>3 DEF SInv, JobOK
    <3> HIDE DEF v
    <3> QED
      BY <2>1, <2>2, <2>3, <3>1, <3>2, <3>3, <3>4, BuildSweep
  <2>4. CASE ~sweepDone
    <3> DEFINE v == [Idle EXCEPT !.pc = "sweeping", !.graph = graph', !.todo = ToSweep]
    <3>1. call' = [call EXCEPT ![c] = v] /\ UNCHANGED << relay, wiring >>
      BY <1>4, <2>4 DEF Start, StartServer
    <3>2. v.pc = "sweeping" /\ v.graph = graph' /\ v.todo = ToSweep
      BY DEF Idle
    <3>3. crossed' = (crossed \/ Sweeping)
      BY <1>4, <2>4 DEF Start, StartServer
    <3>4. ~Sweeping
      BY <3>3, Zenon
    <3>5. \A d \in Callers : call[d].pc # "sweeping"
      BY <3>4 DEF Sweeping
    <3> HIDE DEF v
    <3>6. \A d \in Callers : call'[d] = IF d = c THEN v ELSE call[d]
      BY <3>1 DEF Typed, ServerTyped
    <3>7. Wired' /\ BeforeSweep'
      BY <2>1, <2>2, <3>1, <3>2, <3>6 DEF SInv, Wired, BeforeSweep
    <3>8. \A j \in Jobs : JobOK(j)'
      BY <2>1, <2>2 DEF SInv, JobOK
    <3>9. \A d \in Callers : SweepOK(d)'
      BY <2>1, <2>2, <2>4, <3>2, <3>5, <3>6 DEF SweepOK, ToSweep, Running
    <3> QED
      BY <3>7, <3>8, <3>9 DEF SInv
  <2> QED
    BY <2>3, <2>4
<1>5. CASE Stop(c)
  <2> DEFINE v == [Idle EXCEPT !.pc = "stopping", !.what = "stop", !.mgr = relay]
  <2>1. v.pc = "stopping"
    BY DEF Idle
  <2>2. call' = [call EXCEPT ![c] = v] /\ relay # 0
    BY <1>5 DEF Stop, Await
  <2> HIDE DEF v
  <2> QED
    BY <1>2, <1>3, <1>5, <2>1, <2>2 DEF Stop, jobVars
<1>6. CASE SelectInterface(c)
  <2> DEFINE v == [Idle EXCEPT !.pc = "rebinding", !.what = "select", !.mgr = relay]
  <2>1. v.pc = "rebinding"
    BY DEF Idle
  <2>2. call' = [call EXCEPT ![c] = v]
    BY <1>6 DEF SelectInterface, Await
  <2> HIDE DEF v
  <2> QED
    BY <1>2, <1>6, <2>1, <2>2 DEF SelectInterface, jobVars
<1>7. CASE Reset(c)
  <2>1. CASE relay = 0
    <3>1. UNCHANGED << call, graph, relay, wiring, sweepDone, jobs, driver, slipped >>
      BY <1>7, <2>1 DEF Reset, jobVars
    <3> QED
      BY <3>1 DEF SInv, Wired, BeforeSweep, JobOK, SweepOK
  <2>2. CASE relay # 0
    <3> DEFINE v == [Idle EXCEPT !.pc = "stopping", !.what = "reset", !.mgr = relay]
    <3>1. v.pc = "stopping"
      BY DEF Idle
    <3>2. call' = [call EXCEPT ![c] = v]
      BY <1>7, <2>2 DEF Reset, Await
    <3> HIDE DEF v
    <3> QED
      BY <1>2, <1>3, <1>7, <2>2, <3>1, <3>2 DEF Reset, jobVars
  <2> QED
    BY <2>1, <2>2
<1>8. CASE NewFolder(c)
  <2>1. CASE relay # 0
    <3> DEFINE v == [Idle EXCEPT !.pc = "stopping", !.what = "folder", !.mgr = relay, !.todo = Seen]
    <3>1. v.pc = "stopping"
      BY DEF Idle
    <3>2. call' = [call EXCEPT ![c] = v] /\ UNCHANGED << graph, slipped >>
      BY <1>8, <2>1 DEF NewFolder
    <3> HIDE DEF v
    <3> QED
      BY <1>2, <1>3, <1>8, <2>1, <3>1, <3>2 DEF NewFolder, jobVars
  <2>2. CASE relay = 0
    <3>1. /\ graph' = 0 /\ slipped' = slipped \cup (LeftBehind \ Seen)
          /\ crossed' = (crossed \/ Sweeping)
          /\ UNCHANGED << call, relay, wiring, sweepDone, jobs, driver >>
      BY <1>8, <2>2 DEF NewFolder, jobVars
    <3>2. ~Sweeping
      BY <3>1, Zenon
    <3>3. Seen = {}
      BY <1>8, NothingSeen DEF NewFolder
    <3>4. \A d \in Callers : SweepOK(d)'
      BY <3>1, <3>2 DEF Sweeping, SweepOK
    <3>5. \A j \in Jobs : JobOK(j)'
      BY <3>1, <3>3 DEF SInv, JobOK, LeftBehind, Running
    <3>6. Wired' /\ BeforeSweep'
      BY <2>2, <3>1 DEF SInv, Wired, BeforeSweep
    <3> QED
      BY <3>4, <3>5, <3>6 DEF SInv
  <2> QED
    BY <2>1, <2>2
<1> QED
  BY <1>4, <1>5, <1>6, <1>7, <1>8 DEF UserCall, ChangeFolder, UpdateSettings

LEMMA NextSweep ==
  ASSUME Typed, Counted, SInv, Next, ~crossed'
  PROVE  SInv'
<1>1. ASSUME UNCHANGED << graph, call, relay, wiring, sweepDone, jobs, driver, slipped >>
      PROVE  SInv'
  BY <1>1 DEF SInv, Wired, BeforeSweep, JobOK, SweepOK
<1>2. CASE AdapterMoves \/ \E r \in Managers : ChainStep(r) \/ WatcherDue(r)
  BY <1>1, <1>2 DEF AdapterMoves, ChainStep, WatcherDue, AboveRelay, serverVars, jobVars, ghostVars
<1>3. CASE Restart
  <2>1. \A c \in Callers : call'[c] = Idle
    BY <1>3 DEF Restart
  <2>2. \A j \in Jobs : driver'[j] = 0
    BY <1>3 DEF Restart
  <2> QED
    BY <1>3, <2>1, <2>2, IdleTyped DEF Restart, SInv, Wired, BeforeSweep, JobOK, SweepOK
<1>4. CASE Look \/ PushTick
  <2>1. EnsureGraph /\ UNCHANGED << call, relay, wiring, sweepDone, jobs, driver, slipped >>
    BY <1>4 DEF Look, PushTick, serverVars, jobVars, ghostVars
  <2>2. graph' # 0 /\ (graph' = graph \/ (graph = 0 /\ graph' # 0))
    BY <2>1, Ensured
  <2> QED
    BY <2>1, <2>2, SameSweep
<1>5. CASE GeneratePairingCode \/ RevokePairedClient \/ TimePasses \/ Pair
  BY <1>1, <1>5 DEF GeneratePairingCode, RevokePairedClient, TimePasses, Pair, serverVars, jobVars, ghostVars
<1>6. ASSUME NEW j \in Jobs, Intake(j) \/ Commit(j) \/ CancelDraft(j) \/ Progress(j) \/ Finish(j)
      PROVE  SInv'
  <2>1. UNCHANGED << graph, call, relay, wiring, sweepDone, slipped >>
    BY <1>6 DEF Intake, Commit, CancelDraft, Progress, Finish, Saves, serverVars, ghostVars
  <2>2. \A i \in Jobs : i # j => jobs'[i] = jobs[i] /\ driver'[i] = driver[i]
    BY <1>6 DEF Intake, Commit, CancelDraft, Progress, Finish, Saves, Typed, JobsTyped
  <2>3. jobs'[j] = "running" /\ j \notin slipped' =>
          \/ jobs[j] = "running" /\ j \notin slipped /\ driver'[j] = driver[j]
          \/ driver'[j] # 0 /\ driver'[j] = graph'
    <3>1. CASE Intake(j) \/ CancelDraft(j)
      BY <3>1 DEF Intake, CancelDraft, Saves, Typed, JobsTyped
    <3>2. CASE Commit(j)
      BY <2>1, <3>2 DEF Commit, Typed, JobsTyped
    <3>3. CASE Progress(j)
      BY <2>1, <3>3 DEF Progress, Saves, Typed, JobsTyped
    <3>4. CASE Finish(j)
      BY <2>1, <3>4 DEF Finish, Typed, JobsTyped, SInv, JobOK
    <3> QED
      BY <1>6, <3>1, <3>2, <3>3, <3>4
  <2> QED
    BY <2>1, <2>2, <2>3, SameSweep
<1> QED
  BY <1>2, <1>3, <1>4, <1>5, <1>6, CallStepSweep, UserCallSweep DEF Next

-----------------------------------------------------------------------------
(* Tokens *)

\* The tokens that a store, of a graph or in safeStorage, has under its secret.
StoreOK(s, iss, gone, n) ==
  /\ \A t \in DOMAIN iss : iss[t] = s.secret => t \in s.known /\ (t \in gone <=> t \in s.revoked)
  /\ s.known \subseteq DOMAIN iss /\ s.revoked \subseteq s.known /\ s.revoked \subseteq gone
  /\ s.secret <= n

TokensKept ==
  /\ StoreOK(stored, issued, removed, secrets)
  /\ graph # 0 => /\ StoreOK(auth[graph], issued, removed, secrets)
                  /\ auth[graph].secret # 0 /\ stored.secret \in {0, auth[graph].secret}
  /\ \A t \in DOMAIN issued : issued[t] \in 1 .. secrets
  /\ removed \subseteq DOMAIN issued

\* Whoever reaches a graph reaches the one in use.
LEMMA Reached ==
  ASSUME Typed, LInv, SInv, NEW g, Serving(g)
  PROVE  g = graph /\ graph # 0
<1>1. PICK r \in Managers : mgr[r].sock # NoAddress /\ wiring[r] = g
  BY DEF Serving
<1>2. r = relay
  BY <1>1 DEF LInv, OneUp, Stopped, Dead, Dying, Silent
<1>3. relay # 0
  BY <1>2, ControllerConstants
<1> QED
  BY <1>1, <1>2, <1>3 DEF SInv, Wired

LEMMA BuildTokens ==
  ASSUME Typed, TokensKept, BuildAuth(graph'), graph' \in Graphs
  PROVE  TokensKept'
<1> DEFINE secret == IF stored.secret # 0 THEN stored.secret ELSE secrets + 1
<1>1. /\ auth' = [auth EXCEPT ![graph'] = [secret |-> secret, known |-> stored.known,
                                           revoked |-> stored.revoked, pending |-> {}]]
      /\ secrets' = (IF stored.secret # 0 THEN secrets ELSE secret)
      /\ stored' = [stored EXCEPT !.secret = secret]
      /\ issued' = issued /\ removed' = removed
  BY DEF BuildAuth
<1>2. secrets \in Nat /\ stored.secret \in Nat /\ stored.secret <= secrets
  BY DEF Typed, PairingTyped, Stores, TokensKept, StoreOK
<1>3. secret \in Nat /\ secret # 0 /\ secrets' \in Nat /\ secrets <= secrets' /\ secret <= secrets'
  BY <1>1, <1>2
<1>4. secret = stored.secret \/ secret > secrets
  BY <1>2
<1> HIDE DEF secret
<1>5. /\ auth'[graph'].secret = secret /\ auth'[graph'].known = stored.known
      /\ auth'[graph'].revoked = stored.revoked
  BY <1>1 DEF Typed, PairingTyped
<1>6. stored'.secret = secret /\ stored'.known = stored.known /\ stored'.revoked = stored.revoked
  BY <1>1 DEF Typed, PairingTyped, Stores
<1>7. \A t \in DOMAIN issued : issued[t] \in 1 .. secrets
  BY DEF TokensKept
<1>8. \A t \in DOMAIN issued : issued[t] = secret => issued[t] = stored.secret
  BY <1>2, <1>3, <1>4, <1>7
<1>9. StoreOK(stored', issued', removed', secrets') /\ StoreOK(auth'[graph'], issued', removed', secrets')
  BY <1>1, <1>3, <1>5, <1>6, <1>8 DEF TokensKept, StoreOK
<1>10. \A t \in DOMAIN issued' : issued'[t] \in 1 .. secrets'
  BY <1>1, <1>2, <1>3, <1>7
<1> QED
  BY <1>1, <1>3, <1>5, <1>6, <1>9, <1>10 DEF TokensKept

\* A pairing with the graph in use.
LEMMA PairTokens ==
  ASSUME Typed, TokensKept, graph \in Graphs, graph # 0, graph' = graph, NEW c, PairAttempt(graph, c)
  PROVE  TokensKept'
<1> DEFINE n == Len(issued) + 1
           a == auth[graph]
<1>1. a \in Auths /\ a.secret \in Nat /\ Len(issued) \in Nat /\ stored \in Stores /\ auth \in [Graphs -> Auths]
      /\ secrets \in Nat /\ issued \in Seq(Nat) /\ DOMAIN issued = 1 .. Len(issued)
  BY DEF Typed, PairingTyped, Auths
<1>2. secrets' = secrets /\ removed' = removed
  BY DEF PairAttempt
<1>3. CASE issued' = issued /\ stored' = stored /\ auth' = [auth EXCEPT ![graph].pending = @ \ {c}]
  <2>1. auth'[graph].secret = a.secret /\ auth'[graph].known = a.known /\ auth'[graph].revoked = a.revoked
    BY <1>1, <1>3 DEF Auths
  <2> QED
    BY <1>2, <1>3, <2>1 DEF TokensKept, StoreOK
<1>4. CASE /\ issued' = Append(issued, a.secret)
           /\ auth' = [auth EXCEPT ![graph].pending = @ \ {c}, ![graph].known = @ \cup {Len(issued')}]
           /\ Persist(graph)
  <2>1. Len(issued') = n /\ DOMAIN issued' = DOMAIN issued \cup {n} /\ n \notin DOMAIN issued
        /\ issued'[n] = a.secret /\ \A t \in DOMAIN issued : issued'[t] = issued[t]
    BY <1>1, <1>4
  <2> HIDE DEF n
  <2>2. /\ auth'[graph].secret = a.secret /\ auth'[graph].known = a.known \cup {n}
        /\ auth'[graph].revoked = a.revoked
    BY <1>1, <1>4, <2>1 DEF Auths
  <2>3. /\ stored'.secret = stored.secret /\ stored'.known = a.known \cup {n}
        /\ stored'.revoked = a.revoked
    BY <1>1, <1>4, <2>2 DEF Persist, Stores
  <2>4. /\ StoreOK(a, issued, removed, secrets) /\ a.secret # 0 /\ stored.secret \in {0, a.secret}
        /\ removed \subseteq DOMAIN issued /\ \A t \in DOMAIN issued : issued[t] \in 1 .. secrets
    BY DEF TokensKept
  <2> HIDE DEF a
  <2>5. StoreOK(auth'[graph], issued', removed', secrets')
    BY <1>2, <2>1, <2>2, <2>4 DEF StoreOK
  <2>6. \A t \in DOMAIN issued' : issued'[t] \in 1 .. secrets
    BY <1>1, <2>1, <2>4 DEF StoreOK
  <2>7. StoreOK(stored', issued', removed', secrets')
    <3>1. CASE stored.secret = a.secret
      BY <2>2, <2>3, <2>5, <3>1 DEF StoreOK
    <3>2. CASE stored.secret = 0
      <4>1. \A t \in DOMAIN issued' : issued'[t] # stored'.secret
        BY <1>1, <2>3, <2>6, <3>2
      <4> QED
        BY <1>1, <1>2, <2>1, <2>2, <2>3, <2>5, <3>2, <4>1 DEF StoreOK
    <3> QED
      BY <2>4, <3>1, <3>2
  <2> QED
    BY <1>2, <2>1, <2>2, <2>3, <2>4, <2>5, <2>6, <2>7 DEF TokensKept
<1> QED
  BY <1>3, <1>4 DEF PairAttempt

LEMMA RevokeTokens ==
  ASSUME Typed, TokensKept, graph \in Graphs, graph # 0, graph' = graph, NEW t \in Tokens, Revoke(graph, t)
  PROVE  TokensKept'
<1> DEFINE a == auth[graph]
<1>1. a \in Auths /\ stored \in Stores /\ auth \in [Graphs -> Auths] /\ secrets \in Nat
  BY DEF Typed, PairingTyped
<1>2. secrets' = secrets /\ issued' = issued /\ removed' = removed \cup {t} /\ t \in a.known \ a.revoked
      /\ auth' = [auth EXCEPT ![graph].revoked = @ \cup {t}] /\ Persist(graph)
  BY DEF Revoke
<1>3. /\ auth'[graph].secret = a.secret /\ auth'[graph].known = a.known
      /\ auth'[graph].revoked = a.revoked \cup {t}
  BY <1>1, <1>2 DEF Auths
<1>4. /\ stored'.secret = stored.secret /\ stored'.known = a.known
      /\ stored'.revoked = a.revoked \cup {t}
  BY <1>1, <1>2, <1>3 DEF Persist, Stores
<1>5. /\ StoreOK(a, issued, removed, secrets) /\ a.secret # 0 /\ stored.secret \in {0, a.secret}
      /\ removed \subseteq DOMAIN issued /\ \A u \in DOMAIN issued : issued[u] \in 1 .. secrets
  BY DEF TokensKept
<1> HIDE DEF a
<1>6. StoreOK(auth'[graph], issued', removed', secrets')
  BY <1>2, <1>3, <1>5 DEF StoreOK
<1>7. StoreOK(stored', issued', removed', secrets')
  <2>1. CASE stored.secret = a.secret
    BY <1>3, <1>4, <1>6, <2>1 DEF StoreOK
  <2>2. CASE stored.secret = 0
    <3>1. \A u \in DOMAIN issued' : issued'[u] # stored'.secret
      BY <1>1, <1>2, <1>4, <1>5, <2>2
    <3> QED
      BY <1>1, <1>2, <1>3, <1>4, <1>6, <2>2, <3>1 DEF StoreOK
  <2> QED
    BY <1>5, <2>1, <2>2
<1>8. removed' \subseteq DOMAIN issued'
  BY <1>2, <1>5 DEF StoreOK
<1> QED
  BY <1>2, <1>3, <1>4, <1>5, <1>6, <1>7, <1>8 DEF TokensKept

LEMMA ForgetTokens ==
  ASSUME Typed, TokensKept, graph \in Graphs, graph # 0, graph' = graph, RevokeAllAndForget(graph)
  PROVE  TokensKept'
<1> DEFINE a == auth[graph]
<1>1. a \in Auths /\ auth \in [Graphs -> Auths] /\ secrets \in Nat
  BY DEF Typed, PairingTyped
<1>2. secrets' = secrets /\ issued' = issued /\ removed' = removed \cup DOMAIN issued
      /\ auth' = [auth EXCEPT ![graph].revoked = auth[graph].known] /\ stored' = NoStore
  BY DEF RevokeAllAndForget
<1>3. auth'[graph].secret = a.secret /\ auth'[graph].known = a.known /\ auth'[graph].revoked = a.known
  BY <1>1, <1>2 DEF Auths
<1>4. stored'.secret = 0 /\ stored'.known = {} /\ stored'.revoked = {}
  BY <1>2 DEF NoStore
<1>5. /\ StoreOK(a, issued, removed, secrets) /\ a.secret # 0
      /\ removed \subseteq DOMAIN issued /\ \A t \in DOMAIN issued : issued[t] \in 1 .. secrets
  BY DEF TokensKept
<1> HIDE DEF a
<1>6. StoreOK(auth'[graph], issued', removed', secrets')
  BY <1>2, <1>3, <1>5 DEF StoreOK
<1>7. \A t \in DOMAIN issued : issued[t] # 0
  BY <1>1, <1>5
<1>8. StoreOK(stored', issued', removed', secrets')
  BY <1>1, <1>2, <1>4, <1>7 DEF StoreOK
<1> QED
  BY <1>2, <1>3, <1>4, <1>5, <1>6, <1>8 DEF TokensKept

\* A step that leaves the tokens, and the graph if it has one.
LEMMA SameTokens ==
  ASSUME TokensKept, UNCHANGED << stored, issued, removed, secrets >>,
         graph' # 0 => graph' = graph /\ auth'[graph].secret = auth[graph].secret
                       /\ auth'[graph].known = auth[graph].known
                       /\ auth'[graph].revoked = auth[graph].revoked
  PROVE  TokensKept'
BY DEF TokensKept, StoreOK

LEMMA NextTokens ==
  ASSUME Typed, Counted, LInv, SInv, TokensKept, Next
  PROVE  TokensKept'
<1>1. graph # 0 => graph \in Graphs
  BY GraphInUse
<1>2. ASSUME UNCHANGED pairingVars, graph' \in {graph, 0}
      PROVE  TokensKept'
  BY <1>2, SameTokens DEF pairingVars
<1>3. CASE EnsureGraph
  <2>1. CASE graph = 0
    BY <1>3, <2>1, NextGraph, BuildTokens
  <2>2. CASE graph # 0
    BY <1>2, <1>3, <2>2 DEF EnsureGraph
  <2> QED
    BY <2>1, <2>2
<1>4. CASE AdapterMoves \/ \E r \in Managers : ChainStep(r) \/ WatcherDue(r)
  BY <1>2, <1>4 DEF AdapterMoves, ChainStep, WatcherDue, AboveRelay, pairingVars
<1>5. ASSUME NEW c \in Callers, CallStep(c)
      PROVE  TokensKept'
  <2>1. CASE ResetReturns(c)
    BY <1>1, <2>1, ForgetTokens DEF ResetReturns
  <2>2. CASE FolderReturns(c)
    <3>1. graph' = graphs + 1 /\ graphs' = graph' /\ BuildAuth(graph')
      BY <2>2 DEF FolderReturns
    <3>2. /\ graphs' \in Nat /\ calls' \in 0 .. MaxCalls
          /\ graphs' + Missing(graph') + Changing(call') <= calls' + 1
      BY <1>5, CallStepCounts DEF Counts, Counted
    <3>3. Changing(call') \in Nat
      BY <1>5, CallStepCounts, FS_CardinalityType DEF Counts, Counted, Changing
    <3>4. graph' \in Nat /\ graph' # 0 /\ Missing(graph') = 0
      BY <3>1 DEF Typed, ServerTyped, Missing
    <3>5. graph' \in Graphs
      BY <3>1, <3>2, <3>3, <3>4, ControllerConstants, PairingConstants DEF Graphs
    <3> QED
      BY <3>1, <3>5, BuildTokens
  <2>3. CASE SweepOne(c) \/ SweepEnds(c) \/ StartEnds(c) \/ SelectEnds(c) \/ StopReturns(c)
    BY <1>2, <2>3 DEF SweepOne, SweepEnds, StartEnds, SelectEnds, StopReturns
  <2> QED
    BY <1>5, <2>1, <2>2, <2>3 DEF CallStep
<1>6. ASSUME NEW c \in Callers, UserCall(c)
      PROVE  TokensKept'
  <2>1. CASE Start(c)
    BY <1>3, <2>1 DEF Start, StartServer
  <2>2. CASE Reset(c)
    <3>1. CASE relay # 0
      BY <1>2, <2>2, <3>1 DEF Reset
    <3>2. CASE relay = 0
      BY <1>1, <2>2, <3>2, ForgetTokens DEF Reset
    <3> QED
      BY <3>1, <3>2
  <2>3. CASE Stop(c) \/ SelectInterface(c) \/ NewFolder(c)
    BY <1>2, <2>3 DEF Stop, SelectInterface, NewFolder
  <2> QED
    BY <1>6, <2>1, <2>2, <2>3 DEF UserCall, ChangeFolder, UpdateSettings
<1>7. CASE Restart
  BY <1>7, SameTokens DEF Restart, Forget
<1>8. CASE Look \/ PushTick
  BY <1>3, <1>8 DEF Look, PushTick
<1>9. CASE GeneratePairingCode
  <2>1. graph # 0 /\ graph \in Graphs /\ BeginPairing(graph) /\ graph' = graph
    BY <1>1, <1>9 DEF GeneratePairingCode
  <2>2. auth \in [Graphs -> Auths] /\ auth[graph] \in Auths
    BY <2>1 DEF Typed, PairingTyped
  <2>3. auth' = [auth EXCEPT ![graph].pending = Kept(@) \cup {shown'}]
    BY <2>1 DEF BeginPairing
  <2>4. /\ auth'[graph].secret = auth[graph].secret /\ auth'[graph].known = auth[graph].known
        /\ auth'[graph].revoked = auth[graph].revoked
    BY <2>1, <2>2, <2>3 DEF Auths
  <2> QED
    BY <2>1, <2>4, SameTokens DEF BeginPairing
<1>10. CASE RevokePairedClient
  BY <1>1, <1>10, RevokeTokens DEF RevokePairedClient
<1>11. CASE TimePasses
  BY <1>11, SameTokens DEF TimePasses, CodeExpires
<1>12. CASE Pair
  <2>1. PICK g, c : Serving(g) /\ PairAttempt(g, c)
    BY <1>12 DEF Pair
  <2>2. g = graph /\ graph # 0
    BY <2>1, Reached
  <2>3. graph' = graph
    BY <1>12 DEF Pair
  <2> QED
    BY <1>1, <2>1, <2>2, <2>3, PairTokens
<1>13. CASE \E j \in Jobs : Intake(j) \/ Commit(j) \/ CancelDraft(j) \/ Progress(j) \/ Finish(j)
  BY <1>2, <1>13 DEF Intake, Commit, CancelDraft, Progress, Finish, Saves
<1> QED
  BY <1>4, <1>5, <1>6, <1>7, <1>8, <1>9, <1>10, <1>11, <1>12, <1>13 DEF Next

-----------------------------------------------------------------------------
(* The invariant, and what it means *)

IInv == Uncrossed => Typed /\ Counted /\ LInv /\ SInv /\ TokensKept

LEMMA InitKept == Init => IInv
<1> SUFFICES ASSUME Init
             PROVE  Typed /\ Counted /\ LInv /\ SInv /\ TokensKept
  BY DEF IInv
<1> USE DEF Init
<1>1. RelayTyped
  BY FreshTyped DEF RelayInit, RelayTyped, Places
<1>2. \A c \in Callers : call[c] = Idle
  OBVIOUS
<1>3. ServerTyped /\ JobsTyped
  <2>1. 0 \in 0 .. MaxCalls
    BY ControllerConstants
  <2>2. call \in [Callers -> CallRecords] /\ wiring \in [Managers -> Nat]
    BY IdleTyped
  <2>3. jobs \in [Jobs -> JobState] /\ driver \in [Jobs -> Nat]
    BY DEF JobState
  <2> QED
    BY <2>1, <2>2, <2>3 DEF ServerTyped, JobsTyped
<1>4. NoAuth \in Auths /\ NoStore \in Stores /\ << >> \in Seq(Nat)
  BY DEF NoAuth, Auths, NoStore, Stores
<1>5. PairingTyped
  BY <1>4 DEF PairingInit, PairingTyped
<1>6. Folders(call) = {}
  BY <1>2, IdleTyped DEF Folders
<1>7. Counted
  <2>1. IsFiniteSet(Folders(call)) /\ Changing(call) = 0
    BY <1>6, FS_EmptySet DEF Changing
  <2> QED
    BY <1>2, <2>1, IdleTyped DEF Counted, Missing
<1>8. \A r \in Managers : mgr[r] = Fresh
  BY DEF RelayInit
<1>9. \A r \in Managers : LinksOK(call, r, Fresh) /\ StopsLast(Fresh) /\ Stopped(Fresh)
  BY FreshLinked
<1>10. LInv
  BY <1>2, <1>8, <1>9, IdleTyped DEF LInv, Linked, OneUp, StopDone
<1>11. SInv
  BY <1>2, IdleTyped DEF SInv, Wired, BeforeSweep, JobOK, SweepOK
<1>12. TokensKept
  BY DEF PairingInit, TokensKept, StoreOK, NoStore
<1> QED
  BY <1>1, <1>3, <1>5, <1>7, <1>10, <1>11, <1>12 DEF Typed

LEMMA NextKept == IInv /\ [Next]_vars => IInv'
<1> SUFFICES ASSUME IInv, [Next]_vars, ~crossed'
             PROVE  (Typed /\ Counted /\ LInv /\ SInv /\ TokensKept)'
  BY DEF IInv, Uncrossed
<1>1. CASE Next
  <2>1. Typed /\ Counted /\ LInv /\ SInv /\ TokensKept
    BY <1>1, NotCrossed DEF IInv, Uncrossed
  <2> QED
    BY <1>1, <2>1, NextTyped, NextSweep, NextTokens
<1>2. CASE UNCHANGED vars
  <2>1. Typed /\ Counted /\ LInv /\ SInv /\ TokensKept
    BY <1>2 DEF IInv, Uncrossed, vars
  <2>2. Typed'
    BY <1>2, <2>1 DEF vars, relayVars, pairingVars, Typed, RelayTyped, ServerTyped, JobsTyped, PairingTyped
  <2>3. Counted' /\ LInv'
    BY <1>2, <2>1 DEF vars, relayVars, Counted, LInv, Linked, OneUp
  <2>4. SInv'
    BY <1>2, <2>1 DEF vars, SInv, Wired, BeforeSweep, JobOK, SweepOK
  <2>5. TokensKept'
    BY <1>2, <2>1 DEF vars, pairingVars, TokensKept
  <2> QED
    BY <2>2, <2>3, <2>4, <2>5
<1> QED
  BY <1>1, <1>2

\* Up to the first calls that cross, what listens or watches is the relay in use, or
\* one whose stop() is awaited (controller.ts: stopServer(), the rebuild for a folder,
\* resetProfile()), for any number of managers, callers and links in a chain.
THEOREM StrayListeners == Spec => []NoStrayListener
<1>1. IInv => NoStrayListener
  BY DEF IInv, NoStrayListener, LInv, OneUp, Stopped, Dead, Dying, Silent
<1> QED
  BY <1>1, InitKept, NextKept, PTL DEF Spec

\* Up to the first calls that cross, the graph in use and safeStorage accept the
\* tokens of the paired and of nobody else (auth-persistence.ts), for any number of
\* tokens, graphs, folder changes, resets and restarts.
THEOREM PairedTokens == Spec => [](Uncrossed => PairedLast)
<1>1. ASSUME IInv, Uncrossed
      PROVE  PairedLast
  <2> SUFFICES ASSUME NEW t \in DOMAIN issued, NEW s \in {stored} \cup (IF graph = 0 THEN {} ELSE {auth[graph]})
               PROVE  /\ t \in removed => ~Accepts(s, t)
                      /\ t \notin removed /\ issued[t] = stored.secret => Accepts(s, t)
    BY DEF PairedLast
  <2>1. TokensKept /\ secrets \in Nat
    BY <1>1 DEF IInv, Typed, PairingTyped
  <2>2. StoreOK(s, issued, removed, secrets) /\ issued[t] # 0
    BY <2>1 DEF TokensKept
  <2>3. issued[t] = stored.secret => s.secret = issued[t]
    BY <2>1, <2>2 DEF TokensKept
  <2> QED
    BY <2>2, <2>3 DEF StoreOK, Accepts
<1>2. IInv => (Uncrossed => PairedLast)
  BY <1>1
<1> QED
  BY <1>2, InitKept, NextKept, PTL DEF Spec

\* Up to the first calls that cross, a job that its record calls running is driven by
\* the graph in use or waits for the sweep (controller.ts: startServer() and the
\* rebuild for a folder), but for those #lastJob did not show; for any number of jobs.
THEOREM RunningDriven == Spec => []Driven
<1>1. IInv => Driven
  BY DEF IInv, Driven, SInv, JobOK, Running
<1> QED
  BY <1>1, InitKept, NextKept, PTL DEF Spec

-----------------------------------------------------------------------------
(* The window in front of the controller: the setup wizard. Its state is that *)
(* of SetupWizard, the rest is what ServerWindow declares beside it.          *)

CONSTANTS MaxJobs, MaxClicks, MaxChanges, MaxEvents

VARIABLES server, record, unsaved, last, events, app, reads, blinked, clicks

Window == INSTANCE ServerWindow

Modes == {"unread", "anonymous", "user_hash", "unconfigured"}

Wizards ==
  [ step : 0..5, folder : Window!Folders \cup {"unread"}, folderBusy : BOOLEAN,
    radmin : Window!Adapters \cup {"unread"}, radminBusy : BOOLEAN, url : Urls,
    probe : Urls \cup {"none", "bad"}, qbitBusy : BOOLEAN, edited : BOOLEAN,
    mode : Modes, vikingBusy : BOOLEAN, picked : BOOLEAN ]

WindowTyped ==
  /\ folder \in Window!Folders /\ hash \in BOOLEAN /\ wiz \in Wizards
  /\ DOMAIN answers = Window!Kinds /\ answers["radmin"] \in Seq(Window!Adapters)
  /\ DOMAIN reads = {"sent", "done", "list"}
  /\ DOMAIN app = {"load", "first", "setup", "job", "fresh", "recent"}

\* Answers wait for the wizard only while it is shown, and it is mounted once: by
\* the first history, which the window reads once.
Mounted ==
  /\ wiz.step = 0 => \A k \in Window!Kinds \ {"hide"} : answers[k] = <<>>
  /\ app.load # "loaded" => wiz.step = 0
  /\ reads.sent = "first" \/ reads.done = "first" => app.load = "listing"
  /\ ~(reads.sent = "first" /\ reads.done = "first")

\* What the wizard waits for at first is as the main process has it, and nothing
\* is clicked before that answer.
HydrateOK ==
  \/ answers["hydrate"] = <<>>
  \/ /\ answers["hydrate"] = <<Window!Hydration>> /\ wiz.folderBusy /\ wiz.mode = "unread"
     /\ wiz.folder = "unread" /\ answers["folder"] = <<>> /\ answers["hash"] = <<>>

\* One folder is on its way at a time, and it is the saved one.
FolderOK ==
  /\ answers["folder"] = <<>> \/ (answers["folder"] = <<folder>> /\ wiz.folderBusy)
  /\ answers["folder"] = <<>> /\ answers["hydrate"] = <<>> => wiz.folder = folder

\* Saves of the hash may overtake each other: the last that did not fail is so, and
\* without one the choice shown, unless it was only clicked.
Agrees(mode) == /\ mode = "user_hash" => hash
                /\ mode = "anonymous" => ~hash

HashOK ==
  /\ answers["hash"] \in Seq((Modes \ {"unread"}) \cup {"failed"})
  /\ \A i \in 1..Len(answers["hash"]) :
       (\A n \in (i + 1)..Len(answers["hash"]) : answers["hash"][n] = "failed")
         => Agrees(answers["hash"][i])
  /\ (\A i \in 1..Len(answers["hash"]) : answers["hash"][i] = "failed") /\ ~wiz.picked
       => Agrees(wiz.mode)

\* One test is on its way at a time, of the address in the field unless that was edited.
ProbeOK ==
  /\ \/ answers["probe"] = <<>>
     \/ \E u \in Urls : /\ answers["probe"] = <<u>> /\ wiz.qbitBusy
                        /\ wiz.edited \/ u = wiz.url
  /\ wiz.probe \in Urls => wiz.edited \/ wiz.probe = wiz.url

WizardInv ==
  /\ WindowTyped /\ Mounted
  /\ wiz.step # 0 => HydrateOK /\ FolderOK /\ HashOK /\ ProbeOK

LEMMA OffIs ==
  /\ Window!Off \in Wizards /\ Window!Off.step = 0 /\ Window!Off.mode = "unread"
  /\ Window!Off.folder = "unread" /\ Window!Off.probe = "none" /\ ~Window!Off.picked
BY WizardAssumption DEF Window!Off, Wizards, Window!Folders, Window!Adapters, Modes

LEMMA WizardInit ==
  ASSUME Window!Init
  PROVE  WizardInv
<1>1. wiz = Window!Off /\ wiz \in Wizards /\ wiz.step = 0
  BY OffIs DEF Window!Init
<1>2. WindowTyped
  <2>1. DOMAIN answers = Window!Kinds /\ answers["radmin"] \in Seq(Window!Adapters)
    BY DEF Window!Init, Window!Kinds
  <2>2. DOMAIN reads = {"sent", "done", "list"}
    BY DEF Window!Init
  <2>3. DOMAIN app = {"load", "first", "setup", "job", "fresh", "recent"}
    BY DEF Window!Init
  <2>4. folder \in Window!Folders /\ hash \in BOOLEAN
    BY DEF Window!Init, Window!Folders
  <2> QED BY <1>1, <2>1, <2>2, <2>3, <2>4 DEF WindowTyped
<1>3. Mounted
  BY <1>1 DEF Window!Init, Mounted, Window!Kinds
<1> QED BY <1>1, <1>2, <1>3 DEF WizardInv

\* A step that leaves the wizard and what it waits for alone.
LEMMA WizardStays ==
  ASSUME WizardInv, folder' = folder, hash' = hash, wiz' = wiz,
         DOMAIN answers' = Window!Kinds,
         \A k \in {"hydrate", "folder", "radmin", "probe", "hash"} : answers'[k] = answers[k],
         DOMAIN reads' = {"sent", "done", "list"},
         DOMAIN app' = {"load", "first", "setup", "job", "fresh", "recent"},
         Mounted'
  PROVE  WizardInv'
<1>1. Window!Hydration' = Window!Hydration
  BY DEF Window!Hydration
<1>2. WindowTyped'
  BY DEF WizardInv, WindowTyped
<1>3. wiz.step # 0 => HydrateOK' /\ FolderOK' /\ ProbeOK'
  BY <1>1 DEF WizardInv, HydrateOK, FolderOK, ProbeOK
<1>4. wiz.step # 0 => HashOK'
  BY DEF WizardInv, HashOK, Agrees
<1> QED BY <1>2, <1>3, <1>4 DEF WizardInv

LEMMA MainKeeps ==
  ASSUME WizardInv, Window!MainStep \/ Window!JobMoves
  PROVE  WizardInv'
<1>1. CASE Window!Sweep \/ Window!Tick \/ Window!JobMoves \/ \E j \in Window!Jobs : Window!RecordSaved(j)
  <2>1. UNCHANGED <<folder, hash, app, reads, answers, wiz>>
    BY <1>1 DEF Window!Sweep, Window!Tick, Window!JobMoves, Window!RecordSaved
  <2> QED BY <2>1, WizardStays DEF WizardInv, WindowTyped, Mounted
<1>2. CASE Window!Started
  <2>1. /\ UNCHANGED <<folder, hash, app, reads, wiz>>
        /\ \E result \in {"ok", "failed"} : answers' = Window!Answer(result)
    BY <1>2 DEF Window!Started
  <2>2. PICK result \in {"ok", "failed"} : answers' = Window!Answer(result)
    BY <2>1
  <2>3. /\ DOMAIN answers' = Window!Kinds /\ \A k \in Window!Kinds \ {"start"} : answers'[k] = answers[k]
        /\ wiz.step = 0 => answers' = answers
    BY <2>2 DEF Window!Answer, WizardInv, WindowTyped
  <2> QED BY <2>1, <2>3, WizardStays DEF WizardInv, WindowTyped, Mounted, Window!Kinds
<1>3. CASE Window!ReadsHistory
  <2>1. /\ UNCHANGED <<folder, hash, app, answers, wiz>> /\ reads.done = "no"
        /\ reads' = [sent |-> "no", done |-> reads.sent, list |-> Window!History]
    BY <1>3 DEF Window!ReadsHistory, Window!mainVars
  <2>2. DOMAIN reads' = {"sent", "done", "list"} /\ reads'.sent = "no" /\ reads'.done = reads.sent
    BY <2>1
  <2> QED BY <2>1, <2>2, WizardStays DEF WizardInv, WindowTyped, Mounted
<1> QED BY <1>1, <1>2, <1>3 DEF Window!MainStep

LEMMA RereadIs ==
  ASSUME WizardInv, Window!Reread
  PROVE  /\ DOMAIN reads' = {"sent", "done", "list"} /\ reads'.done = reads.done
         /\ reads'.sent = IF reads.sent = "first" THEN "first" ELSE "again"
BY DEF Window!Reread, WizardInv, WindowTyped

\* The runtime context, and the dashboard.
LEMMA ContextKeeps ==
  ASSUME WizardInv,
         Window!FirstAnswers \/ Window!Hydrated \/ Window!Receive \/ Window!Render
           \/ Window!HistoryTaken \/ Window!Hidden \/ Window!Hide
  PROVE  WizardInv'
<1> USE DEF Window!mainVars
<1>0. /\ DOMAIN answers = Window!Kinds /\ DOMAIN reads = {"sent", "done", "list"}
      /\ DOMAIN app = {"load", "first", "setup", "job", "fresh", "recent"}
      /\ Mounted
  BY DEF WizardInv, WindowTyped
<1>1. CASE Window!FirstAnswers
  <2>1. UNCHANGED <<folder, hash, reads, answers, wiz>> /\ app.load = "new"
    BY <1>1 DEF Window!FirstAnswers
  <2>2. DOMAIN app' = DOMAIN app /\ app'.load = "read"
    BY <1>0, <1>1 DEF Window!FirstAnswers
  <2>3. Mounted'
    BY <1>0, <2>1, <2>2 DEF Mounted
  <2> QED BY <1>0, <2>1, <2>2, <2>3, WizardStays
<1>2. CASE Window!Hydrated
  <2>1. UNCHANGED <<folder, hash, answers, wiz>> /\ app.load = "read"
    BY <1>2 DEF Window!Hydrated
  <2>2. /\ DOMAIN app' = DOMAIN app /\ app'.load = "listing"
        /\ DOMAIN reads' = DOMAIN reads /\ reads'.sent = "first" /\ reads'.done = reads.done
    BY <1>0, <1>2 DEF Window!Hydrated
  <2>3. Mounted'
    BY <1>0, <2>1, <2>2 DEF Mounted
  <2> QED BY <1>0, <2>1, <2>2, <2>3, WizardStays
<1>3. CASE Window!Receive
  <2>1. UNCHANGED <<folder, hash, reads, answers, wiz>>
    BY <1>3 DEF Window!Receive
  <2>2. DOMAIN app' = DOMAIN app /\ app'.load = app.load
    BY <1>0, <1>3 DEF Window!Receive
  <2>3. Mounted'
    BY <1>0, <2>1, <2>2 DEF Mounted
  <2> QED BY <1>0, <2>1, <2>2, <2>3, WizardStays
<1>4. CASE Window!Render
  <2>1. UNCHANGED <<folder, hash, answers, wiz>> /\ (Window!Reread \/ reads' = reads)
    BY <1>4 DEF Window!Render
  <2>2. DOMAIN app' = DOMAIN app /\ app'.load = app.load
    BY <1>0, <1>4 DEF Window!Render
  <2>3. DOMAIN reads' = DOMAIN reads /\ reads'.done = reads.done
        /\ (reads'.sent = "first" => reads.sent = "first")
    BY <1>0, <2>1, RereadIs
  <2>4. Mounted'
    BY <1>0, <2>1, <2>2, <2>3 DEF Mounted
  <2> QED BY <1>0, <2>1, <2>2, <2>3, <2>4, WizardStays
<1>5. CASE Window!HistoryTaken
  <2>1. UNCHANGED <<folder, hash>> /\ reads.done # "no"
    BY <1>5 DEF Window!HistoryTaken
  <2>2. /\ DOMAIN reads' = DOMAIN reads /\ reads'.sent = reads.sent /\ reads'.done = "no"
        /\ DOMAIN app' = DOMAIN app
        /\ app'.load = IF reads.done = "first" THEN "loaded" ELSE app.load
    BY <1>0, <1>5 DEF Window!HistoryTaken
  <2>3. CASE UNCHANGED <<wiz, answers>>
    <3>1. Mounted'
      BY <1>0, <2>1, <2>2, <2>3 DEF Mounted
    <3> QED BY <1>0, <2>1, <2>2, <2>3, <3>1, WizardStays
  <2>4. CASE /\ reads.done = "first"
             /\ wiz' = [Window!Off EXCEPT !.step = 1, !.folderBusy = TRUE, !.radminBusy = TRUE]
             /\ answers' = [answers EXCEPT !["hydrate"] = <<Window!Hydration>>]
    <3>1. wiz.step = 0 /\ reads.sent # "first"
      BY <1>0, <2>4 DEF Mounted
    <3>2. \A k \in Window!Kinds \ {"hide"} : answers[k] = <<>>
      BY <1>0, <3>1 DEF Mounted
    <3>3. /\ wiz' \in Wizards /\ wiz'.step = 1 /\ wiz'.folderBusy /\ wiz'.mode = "unread"
          /\ wiz'.folder = "unread" /\ wiz'.probe = "none"
      <4>1. PICK off \in Wizards : off = Window!Off
        BY OffIs
      <4>2. wiz' = [off EXCEPT !.step = 1, !.folderBusy = TRUE, !.radminBusy = TRUE]
        BY <2>4, <4>1
      <4>3. off.mode = "unread" /\ off.folder = "unread" /\ off.probe = "none"
        BY <4>1, OffIs
      <4>4. wiz' \in Wizards
        <5>1. PICK k \in 0..5 : k = 1
          OBVIOUS
        <5>2. wiz' = [off EXCEPT !.step = k, !.folderBusy = TRUE, !.radminBusy = TRUE]
          BY <4>2, <5>1
        <5> QED BY <5>2 DEF Wizards
      <4> QED BY <4>2, <4>3, <4>4 DEF Wizards
    <3>4. /\ DOMAIN answers' = Window!Kinds /\ answers'["hydrate"] = <<Window!Hydration>>
          /\ \A k \in Window!Kinds \ {"hide", "hydrate"} : answers'[k] = <<>>
      BY <1>0, <2>4, <3>2 DEF Window!Kinds
    <3>5. Window!Hydration' = Window!Hydration
      BY <2>1 DEF Window!Hydration
    <3>6. WindowTyped'
      <4>1. answers'["radmin"] = <<>>
        BY <3>4 DEF Window!Kinds
      <4>2. answers'["radmin"] \in Seq(Window!Adapters)
        BY <4>1
      <4> QED BY <1>0, <2>1, <2>2, <3>3, <3>4, <4>2 DEF WizardInv, WindowTyped
    <3>7. Mounted'
      BY <2>2, <2>4, <3>1, <3>3 DEF Mounted
    <3>8. /\ answers'["hydrate"] # <<>> /\ answers'["folder"] = <<>> /\ answers'["hash"] = <<>>
          /\ answers'["probe"] = <<>>
      BY <3>4 DEF Window!Kinds
    <3>9. HydrateOK' /\ FolderOK'
      BY <3>3, <3>4, <3>5, <3>8 DEF HydrateOK, FolderOK
    <3>10. HashOK'
      BY <3>3, <3>8 DEF HashOK, Agrees
    <3>11. ProbeOK'
      BY <3>3, <3>8, WizardAssumption DEF ProbeOK
    <3> QED BY <3>6, <3>7, <3>9, <3>10, <3>11 DEF WizardInv
  <2> QED BY <1>5, <2>3, <2>4 DEF Window!HistoryTaken
<1>6. CASE Window!Hidden \/ Window!Hide
  <2>1. UNCHANGED <<folder, hash, app, wiz>> /\ (Window!Reread \/ reads' = reads)
    BY <1>6 DEF Window!Hidden, Window!Hide
  <2>2. DOMAIN answers' = Window!Kinds /\ \A k \in Window!Kinds \ {"hide"} : answers'[k] = answers[k]
    BY <1>0, <1>6 DEF Window!Hidden, Window!Hide
  <2>3. DOMAIN reads' = DOMAIN reads /\ reads'.done = reads.done
        /\ (reads'.sent = "first" => reads.sent = "first")
    BY <1>0, <2>1, RereadIs
  <2>4. Mounted'
    BY <1>0, <2>1, <2>2, <2>3 DEF Mounted
  <2> QED BY <1>0, <2>1, <2>2, <2>3, <2>4, WizardStays DEF Window!Kinds
<1> QED BY <1>1, <1>2, <1>3, <1>4, <1>5, <1>6

\* While the wizard is shown: what it waits for is answered.
LEMMA TakesIs ==
  ASSUME WizardInv, NEW kind \in Window!Kinds \ {"hide"}, Window!Takes(kind)
  PROVE  /\ wiz.step # 0 /\ HydrateOK /\ FolderOK /\ HashOK /\ ProbeOK
         /\ answers[kind] # <<>> /\ answers'[kind] = Tail(answers[kind])
         /\ DOMAIN answers' = Window!Kinds /\ \A k \in Window!Kinds \ {kind} : answers'[k] = answers[k]
         /\ UNCHANGED <<folder, hash, reads>> /\ Window!Hydration' = Window!Hydration
BY DEF WizardInv, WindowTyped, Mounted, Window!Takes, Window!mainVars, Window!Hydration

\* A step within the wizard.
LEMMA WizardMoves ==
  ASSUME WizardInv, wiz.step # 0, wiz' \in Wizards, wiz'.step # 0, UNCHANGED <<app, reads>>,
         folder' \in Window!Folders, hash' \in BOOLEAN, DOMAIN answers' = Window!Kinds,
         answers'["radmin"] \in Seq(Window!Adapters),
         HydrateOK', FolderOK', HashOK', ProbeOK'
  PROVE  WizardInv'
BY DEF WizardInv, WindowTyped, Mounted

LEMMA AnswersKeep ==
  ASSUME WizardInv,
         Window!WizardHydrated \/ Window!FolderTold \/ Window!RadminTold \/ Window!Probed \/ Window!ModeSaved
  PROVE  WizardInv'
<1>0. /\ wiz \in Wizards /\ folder \in Window!Folders /\ hash \in BOOLEAN
      /\ wiz.folder \in Window!Folders \cup {"unread"} /\ wiz.mode \in Modes
      /\ answers["radmin"] \in Seq(Window!Adapters)
  BY DEF WizardInv, WindowTyped, Wizards
<1> USE DEF Window!Kinds
<1>1. CASE Window!WizardHydrated
  <2>1. Window!Takes("hydrate") /\ app' = app
    BY <1>1 DEF Window!WizardHydrated
  <2>2. /\ wiz.step # 0 /\ HydrateOK /\ FolderOK /\ HashOK /\ ProbeOK
        /\ answers["hydrate"] # <<>> /\ answers'["hydrate"] = Tail(answers["hydrate"])
        /\ DOMAIN answers' = Window!Kinds /\ \A k \in Window!Kinds \ {"hydrate"} : answers'[k] = answers[k]
        /\ UNCHANGED <<folder, hash, reads>>
    BY <2>1, TakesIs
  <2>3. answers["hydrate"] = <<Window!Hydration>> /\ answers["folder"] = <<>> /\ answers["hash"] = <<>>
    BY <2>2 DEF HydrateOK
  <2>4. Head(answers["hydrate"]) = Window!Hydration /\ answers'["hydrate"] = <<>>
    BY <2>2, <2>3
  <2>5. Window!Hydration.folder = folder /\ Window!Hydration.mode \in {"user_hash", "unconfigured"}
        /\ (Window!Hydration.mode = "user_hash" => hash)
    BY DEF Window!Hydration
  <2>6. PICK a \in Window!Adapters :
          wiz' = [wiz EXCEPT !.folder = Window!Hydration.folder, !.folderBusy = FALSE,
                            !.radmin = a, !.radminBusy = FALSE,
                            !.mode = Window!Hydration.mode, !.vikingBusy = FALSE]
    BY <1>1, <2>4 DEF Window!WizardHydrated
  <2>7. wiz' \in Wizards
    BY <1>0, <2>5, <2>6 DEF Wizards, Modes
  <2>8. /\ wiz'.step = wiz.step /\ wiz'.folder = folder /\ wiz'.mode = Window!Hydration.mode
        /\ wiz'.picked = wiz.picked /\ wiz'.probe = wiz.probe /\ wiz'.edited = wiz.edited
        /\ wiz'.url = wiz.url /\ wiz'.qbitBusy = wiz.qbitBusy
    BY <1>0, <2>5, <2>6 DEF Wizards
  <2>9. HydrateOK' /\ FolderOK'
    BY <2>2, <2>3, <2>4, <2>8 DEF HydrateOK, FolderOK
  <2>10. answers'["hash"] = <<>>
    BY <2>2, <2>3
  <2>11. HashOK'
    BY <2>2, <2>5, <2>8, <2>10 DEF HashOK, Agrees
  <2>12. ProbeOK'
    BY <2>2, <2>8 DEF ProbeOK
  <2>13. answers'["radmin"] \in Seq(Window!Adapters)
    BY <1>0, <2>2
  <2> QED BY <1>0, <2>1, <2>2, <2>7, <2>8, <2>9, <2>11, <2>12, <2>13, WizardMoves
<1>2. CASE Window!FolderTold
  <2>1. Window!Takes("folder") /\ app' = app
    BY <1>2 DEF Window!FolderTold
  <2>2. /\ wiz.step # 0 /\ HydrateOK /\ FolderOK /\ HashOK /\ ProbeOK
        /\ answers["folder"] # <<>> /\ answers'["folder"] = Tail(answers["folder"])
        /\ DOMAIN answers' = Window!Kinds /\ \A k \in Window!Kinds \ {"folder"} : answers'[k] = answers[k]
        /\ UNCHANGED <<folder, hash, reads>>
    BY <2>1, TakesIs
  <2>3. answers["folder"] = <<folder>> /\ answers["hydrate"] = <<>>
    BY <2>2 DEF FolderOK, HydrateOK
  <2>4. Head(answers["folder"]) = folder /\ answers'["folder"] = <<>>
    BY <2>2, <2>3
  <2>5. wiz' = [wiz EXCEPT !.folder = folder, !.folderBusy = FALSE]
    BY <1>2, <2>4 DEF Window!FolderTold
  <2>6. wiz' \in Wizards
    BY <1>0, <2>5 DEF Wizards
  <2>7. /\ wiz'.step = wiz.step /\ wiz'.folder = folder /\ wiz'.mode = wiz.mode
        /\ wiz'.picked = wiz.picked /\ wiz'.probe = wiz.probe /\ wiz'.edited = wiz.edited
        /\ wiz'.url = wiz.url /\ wiz'.qbitBusy = wiz.qbitBusy
    BY <1>0, <2>5 DEF Wizards
  <2>8. HydrateOK' /\ FolderOK'
    BY <2>2, <2>3, <2>4, <2>7 DEF HydrateOK, FolderOK
  <2>9. HashOK'
    BY <2>2, <2>7 DEF HashOK, Agrees
  <2>10. ProbeOK'
    BY <2>2, <2>7 DEF ProbeOK
  <2>11. answers'["radmin"] \in Seq(Window!Adapters)
    BY <1>0, <2>2
  <2> QED BY <1>0, <2>1, <2>2, <2>6, <2>7, <2>8, <2>9, <2>10, <2>11, WizardMoves
<1>3. CASE Window!RadminTold
  <2>1. Window!Takes("radmin") /\ app' = app
    BY <1>3 DEF Window!RadminTold
  <2>2. /\ wiz.step # 0 /\ HydrateOK /\ FolderOK /\ HashOK /\ ProbeOK
        /\ answers["radmin"] # <<>> /\ answers'["radmin"] = Tail(answers["radmin"])
        /\ DOMAIN answers' = Window!Kinds /\ \A k \in Window!Kinds \ {"radmin"} : answers'[k] = answers[k]
        /\ UNCHANGED <<folder, hash, reads>> /\ Window!Hydration' = Window!Hydration
    BY <2>1, TakesIs
  <2>3. Head(answers["radmin"]) \in Window!Adapters /\ answers'["radmin"] \in Seq(Window!Adapters)
    BY <1>0, <2>2
  <2>4. wiz' = [wiz EXCEPT !.radmin = Head(answers["radmin"]), !.radminBusy = FALSE]
    BY <1>3 DEF Window!RadminTold
  <2>5. wiz' \in Wizards
    BY <1>0, <2>3, <2>4 DEF Wizards
  <2>6. /\ wiz'.step = wiz.step /\ wiz'.folder = wiz.folder /\ wiz'.folderBusy = wiz.folderBusy
        /\ wiz'.mode = wiz.mode /\ wiz'.picked = wiz.picked /\ wiz'.probe = wiz.probe
        /\ wiz'.edited = wiz.edited /\ wiz'.url = wiz.url /\ wiz'.qbitBusy = wiz.qbitBusy
    BY <1>0, <2>4 DEF Wizards
  <2>7. HydrateOK' /\ FolderOK'
    BY <2>2, <2>6 DEF HydrateOK, FolderOK
  <2>8. HashOK'
    BY <2>2, <2>6 DEF HashOK, Agrees
  <2>9. ProbeOK'
    BY <2>2, <2>6 DEF ProbeOK
  <2> QED BY <1>0, <2>1, <2>2, <2>3, <2>5, <2>6, <2>7, <2>8, <2>9, WizardMoves
<1>4. CASE Window!Probed
  <2>1. Window!Takes("probe") /\ app' = app
    BY <1>4 DEF Window!Probed
  <2>2. /\ wiz.step # 0 /\ HydrateOK /\ FolderOK /\ HashOK /\ ProbeOK
        /\ answers["probe"] # <<>> /\ answers'["probe"] = Tail(answers["probe"])
        /\ DOMAIN answers' = Window!Kinds /\ \A k \in Window!Kinds \ {"probe"} : answers'[k] = answers[k]
        /\ UNCHANGED <<folder, hash, reads>> /\ Window!Hydration' = Window!Hydration
    BY <2>1, TakesIs
  <2>3. PICK u \in Urls : answers["probe"] = <<u>> /\ (wiz.edited \/ u = wiz.url)
    BY <2>2 DEF ProbeOK
  <2>4. Head(answers["probe"]) = u /\ answers'["probe"] = <<>>
    BY <2>2, <2>3
  <2>5. PICK result \in {u, "bad"} : wiz' = [wiz EXCEPT !.probe = result, !.qbitBusy = FALSE]
    BY <1>4, <2>4 DEF Window!Probed
  <2>6. wiz' \in Wizards
    BY <1>0, <2>5 DEF Wizards
  <2>7. /\ wiz'.step = wiz.step /\ wiz'.folder = wiz.folder /\ wiz'.folderBusy = wiz.folderBusy
        /\ wiz'.mode = wiz.mode /\ wiz'.picked = wiz.picked /\ wiz'.probe = result
        /\ wiz'.edited = wiz.edited /\ wiz'.url = wiz.url
    BY <1>0, <2>5 DEF Wizards
  <2>8. HydrateOK' /\ FolderOK'
    BY <2>2, <2>7 DEF HydrateOK, FolderOK
  <2>9. HashOK'
    BY <2>2, <2>7 DEF HashOK, Agrees
  <2>10. ProbeOK'
    BY <2>3, <2>4, <2>7, WizardAssumption DEF ProbeOK
  <2>11. answers'["radmin"] \in Seq(Window!Adapters)
    BY <1>0, <2>2
  <2> QED BY <1>0, <2>1, <2>2, <2>6, <2>7, <2>8, <2>9, <2>10, <2>11, WizardMoves
<1>5. CASE Window!ModeSaved
  <2>1. Window!Takes("hash") /\ app' = app
    BY <1>5 DEF Window!ModeSaved
  <2>2. /\ wiz.step # 0 /\ HydrateOK /\ FolderOK /\ HashOK /\ ProbeOK
        /\ answers["hash"] # <<>> /\ answers'["hash"] = Tail(answers["hash"])
        /\ DOMAIN answers' = Window!Kinds /\ \A k \in Window!Kinds \ {"hash"} : answers'[k] = answers[k]
        /\ UNCHANGED <<folder, hash, reads>> /\ Window!Hydration' = Window!Hydration
    BY <2>1, TakesIs
  <2>3. PICK q : q = answers["hash"]
    OBVIOUS
  <2>4. /\ q \in Seq((Modes \ {"unread"}) \cup {"failed"}) /\ q # <<>> /\ answers'["hash"] = Tail(q)
        /\ \A i \in 1..Len(q) :
             (\A n \in (i + 1)..Len(q) : q[n] = "failed") => Agrees(q[i])
        /\ (\A i \in 1..Len(q) : q[i] = "failed") /\ ~wiz.picked => Agrees(wiz.mode)
    BY <2>2, <2>3 DEF HashOK
  <2>5. /\ Head(q) = q[1] /\ Len(q) \in Nat \ {0} /\ Len(Tail(q)) = Len(q) - 1
        /\ \A i \in 1..Len(Tail(q)) : Tail(q)[i] = q[i + 1]
        /\ Tail(q) \in Seq((Modes \ {"unread"}) \cup {"failed"})
        /\ q[1] \in (Modes \ {"unread"}) \cup {"failed"}
    BY <2>4
  <2>6. \/ /\ q[1] = "failed" /\ wiz' = [wiz EXCEPT !.vikingBusy = FALSE]
        \/ /\ q[1] # "failed"
           /\ wiz' = [wiz EXCEPT !.mode = q[1], !.vikingBusy = FALSE, !.picked = FALSE]
    BY <1>5, <2>3, <2>5 DEF Window!ModeSaved
  <2>7. wiz' \in Wizards
    BY <1>0, <2>5, <2>6 DEF Wizards
  <2>8. /\ wiz'.step = wiz.step /\ wiz'.folder = wiz.folder /\ wiz'.folderBusy = wiz.folderBusy
        /\ wiz'.probe = wiz.probe /\ wiz'.edited = wiz.edited /\ wiz'.url = wiz.url
        /\ wiz'.qbitBusy = wiz.qbitBusy
        /\ \/ q[1] = "failed" /\ wiz'.mode = wiz.mode /\ wiz'.picked = wiz.picked
           \/ q[1] # "failed" /\ wiz'.mode = q[1]
    BY <1>0, <2>6 DEF Wizards
  <2>9. HydrateOK' /\ FolderOK'
    <3>1. answers["hydrate"] = <<>>
      BY <2>2 DEF HydrateOK
    <3> QED BY <2>2, <2>8, <3>1 DEF HydrateOK, FolderOK
  <2>10. \A i \in 1..Len(Tail(q)) :
           (\A n \in (i + 1)..Len(Tail(q)) : Tail(q)[n] = "failed") => Agrees(Tail(q)[i])
    <3> SUFFICES ASSUME NEW i \in 1..Len(Tail(q)),
                        \A n \in (i + 1)..Len(Tail(q)) : Tail(q)[n] = "failed"
                 PROVE  Agrees(Tail(q)[i])
      OBVIOUS
    <3>1. i + 1 \in 1..Len(q) /\ Tail(q)[i] = q[i + 1]
      BY <2>5
    <3>2. ASSUME NEW n \in (i + 1 + 1)..Len(q) PROVE q[n] = "failed"
      <4>1. n - 1 \in (i + 1)..Len(Tail(q)) /\ n - 1 \in 1..Len(Tail(q)) /\ (n - 1) + 1 = n
        BY <2>5, <3>2
      <4> QED BY <2>5, <4>1
    <3> QED BY <2>4, <3>1, <3>2
  <2>11. ASSUME \A i \in 1..Len(Tail(q)) : Tail(q)[i] = "failed", ~wiz'.picked
         PROVE  Agrees(wiz'.mode)
    <3>1. ASSUME NEW n \in 2..Len(q) PROVE q[n] = "failed"
      <4>1. n - 1 \in 1..Len(Tail(q)) /\ (n - 1) + 1 = n
        BY <2>5, <3>1
      <4> QED BY <2>5, <2>11, <4>1
    <3>2. CASE q[1] = "failed"
      <4>1. \A i \in 1..Len(q) : q[i] = "failed"
        BY <2>5, <3>1, <3>2
      <4> QED BY <2>4, <2>8, <2>11, <3>2, <4>1
    <3>3. CASE q[1] # "failed"
      <4>1. 1 \in 1..Len(q) /\ \A n \in (1 + 1)..Len(q) : q[n] = "failed"
        BY <2>5, <3>1
      <4> QED BY <2>4, <2>8, <3>3, <4>1
    <3> QED BY <3>2, <3>3
  <2>12. HashOK'
    <3>1. \A m : Agrees(m)' <=> (m = "user_hash" => hash) /\ (m = "anonymous" => ~hash)
      BY <2>2 DEF Agrees
    <3>2. answers'["hash"] \in Seq((Modes \ {"unread"}) \cup {"failed"})
      BY <2>4, <2>5
    <3> QED BY <2>2, <2>4, <2>10, <2>11, <3>2 DEF HashOK, Agrees
  <2>13. ProbeOK'
    BY <2>2, <2>8 DEF ProbeOK
  <2>14. answers'["radmin"] \in Seq(Window!Adapters)
    BY <1>0, <2>2
  <2> QED BY <1>0, <2>1, <2>2, <2>7, <2>8, <2>9, <2>12, <2>13, <2>14, WizardMoves
<1> QED BY <1>1, <1>2, <1>3, <1>4, <1>5

\* What the user does in the wizard.
LEMMA UserKeeps ==
  ASSUME WizardInv,
         Window!ChooseFolder \/ Window!AskRadmin \/ Window!EditUrl \/ Window!Probe
           \/ Window!PickHash \/ Window!SaveMode \/ Window!Go \/ Window!Start
  PROVE  WizardInv'
<1>1. /\ wiz.step # 0 /\ UNCHANGED <<app, reads>>
      /\ DOMAIN answers = Window!Kinds /\ answers["radmin"] \in Seq(Window!Adapters)
      /\ wiz \in Wizards /\ folder \in Window!Folders /\ hash \in BOOLEAN
  <2>1. wiz.step \in 1..5
    <3>1. wiz.step \in {1, 2, 3, 4, 5} \/ wiz.step \in 1..4 \/ wiz.step \in 2..5
      BY Zenon DEF Window!ChooseFolder, Window!AskRadmin, Window!EditUrl, Window!Probe,
                   Window!PickHash, Window!SaveMode, Window!Go, Window!Start
    <3> QED BY <3>1
  <2>2. UNCHANGED <<app, reads>>
    BY DEF Window!ChooseFolder, Window!AskRadmin, Window!EditUrl, Window!Probe,
           Window!PickHash, Window!SaveMode, Window!Go, Window!Start
  <2> QED BY <2>1, <2>2 DEF WizardInv, WindowTyped
<1>2. HydrateOK /\ FolderOK /\ HashOK /\ ProbeOK
  BY <1>1 DEF WizardInv
<1>3. wiz.url \in Urls /\ wiz.step \in 0..5
  BY <1>1 DEF Wizards
<1> USE DEF Window!Kinds
<1>4. CASE Window!ChooseFolder
  <2>1. PICK f \in Window!Folders \ {"none"} :
          folder' = f /\ answers' = [answers EXCEPT !["folder"] = Append(answers["folder"], f)]
    BY <1>4 DEF Window!ChooseFolder
  <2>2. /\ ~wiz.folderBusy /\ hash' = hash /\ wiz' = [wiz EXCEPT !.folderBusy = TRUE]
    BY <1>4 DEF Window!ChooseFolder
  <2>3. answers["folder"] = <<>> /\ answers["hydrate"] = <<>>
    BY <1>2, <2>2 DEF FolderOK, HydrateOK
  <2>4. wiz' \in Wizards
    BY <1>1, <2>2 DEF Wizards
  <2>5. /\ wiz'.step = wiz.step /\ wiz'.folderBusy /\ wiz'.mode = wiz.mode
        /\ wiz'.picked = wiz.picked /\ wiz'.probe = wiz.probe /\ wiz'.edited = wiz.edited
        /\ wiz'.url = wiz.url /\ wiz'.qbitBusy = wiz.qbitBusy
    BY <1>1, <2>2 DEF Wizards
  <2>6. /\ answers'["folder"] = <<f>> /\ DOMAIN answers' = Window!Kinds
        /\ \A k \in Window!Kinds \ {"folder"} : answers'[k] = answers[k]
    BY <1>1, <2>1, <2>3
  <2>7. answers'["folder"] # <<>>
    BY <2>6
  <2>8. HydrateOK' /\ FolderOK'
    BY <2>1, <2>3, <2>5, <2>6, <2>7 DEF HydrateOK, FolderOK
  <2>9. HashOK'
    BY <1>2, <2>2, <2>5, <2>6 DEF HashOK, Agrees
  <2>10. ProbeOK'
    BY <1>2, <2>5, <2>6 DEF ProbeOK
  <2> QED BY <1>1, <2>1, <2>2, <2>4, <2>5, <2>6, <2>8, <2>9, <2>10, WizardMoves
<1>5. CASE Window!AskRadmin
  <2>1. PICK a \in Window!Adapters : answers' = [answers EXCEPT !["radmin"] = Append(answers["radmin"], a)]
    BY <1>5 DEF Window!AskRadmin
  <2>2. UNCHANGED <<folder, hash>> /\ wiz' = [wiz EXCEPT !.radminBusy = TRUE]
    BY <1>5 DEF Window!AskRadmin, Window!mainVars
  <2>3. wiz' \in Wizards
    BY <1>1, <2>2 DEF Wizards
  <2>4. /\ wiz'.step = wiz.step /\ wiz'.folder = wiz.folder /\ wiz'.folderBusy = wiz.folderBusy
        /\ wiz'.mode = wiz.mode /\ wiz'.picked = wiz.picked /\ wiz'.probe = wiz.probe
        /\ wiz'.edited = wiz.edited /\ wiz'.url = wiz.url /\ wiz'.qbitBusy = wiz.qbitBusy
    BY <1>1, <2>2 DEF Wizards
  <2>5. /\ answers'["radmin"] \in Seq(Window!Adapters) /\ DOMAIN answers' = Window!Kinds
        /\ \A k \in Window!Kinds \ {"radmin"} : answers'[k] = answers[k]
    BY <1>1, <2>1
  <2>6. Window!Hydration' = Window!Hydration
    BY <2>2 DEF Window!Hydration
  <2>7. HydrateOK' /\ FolderOK'
    BY <1>2, <2>2, <2>4, <2>5, <2>6 DEF HydrateOK, FolderOK
  <2>8. HashOK'
    BY <1>2, <2>2, <2>4, <2>5 DEF HashOK, Agrees
  <2>9. ProbeOK'
    BY <1>2, <2>4, <2>5 DEF ProbeOK
  <2> QED BY <1>1, <2>2, <2>3, <2>4, <2>5, <2>7, <2>8, <2>9, WizardMoves
<1>6. CASE Window!EditUrl
  <2>1. PICK u \in Urls : wiz' = [wiz EXCEPT !.url = u, !.probe = "none", !.edited = wiz.qbitBusy]
    BY <1>6 DEF Window!EditUrl
  <2>2. UNCHANGED <<folder, hash, answers>>
    BY <1>6 DEF Window!EditUrl, Window!mainVars
  <2>3. wiz' \in Wizards
    BY <1>1, <2>1 DEF Wizards
  <2>4. /\ wiz'.step = wiz.step /\ wiz'.folder = wiz.folder /\ wiz'.folderBusy = wiz.folderBusy
        /\ wiz'.mode = wiz.mode /\ wiz'.picked = wiz.picked /\ wiz'.probe = "none"
        /\ wiz'.edited = wiz.qbitBusy /\ wiz'.qbitBusy = wiz.qbitBusy
    BY <1>1, <2>1 DEF Wizards
  <2>5. Window!Hydration' = Window!Hydration
    BY <2>2 DEF Window!Hydration
  <2>6. HydrateOK' /\ FolderOK'
    BY <1>2, <2>2, <2>4, <2>5 DEF HydrateOK, FolderOK
  <2>7. HashOK'
    BY <1>2, <2>2, <2>4 DEF HashOK, Agrees
  <2>8. ProbeOK'
    BY <1>2, <2>2, <2>4, WizardAssumption DEF ProbeOK
  <2> QED BY <1>1, <2>2, <2>3, <2>4, <2>6, <2>7, <2>8, WizardMoves
<1>7. CASE Window!Probe
  <2>1. /\ wiz' = [wiz EXCEPT !.qbitBusy = TRUE, !.probe = "none", !.edited = FALSE]
        /\ answers' = [answers EXCEPT !["probe"] = Append(answers["probe"], wiz.url)]
        /\ UNCHANGED <<folder, hash>> /\ ~wiz.qbitBusy
    BY <1>7 DEF Window!Probe, Window!mainVars
  <2>2. answers["probe"] = <<>>
    BY <1>2, <2>1 DEF ProbeOK
  <2>3. wiz' \in Wizards
    BY <1>1, <2>1 DEF Wizards
  <2>4. /\ wiz'.step = wiz.step /\ wiz'.folder = wiz.folder /\ wiz'.folderBusy = wiz.folderBusy
        /\ wiz'.mode = wiz.mode /\ wiz'.picked = wiz.picked /\ wiz'.probe = "none"
        /\ wiz'.url = wiz.url /\ wiz'.qbitBusy
    BY <1>1, <2>1 DEF Wizards
  <2>5. /\ answers'["probe"] = <<wiz.url>> /\ DOMAIN answers' = Window!Kinds
        /\ \A k \in Window!Kinds \ {"probe"} : answers'[k] = answers[k]
    BY <1>1, <2>1, <2>2
  <2>6. Window!Hydration' = Window!Hydration
    BY <2>1 DEF Window!Hydration
  <2>7. HydrateOK' /\ FolderOK'
    BY <1>2, <2>1, <2>4, <2>5, <2>6 DEF HydrateOK, FolderOK
  <2>8. HashOK'
    BY <1>2, <2>1, <2>4, <2>5 DEF HashOK, Agrees
  <2>9. ProbeOK'
    BY <1>3, <2>4, <2>5, WizardAssumption DEF ProbeOK
  <2>10. answers'["radmin"] \in Seq(Window!Adapters)
    BY <1>1, <2>5
  <2> QED BY <1>1, <2>1, <2>3, <2>4, <2>5, <2>7, <2>8, <2>9, <2>10, WizardMoves
<1>8. CASE Window!PickHash
  <2>1. /\ wiz' = [wiz EXCEPT !.mode = "user_hash", !.picked = TRUE]
        /\ UNCHANGED <<folder, hash, answers>> /\ wiz.mode # "unread"
    BY <1>8 DEF Window!PickHash, Window!mainVars
  <2>2. answers["hydrate"] = <<>>
    BY <1>2, <2>1 DEF HydrateOK
  <2>3. wiz' \in Wizards
    BY <1>1, <2>1 DEF Wizards, Modes
  <2>4. /\ wiz'.step = wiz.step /\ wiz'.folder = wiz.folder /\ wiz'.folderBusy = wiz.folderBusy
        /\ wiz'.picked /\ wiz'.probe = wiz.probe
        /\ wiz'.edited = wiz.edited /\ wiz'.url = wiz.url /\ wiz'.qbitBusy = wiz.qbitBusy
    BY <1>1, <2>1 DEF Wizards
  <2>5. HydrateOK' /\ FolderOK'
    BY <1>2, <2>1, <2>2, <2>4 DEF HydrateOK, FolderOK
  <2>6. HashOK'
    BY <1>2, <2>1, <2>4 DEF HashOK, Agrees
  <2>7. ProbeOK'
    BY <1>2, <2>1, <2>4 DEF ProbeOK
  <2> QED BY <1>1, <2>1, <2>3, <2>4, <2>5, <2>6, <2>7, WizardMoves
<1>9. CASE Window!SaveMode
  <2>1. PICK wanted \in BOOLEAN :
          /\ Window!SetHash(wanted)
          /\ \/ /\ ~wanted
                /\ wiz' = [wiz EXCEPT !.mode = "anonymous", !.picked = TRUE, !.vikingBusy = TRUE]
             \/ wiz' = [wiz EXCEPT !.vikingBusy = TRUE]
    BY <1>9 DEF Window!SaveMode
  <2>2. folder' = folder /\ wiz.mode # "unread"
    BY <1>9 DEF Window!SaveMode
  <2>3. PICK q : q = answers["hash"]
    OBVIOUS
  <2>4. PICK answer \in (Modes \ {"unread"}) \cup {"failed"} :
          /\ answers' = [answers EXCEPT !["hash"] = Append(q, answer)]
          /\ \/ hash' = hash /\ answer = "failed"
             \/ /\ answer # "failed" /\ hash' \in BOOLEAN
                /\ answer = "user_hash" => hash'
                /\ answer = "anonymous" => ~hash'
    BY <1>1, <2>1, <2>3 DEF Window!SetHash, Modes
  <2>5. wiz' \in Wizards
    BY <1>1, <2>1 DEF Wizards, Modes
  <2>6. /\ wiz'.step = wiz.step /\ wiz'.folder = wiz.folder /\ wiz'.folderBusy = wiz.folderBusy
        /\ wiz'.probe = wiz.probe /\ wiz'.edited = wiz.edited /\ wiz'.url = wiz.url
        /\ wiz'.qbitBusy = wiz.qbitBusy
        /\ wiz'.picked \/ (wiz'.mode = wiz.mode /\ wiz'.picked = wiz.picked)
    BY <1>1, <2>1 DEF Wizards
  <2>7. /\ answers'["hash"] = Append(q, answer) /\ DOMAIN answers' = Window!Kinds
        /\ \A k \in Window!Kinds \ {"hash"} : answers'[k] = answers[k]
    BY <1>1, <2>4
  <2>8. answers["hydrate"] = <<>>
    BY <1>2, <2>2 DEF HydrateOK
  <2>9. HydrateOK' /\ FolderOK'
    BY <1>2, <2>2, <2>6, <2>7, <2>8 DEF HydrateOK, FolderOK
  <2>10. /\ q \in Seq((Modes \ {"unread"}) \cup {"failed"})
         /\ \A i \in 1..Len(q) : (\A n \in (i + 1)..Len(q) : q[n] = "failed") => Agrees(q[i])
         /\ (\A i \in 1..Len(q) : q[i] = "failed") /\ ~wiz.picked => Agrees(wiz.mode)
    BY <1>2, <2>3 DEF HashOK
  <2> PICK p : p = Append(q, answer)
    OBVIOUS
  <2>11. /\ p \in Seq((Modes \ {"unread"}) \cup {"failed"}) /\ Len(p) = Len(q) + 1
         /\ Len(q) \in Nat /\ p[Len(q) + 1] = answer /\ \A i \in 1..Len(q) : p[i] = q[i]
    BY <2>10
  <2>12. ASSUME NEW i \in 1..Len(p), \A n \in (i + 1)..Len(p) : p[n] = "failed"
         PROVE  (p[i] = "user_hash" => hash') /\ (p[i] = "anonymous" => ~hash')
    <3>1. CASE i = Len(q) + 1
      BY <2>4, <2>11, <3>1
    <3>2. CASE i \in 1..Len(q)
      <4>1. Len(q) + 1 \in (i + 1)..Len(p)
        BY <2>11, <3>2
      <4>2. answer = "failed" /\ hash' = hash
        BY <2>4, <2>11, <2>12, <4>1
      <4>3. \A n \in (i + 1)..Len(q) : q[n] = "failed"
        BY <2>11, <2>12, <3>2
      <4>4. Agrees(q[i])
        BY <2>10, <3>2, <4>3
      <4> QED BY <2>11, <3>2, <4>2, <4>4 DEF Agrees
    <3> QED BY <2>11, <3>1, <3>2
  <2>13. ASSUME \A i \in 1..Len(p) : p[i] = "failed", ~wiz'.picked
         PROVE  (wiz'.mode = "user_hash" => hash') /\ (wiz'.mode = "anonymous" => ~hash')
    <3>1. answer = "failed" /\ hash' = hash
      BY <2>4, <2>11, <2>13
    <3>2. \A i \in 1..Len(q) : q[i] = "failed"
      BY <2>11, <2>13
    <3>3. wiz'.mode = wiz.mode /\ ~wiz.picked
      BY <2>6, <2>13
    <3> QED BY <2>10, <3>1, <3>2, <3>3 DEF Agrees
  <2>14. HashOK'
    BY <2>7, <2>11, <2>12, <2>13 DEF HashOK, Agrees
  <2>15. ProbeOK'
    BY <1>2, <2>6, <2>7 DEF ProbeOK
  <2>16. hash' \in BOOLEAN /\ answers'["radmin"] \in Seq(Window!Adapters)
    BY <1>1, <2>4, <2>7
  <2> QED BY <1>1, <2>2, <2>5, <2>6, <2>7, <2>9, <2>14, <2>15, <2>16, WizardMoves
<1>10. CASE Window!Go \/ Window!Start
  <2>1. /\ UNCHANGED <<folder, hash, answers>>
        /\ \/ wiz' = wiz
           \/ wiz.step \in 1..4 /\ wiz' = [wiz EXCEPT !.step = wiz.step + 1]
           \/ wiz.step \in 2..5 /\ wiz' = [wiz EXCEPT !.step = wiz.step - 1]
    BY <1>10 DEF Window!Go, Window!Start, Window!mainVars
  <2>2. PICK s \in 1..5 : wiz' = wiz \/ wiz' = [wiz EXCEPT !.step = s]
    <3>1. CASE wiz' = wiz
      BY <3>1
    <3>2. CASE wiz.step \in 1..4 /\ wiz' = [wiz EXCEPT !.step = wiz.step + 1]
      <4>1. wiz.step + 1 \in 1..5
        BY <3>2
      <4> QED BY <3>2, <4>1
    <3>3. CASE wiz.step \in 2..5 /\ wiz' = [wiz EXCEPT !.step = wiz.step - 1]
      <4>1. wiz.step - 1 \in 1..5
        BY <3>3
      <4> QED BY <3>3, <4>1
    <3> QED BY <2>1, <3>1, <3>2, <3>3
  <2>3. s \in 0..5 /\ s # 0
    OBVIOUS
  <2>4. wiz' \in Wizards
    BY <1>1, <2>2, <2>3 DEF Wizards
  <2>5. /\ wiz'.step # 0 /\ wiz'.folder = wiz.folder /\ wiz'.folderBusy = wiz.folderBusy
        /\ wiz'.mode = wiz.mode /\ wiz'.picked = wiz.picked /\ wiz'.probe = wiz.probe
        /\ wiz'.edited = wiz.edited /\ wiz'.url = wiz.url /\ wiz'.qbitBusy = wiz.qbitBusy
    BY <1>1, <2>2, <2>3 DEF Wizards
  <2>6. Window!Hydration' = Window!Hydration
    BY <2>1 DEF Window!Hydration
  <2>7. HydrateOK' /\ FolderOK'
    BY <1>2, <2>1, <2>5, <2>6 DEF HydrateOK, FolderOK
  <2>8. HashOK'
    BY <1>2, <2>1, <2>5 DEF HashOK, Agrees
  <2>9. ProbeOK'
    BY <1>2, <2>1, <2>5 DEF ProbeOK
  <2> QED BY <1>1, <2>1, <2>4, <2>5, <2>7, <2>8, <2>9, WizardMoves
<1> QED BY <1>4, <1>5, <1>6, <1>7, <1>8, <1>9, <1>10

\* The server is started, and the settings are read again.
LEMMA GateKeeps ==
  ASSUME WizardInv, Window!StartAnswered \/ Window!SettingsTaken
  PROVE  WizardInv'
<1>0. /\ DOMAIN answers = Window!Kinds /\ DOMAIN reads = {"sent", "done", "list"}
      /\ DOMAIN app = {"load", "first", "setup", "job", "fresh", "recent"}
      /\ Mounted /\ folder \in Window!Folders /\ hash \in BOOLEAN
  BY DEF WizardInv, WindowTyped
<1> USE DEF Window!Kinds
<1>1. CASE Window!StartAnswered
  <2>1. UNCHANGED <<folder, hash, app, reads, wiz>> /\ answers["start"] # <<>>
    BY <1>1 DEF Window!StartAnswered, Window!mainVars
  <2>2. DOMAIN answers' = Window!Kinds /\ \A k \in Window!Kinds \ {"start", "settings"} : answers'[k] = answers[k]
    BY <1>0, <1>1 DEF Window!StartAnswered
  <2>3. wiz.step # 0
    BY <1>0, <2>1 DEF Mounted
  <2>4. Mounted'
    BY <1>0, <2>1, <2>3 DEF Mounted
  <2> QED BY <1>0, <2>1, <2>2, <2>4, WizardStays
<1>2. CASE Window!SettingsTaken
  <2>1. UNCHANGED <<folder, hash, reads>> /\ answers["settings"] # <<>>
    BY <1>2 DEF Window!SettingsTaken, Window!mainVars
  <2>2. wiz.step # 0 /\ app.load = "loaded"
    BY <1>0, <2>1 DEF Mounted
  <2>3. DOMAIN app' = DOMAIN app /\ app'.load = "loaded"
    BY <1>0, <1>2, <2>2 DEF Window!SettingsTaken
  <2>4. CASE wiz' = wiz /\ answers' = [answers EXCEPT !["settings"] = Tail(answers["settings"])]
    <3>1. DOMAIN answers' = Window!Kinds /\ \A k \in Window!Kinds \ {"settings"} : answers'[k] = answers[k]
      BY <1>0, <2>4
    <3>2. Mounted'
      BY <1>0, <2>1, <2>2, <2>3, <2>4 DEF Mounted
    <3> QED BY <1>0, <2>1, <2>3, <2>4, <3>1, <3>2, WizardStays
  <2>5. CASE wiz' = Window!Off /\ answers' = [k \in Window!Kinds |-> <<>>]
    <3>1. wiz' \in Wizards /\ wiz'.step = 0
      BY <2>5, OffIs
    <3>2. DOMAIN answers' = Window!Kinds /\ \A k \in Window!Kinds : answers'[k] = <<>>
      BY <2>5
    <3>3. answers'["radmin"] \in Seq(Window!Adapters)
      <4>1. answers'["radmin"] = <<>>
        BY <3>2
      <4> QED BY <4>1
    <3>4. WindowTyped'
      BY <1>0, <2>1, <2>3, <3>1, <3>2, <3>3 DEF WindowTyped
    <3>5. Mounted'
      BY <1>0, <2>1, <2>3, <3>1, <3>2 DEF Mounted
    <3> QED BY <3>1, <3>4, <3>5 DEF WizardInv
  <2> QED BY <1>2, <2>4, <2>5 DEF Window!SettingsTaken
<1> QED BY <1>1, <1>2

LEMMA WizardStep ==
  ASSUME WizardInv, [Window!Next]_(Window!vars)
  PROVE  WizardInv'
<1>1. CASE UNCHANGED Window!vars
  <2>1. UNCHANGED <<folder, hash, app, reads, answers, wiz>>
    BY <1>1 DEF Window!vars
  <2> QED BY <2>1, WizardStays DEF WizardInv, WindowTyped, Mounted
<1>2. CASE Window!Next
  BY <1>2, MainKeeps, ContextKeeps, AnswersKeep, UserKeeps, GateKeeps
     DEF Window!Next, Window!WindowStep, Window!UserStep
<1> QED BY <1>1, <1>2

\* A step the wizard shows as done is done in the main process, whatever answers are
\* under way and however saves of the hash overtake each other (StepsHold).
THEOREM WizardTruthful == Window!Spec => []StepsHold
<1>1. Window!Init => WizardInv
  BY WizardInit
<1>2. WizardInv /\ [Window!Next]_(Window!vars) => WizardInv'
  BY WizardStep
<1>3. WizardInv => StepsHold
  BY DEF WizardInv, HydrateOK, FolderOK, HashOK, ProbeOK, Agrees, StepsHold
<1> QED BY <1>1, <1>2, <1>3, PTL DEF Window!Spec
=============================================================================
