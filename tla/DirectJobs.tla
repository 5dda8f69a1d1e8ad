----------------------------- MODULE DirectJobs -----------------------------
(***************************************************************************)
(* "Friend mode": links sent to a paired client.  DirectJobStore keeps the *)
(* server's queue in one JSON file, DirectDownloadsService keeps the       *)
(* client's in another; every operation on either reads the whole file,    *)
(* changes its copy and writes the copy back, with no lock.  writeFile     *)
(* truncates first, and an unreadable file is read as an empty queue.      *)
(*                                                                         *)
(* The client has two actors on its queue, the poll timer (one cycle at a  *)
(* time) and the user's clicks; the server runs one request of each of     *)
(* them, and one of the sender, at a time.  A step is the code between two *)
(* awaits.                                                                 *)
(***************************************************************************)
EXTENDS Naturals, FiniteSets

CONSTANTS
  Jobs,        \* direct jobs, by id
  NoJob,       \* no job at hand
  Magnets,     \* the jobs whose link is a magnet: their infohash is known
  MaxFaults    \* bound: requests lost or timed out, failed writes, crashes of either side

ASSUME DirectConstants ==
  /\ NoJob \notin Jobs
  /\ Magnets \subseteq Jobs
  /\ MaxFaults \in Nat

Actors  == {"poll", "ui"}
Callers == Actors \cup {"sender"}

ServerStates == {"absent", "queued", "accepted", "declined"}
ItemStates   == {"absent", "pending", "downloading", "done", "failed", "declined"}

\* The content of a file that does not exist or cannot be parsed.
Nothing == [j \in Jobs |-> "absent"]

Steps ==
  { "idle", "asking", "knowing", "looping", "appending", "opening", "failing", "marking",
    "marked", "taking", "fetching", "settling", "telling", "told", "refreshing", "measuring",
    "measured", "reporting", "reported" }
Saving  == {"appending", "marked", "taking", "settling", "measured"}
\* A copy, or a decision taken from one, that will be saved later.
Holding == Saving \cup {"failing", "fetching", "measuring"}

\* One call in progress on the client: its step, the job and the user's choice,
\* the jobs of the server's answer still to take, the reports still to send, its
\* copy of the queue, and whether its write met another one.
Ops == [ pc : Steps, job : Jobs \cup {NoJob}, act : {"accept", "decline"},
         todo : SUBSET Jobs, reports : SUBSET Jobs, copy : [Jobs -> ItemStates], mixed : BOOLEAN ]
Idle == [ pc |-> "idle", job |-> NoJob, act |-> "accept", todo |-> {}, reports |-> {},
          copy |-> Nothing, mixed |-> FALSE ]

\* One request on its way to the server, or being served.
Requests == [ pc : {"none", "sent", "saving"},
              what : {"list", "accept", "decline", "report", "add"},
              job : Jobs \cup {NoJob}, copy : [Jobs -> ServerStates], mixed : BOOLEAN ]
NoRequest == [ pc |-> "none", what |-> "list", job |-> NoJob, copy |-> Nothing, mixed |-> FALSE ]

VARIABLES
  queue,     \* direct-jobs.json of the server
  items,     \* direct-downloads.json of the client
  op,        \* the calls in progress on the client
  req,       \* the requests in progress on the server
  paired,    \* whether the server accepts the client's token
  faults,    \* requests lost or timed out, failed writes and crashes so far
  sent,      \* history: jobs whose sender was answered
  fetched,   \* history: jobs handed to qBittorrent with success, and not declined since
  lost,      \* history: jobs of which an accept or decline was never made on the server
  stranded,  \* history: jobs whose taking a crash cut off or whose end could not be saved
  hurt       \* history: files with overlapping updates or a write that was cut off

server  == << queue, req >>
client  == << items, op >>
history == << sent, fetched, lost, stranded, hurt >>
vars == << queue, items, op, req, paired, faults, history >>

TypeOK ==
  /\ queue \in [Jobs -> ServerStates]
  /\ items \in [Jobs -> ItemStates]
  /\ op \in [Actors -> Ops]
  /\ req \in [Callers -> Requests]
  /\ paired \in BOOLEAN
  /\ faults \in 0 .. MaxFaults
  /\ sent \subseteq Jobs
  /\ fetched \subseteq Jobs
  /\ lost \subseteq Jobs
  /\ stranded \subseteq Jobs
  /\ hurt \subseteq {"queue", "items"}

Init ==
  /\ queue = Nothing
  /\ items = Nothing
  /\ op = [o \in Actors |-> Idle]
  /\ req = [c \in Callers |-> NoRequest]
  /\ paired = TRUE
  /\ faults = 0
  /\ sent = {}
  /\ fetched = {}
  /\ lost = {}
  /\ stranded = {}
  /\ hurt = {}

-----------------------------------------------------------------------------
(* The client's calls: reading and saving the local queue *)

To(o, step) == op' = [op EXCEPT ![o].pc = step]

\* Where a call goes on when the accept, the decline or the refresh is over.
Finished(o, r) ==
  IF o = "poll" /\ r.job # NoJob
  THEN [r EXCEPT !.pc = "looping", !.job = NoJob, !.act = "accept", !.copy = Nothing]
  ELSE Idle

\* writeFile truncates the file and then fills it: a read while another call is
\* saving may find the old content or nothing, and that save will not know of
\* what the reader saves.
Others(o, steps) == {x \in Actors \ {o} : op[x].pc \in steps}

ReadItems(o) == IF Others(o, Saving) # {} THEN {items, Nothing} ELSE {items}

Overlaps(o) == hurt' = IF Others(o, Holding) # {} THEN hurt \cup {"items"} ELSE hurt

\* A call goes on as r and starts to write; two writes at once mix.
Write(o, r) ==
  op' = [x \in Actors |->
    CASE x = o                    -> [r EXCEPT !.mixed = Others(o, Saving) # {}]
      [] x \in Others(o, Saving) -> [op[x] EXCEPT !.mixed = TRUE]
      [] OTHER                    -> op[x]]

Save(o, step, copy) ==
  Write(o, [op[o] EXCEPT !.pc = step, !.copy = copy])

\* settings.directAutoAccept is read after an item was appended.
AfterSave(o) ==
  CASE op[o].pc = "appending" -> {"opening", "looping"}
    [] op[o].pc = "taking"    -> {"fetching"}
    [] op[o].pc = "measured"  -> {"reporting"}
    [] OTHER                  -> {"telling"}

\* A write succeeds; two that met may leave a mixture nobody can parse.
Saved(o) ==
  /\ op[o].pc \in Saving
  /\ items' \in IF op[o].mixed THEN {op[o].copy, Nothing} ELSE {op[o].copy}
  /\ \E next \in AfterSave(o) :
       op' = [op EXCEPT ![o].pc = next, ![o].mixed = FALSE,
                        ![o].job = IF next = "looping" THEN NoJob ELSE @,
                        ![o].copy = IF next = "fetching" THEN @ ELSE Nothing]
  /\ UNCHANGED << server, paired, faults, history >>

-----------------------------------------------------------------------------
(* The poll *)

Ask(o, what, j, step) ==
  /\ req[o].pc = "none"
  /\ req' = [req EXCEPT ![o] = [NoRequest EXCEPT !.pc = "sent", !.what = what, !.job = j]]
  /\ To(o, step)
  /\ UNCHANGED << queue, items, paired, faults, history >>

PollOnce ==
  /\ op["poll"].pc = "idle"
  /\ paired
  /\ Ask("poll", "list", NoJob, "asking")

PollKnown ==
  /\ op["poll"].pc = "knowing"
  /\ \E found \in ReadItems("poll") :
       op' = [op EXCEPT !["poll"].pc = "looping",
                        !["poll"].todo = {j \in @ : found[j] = "absent"}]
  /\ Overlaps("poll")
  /\ UNCHANGED << server, items, paired, faults, sent, fetched, lost, stranded >>

\* find() returns the first item of an id: a second copy would never be seen.
AppendLocal ==
  /\ op["poll"].pc = "looping"
  /\ \E j \in op["poll"].todo, found \in ReadItems("poll") :
       LET copy == IF found[j] = "absent" THEN [found EXCEPT ![j] = "pending"] ELSE found
       IN  Write("poll", [op["poll"] EXCEPT !.pc = "appending", !.job = j,
                                            !.todo = @ \ {j}, !.copy = copy])
  /\ Overlaps("poll")
  /\ UNCHANGED << server, items, paired, faults, sent, fetched, lost, stranded >>

PollRefresh ==
  /\ op["poll"].pc = "looping" /\ op["poll"].todo = {}
  /\ To("poll", "refreshing")
  /\ UNCHANGED << server, items, paired, faults, history >>

-----------------------------------------------------------------------------
(* Accepting and declining an item *)

\* The user clicks a button of a list that may be out of date.
Click(j, act) ==
  /\ op["ui"].pc = "idle" /\ req["ui"].pc = "none"
  /\ items[j] # "absent"
  /\ op' = [op EXCEPT !["ui"] = [Idle EXCEPT !.job = j, !.act = act,
                                 !.pc = IF act = "accept" THEN "opening" ELSE "marking"]]
  /\ UNCHANGED << server, items, paired, faults, history >>

\* Mutant: a "done" item can be accepted again.
DownloadPendingAgain(o) ==
  /\ op[o].pc = "opening"
  /\ Overlaps(o)
  /\ \E found \in ReadItems(o) :
       IF found[op[o].job] \in {"absent", "downloading"}
       THEN To(o, "telling")
       ELSE \/ To(o, "failing")
            \/ Save(o, "taking", [found EXCEPT ![op[o].job] = "downloading"])
  /\ UNCHANGED << server, items, paired, faults, sent, fetched, lost, stranded >>

\* #downloadPending: nothing to do, no download folder set, or the item is taken.
DownloadPending(o) ==
  /\ op[o].pc = "opening"
  /\ Overlaps(o)
  /\ \E found \in ReadItems(o) :
       IF found[op[o].job] \in {"absent", "done", "downloading"}
       THEN To(o, "telling")
       ELSE \/ To(o, "failing")
            \/ Save(o, "taking", [found EXCEPT ![op[o].job] = "downloading"])
  /\ UNCHANGED << server, items, paired, faults, sent, fetched, lost, stranded >>

\* #markLocal with "failed" (no folder) or "declined".
MarkLocal(o) ==
  /\ op[o].pc \in {"failing", "marking"}
  /\ Overlaps(o)
  /\ \E found \in ReadItems(o) :
       IF found[op[o].job] = "absent"
       THEN To(o, "telling")
       ELSE Save(o, "marked", [found EXCEPT ![op[o].job] =
                                 IF op[o].pc = "failing" THEN "failed" ELSE "declined"])
  /\ fetched' = IF op[o].pc = "marking" THEN fetched \ {op[o].job} ELSE fetched
  /\ UNCHANGED << server, items, paired, faults, sent, lost, stranded >>

\* Mutant: a failure is not written to the item.
FetchedUnsettled(o) ==
  /\ op[o].pc = "fetching"
  /\ \E done \in BOOLEAN :
       /\ Save(o, "settling", IF done THEN [op[o].copy EXCEPT ![op[o].job] = "done"] ELSE op[o].copy)
       /\ fetched' = IF done THEN fetched \cup {op[o].job} ELSE fetched
  /\ UNCHANGED << server, items, paired, faults, sent, lost, stranded, hurt >>

\* The download ends or qBittorrent answers; the copy read before it is saved.
Fetched(o) ==
  /\ op[o].pc = "fetching"
  /\ \E done \in BOOLEAN :
       /\ Save(o, "settling", [op[o].copy EXCEPT ![op[o].job] = IF done THEN "done" ELSE "failed"])
       /\ fetched' = IF done THEN fetched \cup {op[o].job} ELSE fetched
  /\ UNCHANGED << server, items, paired, faults, sent, lost, stranded, hurt >>

RemoteAction(o) ==
  /\ op[o].pc = "telling"
  /\ Ask(o, op[o].act, op[o].job, "told")

-----------------------------------------------------------------------------
(* #refreshProgress *)

\* An item at 100 % is no longer asked for; it is among those that do not answer.
Active(found) == {j \in Magnets : found[j] = "done"}

RefreshProgress(o) ==
  /\ op[o].pc = "refreshing"
  /\ Overlaps(o)
  /\ \E found \in ReadItems(o) :
       op' = [op EXCEPT ![o] =
                IF Active(found) = {} THEN Finished(o, op[o])
                ELSE [op[o] EXCEPT !.pc = "measuring", !.copy = found, !.reports = Active(found)]]
  /\ UNCHANGED << server, items, paired, faults, sent, fetched, lost, stranded >>

\* qBittorrent knows some of the hashes, or none, or fails; the snapshots go into
\* the copy read before it was asked.
Measured(o) ==
  /\ op[o].pc = "measuring"
  /\ \/ op' = [op EXCEPT ![o] = Finished(o, [@ EXCEPT !.reports = {}])]
     \/ \E known \in SUBSET op[o].reports \ {{}} :
          Write(o, [op[o] EXCEPT !.pc = "measured", !.reports = known])
  /\ UNCHANGED << server, items, paired, faults, history >>

RemoteReport(o) ==
  /\ op[o].pc = "reporting"
  /\ \E j \in op[o].reports : Ask(o, "report", j, "reported")

ReportsDone(o) ==
  /\ op[o].pc = "reporting" /\ op[o].reports = {}
  /\ op' = [op EXCEPT ![o] = Finished(o, op[o])]
  /\ UNCHANGED << server, items, paired, faults, history >>

\* Mutant: an empty answer returns without clearing #polling.
ResumedStillPolling(o, jobs) ==
  LET r == op[o]
  IN  CASE r.pc = "asking"   -> [r EXCEPT !.pc = IF jobs = {} THEN @ ELSE "knowing", !.todo = jobs]
        [] r.pc = "reported" -> [r EXCEPT !.pc = "reporting", !.reports = @ \ {req[o].job}]
        [] r.pc = "told"     -> IF r.act = "decline" THEN Idle ELSE [r EXCEPT !.pc = "refreshing"]
        [] OTHER             -> r

\* The client goes on when its request is answered, refused or given up; the
\* result of an action or of a report is ignored.
Resumed(o, jobs) ==
  LET r == op[o]
  IN  CASE r.pc = "asking"   -> IF jobs = {} THEN Idle ELSE [r EXCEPT !.pc = "knowing", !.todo = jobs]
        [] r.pc = "reported" -> [r EXCEPT !.pc = "reporting", !.reports = @ \ {req[o].job}]
        [] r.pc = "told"     -> IF r.act = "decline" THEN Idle ELSE [r EXCEPT !.pc = "refreshing"]
        [] OTHER             -> r

Answered(c, jobs) ==
  op' = IF c \in Actors THEN [op EXCEPT ![c] = Resumed(c, jobs)] ELSE op

-----------------------------------------------------------------------------
(* The server: DirectJobStore behind the authenticated routes *)

\* The job has the state the operation asks for: setState needs "queued".
Applies(r, found) ==
  IF r.what = "report" THEN found[r.job] # "absent" ELSE found[r.job] = "queued"

\* Mutant: add() saves the new job alone.
AppliedAlone(r, found) ==
  CASE r.what = "add"     -> [Nothing EXCEPT ![r.job] = "queued"]
    [] r.what = "accept"  -> [found EXCEPT ![r.job] = "accepted"]
    [] r.what = "decline" -> [found EXCEPT ![r.job] = "declined"]
    [] OTHER              -> found

Applied(r, found) ==
  CASE r.what = "add"     -> [found EXCEPT ![r.job] = "queued"]
    [] r.what = "accept"  -> [found EXCEPT ![r.job] = "accepted"]
    [] r.what = "decline" -> [found EXCEPT ![r.job] = "declined"]
    [] OTHER              -> found

Admitted(c) == req[c].pc = "sent" /\ paired

\* queuedFor
Queued(found) == {j \in Jobs : found[j] = "queued"}

ServeList(c) ==
  /\ Admitted(c) /\ req[c].what = "list"
  /\ \E found \in {queue} \cup {Nothing : x \in {y \in Callers : req[y].pc = "saving"}} :
       Answered(c, Queued(found))
  /\ req' = [req EXCEPT ![c] = NoRequest]
  /\ UNCHANGED << queue, items, paired, faults, history >>

\* The store reads the queue for an operation: another one that is being saved
\* may hide it, and will not know of this one.
Loading(c) == {x \in Callers \ {c} : req[x].pc = "saving"}
ReadQueue(c) == IF Loading(c) # {} THEN {queue, Nothing} ELSE {queue}

StartSave(c, r, found) ==
  /\ req' = [x \in Callers |->
       CASE x = c            -> [r EXCEPT !.pc = "saving", !.copy = Applied(r, found),
                                          !.mixed = Loading(c) # {}]
         [] x \in Loading(c) -> [req[x] EXCEPT !.mixed = TRUE]
         [] OTHER            -> req[x]]
  /\ hurt' = IF Loading(c) # {} THEN hurt \cup {"queue"} ELSE hurt

\* The link is cleared once it was sent, and the button disabled meanwhile.
LinkEntered(j) == req["sender"].pc = "none" /\ j \notin sent

\* sendDirectJob and POST /v1/direct-jobs refuse a target that is not paired.
TargetPaired == paired

Send(j) ==
  /\ LinkEntered(j)
  /\ TargetPaired
  /\ \E found \in ReadQueue("sender") :
       StartSave("sender", [NoRequest EXCEPT !.what = "add", !.job = j], found)
  /\ UNCHANGED << queue, client, paired, faults, sent, fetched, lost, stranded >>

Operate(c) ==
  /\ Admitted(c) /\ req[c].what # "list"
  /\ \E found \in ReadQueue(c) :
       IF Applies(req[c], found)
       THEN StartSave(c, req[c], found) /\ op' = op
       ELSE /\ req' = [req EXCEPT ![c] = NoRequest]
            /\ Answered(c, {})
            /\ hurt' = IF Loading(c) # {} THEN hurt \cup {"queue"} ELSE hurt
  /\ UNCHANGED << queue, items, paired, faults, sent, fetched, lost, stranded >>

QueueSaved(c) ==
  /\ req[c].pc = "saving"
  /\ queue' \in IF req[c].mixed THEN {req[c].copy, Nothing} ELSE {req[c].copy}
  /\ req' = [req EXCEPT ![c] = NoRequest]
  /\ Answered(c, {})
  /\ sent' = IF c = "sender" THEN sent \cup {req[c].job} ELSE sent
  /\ UNCHANGED << items, paired, faults, fetched, lost, stranded, hurt >>

-----------------------------------------------------------------------------
(* Faults *)

\* Where a rejected #saveQueue() leads: an append ends the poll's cycle, anything
\* else the accept, the decline or the refresh it belongs to.
Rejected(o) ==
  IF op[o].pc = "appending" THEN Idle
  ELSE Finished(o, [op[o] EXCEPT !.reports = {}, !.mixed = FALSE])

\* The file cannot be written (the disk is full, the file is held by another
\* program): it keeps what it had, or was truncated already.  An item that was
\* handed over stays "downloading" then, and the server is not told.
SaveFails(o) ==
  LET taken == IF op[o].pc = "settling" THEN {op[o].job} ELSE {}
  IN  /\ op[o].pc \in Saving
      /\ faults < MaxFaults
      /\ faults' = faults + 1
      /\ op' = [op EXCEPT ![o] = Rejected(o)]
      /\ \/ UNCHANGED << items, hurt >>
         \/ items' = Nothing /\ hurt' = hurt \cup {"items"}
      /\ stranded' = stranded \cup taken
      /\ lost' = lost \cup taken
      /\ UNCHANGED << server, paired, sent, fetched >>

Decisions(cs) == {req[c].job : c \in {x \in cs : req[x].what \in {"accept", "decline"}}}

\* The request does not arrive, or is refused with 401.
RequestLost(o) ==
  /\ req[o].pc = "sent"
  /\ paired => faults < MaxFaults
  /\ faults' = IF paired THEN faults + 1 ELSE faults
  /\ req' = [req EXCEPT ![o] = NoRequest]
  /\ Answered(o, {})
  /\ lost' = lost \cup Decisions({o})
  /\ UNCHANGED << queue, items, paired, sent, fetched, stranded, hurt >>

\* save() of the server's store rejects, and the request is answered with an error.
QueueSaveFails(c) ==
  /\ req[c].pc = "saving"
  /\ faults < MaxFaults
  /\ faults' = faults + 1
  /\ \/ UNCHANGED << queue, hurt >>
     \/ queue' = Nothing /\ hurt' = hurt \cup {"queue"}
  /\ req' = [req EXCEPT ![c] = NoRequest]
  /\ Answered(c, {})
  /\ lost' = lost \cup Decisions({c})
  /\ UNCHANGED << items, paired, sent, fetched, stranded >>

\* The client gives up while the server still works on the request.
RequestTimesOut(o) ==
  /\ op[o].pc \in {"asking", "told", "reported"}
  /\ req[o].pc # "none"
  /\ faults < MaxFaults
  /\ faults' = faults + 1
  /\ Answered(o, {})
  /\ UNCHANGED << server, items, paired, history >>

\* The server revokes the client, or the client forgets the server.
Unpair ==
  /\ paired
  /\ paired' = FALSE
  /\ UNCHANGED << server, client, faults, history >>

\* A crash in the middle of a write leaves an empty or cut file.
ClientCrash ==
  LET at(steps) == {op[o].job : o \in {x \in Actors : op[x].pc \in steps}}
  IN  /\ faults < MaxFaults
      /\ faults' = faults + 1
      /\ op' = [o \in Actors |-> Idle]
      /\ \/ UNCHANGED << items, hurt >>
         \/ /\ \E o \in Actors : op[o].pc \in Saving
            /\ items' = Nothing
            /\ hurt' = hurt \cup {"items"}
      /\ stranded' = stranded \cup at({"fetching", "settling"})
      /\ lost' = lost \cup at({"fetching", "settling", "telling"})
      /\ UNCHANGED << server, paired, sent, fetched >>

ServerCrash ==
  /\ faults < MaxFaults
  /\ faults' = faults + 1
  /\ req' = [c \in Callers |-> NoRequest]
  /\ op' = [o \in Actors |-> Resumed(o, {})]
  /\ \/ UNCHANGED << queue, hurt >>
     \/ /\ \E c \in Callers : req[c].pc = "saving"
        /\ queue' = Nothing
        /\ hurt' = hurt \cup {"queue"}
  /\ lost' = lost \cup Decisions({c \in Callers : req[c].pc # "none"})
  /\ UNCHANGED << items, paired, sent, fetched, stranded >>

-----------------------------------------------------------------------------

ClientStep(o) ==
  \/ Saved(o) \/ DownloadPending(o) \/ MarkLocal(o) \/ Fetched(o)
  \/ RemoteAction(o) \/ RefreshProgress(o) \/ Measured(o) \/ RemoteReport(o) \/ ReportsDone(o)

PollStep == PollKnown \/ AppendLocal \/ PollRefresh

ServerStep(c) == ServeList(c) \/ Operate(c) \/ QueueSaved(c)

Next ==
  \/ PollOnce
  \/ PollStep
  \/ \E o \in Actors : ClientStep(o)
  \/ \E j \in Jobs, act \in {"accept", "decline"} : Click(j, act)
  \/ \E j \in Jobs : Send(j)
  \/ \E c \in Callers : ServerStep(c)
  \/ \E o \in Actors : RequestLost(o) \/ RequestTimesOut(o) \/ SaveFails(o)
  \/ \E c \in Callers : QueueSaveFails(c)
  \/ Unpair
  \/ ClientCrash
  \/ ServerCrash

Spec == Init /\ [][Next]_vars

\* The timer keeps polling, and every await ends: files are read and written,
\* requests are answered or refused, qBittorrent answers.
FairSpec ==
  /\ Spec
  /\ WF_vars(PollOnce)
  /\ WF_vars(PollStep)
  /\ \A o \in Actors : WF_vars(ClientStep(o))
  /\ \A c \in Callers : WF_vars(ServerStep(c))
  /\ \A o \in Actors : WF_vars(RequestLost(o))

-----------------------------------------------------------------------------
(* Properties *)

Quiet ==
  /\ \A o \in Actors : op[o].pc = "idle"
  /\ \A c \in Callers : req[c].pc = "none"

\* When nothing is in progress and no file was damaged, every job its sender was
\* told of is still in the server's queue, and the server shows it undecided
\* exactly when the client has not decided - unless the decision was lost.
QueuesAgree ==
  (Quiet /\ hurt = {}) =>
    \A j \in sent \ lost :
      /\ queue[j] # "absent"
      /\ queue[j] = "queued" <=> items[j] \in {"absent", "pending"}

\* An item is left "downloading", where no button offers it again, only by a crash
\* in the middle of taking it or by a save of its end that fails
\* (direct-downloads.ts:211 is outside the try): never by a download that fails, nor
\* by any other save.
Driven ==
  "items" \notin hurt =>
    \A j \in Jobs \ stranded :
      items[j] = "downloading" =>
        \E o \in Actors : op[o].job = j /\ op[o].pc \in {"fetching", "settling"}

\* A link that was handed to qBittorrent is not handed over a second time, unless
\* the user declined it in between.
FetchedOnce ==
  [][\A o \in Actors :
       (op[o].pc = "opening" /\ op'[o].pc = "taking") =>
         \/ op[o].job \notin fetched
         \/ "items" \in hurt']_vars

\* A job the sender was told of reaches the client's list, as long as they stay
\* paired, no file is damaged and the user at last leaves the list alone (a save
\* that meets every poll could hide the queue from each of them).
Arrives ==
  <>[](op["ui"].pc = "idle") =>
    \A j \in Jobs : (j \in sent) ~> (items[j] # "absent" \/ ~paired \/ hurt # {})
=============================================================================
