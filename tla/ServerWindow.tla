---------------------------- MODULE ServerWindow ----------------------------
(***************************************************************************)
(* The server's window and the main process behind it: the runtime context *)
(* that mirrors the jobs, the dashboard's list of recent transfers and its *)
(* banner (renderer/server/state/RuntimeContext.tsx, screens/Dashboard.tsx)*)
(* and the setup wizard in front of them (state/setupMachine.ts,           *)
(* screens/setup/), against the controller's pushes, its tick and its      *)
(* answers (main/server/controller.ts).                                    *)
(*                                                                         *)
(* A job is numbered by its place in the repository's cache. A call whose  *)
(* effect in the main process is at its begin takes effect when it is      *)
(* made: requests are delivered in order and nobody else writes what the   *)
(* wizard writes. Its answer is under way until an action takes it.        *)
(***************************************************************************)
EXTENDS SetupWizard, FiniteSets, FiniteSetsExt, SequencesExt

CONSTANTS
  MaxJobs,      \* jobs the repository may hold
  MaxClicks,    \* bound: what the user edits, tests and saves in the wizard
  MaxChanges,   \* bound: jobs archived, dismissed and retried
  MaxEvents     \* bound: pushed events at which neither tick nor progress push

VARIABLES
  server,   \* "off", "starting", "sweeping" or "up"
  record,   \* the jobs in the cache
  unsaved,  \* the jobs whose record waits for the disk and then its listeners
  last,     \* #lastJob, the job taken for the active one
  events,   \* job snapshots pushed and not received
  app,      \* the runtime context of the window
  reads,    \* the window's reads of the history: asked, answered, and the answer
  blinked,  \* history variable: ends overwritten before React rendered them
  clicks    \* clicks in the wizard, then changes made from the dashboard

vars == <<folder, hash, server, record, unsaved, last, events, app,
          reads, answers, wiz, blinked, clicks>>
mainVars == <<folder, hash, server, record, unsaved, last>>

Jobs == 1..MaxJobs
NoJob == 0
Folders == {"none", "good", "bad"}
Adapters == {"none", "named", "other"}
OverStates == {"ended", "interrupted"}
Kinds == {"hydrate", "folder", "radmin", "probe", "hash", "start", "settings",
          "hide"}

Null == [id |-> NoJob, state |-> "none"]
Snapshot(j) == [id |-> j, state |-> record[j].state]
Over(j) == record[j].state \in OverStates
Dismissed(j) == record[j].dismissed

\* What getHistory answers: the finished jobs neither archived nor dismissed.
Visible(j) == Over(j) /\ ~record[j].archived /\ ~Dismissed(j)
History == {Snapshot(j) : j \in {k \in Jobs : Visible(k)}}

\* The first unfinished job is the active one.
FindActive ==
  LET active == {j \in Jobs : record[j].state = "active" /\ ~Dismissed(j)}
  IN IF active = {} THEN NoJob ELSE Min(active)

\* A snapshot equal to the one before it changes nothing in the window, unless
\* it is terminal.
Push(queue, snap) ==
  IF queue # <<>> /\ snap.state \notin OverStates /\ Last(queue) = snap
  THEN queue ELSE Append(queue, snap)

Dashboard == app.load = "loaded" /\ ~app.setup

\* Without a working folder this is the first run: no job, no hash, no server.
\* With one the server may start by itself, if the API key is there.
Init ==
  /\ folder \in {"none", "good"} /\ hash = FALSE
  /\ server \in {"off"} \cup (IF folder = "none" THEN {} ELSE {"starting"})
  /\ \E n \in (IF folder = "none" THEN {0} ELSE 0..MaxJobs) :
       record \in {r \in [Jobs -> [state : {"none", "active"} \cup OverStates,
                                   archived : {FALSE}, dismissed : {FALSE}]] :
                     \A j \in Jobs : (j > n) = (r[j].state = "none")}
  /\ unsaved = {} /\ last = NoJob /\ events = <<>>
  /\ reads = [sent |-> "no", done |-> "no", list |-> {}]
  /\ app = [load |-> "new", first |-> Null, setup |-> FALSE, job |-> Null,
            fresh |-> FALSE, recent |-> {}]
  /\ answers = [k \in Kinds |-> <<>>]
  /\ wiz = Off /\ blinked = {} /\ clicks = 0

-----------------------------------------------------------------------------
(* The main process.                                                       *)

\* startServer begins: the sweep interrupts what an earlier session left; a
\* draft is left alone.
Sweep ==
  /\ server = "starting"
  /\ server' = "sweeping"
  /\ \E swept \in SUBSET {j \in Jobs : record[j].state = "active"} :
       /\ record' = [j \in Jobs |-> IF j \in swept
                       THEN [record[j] EXCEPT !.state = "interrupted"]
                       ELSE record[j]]
       /\ unsaved' = unsaved \cup swept
  /\ UNCHANGED <<folder, hash, last, events, app, reads, answers, wiz,
                 blinked, clicks>>

\* It ends: the relay listens and the push loop runs, or it fails.
Answer(result) ==
  IF wiz.step = 0 THEN answers
  ELSE [answers EXCEPT !["start"] = Append(@, result)]

Started ==
  /\ server = "sweeping" /\ unsaved = {}
  /\ \/ server' = "up" /\ answers' = Answer("ok")
     \/ server' = "off" /\ answers' = Answer("failed")
  /\ UNCHANGED <<folder, hash, record, unsaved, last, events, app,
                 reads, wiz, blinked, clicks>>

\* A client hands in a job (none is paired before the dashboard has shown a
\* code), the engine works on it, finishes it, or retries it.
Change(j, state) ==
  /\ record' = [record EXCEPT ![j].state = state]
  /\ unsaved' = unsaved \cup {j}

JobMoves ==
  /\ server = "up"
  /\ \E j \in Jobs :
       \/ /\ record[j].state = "none" /\ wiz.step = 0 /\ \A k \in 1..(j - 1) : record[k].state # "none"
          /\ Change(j, "active")
          /\ UNCHANGED clicks
       \/ record[j].state = "active" /\ Change(j, "ended") /\ UNCHANGED clicks
       \/ /\ record[j].state = "active" /\ Len(events) < MaxEvents
          /\ Change(j, "active")
          /\ UNCHANGED clicks
       \/ /\ record[j].state = "ended" /\ Dashboard /\ clicks < MaxChanges
          /\ Change(j, "active")
          /\ clicks' = clicks + 1
  /\ UNCHANGED <<folder, hash, server, last, events, app, reads, answers,
                 wiz, blinked>>

\* The record is on disk: the controller's listener pushes it.
RecordSaved(j) ==
  /\ j \in unsaved
  /\ unsaved' = unsaved \ {j}
  /\ events' = Push(events, Snapshot(j))
  /\ last' = IF Over(j) THEN NoJob ELSE j
  /\ UNCHANGED <<folder, hash, server, record, app, reads, answers, wiz,
                 blinked, clicks>>

\* The push loop: the active job, or null, and once more the end of the job
\* that was active a moment ago.
Tick ==
  /\ server = "up" /\ Len(events) < MaxEvents
  /\ LET active == FindActive
         told == Push(events, IF active = NoJob THEN Null ELSE Snapshot(active))
     IN /\ events' = IF active = NoJob /\ last # NoJob /\ Over(last)
                     THEN Append(told, Snapshot(last)) ELSE told
        /\ last' = active
  /\ UNCHANGED <<folder, hash, server, record, unsaved, app, reads,
                 answers, wiz, blinked, clicks>>

\* One answer is on its way at a time.
ReadsHistory ==
  /\ reads.sent # "no" /\ reads.done = "no"
  /\ reads' = [sent |-> "no", done |-> reads.sent, list |-> History]
  /\ UNCHANGED <<mainVars, events, app, answers, wiz, blinked, clicks>>

-----------------------------------------------------------------------------
(* The runtime context and the dashboard.                                  *)

\* Reads asked for before the main process comes to them have one answer.
Reread == reads' = [reads EXCEPT !.sent = IF @ = "first" THEN @ ELSE "again"]

\* The first answers are read in the main process, the slow one comes later.
FirstAnswers ==
  /\ app.load = "new"
  /\ app' = [app EXCEPT !.load = "read",
                        !.first = IF FindActive = NoJob THEN Null ELSE Snapshot(FindActive)]
  /\ UNCHANGED <<mainVars, events, reads, answers, wiz, blinked, clicks>>

Hydrated ==
  /\ app.load = "read"
  /\ app' = [app EXCEPT !.load = "listing", !.setup = (folder = "none"),
                        !.job = app.first, !.fresh = TRUE, !.first = Null]
  /\ reads' = [reads EXCEPT !.sent = "first"]
  /\ UNCHANGED <<mainVars, events, answers, wiz, blinked, clicks>>

Receive ==
  /\ events # <<>>
  /\ events' = Tail(events)
  /\ app' = [app EXCEPT !.job = Head(events),
                        !.fresh = @ \/ Head(events) # app.job \/ Head(events).state \in OverStates]
  /\ blinked' = IF app.fresh /\ app.job.state \in OverStates /\ Head(events) # app.job
                THEN blinked \cup {app.job.id} ELSE blinked
  /\ UNCHANGED <<mainVars, reads, answers, wiz, clicks>>

\* Mutant of Render: no effect reads the history again.
RenderOnly ==
  /\ app.fresh
  /\ app' = [app EXCEPT !.fresh = FALSE]
  /\ UNCHANGED <<mainVars, events, reads, answers, wiz, blinked, clicks>>

\* React renders the newest snapshot; the effect reads the history again when
\* it is terminal.
Render ==
  /\ app.fresh
  /\ app' = [app EXCEPT !.fresh = FALSE]
  /\ IF app.job.state \in OverStates THEN Reread ELSE UNCHANGED reads
  /\ UNCHANGED <<mainVars, events, answers, wiz, blinked, clicks>>

\* With the first history the window is loaded; without a working folder the
\* gate mounts the wizard, which asks for what is configured.
Hydration == [folder |-> folder, mode |-> IF hash THEN "user_hash" ELSE "unconfigured"]

HistoryTaken ==
  /\ reads.done # "no"
  /\ reads' = [reads EXCEPT !.done = "no", !.list = {}]
  /\ app' = [app EXCEPT !.recent = reads.list,
                        !.load = IF reads.done = "first" THEN "loaded" ELSE @]
  /\ IF reads.done = "first" /\ app.setup
     THEN /\ wiz' = [Off EXCEPT !.step = 1, !.folderBusy = TRUE, !.radminBusy = TRUE]
          /\ answers' = [answers EXCEPT !["hydrate"] = <<Hydration>>]
     ELSE UNCHANGED <<wiz, answers>>
  /\ UNCHANGED <<mainVars, events, blinked, clicks>>

\* The job the banner of an interrupted transfer is about.
Banner ==
  IF app.job.state = "interrupted" THEN app.job.id
  ELSE LET first == {e \in app.recent : \A o \in app.recent : e.id <= o.id}
       IN IF \E e \in first : e.state = "interrupted"
          THEN (CHOOSE e \in first : TRUE).id ELSE NoJob

\* Archive, take back from the archive, dismiss: the record is changed, saved
\* and pushed, and then the call is answered.
Hide ==
  /\ Dashboard /\ clicks < MaxChanges
  /\ clicks' = clicks + 1
  /\ \E j \in Jobs :
       /\ \/ /\ (\E e \in app.recent : e.id = j) /\ Over(j)
             /\ record' = [record EXCEPT ![j].archived = TRUE]
          \/ /\ record[j].archived /\ Over(j)
             /\ record' = [record EXCEPT ![j].archived = FALSE]
          \/ /\ Banner = j /\ record[j].state = "interrupted"
             /\ record' = [record EXCEPT ![j].dismissed = TRUE]
       /\ unsaved' = unsaved \cup {j}
       /\ answers' = [answers EXCEPT !["hide"] = Append(@, j)]
  /\ UNCHANGED <<folder, hash, server, last, events, app, reads, wiz, blinked>>

Hidden ==
  /\ answers["hide"] # <<>> /\ Head(answers["hide"]) \notin unsaved
  /\ answers' = [answers EXCEPT !["hide"] = Tail(@)]
  /\ Reread
  /\ UNCHANGED <<mainVars, events, app, wiz, blinked, clicks>>

-----------------------------------------------------------------------------
(* The setup wizard.                                                       *)

Clicked == clicks < MaxClicks /\ clicks' = clicks + 1

Takes(kind) ==
  /\ answers[kind] # <<>>
  /\ answers' = [answers EXCEPT ![kind] = Tail(@)]
  /\ UNCHANGED <<mainVars, events, reads, blinked, clicks>>

WizardHydrated ==
  /\ Takes("hydrate")
  /\ \E a \in Adapters :
       wiz' = [wiz EXCEPT !.folder = Head(answers["hydrate"]).folder, !.folderBusy = FALSE,
                            !.radmin = a, !.radminBusy = FALSE,
                            !.mode = Head(answers["hydrate"]).mode, !.vikingBusy = FALSE]
  /\ UNCHANGED app

ChooseFolder ==
  /\ wiz.step = 1 /\ ~wiz.folderBusy /\ server = "off" /\ Clicked
  /\ \E f \in Folders \ {"none"} :
       folder' = f /\ answers' = [answers EXCEPT !["folder"] = Append(@, f)]
  /\ wiz' = [wiz EXCEPT !.folderBusy = TRUE]
  /\ UNCHANGED <<hash, server, record, unsaved, last, events, app, reads, blinked>>

FolderTold ==
  /\ Takes("folder")
  /\ wiz' = [wiz EXCEPT !.folder = Head(answers["folder"]), !.folderBusy = FALSE]
  /\ UNCHANGED app

AskRadmin ==
  /\ wiz.step = 2 /\ wiz.radmin \in {"none", "other"} /\ ~wiz.radminBusy
  /\ \E a \in Adapters : answers' = [answers EXCEPT !["radmin"] = Append(@, a)]
  /\ wiz' = [wiz EXCEPT !.radminBusy = TRUE]
  /\ UNCHANGED <<mainVars, events, app, reads, blinked, clicks>>

RadminTold ==
  /\ Takes("radmin")
  /\ wiz' = [wiz EXCEPT !.radmin = Head(answers["radmin"]), !.radminBusy = FALSE]
  /\ UNCHANGED app

\* Mutant of EditUrl: a test's verdict stays when the address is edited.
EditUrlKeepingProbe ==
  /\ wiz.step = 3 /\ Clicked
  /\ \E u \in Urls \ {wiz.url} :
       wiz' = [wiz EXCEPT !.url = u, !.edited = wiz.qbitBusy]
  /\ UNCHANGED <<mainVars, events, app, reads, answers, blinked>>

EditUrl ==
  /\ wiz.step = 3 /\ Clicked
  /\ \E u \in Urls \ {wiz.url} :
       wiz' = [wiz EXCEPT !.url = u, !.probe = "none", !.edited = wiz.qbitBusy]
  /\ UNCHANGED <<mainVars, events, app, reads, answers, blinked>>

Probe ==
  /\ wiz.step = 3 /\ ~wiz.qbitBusy /\ Clicked
  /\ wiz' = [wiz EXCEPT !.qbitBusy = TRUE, !.probe = "none", !.edited = FALSE]
  /\ answers' = [answers EXCEPT !["probe"] = Append(@, wiz.url)]
  /\ UNCHANGED <<mainVars, events, app, reads, blinked>>

Probed ==
  /\ Takes("probe")
  /\ \E result \in {Head(answers["probe"]), "bad"} :
       wiz' = [wiz EXCEPT !.probe = result, !.qbitBusy = FALSE]
  /\ UNCHANGED app

\* The radio button shows the choice before it is saved, and for an account
\* without saving it.
PickHash ==
  /\ wiz.step = 4 /\ wiz.mode \notin {"unread", "user_hash"} /\ Clicked
  /\ wiz' = [wiz EXCEPT !.mode = "user_hash", !.picked = TRUE]
  /\ UNCHANGED <<mainVars, events, app, reads, answers, blinked>>

\* A save of the hash, empty for anonymous uploads: saved, refused by the
\* keychain, or failed. The answer is the mode as it is then.
SetHash(wanted) ==
  \/ /\ hash' = wanted
     /\ answers' = [answers EXCEPT !["hash"] =
                    Append(@, IF wanted THEN "user_hash" ELSE "anonymous")]
  \/ /\ wanted
     /\ answers' = [answers EXCEPT !["hash"] =
                    Append(@, IF hash THEN "user_hash" ELSE "unconfigured")]
     /\ UNCHANGED hash
  \/ answers' = [answers EXCEPT !["hash"] = Append(@, "failed")] /\ UNCHANGED hash

SaveMode ==
  /\ wiz.step = 4 /\ wiz.mode # "unread" /\ Clicked
  /\ \/ /\ wiz.mode # "anonymous" /\ SetHash(FALSE)
        /\ wiz' = [wiz EXCEPT !.mode = "anonymous", !.picked = TRUE, !.vikingBusy = TRUE]
     \/ /\ ~wiz.vikingBusy /\ SetHash(TRUE)
        /\ wiz' = [wiz EXCEPT !.vikingBusy = TRUE]
  /\ UNCHANGED <<folder, server, record, unsaved, last, events, app, reads, blinked>>

ModeSaved ==
  /\ Takes("hash")
  /\ wiz' = IF Head(answers["hash"]) = "failed" THEN [wiz EXCEPT !.vikingBusy = FALSE]
            ELSE [wiz EXCEPT !.mode = Head(answers["hash"]), !.vikingBusy = FALSE,
                             !.picked = FALSE]
  /\ UNCHANGED app

Go ==
  /\ \/ wiz.step \in 1..4 /\ StepDone(wiz, wiz.step) /\ wiz' = [wiz EXCEPT !.step = @ + 1]
     \/ wiz.step \in 2..5 /\ wiz' = [wiz EXCEPT !.step = @ - 1]
  /\ UNCHANGED <<mainVars, events, app, reads, answers, blinked, clicks>>

Start ==
  /\ wiz.step = 5 /\ StepDone(wiz, 5) /\ server = "off" /\ Clicked
  /\ server' = "starting"
  /\ UNCHANGED <<folder, hash, record, unsaved, last, events, app, reads, answers,
                 wiz, blinked>>

\* The server is started: the gate's settings are read again. With a folder in
\* them the wizard goes, and with it every answer it still waits for.
StartAnswered ==
  /\ answers["start"] # <<>>
  /\ answers' = [answers EXCEPT !["start"] = Tail(@),
                 !["settings"] = IF Head(answers["start"]) = "ok"
                                 THEN Append(@, folder) ELSE @]
  /\ UNCHANGED <<mainVars, events, app, reads, wiz, blinked, clicks>>

SettingsTaken ==
  /\ answers["settings"] # <<>>
  /\ app' = [app EXCEPT !.setup = (Head(answers["settings"]) = "none")]
  /\ IF app'.setup
     THEN /\ answers' = [answers EXCEPT !["settings"] = Tail(@)]
          /\ UNCHANGED <<wiz, clicks>>
     ELSE wiz' = Off /\ answers' = [k \in Kinds |-> <<>>] /\ clicks' = 0
  /\ UNCHANGED <<mainVars, events, reads, blinked>>

-----------------------------------------------------------------------------
MainStep == \/ Sweep \/ Started \/ Tick \/ ReadsHistory
            \/ \E j \in Jobs : RecordSaved(j)
WindowStep == \/ FirstAnswers \/ Hydrated \/ Receive \/ Render \/ HistoryTaken \/ Hidden
              \/ WizardHydrated \/ FolderTold \/ RadminTold \/ Probed \/ ModeSaved
              \/ StartAnswered \/ SettingsTaken
UserStep == \/ Hide \/ ChooseFolder \/ AskRadmin \/ EditUrl \/ Probe \/ PickHash
            \/ SaveMode \/ Go \/ Start

Next == MainStep \/ WindowStep \/ UserStep \/ JobMoves

\* What the main process and the window do by themselves. What the user does,
\* and how a transfer goes on, is left open.
Fairness ==
  /\ WF_vars(Sweep) /\ WF_vars(Started) /\ WF_vars(Tick) /\ WF_vars(ReadsHistory)
  /\ \A j \in Jobs : WF_vars(RecordSaved(j))
  /\ WF_vars(FirstAnswers) /\ WF_vars(Hydrated) /\ WF_vars(Receive) /\ WF_vars(Render)
  /\ WF_vars(HistoryTaken) /\ WF_vars(Hidden)
  /\ WF_vars(StartAnswered) /\ WF_vars(SettingsTaken)

Spec == Init /\ [][Next]_vars /\ Fairness

-----------------------------------------------------------------------------
(* Properties.                                                             *)

\* The records, queues, answers and the wizard keep their types.
TypeOK ==
  /\ folder \in Folders /\ hash \in BOOLEAN
  /\ server \in {"off", "starting", "sweeping", "up"}
  /\ record \in [Jobs -> [state : {"none", "active"} \cup OverStates,
                          archived : BOOLEAN, dismissed : BOOLEAN]]
  /\ unsaved \subseteq Jobs /\ last \in Jobs \cup {NoJob} /\ blinked \subseteq Jobs
  /\ \A i \in 1..Len(events) : events[i].id \in Jobs \cup {NoJob}
  /\ app.load \in {"new", "read", "listing", "loaded"}
  /\ \A e \in app.recent : e.id \in Jobs
  /\ wiz.step \in 0..5 /\ clicks \in Nat

\* The list differs from what the main process would answer now, or the window
\* shows a finished job as active or a dismissed one in the banner.
Listed(j) == \E e \in app.recent : e.id = j
Misses(j) == Over(j) /\ j \notin blinked /\ Visible(j) # Listed(j)
Stale(j) == \/ Over(j) /\ app.job = [id |-> j, state |-> "active"]
            \/ Dismissed(j) /\ Banner = j

\* The window catches up with the main process. A finished job comes into the
\* recent transfers (RuntimeContext.tsx:126) and an archived or dismissed one
\* leaves them, unless the end was overwritten before React rendered it; with
\* the push loop running a finished job is not shown as active for ever nor a
\* dismissed one in the banner (controller.ts:637); and a server started from
\* the wizard leads to the dashboard (App.tsx:50).
WindowCatchesUp ==
  /\ \A j \in Jobs : /\ Misses(j) ~> ~Misses(j)
                     /\ (server = "up" /\ Stale(j)) ~> ~Stale(j)
  /\ (wiz.step # 0 /\ server = "up") ~> Dashboard
=============================================================================
