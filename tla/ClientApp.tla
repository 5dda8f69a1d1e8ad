----------------------------- MODULE ClientApp -----------------------------
(* The client: its screens (renderer/client/App.tsx, SelectionScreen.tsx),  *)
(* the polls behind them (lib/usePolling.ts), the calls the main process    *)
(* makes for them (client-relay/service.ts, http-client.ts) and the server  *)
(* that answers (relay/http/routes.ts, integration/job-service.ts).  A call *)
(* is lost, late, or given up after ten seconds while the server goes on    *)
(* with it, and its continuation runs whatever screen is shown by then.     *)
(* The job engine is reduced to what a caller sees of a job; JobEngine has  *)
(* the transfer itself, ServerController the pairing.                       *)
EXTENDS Naturals, SelectionTree

CONSTANTS
  Jobs,          \* the ids the server gives to intakes
  NoJob,
  Slots,         \* the calls that can be in flight together
  MaxPresses,    \* bounds: how often the user presses a button that makes a call,
  MaxFaults      \* how often a call or poll is lost or late, a metadata read or a
                 \* transfer fails, a preflight blocks, or the server or the
                 \* client restarts

ASSUME SlotsAssumption == IsFiniteSet(Slots) /\ Slots \subseteq Nat

ASSUME JobsAssumption == IsFiniteSet(Jobs) /\ NoJob \notin Jobs

VARIABLES
  server,   \* server[j]: the engine's record of a job
  disk,     \* disk[j]: the same record as it was last saved
  active,   \* engine's #activeTransferJobId
  screen,   \* App's phase: the screen and the job it is about
  form,     \* SelectionScreen's state
  live,     \* App's latestJob, when it shows a job that has not ended
  busy,     \* App's submitBusy
  poll,     \* usePolling's request in flight and what it has read of the record
  calls,    \* calls[i]: a POST in flight
  presses,  \* how much of MaxPresses is used
  faults,   \* how much of MaxFaults is used
  retried,  \* ghost: a Retry was pressed
  touched,  \* ghost: the form was changed with a commit of it under way or done
  raced     \* ghost: a commit or a retry was let in while a commit was under way

server_vars == <<server, disk, active>>
app_vars == <<screen, form, live, busy, poll>>
vars == <<server, disk, active, screen, form, live, busy, poll, calls, presses, faults, retried, touched, raced>>

Terminal == {"complete", "failed", "cancelled", "interrupted"}

Transferring == {"queued", "running"}

States == {"none", "reading_metadata", "awaiting_selection"} \union Transferring \union Terminal

Record == [st : States, sel : SUBSET Files, keep : BOOLEAN, pre : {"none", "ok", "blocked"},
           key : BOOLEAN, retry : BOOLEAN]

Blank == [st |-> "none", sel |-> {}, keep |-> FALSE, pre |-> "none", key |-> FALSE, retry |-> FALSE]

\* What a Start that names no cleanup gets: the server's defaults.
ServerKeeps == FALSE

Home == [s |-> "home", job |-> NoJob]

\* "aside" is the history or the form to change the server.
Screens == [s : {"home", "aside"}, job : {NoJob}]
             \union [s : {"intake", "selection", "active", "complete", "error", "retryable"}, job : Jobs]

NewForm == [sel |-> Files, keep |-> FALSE, pre |-> "none", confirming |-> FALSE]

NoPoll == [job |-> NoJob, st |-> "none", retry |-> FALSE]

NoCall == [op |-> "none", job |-> NoJob, sel |-> {}, keep |-> FALSE, at |-> "out",
           ok |-> FALSE, pre |-> "none", heard |-> FALSE]

Ops == {"intake", "confirm", "start", "cancel", "retry"}

Free(i) == calls[i].op = "none"

TypeOK ==
  /\ server \in [Jobs -> Record] /\ disk \in [Jobs -> Record]
  /\ active \in Jobs \union {NoJob} /\ live \in Jobs \union {NoJob}
  /\ screen \in Screens /\ busy \in BOOLEAN /\ touched \in BOOLEAN /\ raced \in BOOLEAN
  /\ form \in [sel : SUBSET Files, keep : BOOLEAN, pre : {"none", "ok", "blocked"}, confirming : BOOLEAN]
  /\ poll \in [job : Jobs \union {NoJob}, st : States, retry : BOOLEAN]
  /\ calls \in [Slots ->
       [op : Ops \union {"none"}, job : Jobs \union {NoJob}, sel : SUBSET Files, keep : BOOLEAN,
        at : {"out", "metadata", "look", "preflight", "back", "lost"},
        ok : BOOLEAN, pre : {"none", "ok", "blocked"}, heard : BOOLEAN]]

Init ==
  /\ server = [j \in Jobs |-> Blank] /\ disk = server /\ active = NoJob
  /\ screen = Home /\ form = NewForm /\ live = NoJob /\ busy = FALSE /\ poll = NoPoll
  /\ calls = [i \in Slots |-> NoCall]
  /\ presses = 0 /\ faults = 0
  /\ retried = FALSE /\ touched = FALSE /\ raced = FALSE

------------------------------------------------------------------------------
(* The screens.  A phase of another kind stops the poll of the last one and *)
(* drops its answer, and what was chosen on a selection screen goes with it. *)

Show(scr) ==
  /\ screen' = scr
  /\ poll' = IF scr.s = screen.s THEN poll ELSE NoPoll
  /\ form' = NewForm /\ touched' = FALSE

bounds == <<presses, faults, retried>>

Fault == faults < MaxFaults /\ faults' = faults + 1 /\ UNCHANGED <<presses, retried>>

\* A POST goes out.  Its body is fixed here; startJob fills in the selection
\* from the look it takes first.
Send(op, j, sel, keep) ==
  /\ presses < MaxPresses /\ presses' = presses + 1
  /\ retried' = (retried \/ op = "retry") /\ UNCHANGED faults
  /\ \E i \in Slots :
       /\ Free(i) /\ \A k \in Slots : k < i => ~Free(k)
       /\ calls' = [calls EXCEPT ![i] =
            [NoCall EXCEPT !.op = op, !.job = j, !.sel = sel, !.keep = keep, !.heard = TRUE,
                           !.at = IF op = "start" THEN "look" ELSE "out"]]

\* createIntake names no job: the server makes one for every request it gets.
CreateIntake == Send("intake", NoJob, {}, FALSE)

\* HomeScreen: Continue with a link.  Jobs bounds the intakes.
Submit ==
  /\ screen.s = "home" /\ ~busy
  /\ Cardinality({i \in Slots : calls[i].op = "intake" /\ calls[i].at = "out"})
       < Cardinality({j \in Jobs : server[j] = Blank})
  /\ busy' = TRUE
  /\ CreateIntake
  /\ UNCHANGED <<server_vars, screen, form, live, poll, touched, raced>>

\* A commit of the job is in flight, or has started its transfer.
Committed(j) ==
  server[j].key \/ \E i \in Slots : calls[i].op = "confirm" /\ calls[i].job = j /\ calls[i].at # "back"

\* SelectionScreen: a click in the tree.  The last verdict of the server no
\* longer counts.
Toggle ==
  /\ screen.s = "selection"
  /\ \E n \in Nodes : form' = [form EXCEPT !.sel = ToggleNode(n, form.sel), !.pre = "none"]
  /\ touched' = (touched \/ Committed(screen.job))
  /\ UNCHANGED <<server_vars, screen, live, busy, poll, calls, bounds, raced>>

\* The cleanup boxes, which are shown with a verdict only.
ToggleCleanup ==
  /\ screen.s = "selection" /\ form.pre # "none"
  /\ form' = [form EXCEPT !.keep = ~@]
  /\ touched' = (touched \/ Committed(screen.job))
  /\ UNCHANGED <<server_vars, screen, live, busy, poll, calls, bounds, raced>>

\* The relay service's confirmSelection: the selection and the cleanup choice
\* under the key every Start of the job has.
ConfirmSelection(j) == Send("confirm", j, form.sel, form.keep)

\* continueToPreflight.
Continue ==
  /\ screen.s = "selection" /\ form.pre = "none" /\ ~form.confirming /\ form.sel # {}
  /\ form' = [form EXCEPT !.confirming = TRUE]
  /\ ConfirmSelection(screen.job)
  /\ UNCHANGED <<server_vars, screen, live, busy, poll, touched, raced>>

\* The button is there for a verdict, and enabled unless that blocks.
StartEnabled == screen.s = "selection" /\ form.pre = "ok" /\ ~form.confirming

\* start: the button stays enabled while its call is in flight.
Start ==
  /\ StartEnabled
  /\ Send("start", screen.job, {}, ServerKeeps)
  /\ UNCHANGED <<server_vars, app_vars, touched, raced>>

\* Cancel on the intake and on the active screen, Back on the selection.  The
\* active screen offers it once a poll has shown the job at work.
CancelOffered == screen.s \in {"intake", "selection"} \/ (screen.s = "active" /\ live = screen.job)

CancelJob ==
  /\ CancelOffered
  /\ Send("cancel", screen.job, {}, FALSE)
  /\ UNCHANGED <<server_vars, app_vars, touched, raced>>

\* Retry of an error screen that has one: the phase is active before the call
\* is sent.
Retry ==
  /\ screen.s = "retryable"
  /\ Show([s |-> "active", job |-> screen.job])
  /\ Send("retry", screen.job, {}, FALSE)
  /\ UNCHANGED <<server_vars, live, busy, raced>>

\* Back and New Torrent; History, Change Server and their ways back.
Leave ==
  /\ \/ screen.s \in {"complete", "error", "retryable", "aside"} /\ Show(Home)
        /\ live' = IF screen.s = "aside" THEN live ELSE NoJob
     \/ screen.s # "aside" /\ Show([s |-> "aside", job |-> NoJob]) /\ live' = live
  /\ UNCHANGED <<server_vars, busy, calls, bounds, raced>>

\* getIntake answers for a draft; afterwards it is not found.
DraftFound(j) == server[j].st \in {"reading_metadata", "awaiting_selection", "failed"}

\* What toPublicJob tells of a job, as far as the client uses it.
PublicJob(j) == [job |-> j, st |-> server[j].st, retry |-> server[j].retry]

\* tick of usePolling: the GET is sent and read by the server.
PollRead ==
  /\ screen.s \in {"intake", "active"} /\ poll = NoPoll
  /\ screen.s = "intake" => DraftFound(screen.job)
  /\ poll' = PublicJob(screen.job)
  /\ UNCHANGED <<server_vars, screen, form, live, busy, calls, bounds, touched, raced>>

\* onData of the draft poll.
DraftData ==
  /\ screen.s = "intake" /\ poll # NoPoll
  /\ CASE poll.st = "awaiting_selection" ->
            Show([s |-> "selection", job |-> poll.job])
       [] poll.st = "failed" ->
            Show([s |-> "error", job |-> poll.job])
       [] OTHER -> poll' = NoPoll /\ UNCHANGED <<screen, form, touched>>
  /\ UNCHANGED <<server_vars, live, busy, calls, bounds, raced>>

\* Where an ended job leads: classifyJobFailure gives a failed packaging or
\* upload an error screen with a Retry.
Outcome(rec) ==
  CASE rec.st = "complete"             -> "complete"
    [] rec.st = "failed" /\ rec.retry -> "retryable"
    [] OTHER                           -> "error"

\* Mutant: an interrupted job is not taken for ended.
JobDataMissesInterrupted ==
  /\ screen.s = "active" /\ poll # NoPoll
  /\ IF poll.st \in Terminal \ {"interrupted"}
     THEN Show([s |-> Outcome(poll), job |-> poll.job]) /\ live' = NoJob
     ELSE poll' = NoPoll /\ live' = poll.job /\ UNCHANGED <<screen, form, touched>>
  /\ UNCHANGED <<server_vars, busy, calls, bounds, raced>>

\* onData of the job poll: an ended job leaves the active screen.
JobData ==
  /\ screen.s = "active" /\ poll # NoPoll
  /\ IF poll.st \in Terminal
     THEN /\ Show([s |-> Outcome(poll), job |-> poll.job])
          /\ live' = NoJob
     ELSE poll' = NoPoll /\ live' = poll.job /\ UNCHANGED <<screen, form, touched>>
  /\ UNCHANGED <<server_vars, busy, calls, bounds, raced>>

\* A poll that fails changes the status line and nothing else.
PollFails ==
  /\ poll # NoPoll /\ Fault
  /\ poll' = NoPoll
  /\ UNCHANGED <<server_vars, screen, form, live, busy, calls, touched, raced>>

------------------------------------------------------------------------------
(* The server.                                                              *)

Put(j, rec) == server' = [server EXCEPT ![j] = rec]

Save(j, rec) == Put(j, rec) /\ disk' = [disk EXCEPT ![j] = rec]

\* An answer nobody waits for goes nowhere.
Reply(i, ok, pre) ==
  calls' = [calls EXCEPT ![i] =
    IF calls[i].heard THEN [calls[i] EXCEPT !.at = "back", !.ok = ok, !.pre = pre] ELSE NoCall]

\* POST /v1/intakes: the draft is saved, and answered when its metadata is in.
HandleIntake(i) ==
  /\ calls[i].op = "intake" /\ calls[i].at = "out"
  /\ LET j == CHOOSE j \in Jobs : server[j] = Blank
     IN  /\ Save(j, [Blank EXCEPT !.st = "reading_metadata"])
         /\ calls' = [calls EXCEPT ![i].at = "metadata", ![i].job = j]
  /\ UNCHANGED <<active, app_vars, bounds, touched, raced>>

\* The metadata is read, or is not; a draft cancelled meanwhile keeps that.
MetadataRead(i) ==
  /\ calls[i].op = "intake" /\ calls[i].at = "metadata"
  /\ LET j == calls[i].job
     IN  IF server[j].st # "reading_metadata"
         THEN UNCHANGED <<server, disk, bounds>>
         ELSE \/ Save(j, [server[j] EXCEPT !.st = "awaiting_selection"]) /\ UNCHANGED bounds
              \/ Save(j, [server[j] EXCEPT !.st = "failed"]) /\ Fault
  /\ Reply(i, TRUE, "none")
  /\ UNCHANGED <<active, app_vars, touched, raced>>

\* startJob reads the job and sends its persisted selection.
HandleLook(i) ==
  /\ calls[i].op = "start" /\ calls[i].at = "look" /\ calls[i].heard
  /\ LET sel == server[calls[i].job].sel
     IN  IF sel = {}
         THEN Reply(i, FALSE, "none")
         ELSE calls' = [calls EXCEPT ![i].at = "out", ![i].sel = sel]
  /\ UNCHANGED <<server_vars, app_vars, bounds, touched, raced>>

\* commitSelection answers a Start it has seen with the job as it is.
Replayed(j) == server[j].key /\ server[j].st # "awaiting_selection"

Refused(j) == server[j].st # "awaiting_selection" \/ active # NoJob

\* Mutant: the selection is put on the record before the Start is known to be new.
HandleCommitWritesFirst(i) ==
  /\ calls[i].op \in {"confirm", "start"} /\ calls[i].at = "out"
  /\ LET j == calls[i].job
     IN  /\ Put(j, [server[j] EXCEPT !.sel = calls[i].sel, !.keep = calls[i].keep])
         /\ CASE Replayed(j) -> Reply(i, TRUE, server[j].pre) /\ UNCHANGED raced
              [] ~Replayed(j) /\ Refused(j) -> Reply(i, FALSE, "none") /\ UNCHANGED raced
              [] OTHER ->
                   /\ calls' = [calls EXCEPT ![i].at = "preflight"]
                   /\ raced' = (raced \/ \E k \in Slots \ {i} : ~Free(k) /\ calls[k].at = "preflight")
  /\ UNCHANGED <<disk, active, app_vars, bounds, touched>>

\* POST /v1/jobs up to the first await: the selection and the cleanup policy of
\* the call are on the record from here.
HandleCommit(i) ==
  /\ calls[i].op \in {"confirm", "start"} /\ calls[i].at = "out"
  /\ LET j == calls[i].job
     IN  CASE Replayed(j) -> Reply(i, TRUE, server[j].pre) /\ UNCHANGED <<server, raced>>
           [] ~Replayed(j) /\ Refused(j) -> Reply(i, FALSE, "none") /\ UNCHANGED <<server, raced>>
           [] OTHER ->
                /\ Put(j, [server[j] EXCEPT !.sel = calls[i].sel, !.keep = calls[i].keep])
                /\ calls' = [calls EXCEPT ![i].at = "preflight"]
                /\ raced' = (raced \/ \E k \in Slots \ {i} : ~Free(k) /\ calls[k].at = "preflight")
  /\ UNCHANGED <<disk, active, app_vars, bounds, touched>>

\* The preflight blocks the Start: the job waits for another one.
Blocked(i) ==
  /\ calls[i].at = "preflight" /\ Fault
  /\ Save(calls[i].job, [server[calls[i].job] EXCEPT !.pre = "blocked"])
  /\ Reply(i, TRUE, "blocked")
  /\ UNCHANGED <<active, app_vars, touched, raced>>

\* The preflight passes, the directories are made and the transfer starts.
Begin(i) ==
  /\ calls[i].at = "preflight"
  /\ Save(calls[i].job, [server[calls[i].job] EXCEPT !.pre = "ok", !.st = "queued", !.key = TRUE])
  /\ active' = calls[i].job
  /\ Reply(i, TRUE, "ok")
  /\ UNCHANGED <<app_vars, bounds, touched, raced>>

\* cancel: an ended job is returned as it is, a draft is cancelled, a transfer
\* is stopped unless its file is already published.
Cancel(j) ==
  \/ server[j].st \notin Terminal
     /\ Save(j, [server[j] EXCEPT !.st = "cancelled", !.retry = FALSE])
     /\ active' = IF active = j THEN NoJob ELSE active
  \/ server[j].st \in Terminal \union {"running"} /\ UNCHANGED server_vars

HandleCancel(i) ==
  /\ calls[i].op = "cancel" /\ calls[i].at = "out"
  /\ Cancel(calls[i].job)
  /\ Reply(i, TRUE, "none")
  /\ UNCHANGED <<app_vars, bounds, touched, raced>>

\* retryPackaging and retryUpload, which answer when the transfer has ended:
\* the client has given up on most of them by then.  A commit that is at its
\* preflight does not hold them up.
HandleRetry(i) ==
  /\ calls[i].op = "retry" /\ calls[i].at = "out"
  /\ LET j == calls[i].job
     IN  IF server[j].retry /\ active \in {NoJob, j}
         THEN /\ Save(j, [server[j] EXCEPT !.st = "running", !.retry = FALSE]) /\ active' = j
              /\ raced' = (raced \/ \E k \in Slots : calls[k].at = "preflight")
         ELSE UNCHANGED <<server_vars, raced>>
  /\ Reply(i, TRUE, "none")
  /\ UNCHANGED <<app_vars, bounds, touched>>

\* The transfer goes on, and ends; a failed packaging or upload can be retried.
Transfer(j) ==
  /\ server[j].st \in Transferring
  /\ \/ server[j].st = "queued" /\ Save(j, [server[j] EXCEPT !.st = "running"])
        /\ UNCHANGED <<active, bounds>>
     \/ /\ server[j].st = "running"
        /\ active' = IF active = j THEN NoJob ELSE active
        /\ \/ Save(j, [server[j] EXCEPT !.st = "complete"]) /\ UNCHANGED bounds
           \/ /\ Fault
              /\ \E again \in BOOLEAN : Save(j, [server[j] EXCEPT !.st = "failed", !.retry = again])
  /\ UNCHANGED <<app_vars, calls, touched, raced>>

\* The server starts again: startupSweep ends what was transferring, and the
\* calls it was at are gone.
ServerRestarts ==
  /\ Fault
  /\ disk' = [j \in Jobs |-> IF disk[j].st \in Transferring
                             THEN [disk[j] EXCEPT !.st = "interrupted"] ELSE disk[j]]
  /\ server' = disk' /\ active' = NoJob
  /\ calls' = [i \in Slots |-> IF calls[i].op # "none" /\ calls[i].at \in {"metadata", "preflight"}
                               THEN IF calls[i].heard THEN [calls[i] EXCEPT !.at = "lost"] ELSE NoCall
                               ELSE calls[i]]
  /\ UNCHANGED <<app_vars, touched, raced>>

------------------------------------------------------------------------------
(* What the client does with the end of a call.                             *)

Drop(i) == calls' = [calls EXCEPT ![i] = NoCall]

\* Mutant: any answer to a confirm enables Start.
SettledTrusting(c, ok) ==
  /\ busy' = (busy /\ c.op # "intake")
  /\ CASE c.op = "intake" /\ ok -> Show([s |-> "intake", job |-> c.job]) /\ UNCHANGED live
       [] c.op = "start" /\ ok -> Show([s |-> "active", job |-> c.job]) /\ UNCHANGED live
       [] c.op = "cancel" -> Show(Home) /\ live' = NoJob
       [] c.op = "confirm" /\ screen = [s |-> "selection", job |-> c.job] ->
            /\ form' = [form EXCEPT !.confirming = FALSE, !.pre = IF ok THEN "ok" ELSE @]
            /\ UNCHANGED <<screen, poll, live, touched>>
       [] OTHER -> UNCHANGED <<screen, poll, form, live, touched>>

\* submitIntake, continueToPreflight, start and cancelJob after their await.
\* App's own continuations run on any screen; those of a SelectionScreen are
\* nothing once it is gone.
Settled(c, ok) ==
  /\ busy' = (busy /\ c.op # "intake")
  /\ CASE c.op = "intake" /\ ok -> Show([s |-> "intake", job |-> c.job]) /\ UNCHANGED live
       [] c.op = "start" /\ ok -> Show([s |-> "active", job |-> c.job]) /\ UNCHANGED live
       [] c.op = "cancel" -> Show(Home) /\ live' = NoJob
       [] c.op = "confirm" /\ screen = [s |-> "selection", job |-> c.job] ->
            /\ form' = [form EXCEPT !.confirming = FALSE, !.pre = IF ok THEN c.pre ELSE @]
            /\ UNCHANGED <<screen, poll, live, touched>>
       [] OTHER -> UNCHANGED <<screen, poll, form, live, touched>>

\* The answer arrives.
Answer(i) ==
  /\ calls[i].op # "none" /\ calls[i].at = "back" /\ calls[i].heard
  /\ Settled(calls[i], calls[i].ok)
  /\ Drop(i)
  /\ UNCHANGED <<server_vars, bounds, raced>>

\* Ten seconds are over, the connection is refused, or it broke: the server
\* may be at the call, or get it still.
GiveUp(i) ==
  /\ calls[i].op # "none" /\ calls[i].heard
  /\ \/ calls[i].at = "lost" /\ UNCHANGED bounds
     \/ calls[i].at # "lost" /\ Fault
  /\ Settled(calls[i], FALSE)
  /\ calls' = [calls EXCEPT ![i] = IF calls[i].at \in {"back", "lost", "look"} THEN NoCall
                                   ELSE [calls[i] EXCEPT !.heard = FALSE]]
  /\ UNCHANGED <<server_vars, raced>>

\* A call nobody waits for never got through.
Forget(i) ==
  /\ calls[i].op # "none" /\ ~calls[i].heard /\ calls[i].at = "out"
  /\ Drop(i)
  /\ UNCHANGED <<server_vars, app_vars, bounds, touched, raced>>

\* The client starts again, on its home screen.
ClientRestarts ==
  /\ Fault
  /\ screen' = Home /\ form' = NewForm /\ live' = NoJob /\ busy' = FALSE /\ poll' = NoPoll
  /\ calls' = [i \in Slots |-> IF Free(i) \/ calls[i].at \in {"back", "lost", "look"} THEN NoCall
                               ELSE [calls[i] EXCEPT !.heard = FALSE]]
  /\ touched' = FALSE
  /\ UNCHANGED <<server_vars, raced>>

User == Submit \/ Toggle \/ ToggleCleanup \/ Continue \/ Start \/ CancelJob \/ Retry \/ Leave

Handle(i) ==
  \/ HandleIntake(i) \/ MetadataRead(i) \/ HandleLook(i) \/ HandleCommit(i)
  \/ HandleCancel(i) \/ HandleRetry(i)

Next ==
  \/ User
  \/ PollRead \/ DraftData \/ JobData \/ PollFails
  \/ \E i \in Slots : Handle(i) \/ Blocked(i) \/ Begin(i) \/ Answer(i) \/ GiveUp(i) \/ Forget(i)
  \/ \E j \in Jobs : Transfer(j)
  \/ ServerRestarts \/ ClientRestarts

Spec == Init /\ [][Next]_vars

\* The polls go on; a transfer may last for ever.
Fairness == WF_vars(PollRead) /\ WF_vars(DraftData) /\ WF_vars(JobData)

FairSpec == Spec /\ Fairness

------------------------------------------------------------------------------
(* Properties.                                                              *)

\* What a screen says of its job is so on the server: a verdict that offers
\* Start, and the active screen, are of a job whose transfer was started; the
\* started job has the selection and the cleanup the form shows, unless the
\* form was changed with a commit of it under way; a job shown complete is
\* complete, and one shown ended has ended, unless it was asked to go on.
ScreenIsReal ==
  LET job == server[screen.job]
  IN  CASE screen.s = "selection" ->
             form.pre = "ok" =>
               job.key /\ (touched \/ (job.sel = form.sel /\ job.keep = form.keep))
        [] screen.s = "active"    -> job.key
        [] screen.s = "complete"  -> job.st = "complete" \/ raced
        [] screen.s \in {"error", "retryable"} ->
             job.st \in Terminal \/ retried \/ raced
        [] OTHER -> TRUE

\* A job is started once: a confirm that is repeated, because its answer was
\* lost or the user pressed Start, finds the job it started as it left it, and
\* there is never a second transfer beside it, as long as no commit and no retry
\* is let in while a commit is between its checks and its start.
StartedUnchanged ==
  [][~raced' => \A j \in Jobs :
       /\ server[j].key => /\ server'[j].sel = server[j].sel /\ server'[j].keep = server[j].keep
                           /\ server'[j].st = "queued" => server[j].st = "queued"
       /\ server'[j].st \in Transferring => active' = j]_vars

\* In the tree a box is checked exactly when every file below it is selected,
\* and a click on it selects or clears all of them.
BoxesAgree ==
  screen.s = "selection" =>
    \A n \in Nodes :
      /\ CheckState(form.sel)[n] = "checked" <=> DescendantIndexes(n) \subseteq form.sel
      /\ CheckState(ToggleNode(n, form.sel))[n] # "indeterminate"

\* A client that watches a transfer learns of its end, whatever calls and polls
\* are lost and whichever side restarts: once the job has ended the active screen
\* is left, or the job goes on.
Settles ==
  \A j \in Jobs :
    LET Outlived == screen = [s |-> "active", job |-> j] /\ server[j].st \in Terminal
    IN  Outlived ~> ~Outlived
=============================================================================
