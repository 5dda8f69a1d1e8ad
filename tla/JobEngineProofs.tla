-------------------------- MODULE JobEngineProofs --------------------------
(* Theorems about JobEngine, for every set of jobs, requests and files and any *)
(* number of pipelines and restarts.                                           *)
EXTENDS JobEngine, TLAPS

-----------------------------------------------------------------------------
(* Records *)

\* #fail keeps a record a record.
LEMMA FailTyped ==
  ASSUME NEW r \in JobRecords, NEW kind \in FailureKinds
  PROVE  Fail(r, kind) \in JobRecords
BY DEF Fail, StageOf, JobRecords, FailureKinds, StageNames, StageStates, JobStates,
       TerminalStates, DraftStates, BusyStates

LEMMA CancelledTyped ==
  ASSUME NEW r \in JobRecords
  PROVE  Cancelled(r) \in JobRecords
BY DEF Cancelled, JobRecords, JobStates, TerminalStates

\* The catch of #runTracked blames a kind of failure.
LEMMA UnexpectedTyped ==
  ASSUME NEW r \in JobRecords
  PROVE  Unexpected(r) \in JobRecords
BY DEF Unexpected, KindForState, JobRecords, FailureKinds, StageNames, JobStates,
       TerminalStates

LEMMA ResetTyped ==
  ASSUME NEW r \in JobRecords
  PROVE  Reset(r) \in JobRecords
BY DEF Reset, JobRecords, JobStates, BusyStates

LEMMA LastStageTyped ==
  ASSUME NEW stages \in [StageNames -> StageStates]
  PROVE  LastNonWaitingStage(stages) \in StageNames \cup {"none"}
BY DEF LastNonWaitingStage, StageOrder, StageNames

LEMMA SweptTyped ==
  ASSUME NEW r \in JobRecords
  PROVE  Swept(r) \in JobRecords
BY LastStageTyped DEF Swept, JobRecords, JobStates, TerminalStates, BusyStates

LEMMA AbsentTyped == Absent \in JobRecords
BY DEF Absent, JobRecords, StageNames, StageStates

-----------------------------------------------------------------------------
(* The type invariant, and what makes it inductive: whoever works on a job has *)
(* one.  It is kept part by part.                                              *)

RecordsOK ==
  /\ rec \in [Jobs -> JobRecords]
  /\ disk \in [Jobs -> JobRecords]

PipesOK ==
  /\ pipe \in [Pipes -> Pipelines]
  /\ \A p \in Pipes : pipe[p].pc # "free" => pipe[p].job \in Jobs

SlotsOK ==
  /\ active \in Jobs \cup {NoJob}
  /\ live \in Pipes \cup {0}

CommitsOK ==
  /\ commit \in [Requests -> Commits]
  /\ \A c \in Requests :
       commit[c].pc # "idle" => commit[c].job \in Jobs /\ rec[commit[c].job].state # "absent"

CallsOK == intake \subseteq Jobs /\ discard \subseteq Jobs

WorldOK == world \in [Jobs -> Worlds]

HistoryOK == asked \in [Jobs -> SUBSET {"cancel", "discard"}] /\ restarts \in Nat

Typed ==
  /\ RecordsOK
  /\ PipesOK
  /\ SlotsOK
  /\ CommitsOK
  /\ CallsOK
  /\ WorldOK
  /\ HistoryOK

\* A step that neither forgets a URL, nor completes a job, nor begins a cleanup.
Harmless(r, s) ==
  /\ r.url => s.url
  /\ s.state = "absent" => r.state = "absent" /\ s.url = r.url
  /\ s.state = "complete" => r.state = "complete"
  /\ s.stages["cleanup"] # "waiting" => r.stages["cleanup"] # "waiting"

Calm ==
  /\ \A j \in Jobs : Harmless(rec[j], rec'[j])
  /\ disk' \in {disk, rec'}

Publishing == {"resolving", "published", "cleaning"}

\* No pipeline begins to publish, and a new one works on a job that exists.
Continues ==
  \A p \in Pipes :
    /\ pipe'[p].pc \in Publishing => pipe'[p].pc = pipe[p].pc /\ pipe'[p].job = pipe[p].job
    /\ pipe'[p].pc # "free" =>
         \/ pipe[p].pc # "free" /\ pipe'[p].job = pipe[p].job
         \/ rec[pipe'[p].job].state # "absent"

\* What most steps do to the records, the pipelines and the slots.
Steady == RecordsOK' /\ PipesOK' /\ SlotsOK' /\ Calm /\ Continues

-----------------------------------------------------------------------------
(* The building blocks of the actions *)

LEMMA PutTyped ==
  ASSUME RecordsOK, NEW j \in Jobs, NEW r \in JobRecords
  PROVE  Put(j, r) \in [Jobs -> JobRecords]
BY DEF Put, RecordsOK

\* Saving a record that changed harmlessly.
LEMMA SavePut ==
  ASSUME RecordsOK, NEW j \in Jobs, NEW r \in JobRecords,
         Harmless(rec[j], r), Save(Put(j, r))
  PROVE  RecordsOK' /\ Calm
<1>1. Put(j, r) \in [Jobs -> JobRecords]
  BY PutTyped
<1>2. rec' = Put(j, r) /\ disk' \in {rec', disk}
  BY DEF Save
<1>3. \A i \in Jobs : rec'[i] = IF i = j THEN r ELSE rec[i]
  BY <1>2 DEF Put, RecordsOK
<1>4. \A i \in Jobs : Harmless(rec[i], rec'[i])
  BY <1>3 DEF Harmless
<1> QED
  BY <1>1, <1>2, <1>4 DEF RecordsOK, Calm

\* Changing one in memory only.
LEMMA JustPut ==
  ASSUME RecordsOK, NEW j \in Jobs, NEW r \in JobRecords,
         Harmless(rec[j], r), rec' = Put(j, r), disk' = disk
  PROVE  RecordsOK' /\ Calm
<1>1. Put(j, r) \in [Jobs -> JobRecords]
  BY PutTyped
<1>2. \A i \in Jobs : rec'[i] = IF i = j THEN r ELSE rec[i]
  BY DEF Put, RecordsOK
<1>3. \A i \in Jobs : Harmless(rec[i], rec'[i])
  BY <1>2 DEF Harmless
<1> QED
  BY <1>1, <1>3 DEF RecordsOK, Calm

LEMMA KeepRecords ==
  ASSUME RecordsOK, rec' = rec, disk' \in {disk, rec}
  PROVE  RecordsOK' /\ Calm
BY DEF RecordsOK, Calm, Harmless

\* A pipeline moves on.
LEMMA GotoSteady ==
  ASSUME PipesOK, NEW p \in Pipes, NEW pc \in PipeStates \ (Publishing \cup {"free"}),
         pipe[p].pc # "free", Goto(p, pc)
  PROVE  PipesOK' /\ Continues
BY DEF PipesOK, Goto, Pipelines, Continues

LEMMA MoveSteady ==
  ASSUME PipesOK, NEW p \in Pipes, NEW new \in Pipelines,
         pipe[p].pc # "free", new.pc \notin Publishing \cup {"free"},
         new.job = pipe[p].job, pipe' = [pipe EXCEPT ![p] = new]
  PROVE  PipesOK' /\ Continues
BY DEF PipesOK, Continues

LEMMA KeepPipes ==
  ASSUME PipesOK, pipe' = pipe
  PROVE  PipesOK' /\ Continues
BY DEF PipesOK, Continues

LEMMA KeepSlots ==
  ASSUME SlotsOK, UNCHANGED slots
  PROVE  SlotsOK'
BY DEF SlotsOK, slots

LEMMA NewPipeTyped ==
  ASSUME NEW pc \in PipeStates, NEW j \in Jobs \cup {NoJob},
         NEW how \in {"run", "retryPackaging", "retryUpload", "retryStorageCheck"}
  PROVE  NewPipe(pc, j, how) \in Pipelines
BY DEF NewPipe, Pipelines

\* A new pipeline joins the chain.
LEMMA JoinSteady ==
  ASSUME PipesOK, NEW p \in Pipes, NEW j \in Jobs, rec[j].state # "absent",
         NEW how \in {"run", "retryPackaging", "retryUpload", "retryStorageCheck"},
         pipe' = [pipe EXCEPT ![p] = NewPipe("waiting", j, how)]
  PROVE  PipesOK' /\ Continues
<1>1. NewPipe("waiting", j, how) \in Pipelines
  BY NewPipeTyped DEF PipeStates
<1>2. NewPipe("waiting", j, how).pc = "waiting" /\ NewPipe("waiting", j, how).job = j
  BY DEF NewPipe
<1>3. \A q \in Pipes : pipe'[q] = IF q = p THEN NewPipe("waiting", j, how) ELSE pipe[q]
  BY DEF PipesOK
<1>4. PipesOK'
  BY <1>1, <1>2, <1>3 DEF PipesOK
<1>5. Continues
  BY <1>2, <1>3 DEF Continues, Publishing
<1> QED
  BY <1>4, <1>5

LEMMA FailHarmless ==
  ASSUME NEW r \in JobRecords, NEW kind \in FailureKinds
  PROVE  Harmless(r, Fail(r, kind))
BY DEF Harmless, Fail, StageOf, JobRecords, FailureKinds, StageNames

LEMMA WorkingTyped ==
  ASSUME RecordsOK, PipesOK, NEW p \in Pipes, pipe[p].pc # "free"
  PROVE  Job(p) \in Jobs /\ Rec(p) \in JobRecords /\ Rec(p) = rec[Job(p)]
BY DEF RecordsOK, PipesOK, Job, Rec

LEMMA SettleSteady ==
  ASSUME PipesOK, SlotsOK, NEW p \in Pipes, pipe[p].pc # "free", Settle(p)
  PROVE  PipesOK' /\ SlotsOK' /\ Continues
<1>1. NewPipe("done", pipe[p].job, pipe[p].how) \in Pipelines
  BY NewPipeTyped DEF PipesOK, Pipelines, PipeStates
<1>2. PipesOK' /\ Continues
  BY <1>1 DEF Settle, PipesOK, Continues, NewPipe, Publishing
<1>3. SlotsOK'
  BY DEF Settle, SlotsOK
<1> QED
  BY <1>2, <1>3

LEMMA FailAtSteady ==
  ASSUME RecordsOK, PipesOK, SlotsOK, NEW p \in Pipes, pipe[p].pc # "free",
         NEW kind \in FailureKinds, NEW pc \in PipeStates \ (Publishing \cup {"free"}),
         FailAt(p, kind, pc)
  PROVE  Steady
<1>1. Fail(Rec(p), kind) \in JobRecords /\ Harmless(Rec(p), Fail(Rec(p), kind))
  BY WorkingTyped, FailTyped, FailHarmless
<1>2. RecordsOK' /\ Calm
  BY <1>1, WorkingTyped, SavePut DEF FailAt
<1> QED
  BY <1>2, GotoSteady, KeepSlots DEF FailAt, Steady

LEMMA FinishCancelSteady ==
  ASSUME RecordsOK, PipesOK, SlotsOK, NEW p \in Pipes, pipe[p].pc # "free",
         NEW pc \in PipeStates \ (Publishing \cup {"free"}),
         FinishCancel(p, pc)
  PROVE  Steady
<1>1. Cancelled(Rec(p)) \in JobRecords
  BY WorkingTyped, CancelledTyped
<1>2. Harmless(Rec(p), Cancelled(Rec(p)))
  BY WorkingTyped DEF Harmless, Cancelled, JobRecords
<1>3. RecordsOK' /\ Calm
  BY <1>1, <1>2, WorkingTyped, SavePut DEF FinishCancel
<1> QED
  BY <1>3, GotoSteady, KeepSlots DEF FinishCancel, Steady

LEMMA ThrowSteady ==
  ASSUME RecordsOK, PipesOK, SlotsOK, NEW p \in Pipes, pipe[p].pc # "free", Throw(p)
  PROVE  Steady
<1>1. Rec(p) \in JobRecords /\ Unexpected(Rec(p)) \in JobRecords
  BY WorkingTyped, UnexpectedTyped
<1>2. CASE /\ Save(Put(Job(p), Unexpected(Rec(p))))
           /\ Goto(p, "ending")
           /\ UNCHANGED slots
  <2>1. Harmless(Rec(p), Unexpected(Rec(p)))
    BY <1>1 DEF Harmless, Unexpected, JobRecords
  <2>2. RecordsOK' /\ Calm
    BY <1>1, <1>2, <2>1, WorkingTyped, SavePut
  <2> QED
    BY <1>2, <2>2, GotoSteady, KeepSlots DEF Steady, PipeStates, Publishing
<1>3. CASE Settle(p) /\ UNCHANGED << rec, disk >>
  BY <1>3, SettleSteady, KeepRecords DEF Steady
<1> QED
  BY <1>2, <1>3 DEF Throw

\* A record that goes on to another state, one of its stages with it.
LEMMA StepTyped ==
  ASSUME NEW r \in JobRecords, NEW s \in JobStates, NEW stage \in StageNames, NEW v \in StageStates
  PROVE  [r EXCEPT !.state = s, !.stages[stage] = v] \in JobRecords
BY DEF JobRecords

LEMMA StepHarmless ==
  ASSUME NEW r \in JobRecords, NEW s \in JobStates \ {"complete"},
         NEW stage \in StageNames \ {"cleanup"}, NEW v \in StageStates
  PROVE  Harmless(r, [r EXCEPT !.state = s, !.stages[stage] = v])
BY DEF JobRecords, Harmless, StageNames, JobStates, TerminalStates, DraftStates, BusyStates

\* What a phase writes when it begins.
LEMMA BeginZipSteady ==
  ASSUME RecordsOK, PipesOK, SlotsOK, NEW p \in Pipes, pipe[p].pc # "free", BeginZip(p)
  PROVE  Steady
<1> DEFINE r == [Rec(p) EXCEPT !.state = "packaging", !.stages["packaging"] = "active"]
<1>1. r \in JobRecords /\ Harmless(Rec(p), r)
  BY WorkingTyped, StepTyped, StepHarmless
       DEF JobStates, BusyStates, TerminalStates, StageNames, StageStates
<1>2. RecordsOK' /\ Calm
  BY <1>1, WorkingTyped, SavePut DEF BeginZip
<1> QED
  BY <1>2, GotoSteady, KeepSlots DEF BeginZip, Steady, PipeStates, Publishing

LEMMA BeginUploadSteady ==
  ASSUME RecordsOK, PipesOK, SlotsOK, NEW p \in Pipes, pipe[p].pc # "free", BeginUpload(p)
  PROVE  Steady
<1> DEFINE r == [Rec(p) EXCEPT !.state = "uploading", !.stages["upload"] = "active"]
<1>1. CASE FailAt(p, "upload", "uploaded")
  BY <1>1, FailAtSteady DEF FailureKinds, PipeStates, Publishing
<1>2. CASE Save(Put(Job(p), r)) /\ Goto(p, "uploading") /\ UNCHANGED slots
  <2>1. r \in JobRecords /\ Harmless(Rec(p), r)
    BY WorkingTyped, StepTyped, StepHarmless
       DEF JobStates, BusyStates, TerminalStates, StageNames, StageStates
  <2>2. RecordsOK' /\ Calm
    BY <1>2, <2>1, WorkingTyped, SavePut
  <2> QED
    BY <1>2, <2>2, GotoSteady, KeepSlots DEF Steady, PipeStates, Publishing
<1> QED
  BY <1>1, <1>2 DEF BeginUpload

LEMMA BeginFinalizeSteady ==
  ASSUME RecordsOK, PipesOK, SlotsOK, NEW p \in Pipes, pipe[p].pc # "free", BeginFinalize(p)
  PROVE  Steady
<1> DEFINE r == [Rec(p) EXCEPT !.state = "finalizing", !.stages["finalize"] = "active"]
<1>1. r \in JobRecords /\ Harmless(Rec(p), r)
  BY WorkingTyped, StepTyped, StepHarmless
       DEF JobStates, BusyStates, TerminalStates, StageNames, StageStates
<1>2. RecordsOK' /\ Calm
  BY <1>1, WorkingTyped, SavePut DEF BeginFinalize
<1> QED
  BY <1>2, GotoSteady, KeepSlots DEF BeginFinalize, Steady, PipeStates, Publishing

LEMMA CancelOutSteady ==
  ASSUME RecordsOK, PipesOK, SlotsOK, NEW p \in Pipes, pipe[p].pc # "free", CancelOut(p)
  PROVE  Steady
<1>1. CASE Goto(p, "purging") /\ UNCHANGED << rec, disk, slots >>
  BY <1>1, GotoSteady, KeepRecords, KeepSlots DEF Steady, PipeStates, Publishing
<1>2. CASE FinishCancel(p, "uploaded")
  BY <1>2, FinishCancelSteady DEF PipeStates, Publishing
<1> QED
  BY <1>1, <1>2 DEF CancelOut

-----------------------------------------------------------------------------
(* The steps of a pipeline, but for those that publish *)

\* At the start of a link.
LEMMA StartOfLinkSteady ==
  ASSUME RecordsOK, PipesOK, SlotsOK, NEW p \in Pipes,
         \/ RunRefused(p) \/ RunCancelled(p) \/ RunDownload(p)
         \/ RetryRefused(p) \/ RetryBegin(p) \/ CheckInputs(p)
  PROVE  Steady
<1>1. pipe[p].pc # "free"
  BY DEF RunRefused, RunCancelled, RunDownload, RetryRefused, RetryBegin, CheckInputs, Ready, At
<1>2. Rec(p) \in JobRecords /\ Job(p) \in Jobs /\ Rec(p) = rec[Job(p)]
  BY <1>1, WorkingTyped
<1>3. Reset(Rec(p)) \in JobRecords /\ Harmless(Rec(p), Reset(Rec(p)))
  BY <1>2, ResetTyped DEF Harmless, Reset, JobRecords
<1>4. CASE RunRefused(p)
  BY <1>1, <1>4, SettleSteady, KeepRecords DEF RunRefused, Steady
<1>5. CASE RunCancelled(p)
  BY <1>1, <1>5, FinishCancelSteady DEF RunCancelled, PipeStates, Publishing
<1>6. CASE RunDownload(p)
  <2> DEFINE r == [Rec(p) EXCEPT !.state = "downloading", !.stages["download"] = "active"]
  <2>1. r \in JobRecords /\ Harmless(Rec(p), r)
    BY <1>2, StepTyped, StepHarmless
       DEF JobStates, BusyStates, TerminalStates, StageNames, StageStates
  <2>2. RecordsOK' /\ Calm
    BY <1>2, <1>6, <2>1, SavePut DEF RunDownload
  <2> QED
    BY <1>1, <1>6, <2>2, GotoSteady, KeepSlots DEF RunDownload, Steady, PipeStates, Publishing
<1>7. CASE RetryRefused(p)
  <2>1. NewPipe("done", pipe[p].job, pipe[p].how) \in Pipelines
    BY NewPipeTyped DEF PipesOK, Pipelines, PipeStates
  <2>2. PipesOK' /\ Continues
    BY <1>1, <1>7, <2>1 DEF RetryRefused, PipesOK, Continues, NewPipe, Publishing
  <2> QED
    BY <1>7, <2>2, KeepRecords DEF RetryRefused, Steady, SlotsOK
<1>8. CASE RetryBegin(p)
  <2>1. SlotsOK'
    BY <1>2, <1>8 DEF RetryBegin, SlotsOK
  <2>2. RecordsOK' /\ Calm
    BY <1>2, <1>3, <1>8, SavePut, KeepRecords DEF RetryBegin
  <2> QED
    BY <1>1, <1>8, <2>1, <2>2, GotoSteady DEF RetryBegin, Steady, PipeStates, Publishing
<1>9. CASE CheckInputs(p)
  <2>1. CASE Settle(p) /\ UNCHANGED << rec, disk >>
    BY <1>1, <2>1, SettleSteady, KeepRecords DEF Steady
  <2>2. CASE Save(Put(Job(p), Reset(Rec(p)))) /\ Goto(p, "reset") /\ UNCHANGED slots
    <3>1. RecordsOK' /\ Calm
      BY <1>2, <1>3, <2>2, SavePut
    <3> QED
      BY <1>1, <2>2, <3>1, GotoSteady, KeepSlots DEF Steady, PipeStates, Publishing
  <2> QED
    BY <1>9, <2>1, <2>2 DEF CheckInputs
<1> QED
  BY <1>4, <1>5, <1>6, <1>7, <1>8, <1>9

\* While a torrent downloads.
LEMMA TorrentSteady ==
  ASSUME RecordsOK, PipesOK, SlotsOK, NEW p \in Pipes,
         \/ TorrentAdded(p) \/ AddReturns(p) \/ AddThrows(p) \/ ProgressSaved(p)
         \/ PollCancelled(p) \/ PollEnds(p) \/ StoppedCritical(p) \/ Dropped(p) \/ Stopped(p)
  PROVE  Steady
<1>1. pipe[p].pc # "free"
  BY DEF TorrentAdded, AddReturns, AddThrows, ProgressSaved, PollCancelled, PollEnds,
         StoppedCritical, Dropped, Stopped, At
<1>2. Rec(p) \in JobRecords /\ Job(p) \in Jobs /\ Rec(p) = rec[Job(p)]
  BY <1>1, WorkingTyped
<1>3. Save(rec) => RecordsOK' /\ Calm
  BY KeepRecords DEF Save
<1>4. CASE TorrentAdded(p)
  <2>1. Rec(p).selection \in SUBSET Files
    BY <1>2 DEF JobRecords
  <2> DEFINE new == [pipe[p] EXCEPT !.pc = "added", !.added = Rec(p).selection]
  <2>2. /\ new \in Pipelines
        /\ new.pc \notin Publishing \cup {"free"}
        /\ new.job = pipe[p].job
    BY <2>1 DEF PipesOK, Pipelines, PipeStates, Publishing
  <2>3. pipe' = [pipe EXCEPT ![p] = new]
    BY <1>4 DEF TorrentAdded
  <2> QED
    BY <1>1, <1>4, <2>2, <2>3, MoveSteady, KeepRecords, KeepSlots DEF TorrentAdded, Steady
<1>5. CASE AddReturns(p)
  <2> DEFINE r == [Rec(p) EXCEPT !.hash = TRUE]
  <2>1. r \in JobRecords /\ Harmless(Rec(p), r)
    BY <1>2 DEF JobRecords, Harmless
  <2>2. RecordsOK' /\ Calm
    BY <1>2, <1>5, <2>1, JustPut DEF AddReturns
  <2> QED
    BY <1>1, <1>5, <2>2, GotoSteady, KeepSlots DEF AddReturns, Steady, PipeStates, Publishing
<1>6. CASE AddThrows(p)
  BY <1>1, <1>6, ThrowSteady DEF AddThrows
<1>7. CASE ProgressSaved(p)
  BY <1>3, <1>7, KeepPipes, KeepSlots DEF ProgressSaved, Steady
<1>8. CASE PollCancelled(p)
  BY <1>1, <1>8, GotoSteady, KeepRecords, KeepSlots DEF PollCancelled, Steady, PipeStates, Publishing
<1>9. CASE PollEnds(p)
  <2>1. CASE FailAt(p, "download", "downloaded")
    BY <1>1, <2>1, FailAtSteady DEF FailureKinds, PipeStates, Publishing
  <2>2. CASE Throw(p)
    BY <1>1, <2>2, ThrowSteady
  <2>3. CASE /\ Save(rec) /\ UNCHANGED slots
             /\ \E pc \in {"critical", "dropping", "stopping"} : Goto(p, pc)
    <3>1. PICK pc \in {"critical", "dropping", "stopping"} : Goto(p, pc)
      BY <2>3
    <3>2. pc \in PipeStates \ (Publishing \cup {"free"})
      BY DEF PipeStates, Publishing
    <3> QED
      BY <1>1, <1>3, <2>3, <3>1, <3>2, GotoSteady, KeepSlots DEF Steady
  <2> QED
    BY <1>9, <2>1, <2>2, <2>3 DEF PollEnds
<1>10. CASE StoppedCritical(p)
  BY <1>1, <1>10, FailAtSteady DEF StoppedCritical, FailureKinds, PipeStates, Publishing
<1>11. CASE Dropped(p)
  BY <1>1, <1>11, FinishCancelSteady DEF Dropped, PipeStates, Publishing
<1>12. CASE Stopped(p)
  <2> DEFINE r == [Rec(p) EXCEPT !.stages["download"] = "complete"]
             s == [r EXCEPT !.files = pipe[p].added,
                            !.direct = @ \/ ~Zip(r),
                            !.stages["packaging"] = IF Zip(r) THEN @ ELSE "skipped"]
  <2>1. r \in JobRecords /\ Harmless(Rec(p), r)
    BY <1>2 DEF JobRecords, StageNames, StageStates, Harmless
  <2>2. Fail(r, "download") \in JobRecords /\ Harmless(r, Fail(r, "download"))
    BY <2>1, FailTyped, FailHarmless DEF FailureKinds
  <2>3. Zip(r) \in BOOLEAN
    BY DEF Zip
  <2>4. pipe[p].added \in SUBSET Files
    BY DEF PipesOK, Pipelines
  <2>5. s \in JobRecords /\ Harmless(r, s)
    <3> HIDE DEF r
    <3> QED
      BY <2>1, <2>3, <2>4 DEF JobRecords, StageNames, StageStates, Harmless
  <2>6. Harmless(Rec(p), Fail(r, "download")) /\ Harmless(Rec(p), s)
    <3> HIDE DEF r, s
    <3> QED
      BY <2>1, <2>2, <2>5 DEF Harmless
  <2>7. Save(Put(Job(p), s)) \/ Save(Put(Job(p), Fail(r, "download")))
    BY <1>12 DEF Stopped
  <2>8. RecordsOK' /\ Calm
    <3> HIDE DEF r, s
    <3> QED
      BY <1>2, <2>2, <2>5, <2>6, <2>7, SavePut
  <2> QED
    BY <1>1, <1>12, <2>8, GotoSteady, KeepSlots DEF Stopped, Steady, PipeStates, Publishing
<1> QED
  BY <1>4, <1>5, <1>6, <1>7, <1>8, <1>9, <1>10, <1>11, <1>12

\* Direct downloads, packaging, upload, and what lies between two phases.
LEMMA PhasesSteady ==
  ASSUME RecordsOK, PipesOK, SlotsOK, NEW p \in Pipes,
         \/ Purged(p) \/ Fetched(p) \/ FetchFails(p) \/ Sized(p)
         \/ ResumeAfterReset(p) \/ AfterPhase(p) \/ Gated(p)
         \/ ZipRefused(p) \/ ZipDone(p) \/ ZipFails(p) \/ PartialZipRemoved(p)
         \/ UploadDone(p) \/ UploadFails(p) \/ End(p)
  PROVE  Steady
<1>1. pipe[p].pc # "free"
  BY DEF Purged, Fetched, FetchFails, Sized, ResumeAfterReset, AfterPhase, Gated, ZipRefused,
         ZipDone, ZipFails, PartialZipRemoved, UploadDone, UploadFails, End, At
<1>2. Rec(p) \in JobRecords /\ Job(p) \in Jobs /\ Rec(p) = rec[Job(p)]
  BY <1>1, WorkingTyped
<1> DEFINE waits(pc) == Goto(p, pc) /\ UNCHANGED << rec, disk, slots >>
           leaves == Settle(p) /\ UNCHANGED << rec, disk >>
<1>3. ASSUME NEW pc \in PipeStates \ (Publishing \cup {"free"}), waits(pc)
      PROVE  Steady
  BY <1>1, <1>3, GotoSteady, KeepRecords, KeepSlots DEF Steady
<1>4. ASSUME leaves
      PROVE  Steady
  BY <1>1, <1>4, SettleSteady, KeepRecords DEF Steady
<1>5. ASSUME NEW r \in JobRecords, Harmless(Rec(p), r), Save(Put(Job(p), r)),
             NEW pc \in PipeStates \ (Publishing \cup {"free"}), Goto(p, pc), UNCHANGED slots
      PROVE  Steady
  <2>1. RecordsOK' /\ Calm
    BY <1>2, <1>5, SavePut
  <2> QED
    BY <1>1, <1>5, <2>1, GotoSteady, KeepSlots DEF Steady
<1>6. CASE Purged(p)
  BY <1>1, <1>6, FinishCancelSteady DEF Purged, PipeStates, Publishing
<1>7. CASE Fetched(p)
  BY <1>1, <1>3, <1>7, CancelOutSteady DEF Fetched, PipeStates, Publishing
<1>8. CASE FetchFails(p)
  BY <1>1, <1>8, FailAtSteady DEF FetchFails, FailureKinds, PipeStates, Publishing
<1>9. CASE Sized(p)
  <2> DEFINE r == [Rec(p) EXCEPT !.stages["download"] = "complete", !.files = {0},
                                 !.direct = TRUE, !.stages["packaging"] = "skipped"]
  <2>1. r \in JobRecords /\ Harmless(Rec(p), r)
    BY <1>2, EngineConstants DEF JobRecords, StageNames, StageStates, Harmless
  <2>2. CASE Save(Put(Job(p), r)) /\ Goto(p, "downloaded") /\ UNCHANGED slots
    <3> HIDE DEF r
    <3> QED
      BY <1>5, <2>1, <2>2 DEF PipeStates, Publishing
  <2> QED
    BY <1>1, <1>9, <2>2, ThrowSteady DEF Sized
<1>10. CASE ResumeAfterReset(p)
  <2>1. waits("gating") \/ BeginZip(p) \/ BeginUpload(p)
    BY <1>10 DEF ResumeAfterReset
  <2>2. waits("gating") => Steady
    BY <1>3 DEF PipeStates, Publishing
  <2> QED
    BY <1>1, <2>1, <2>2, BeginZipSteady, BeginUploadSteady
<1>11. CASE AfterPhase(p)
  <2> DEFINE r == [Rec(p) EXCEPT !.stages["packaging"] = "skipped"]
             skips == Save(Put(Job(p), r)) /\ Goto(p, "zipped") /\ UNCHANGED slots
  <2>1. r \in JobRecords /\ Harmless(Rec(p), r)
    BY <1>2 DEF JobRecords, StageNames, StageStates, Harmless
  <2>2. \/ leaves \/ waits("gating") \/ skips
        \/ BeginZip(p) \/ BeginUpload(p) \/ BeginFinalize(p)
    BY <1>11 DEF AfterPhase
  <2>3. skips => Steady
    <3> HIDE DEF r
    <3> QED
      BY <1>5, <2>1 DEF PipeStates, Publishing
  <2>4. waits("gating") => Steady
    BY <1>3 DEF PipeStates, Publishing
  <2> QED
    BY <1>1, <1>4, <2>2, <2>3, <2>4, BeginZipSteady, BeginUploadSteady, BeginFinalizeSteady
<1>12. CASE Gated(p)
  <2>1. leaves \/ BeginZip(p) \/ FailAt(p, "storage_before_packaging", "gated")
    BY <1>12 DEF Gated
  <2>2. FailAt(p, "storage_before_packaging", "gated") => Steady
    BY <1>1, FailAtSteady DEF FailureKinds, PipeStates, Publishing
  <2> QED
    BY <1>1, <1>4, <2>1, <2>2, BeginZipSteady
<1>13. CASE ZipRefused(p)
  BY <1>4, <1>13 DEF ZipRefused
<1>14. CASE ZipDone(p)
  <2> DEFINE r == [Rec(p) EXCEPT !.zipPath = TRUE, !.stages["packaging"] = "complete"]
  <2>1. r \in JobRecords /\ Harmless(Rec(p), r)
    BY <1>2 DEF JobRecords, StageNames, StageStates, Harmless
  <2>2. CASE FinishCancel(p, "zipped")
    BY <1>1, <2>2, FinishCancelSteady DEF PipeStates, Publishing
  <2>3. CASE Save(Put(Job(p), r)) /\ Goto(p, "zipped") /\ UNCHANGED slots
    <3> HIDE DEF r
    <3> QED
      BY <1>5, <2>1, <2>3 DEF PipeStates, Publishing
  <2> QED
    BY <1>14, <2>2, <2>3 DEF ZipDone
<1>15. CASE ZipFails(p)
  BY <1>3, <1>15 DEF ZipFails, PipeStates, Publishing
<1>16. CASE PartialZipRemoved(p)
  BY <1>1, <1>16, CancelOutSteady, FailAtSteady
     DEF PartialZipRemoved, FailureKinds, PipeStates, Publishing
<1>17. CASE UploadDone(p)
  <2> DEFINE r == [Rec(p) EXCEPT !.stages["upload"] = "complete"]
             new == [pipe[p] EXCEPT !.pc = "uploaded", !.uploaded = TRUE]
  <2>1. r \in JobRecords /\ Harmless(Rec(p), r)
    BY <1>2 DEF JobRecords, StageNames, StageStates, Harmless
  <2>2. CASE Save(Put(Job(p), r)) /\ pipe' = [pipe EXCEPT ![p] = new] /\ UNCHANGED slots
    <3>1. RecordsOK' /\ Calm
      <4> HIDE DEF r
      <4> QED
        BY <1>2, <2>1, <2>2, SavePut
    <3>2. /\ new \in Pipelines
          /\ new.pc \notin Publishing \cup {"free"}
          /\ new.job = pipe[p].job
      BY DEF PipesOK, Pipelines, PipeStates, Publishing
    <3>3. PipesOK' /\ Continues
      <4> HIDE DEF new
      <4> QED
        BY <1>1, <2>2, <3>2, MoveSteady
    <3> QED
      BY <2>2, <3>1, <3>3, KeepSlots DEF Steady
  <2> QED
    BY <1>1, <1>17, <2>2, CancelOutSteady DEF UploadDone
<1>18. CASE UploadFails(p)
  BY <1>1, <1>18, CancelOutSteady, FailAtSteady
     DEF UploadFails, FailureKinds, PipeStates, Publishing
<1>19. CASE End(p)
  BY <1>4, <1>19 DEF End
<1> QED
  BY <1>6, <1>7, <1>8, <1>9, <1>10, <1>11, <1>12, <1>13, <1>14, <1>15, <1>16, <1>17, <1>18, <1>19

-----------------------------------------------------------------------------
(* Requests *)

\* Drafts and Starts.
LEMMA RequestsSteady ==
  ASSUME Typed,
         \/ \E j \in Jobs : MetadataResult(j)
         \/ \E c \in Requests, j \in Jobs, selection \in SUBSET Files, policy \in Policies :
              CommitBegin(c, j, selection, policy)
         \/ \E c \in Requests : CommitStep(c)
  PROVE  Steady
<1> USE DEF Typed
<1>1. ASSUME NEW j \in Jobs, MetadataResult(j)
      PROVE  Steady
  <2> DEFINE r == [rec[j] EXCEPT !.state = "awaiting_selection", !.stages["metadata"] = "complete",
                                 !.stages["selection"] = "waiting"]
  <2>1. rec[j] \in JobRecords
    BY DEF RecordsOK
  <2>2. r \in JobRecords /\ Harmless(rec[j], r)
    BY <2>1 DEF JobRecords, JobStates, DraftStates, StageNames, StageStates, Harmless
  <2>3. Fail(rec[j], "metadata") \in JobRecords /\ Harmless(rec[j], Fail(rec[j], "metadata"))
    BY <2>1, FailTyped, FailHarmless DEF FailureKinds
  <2>4. \/ UNCHANGED << rec, disk >>
        \/ Save(Put(j, r))
        \/ Save(Put(j, Fail(rec[j], "metadata")))
    BY <1>1 DEF MetadataResult
  <2>5. RecordsOK' /\ Calm
    <3> HIDE DEF r
    <3> QED
      BY <2>2, <2>3, <2>4, SavePut, KeepRecords
  <2> QED
    BY <1>1, <2>5, KeepPipes, KeepSlots DEF MetadataResult, Steady
<1>2. ASSUME NEW c \in Requests, NEW j \in Jobs, NEW selection \in SUBSET Files,
             NEW policy \in Policies, CommitBegin(c, j, selection, policy)
      PROVE  Steady
  <2> DEFINE r == [rec[j] EXCEPT !.selection = selection, !.policy = policy,
                                 !.stages["preflight"] = "active"]
  <2>1. rec[j] \in JobRecords /\ policy \in SUBSET Artifacts
    BY EngineConstants DEF RecordsOK
  <2>2. r \in JobRecords /\ Harmless(rec[j], r)
    BY <2>1 DEF JobRecords, StageNames, StageStates, Harmless
  <2>3. rec' = Put(j, r) /\ disk' = disk
    BY <1>2 DEF CommitBegin
  <2>4. RecordsOK' /\ Calm
    <3> HIDE DEF r
    <3> QED
      BY <2>2, <2>3, JustPut
  <2> QED
    BY <1>2, <2>4, KeepPipes, KeepSlots DEF CommitBegin, Steady
<1>3. ASSUME NEW c \in Requests, CommitPreflight(c)
      PROVE  Steady
  <2> DEFINE j == commit[c].job
             r == [rec[j] EXCEPT !.stages["preflight"] = "failed", !.error = "storage_preflight"]
             s == [rec[j] EXCEPT !.stages["preflight"] = "complete"]
  <2>1. j \in Jobs /\ rec[j] \in JobRecords
    BY <1>3 DEF CommitPreflight, CommitsOK, RecordsOK
  <2>2. r \in JobRecords /\ s \in JobRecords /\ Harmless(rec[j], r) /\ Harmless(rec[j], s)
    BY <2>1 DEF JobRecords, StageNames, StageStates, FailureKinds, Harmless
  <2>3. Save(Put(j, r)) \/ (rec' = Put(j, s) /\ disk' = disk)
    BY <1>3 DEF CommitPreflight
  <2>4. RecordsOK' /\ Calm
    <3> HIDE DEF r, s, j
    <3> QED
      BY <2>1, <2>2, <2>3, SavePut, JustPut
  <2> QED
    BY <1>3, <2>4, KeepPipes, KeepSlots DEF CommitPreflight, Steady
<1>4. ASSUME NEW c \in Requests, CommitDirs(c)
      PROVE  Steady
  <2> DEFINE j == commit[c].job
             r == [rec[j] EXCEPT !.dirs = TRUE, !.stages["selection"] = "complete",
                                 !.state = "queued"]
  <2>1. j \in Jobs /\ rec[j] \in JobRecords
    BY <1>4 DEF CommitDirs, CommitsOK, RecordsOK
  <2>2. r \in JobRecords /\ Harmless(rec[j], r)
    BY <2>1 DEF JobRecords, StageNames, StageStates, JobStates, BusyStates, Harmless
  <2>3. Save(Put(j, r)) \/ UNCHANGED << rec, disk >>
    BY <1>4 DEF CommitDirs
  <2>4. RecordsOK' /\ Calm
    <3> HIDE DEF r, j
    <3> QED
      BY <2>1, <2>2, <2>3, SavePut, KeepRecords
  <2> QED
    BY <1>4, <2>4, KeepPipes, KeepSlots DEF CommitDirs, Steady
<1>5. ASSUME NEW c \in Requests, NEW p \in Pipes, StartTransfer(c, p)
      PROVE  Steady
  <2>1. commit[c].job \in Jobs /\ rec[commit[c].job].state # "absent"
    BY <1>5 DEF StartTransfer, CommitsOK
  <2>2. pipe' = [pipe EXCEPT ![p] = NewPipe("waiting", commit[c].job, "run")]
    BY <1>5 DEF StartTransfer
  <2>3. PipesOK' /\ Continues
    BY <2>1, <2>2, JoinSteady
  <2>4. SlotsOK'
    BY <1>5, <2>1 DEF StartTransfer, SlotsOK
  <2> QED
    BY <1>5, <2>3, <2>4, KeepRecords DEF StartTransfer, Steady
<1> QED
  BY <1>1, <1>2, <1>3, <1>4, <1>5 DEF CommitStep

\* Cancels, retries and discards.
LEMMA ControlSteady ==
  ASSUME Typed,
         \/ \E j \in Jobs, cleanup \in BOOLEAN : Cancel(j, cleanup)
         \/ \E j \in Jobs, how \in DOMAIN RetriedKind : Resume(j, how)
         \/ \E j \in Jobs : DiscardBegin(j) \/ DiscardEnd(j)
  PROVE  Steady
<1> USE DEF Typed
<1>1. ASSUME NEW j \in Jobs, NEW cleanup \in BOOLEAN, Cancel(j, cleanup)
      PROVE  Steady
  <2>1. rec[j] \in JobRecords /\ Cancelled(rec[j]) \in JobRecords
    BY CancelledTyped DEF RecordsOK
  <2>2. Harmless(rec[j], Cancelled(rec[j]))
    BY <2>1 DEF Harmless, Cancelled, JobRecords
  <2>3. Save(Put(j, Cancelled(rec[j]))) \/ UNCHANGED << rec, disk >>
    BY <1>1 DEF Cancel, CancelLive, CancelDraft
  <2>4. RecordsOK' /\ Calm
    BY <2>1, <2>2, <2>3, SavePut, KeepRecords
  <2>5. CASE pipe' = pipe
    BY <1>1, <2>4, <2>5, KeepPipes, KeepSlots DEF Cancel, Steady
  <2>6. CASE CancelLive(j, cleanup)
    <3> DEFINE new == [pipe[live] EXCEPT !.cancelled = TRUE, !.purge = cleanup]
    <3>1. live \in Pipes
      BY <2>6 DEF CancelLive, LiveFor, SlotsOK
    <3>2. new \in Pipelines /\ new.pc = pipe[live].pc /\ new.job = pipe[live].job
      BY <3>1 DEF PipesOK, Pipelines
    <3>3. pipe' = [pipe EXCEPT ![live] = new]
      BY <2>6 DEF CancelLive
    <3>4. PipesOK' /\ Continues
      <4> HIDE DEF new
      <4> QED
        BY <3>1, <3>2, <3>3 DEF PipesOK, Continues
    <3> QED
      BY <1>1, <2>4, <3>4, KeepSlots DEF Cancel, Steady
  <2> QED
    BY <1>1, <2>5, <2>6 DEF Cancel, CancelDraft
<1>2. ASSUME NEW j \in Jobs, NEW how \in DOMAIN RetriedKind, Resume(j, how)
      PROVE  Steady
  <2>1. how \in {"run", "retryPackaging", "retryUpload", "retryStorageCheck"}
    BY DEF RetriedKind
  <2>2. PICK p \in Pipes : pipe' = [pipe EXCEPT ![p] = NewPipe("waiting", j, how)]
    BY <1>2 DEF Resume
  <2>3. PipesOK' /\ Continues
    BY <1>2, <2>1, <2>2, JoinSteady DEF Resume
  <2> QED
    BY <1>2, <2>3, KeepRecords, KeepSlots DEF Resume, Steady
<1>3. ASSUME NEW j \in Jobs, DiscardBegin(j) \/ DiscardEnd(j)
      PROVE  Steady
  BY <1>3, KeepRecords, KeepPipes, KeepSlots DEF DiscardBegin, DiscardEnd, Steady
<1> QED
  BY <1>1, <1>2, <1>3

-----------------------------------------------------------------------------
(* The inductive invariant *)

\* The history file never knows a URL the program does not, and a job that does
\* not exist has none.
UrlsKnown ==
  \A j \in Jobs :
    /\ disk[j].url => rec[j].url
    /\ rec[j].state = "absent" => ~rec[j].url
    /\ disk[j].state = "absent" => ~disk[j].url

\* A pipeline works on a job that exists.
JobsExist == \A p \in Pipes : pipe[p].pc # "free" => rec[pipe[p].job].state # "absent"

\* Where the finalizing pipeline stands tells where the URL is.
UrlFollowed ==
  \A p \in Pipes :
    /\ pipe[p].pc = "resolving" => rec[pipe[p].job].url
    /\ pipe[p].pc \in {"published", "cleaning"} => disk[pipe[p].job].url

Released(r) == r.state = "complete" \/ r.stages["cleanup"] # "waiting"

UrlBeforeRelease ==
  \A j \in Jobs : Released(rec[j]) \/ Released(disk[j]) => disk[j].url

IInv == Typed /\ UrlsKnown /\ JobsExist

FInv == IInv /\ UrlFollowed /\ UrlBeforeRelease

\* No step forgets a URL, and a job that exists goes on existing.
UrlKept(r, s) ==
  /\ r.url => s.url
  /\ s.state = "absent" => r.state = "absent" /\ s.url = r.url

Kept == (\A j \in Jobs : UrlKept(rec[j], rec'[j])) /\ disk' \in {disk, rec'}

SamePipes ==
  \A p \in Pipes : pipe'[p].pc # "free" => pipe[p].pc # "free" /\ pipe'[p].job = pipe[p].job

LEMMA CalmKept == Calm => Kept
BY DEF Calm, Kept, Harmless, UrlKept

LEMMA KeptUrls ==
  ASSUME UrlsKnown, Kept
  PROVE  UrlsKnown' /\ \A j \in Jobs : disk[j].url => disk'[j].url
BY DEF UrlsKnown, Kept, UrlKept

LEMMA KeptJobs ==
  ASSUME PipesOK, JobsExist, Kept, SamePipes \/ Continues, PipesOK'
  PROVE  JobsExist'
BY DEF PipesOK, JobsExist, Kept, UrlKept, SamePipes, Continues

\* A harmless step cannot break what the URL's whereabouts rest on.
LEMMA SteadyUrls ==
  ASSUME UrlsKnown, PipesOK, UrlFollowed, UrlBeforeRelease, Calm, Continues
  PROVE  UrlFollowed' /\ UrlBeforeRelease'
<1>1. Kept /\ UrlsKnown' /\ \A j \in Jobs : disk[j].url => disk'[j].url
  BY CalmKept, KeptUrls
<1>2. UrlFollowed'
  <2> SUFFICES ASSUME NEW p \in Pipes, pipe'[p].pc \in Publishing
               PROVE  /\ pipe'[p].pc = "resolving" => rec'[pipe'[p].job].url
                      /\ pipe'[p].pc \in {"published", "cleaning"} => disk'[pipe'[p].job].url
    BY DEF UrlFollowed, Publishing
  <2>1. pipe'[p].pc = pipe[p].pc /\ pipe'[p].job = pipe[p].job
    BY DEF Continues
  <2>2. pipe[p].job \in Jobs
    BY <2>1 DEF PipesOK, Publishing
  <2> QED
    BY <1>1, <2>1, <2>2 DEF UrlFollowed, Kept, UrlKept
<1>3. UrlBeforeRelease'
  <2> SUFFICES ASSUME NEW j \in Jobs, Released(rec'[j]) \/ Released(disk'[j])
               PROVE  disk'[j].url
    BY DEF UrlBeforeRelease
  <2>1. Released(rec'[j]) => Released(rec[j])
    BY DEF Calm, Harmless, Released
  <2>2. Released(rec[j]) \/ Released(disk[j])
    BY <2>1 DEF Calm
  <2> QED
    BY <1>1, <2>2 DEF UrlBeforeRelease
<1> QED
  BY <1>2, <1>3

-----------------------------------------------------------------------------
(* The steps that publish *)

LEMMA PutKept ==
  ASSUME RecordsOK, NEW j \in Jobs, NEW r \in JobRecords, UrlKept(rec[j], r),
         rec' = Put(j, r), disk' \in {disk, rec'}
  PROVE  /\ RecordsOK' /\ Kept
         /\ rec'[j] = r
         /\ \A i \in Jobs \ {j} : rec'[i] = rec[i]
<1>1. Put(j, r) \in [Jobs -> JobRecords]
  BY PutTyped
<1>2. \A i \in Jobs : rec'[i] = IF i = j THEN r ELSE rec[i]
  BY DEF Put, RecordsOK
<1>3. \A i \in Jobs : UrlKept(rec[i], rec'[i])
  BY <1>2 DEF UrlKept
<1> QED
  BY <1>1, <1>2, <1>3 DEF RecordsOK, Kept

LEMMA GotoSame ==
  ASSUME PipesOK, NEW p \in Pipes, NEW pc \in PipeStates \ {"free"},
         pipe[p].pc # "free", Goto(p, pc)
  PROVE  /\ PipesOK' /\ SamePipes
         /\ pipe'[p].pc = pc /\ pipe'[p].job = pipe[p].job
         /\ \A q \in Pipes \ {p} : pipe'[q] = pipe[q]
BY DEF PipesOK, Goto, Pipelines, SamePipes

\* The URL is known before anyone looks for it in the file.
LEMMA VerifiedKept ==
  ASSUME Typed, JobsExist, NEW p \in Pipes, Verified(p)
  PROVE  /\ RecordsOK' /\ PipesOK' /\ SlotsOK' /\ Kept /\ SamePipes
         /\ UrlsKnown /\ UrlFollowed /\ UrlBeforeRelease => UrlFollowed' /\ UrlBeforeRelease'
<1> USE DEF Typed
<1>1. pipe[p].pc # "free"
  BY DEF Verified, At
<1>2. Rec(p) \in JobRecords /\ Job(p) \in Jobs /\ Rec(p) = rec[Job(p)] /\ Job(p) = pipe[p].job
  BY <1>1, WorkingTyped DEF Job
<1>3. CASE FailAt(p, "finalize", "ending")
  <2>1. Steady
    BY <1>1, <1>3, FailAtSteady DEF FailureKinds, PipeStates, Publishing
  <2>2. SamePipes
    BY <1>1, <1>3, GotoSame DEF FailAt, PipeStates
  <2> QED
    BY <2>1, <2>2, CalmKept, SteadyUrls DEF Steady
<1>4. CASE /\ rec' = Put(Job(p), [Rec(p) EXCEPT !.url = TRUE])
           /\ Goto(p, "resolving") /\ UNCHANGED << disk, slots >>
  <2> DEFINE r == [Rec(p) EXCEPT !.url = TRUE]
  <2>1. r \in JobRecords /\ r.url /\ r.state = Rec(p).state /\ r.stages = Rec(p).stages
    BY <1>2 DEF JobRecords
  <2>2. UrlKept(Rec(p), r)
    BY <1>1, <1>2, <2>1 DEF UrlKept, JobsExist
  <2>3. rec' = Put(Job(p), r) /\ disk' = disk
    BY <1>4
  <2> HIDE DEF r
  <2>4. /\ RecordsOK' /\ Kept
        /\ rec'[Job(p)] = r
        /\ \A i \in Jobs \ {Job(p)} : rec'[i] = rec[i]
    BY <1>2, <2>1, <2>2, <2>3, PutKept
  <2>5. /\ PipesOK' /\ SamePipes
        /\ pipe'[p].pc = "resolving" /\ pipe'[p].job = pipe[p].job
        /\ \A q \in Pipes \ {p} : pipe'[q] = pipe[q]
    BY <1>1, <1>4, GotoSame DEF PipeStates
  <2>6. SlotsOK'
    BY <1>4, KeepSlots
  <2>7. ASSUME UrlsKnown, UrlFollowed
        PROVE  UrlFollowed'
    <3>1. \A j \in Jobs : rec[j].url => rec'[j].url
      BY <2>4 DEF Kept, UrlKept
    <3>2. \A q \in Pipes : pipe[q].pc # "free" => pipe[q].job \in Jobs
      BY DEF PipesOK
    <3> QED
      BY <1>2, <2>1, <2>3, <2>4, <2>5, <2>7, <3>1, <3>2 DEF UrlFollowed
  <2>8. UrlBeforeRelease => UrlBeforeRelease'
    BY <1>2, <2>1, <2>3, <2>4 DEF UrlBeforeRelease, Released
  <2> QED
    BY <2>4, <2>5, <2>6, <2>7, <2>8
<1> QED
  BY <1>3, <1>4 DEF Verified

\* The save that publishes.
LEMMA ResolvedKept ==
  ASSUME Typed, JobsExist, NEW p \in Pipes, Resolved(p)
  PROVE  /\ RecordsOK' /\ PipesOK' /\ SlotsOK' /\ Kept /\ SamePipes
         /\ ~DiskMayFail /\ UrlsKnown /\ UrlFollowed /\ UrlBeforeRelease
              => UrlFollowed' /\ UrlBeforeRelease'
<1> USE DEF Typed
<1>1. pipe[p].pc = "resolving" /\ pipe[p].pc # "free"
  BY DEF Resolved, At
<1>2. Rec(p) \in JobRecords /\ Job(p) \in Jobs /\ Rec(p) = rec[Job(p)] /\ Job(p) = pipe[p].job
  BY <1>1, WorkingTyped DEF Job
<1> DEFINE r == [Rec(p) EXCEPT !.stages["finalize"] = "complete"]
<1>3. /\ r \in JobRecords /\ UrlKept(Rec(p), r) /\ r.url = Rec(p).url
      /\ Released(r) => Released(Rec(p))
  BY <1>2 DEF JobRecords, StageNames, StageStates, UrlKept, Released
<1>4. /\ rec' = Put(Job(p), r) /\ disk' \in {disk, rec'}
      /\ ~DiskMayFail => disk' = rec'
  BY DEF Resolved, Save
<1> HIDE DEF r
<1>5. /\ RecordsOK' /\ Kept
      /\ rec'[Job(p)] = r
      /\ \A i \in Jobs \ {Job(p)} : rec'[i] = rec[i]
  BY <1>2, <1>3, <1>4, PutKept
<1>6. /\ PipesOK' /\ SamePipes
      /\ pipe'[p].pc = "published" /\ pipe'[p].job = pipe[p].job
      /\ \A q \in Pipes \ {p} : pipe'[q] = pipe[q]
  BY <1>1, GotoSame DEF Resolved, PipeStates
<1>7. SlotsOK'
  BY KeepSlots DEF Resolved
<1>8. ASSUME ~DiskMayFail, UrlsKnown, UrlFollowed, UrlBeforeRelease
      PROVE  UrlFollowed' /\ UrlBeforeRelease'
  <2>1. disk' = rec' /\ \A j \in Jobs : rec[j].url => rec'[j].url
    BY <1>4, <1>5, <1>8 DEF Kept, UrlKept
  <2>2. \A j \in Jobs : disk[j].url => disk'[j].url
    BY <1>5, <1>8, KeptUrls
  <2>3. \A q \in Pipes : pipe[q].pc # "free" => pipe[q].job \in Jobs
    BY DEF PipesOK
  <2>4. UrlFollowed'
    BY <1>1, <1>2, <1>6, <1>8, <2>1, <2>2, <2>3 DEF UrlFollowed
  <2>5. \A j \in Jobs : Released(rec'[j]) => Released(rec[j])
    BY <1>2, <1>3, <1>5
  <2>6. UrlBeforeRelease'
    BY <1>8, <2>1, <2>2, <2>5 DEF UrlBeforeRelease
  <2> QED
    BY <2>4, <2>6
<1> QED
  BY <1>5, <1>6, <1>7, <1>8

\* Completion and cleanup: whatever they write, the URL is in the file already.
LEMMA ReleaseKept ==
  ASSUME Typed, JobsExist, NEW p \in Pipes, Complete(p) \/ Cleanup(p)
  PROVE  /\ RecordsOK' /\ PipesOK' /\ SlotsOK' /\ Kept /\ SamePipes
         /\ UrlsKnown /\ UrlFollowed /\ UrlBeforeRelease => UrlFollowed' /\ UrlBeforeRelease'
<1> USE DEF Typed
<1>1. pipe[p].pc \in {"published", "cleaning"} /\ pipe[p].pc # "free"
  BY DEF Complete, Cleanup, At
<1>2. Rec(p) \in JobRecords /\ Job(p) \in Jobs /\ Rec(p) = rec[Job(p)] /\ Job(p) = pipe[p].job
  BY <1>1, WorkingTyped DEF Job
<1>3. PICK r \in JobRecords : UrlKept(Rec(p), r) /\ rec' = Put(Job(p), r) /\ disk' \in {disk, rec'}
  <2>1. CASE Complete(p)
    <3> DEFINE s == [Rec(p) EXCEPT !.state = "complete", !.stages["cleanup"] = "active"]
    <3>1. s \in JobRecords
      BY <1>2, StepTyped DEF JobStates, TerminalStates, StageNames, StageStates
    <3>2. UrlKept(Rec(p), s)
      BY <1>2 DEF UrlKept, JobRecords
    <3> QED
      BY <2>1, <3>1, <3>2 DEF Complete, Save
  <2>2. CASE Cleanup(p)
    <3> DEFINE s(v) == [Rec(p) EXCEPT !.stages["cleanup"] = v]
    <3>1. \A v \in {"complete", "failed"} : s(v) \in JobRecords /\ UrlKept(Rec(p), s(v))
      BY <1>2 DEF UrlKept, JobRecords, StageNames, StageStates
    <3>2. \E v \in {"complete", "failed"} : Save(Put(Job(p), s(v)))
      BY <2>2 DEF Cleanup
    <3> QED
      BY <3>1, <3>2 DEF Save
  <2> QED
    BY <2>1, <2>2
<1>4. /\ RecordsOK' /\ Kept
      /\ \A i \in Jobs \ {Job(p)} : rec'[i] = rec[i]
  BY <1>2, <1>3, PutKept
<1>5. PICK pc \in {"cleaning", "ending"} :
        /\ Goto(p, pc)
        /\ pc = "cleaning" => pipe[p].pc = "published"
  BY DEF Complete, Cleanup, At
<1>6. /\ PipesOK' /\ SamePipes
      /\ pipe'[p].pc = pc /\ pipe'[p].job = pipe[p].job
      /\ \A q \in Pipes \ {p} : pipe'[q] = pipe[q]
  BY <1>1, <1>5, GotoSame DEF PipeStates
<1>7. SlotsOK'
  BY KeepSlots DEF Complete, Cleanup
<1>8. ASSUME UrlsKnown, UrlFollowed, UrlBeforeRelease
      PROVE  UrlFollowed' /\ UrlBeforeRelease'
  <2>1. \A j \in Jobs : (rec[j].url => rec'[j].url) /\ (disk[j].url => disk'[j].url)
    BY <1>4, <1>8, KeptUrls DEF Kept, UrlKept
  <2>2. \A q \in Pipes : pipe[q].pc # "free" => pipe[q].job \in Jobs
    BY DEF PipesOK
  <2>3. UrlFollowed'
    BY <1>1, <1>2, <1>5, <1>6, <1>8, <2>1, <2>2 DEF UrlFollowed
  <2>4. disk[Job(p)].url
    BY <1>1, <1>2, <1>8 DEF UrlFollowed
  <2>5. ASSUME NEW j \in Jobs, j # Job(p), Released(rec'[j]) \/ Released(disk'[j])
        PROVE  disk[j].url
    BY <1>3, <1>4, <1>8, <2>5 DEF UrlBeforeRelease
  <2>6. UrlBeforeRelease'
    BY <1>2, <2>1, <2>4, <2>5 DEF UrlBeforeRelease
  <2> QED
    BY <2>3, <2>6
<1> QED
  BY <1>4, <1>6, <1>7, <1>8

-----------------------------------------------------------------------------
(* A new draft, and the end of a session *)

LEMMA CreateSteady ==
  ASSUME Typed, UrlsKnown, NEW j \in Jobs, NEW source \in Sources, Create(j, source)
  PROVE  Steady
<1> USE DEF Typed
<1> DEFINE r == [Absent EXCEPT !.state = "reading_metadata", !.source = source,
                               !.stages["metadata"] = "active"]
<1>1. r \in JobRecords /\ ~r.url /\ r.state # "absent" /\ ~Released(r)
  BY AbsentTyped, EngineConstants
     DEF Absent, Released, JobRecords, StageNames, StageStates, JobStates, DraftStates
<1>2. ~rec[j].url
  BY DEF UrlsKnown, Create
<1>3. Harmless(rec[j], r)
  BY <1>1, <1>2 DEF Harmless, Released
<1>4. Save(Put(j, r))
  BY DEF Create
<1>5. RecordsOK' /\ Calm
  <2> HIDE DEF r
  <2> QED
    BY <1>1, <1>3, <1>4, SavePut
<1> QED
  BY <1>5, KeepPipes, KeepSlots DEF Create, Steady

\* The sweep keeps what the file says of the URL.
LEMMA RestartSafe ==
  ASSUME Typed, UrlsKnown, Restart
  PROVE  /\ Typed' /\ UrlsKnown' /\ JobsExist'
         /\ \A j \in Jobs : disk[j].url => disk'[j].url
         /\ UrlBeforeRelease => UrlFollowed' /\ UrlBeforeRelease'
<1> USE DEF Typed
<1>1. \A j \in Jobs : Swept(disk[j]) \in JobRecords
  BY SweptTyped DEF RecordsOK
<1>2. \A j \in Jobs : /\ Swept(disk[j]).url = disk[j].url
                      /\ Swept(disk[j]).state = "absent" => disk[j].state = "absent"
                      /\ Released(Swept(disk[j])) => Released(disk[j])
  BY DEF RecordsOK, JobRecords, Swept, Released
<1>3. rec' = [j \in Jobs |-> Swept(disk[j])] /\ disk' \in {rec', disk}
  BY DEF Restart, Save
<1>4. RecordsOK'
  BY <1>1, <1>3 DEF RecordsOK
<1>5. UrlsKnown' /\ \A j \in Jobs : disk[j].url => disk'[j].url
  BY <1>2, <1>3 DEF UrlsKnown
<1>6. /\ pipe' = [p \in Pipes |-> NewPipe("free", NoJob, "run")]
      /\ \A p \in Pipes : pipe'[p].pc = "free"
  BY DEF Restart, NewPipe
<1>7. NewPipe("free", NoJob, "run") \in Pipelines
  BY NewPipeTyped DEF PipeStates
<1>8. PipesOK' /\ JobsExist' /\ UrlFollowed'
  BY <1>6, <1>7 DEF PipesOK, JobsExist, UrlFollowed
<1>9. SlotsOK' /\ CallsOK' /\ WorldOK' /\ HistoryOK'
  BY DEF Restart, SlotsOK, CallsOK, WorldOK, HistoryOK
<1>10. CommitsOK'
  BY DEF Restart, CommitsOK, Commits, IdleCommit
<1>11. UrlBeforeRelease => UrlBeforeRelease'
  BY <1>2, <1>3 DEF UrlBeforeRelease
<1> QED
  BY <1>4, <1>5, <1>8, <1>9, <1>10, <1>11

-----------------------------------------------------------------------------
(* The parts of the type invariant that few steps touch *)

LEMMA CommitsTyped ==
  ASSUME Typed, Kept, UNCHANGED commit \/ (\E c \in Requests :
           \/ \E j \in Jobs, selection \in SUBSET Files, policy \in Policies :
                CommitBegin(c, j, selection, policy)
           \/ CommitStep(c))
  PROVE  CommitsOK'
<1> USE DEF Typed
<1>1. \A j \in Jobs : rec[j].state # "absent" => rec'[j].state # "absent"
  BY DEF Kept, UrlKept
<1>2. CASE UNCHANGED commit
  BY <1>1, <1>2 DEF CommitsOK
<1>3. ASSUME NEW c \in Requests, NEW new \in Commits, commit' = [commit EXCEPT ![c] = new],
             new.pc # "idle" => new.job \in Jobs /\ rec[new.job].state # "absent"
      PROVE  CommitsOK'
  BY <1>1, <1>3 DEF CommitsOK
<1>4. ASSUME NEW c \in Requests, NEW j \in Jobs, NEW selection \in SUBSET Files,
             NEW policy \in Policies, CommitBegin(c, j, selection, policy)
      PROVE  CommitsOK'
  <2> DEFINE new == [pc |-> "preflight", job |-> j]
  <2>1. new \in Commits /\ new.job = j /\ rec[j].state # "absent"
    BY <1>4 DEF Commits, CommitBegin
  <2>2. commit' = [commit EXCEPT ![c] = new]
    BY <1>4 DEF CommitBegin
  <2> QED
    BY <1>3, <2>1, <2>2
<1>5. ASSUME NEW c \in Requests, CommitStep(c)
      PROVE  CommitsOK'
  <2>1. commit[c] \in Commits /\ commit[c].pc # "idle"
    BY <1>5 DEF CommitStep, CommitPreflight, CommitDirs, StartTransfer, CommitsOK
  <2>2. commit[c].job \in Jobs /\ rec[commit[c].job].state # "absent"
    BY <2>1 DEF CommitsOK
  <2>3. PICK new \in {IdleCommit, [commit[c] EXCEPT !.pc = "dirs"],
                      [commit[c] EXCEPT !.pc = "saving"]} :
          commit' = [commit EXCEPT ![c] = new]
    BY <1>5 DEF CommitStep, CommitPreflight, CommitDirs, StartTransfer
  <2>4. new \in Commits /\ (new.pc # "idle" => new.job = commit[c].job)
    BY <2>1, <2>3 DEF Commits, IdleCommit
  <2> QED
    BY <1>3, <2>2, <2>3, <2>4
<1> QED
  BY <1>2, <1>4, <1>5

LEMMA WorldTyped ==
  ASSUME WorldOK, PipesOK, NEW p \in Pipes, PipelineStep(p)
  PROVE  WorldOK'
<1>1. CASE UNCHANGED world
  BY <1>1 DEF WorldOK
<1>2. ASSUME NEW j \in Jobs, NEW w \in Worlds, world' = [world EXCEPT ![j] = w]
      PROVE  WorldOK'
  BY <1>2 DEF WorldOK
<1>3. \A w \in Worlds, d \in BOOLEAN : DeleteOwned(w, d) \subseteq Worlds
  BY DEF DeleteOwned, Worlds
<1>4. pipe[p].pc # "free" => Job(p) \in Jobs /\ world[Job(p)] \in Worlds
  BY DEF PipesOK, WorldOK, Job
<1>5. CASE TorrentAdded(p)
  <2> DEFINE w == [world[Job(p)] EXCEPT !.torrent = TRUE]
  <2>1. w \in Worlds /\ world' = [world EXCEPT ![Job(p)] = w] /\ Job(p) \in Jobs
    BY <1>4, <1>5 DEF TorrentAdded, At, Worlds
  <2> HIDE DEF w
  <2> QED
    BY <1>2, <2>1
<1>6. CASE PollEnds(p) \/ Fetched(p)
  <2> DEFINE w == [world[Job(p)] EXCEPT !.payload = TRUE]
  <2>1. UNCHANGED world \/ world' = [world EXCEPT ![Job(p)] = w]
    BY <1>6 DEF PollEnds, Fetched
  <2>2. w \in Worlds /\ Job(p) \in Jobs
    BY <1>4, <1>6 DEF PollEnds, Fetched, At, Worlds
  <2> HIDE DEF w
  <2> QED
    BY <1>1, <1>2, <2>1, <2>2
<1>7. CASE Dropped(p)
  <2>1. PICK w \in DeleteOwned(world[Job(p)], TRUE) : world' = [world EXCEPT ![Job(p)] = w]
    BY <1>7 DEF Dropped
  <2> QED
    BY <1>2, <1>3, <1>4, <1>7, <2>1 DEF Dropped, At
<1>8. CASE Purged(p)
  <2>1. PICK w \in IF Rec(p).hash THEN DeleteOwned(world[Job(p)], TRUE) ELSE {world[Job(p)]} :
          world' = [world EXCEPT ![Job(p)] = [w EXCEPT !.archive = @ /\ ~(Zip(Rec(p)) /\ Rec(p).zipPath)]]
    BY <1>8 DEF Purged
  <2>2. w \in Worlds /\ Job(p) \in Jobs
    BY <1>3, <1>4, <1>8, <2>1 DEF Purged, At
  <2> DEFINE v == [w EXCEPT !.archive = @ /\ ~(Zip(Rec(p)) /\ Rec(p).zipPath)]
  <2>3. v \in Worlds
    BY <2>2 DEF Worlds
  <2>4. world' = [world EXCEPT ![Job(p)] = v]
    BY <2>1
  <2> HIDE DEF v
  <2> QED
    BY <1>2, <2>2, <2>3, <2>4
<1>9. CASE ZipDone(p) \/ ZipFails(p)
  <2> DEFINE w(b) == [world[Job(p)] EXCEPT !.archive = b]
  <2>1. Job(p) \in Jobs /\ \A b \in BOOLEAN : w(b) \in Worlds
    BY <1>4, <1>9 DEF ZipDone, ZipFails, At, Worlds
  <2>2. \E b \in BOOLEAN : world' = [world EXCEPT ![Job(p)] = w(b)]
    BY <1>9 DEF ZipDone, ZipFails, PipesOK, Pipelines
  <2> HIDE DEF w
  <2> QED
    BY <1>2, <2>1, <2>2
<1>10. CASE Cleanup(p)
  <2>1. Job(p) \in Jobs /\ world[Job(p)] \in Worlds
    BY <1>4, <1>10 DEF Cleanup, At
  <2>2. PICK zipGone \in BOOLEAN, torrentGone \in BOOLEAN :
          world' = [world EXCEPT ![Job(p)] =
            [ torrent |-> @.torrent /\ ~torrentGone,
              payload |-> @.payload /\ ~(torrentGone /\ "files" \in Rec(p).policy),
              archive |-> @.archive /\ ~zipGone ]]
    BY <1>10 DEF Cleanup
  <2> DEFINE w == [ torrent |-> world[Job(p)].torrent /\ ~torrentGone,
                    payload |-> world[Job(p)].payload /\ ~(torrentGone /\ "files" \in Rec(p).policy),
                    archive |-> world[Job(p)].archive /\ ~zipGone ]
  <2>3. w \in Worlds /\ world' = [world EXCEPT ![Job(p)] = w]
    BY <2>1, <2>2 DEF Worlds
  <2> HIDE DEF w
  <2> QED
    BY <1>2, <2>1, <2>3
<1>11. \/ UNCHANGED world \/ TorrentAdded(p) \/ PollEnds(p) \/ Fetched(p) \/ Dropped(p)
       \/ Purged(p) \/ ZipDone(p) \/ ZipFails(p) \/ Cleanup(p)
  BY DEF PipelineStep, OwnStep, RemoteStep, RunRefused, RunCancelled, RunDownload, RetryRefused,
         RetryBegin, CheckInputs, AddReturns, AddThrows, ProgressSaved, PollCancelled,
         StoppedCritical, Stopped, FetchFails, Sized, ResumeAfterReset, AfterPhase, Gated,
         ZipRefused, PartialZipRemoved, UploadDone, UploadFails, Verified, Resolved, Complete, End
<1> QED
  BY <1>1, <1>5, <1>6, <1>7, <1>8, <1>9, <1>10, <1>11

-----------------------------------------------------------------------------
(* One step *)

\* What any step keeps: types, the URL's way to the file, and what the file has.
LEMMA StepSafe ==
  ASSUME IInv, [Next]_vars
  PROVE  /\ IInv'
         /\ \A j \in Jobs : disk[j].url => disk'[j].url
         /\ ~DiskMayFail /\ UrlFollowed /\ UrlBeforeRelease => UrlFollowed' /\ UrlBeforeRelease'
<1> USE DEF IInv
<1>1. ASSUME Steady, CommitsOK', CallsOK', WorldOK', HistoryOK'
      PROVE  /\ IInv'
             /\ \A j \in Jobs : disk[j].url => disk'[j].url
             /\ UrlFollowed /\ UrlBeforeRelease => UrlFollowed' /\ UrlBeforeRelease'
  <2>1. Kept /\ Typed'
    BY <1>1, CalmKept DEF Steady, Typed
  <2>2. JobsExist'
    BY <1>1, <2>1, KeptJobs DEF Steady, Typed
  <2> QED
    BY <1>1, <2>1, <2>2, KeptUrls, SteadyUrls DEF Steady, Typed
<1>2. CASE UNCHANGED vars
  <2>1. Steady
    BY <1>2, KeepRecords, KeepPipes, KeepSlots DEF vars, slots, Typed, Steady
  <2>2. CommitsOK' /\ CallsOK' /\ WorldOK' /\ HistoryOK'
    BY <1>2 DEF vars, calls, Typed, CommitsOK, CallsOK, WorldOK, HistoryOK
  <2> QED
    BY <1>1, <2>1, <2>2
<1>3. ASSUME NEW j \in Jobs, NEW source \in Sources, Create(j, source)
      PROVE  Steady /\ CommitsOK' /\ CallsOK' /\ WorldOK' /\ HistoryOK'
  <2>1. Steady
    BY <1>3, CreateSteady
  <2>2. CommitsOK'
    BY <1>3, <2>1, CalmKept, CommitsTyped DEF Create, Steady
  <2> QED
    BY <1>3, <2>1, <2>2 DEF Create, Typed, CallsOK, WorldOK, HistoryOK
<1>4. CASE \/ \E j \in Jobs : MetadataResult(j)
           \/ \E c \in Requests, j \in Jobs, selection \in SUBSET Files, policy \in Policies :
                CommitBegin(c, j, selection, policy)
           \/ \E c \in Requests : CommitStep(c)
  <2>1. Steady
    BY <1>4, RequestsSteady
  <2>2. CommitsOK'
    <3>1. CASE \E j \in Jobs : MetadataResult(j)
      BY <2>1, <3>1, CalmKept, CommitsTyped DEF MetadataResult, Steady
    <3> QED
      BY <1>4, <2>1, <3>1, CalmKept, CommitsTyped DEF Steady
  <2>3. CallsOK' /\ WorldOK' /\ HistoryOK'
    BY <1>4 DEF MetadataResult, CommitBegin, CommitStep, CommitPreflight, CommitDirs,
                StartTransfer, Typed, CallsOK, WorldOK, HistoryOK
  <2> QED
    BY <1>1, <2>1, <2>2, <2>3
<1>5. CASE \/ \E j \in Jobs, cleanup \in BOOLEAN : Cancel(j, cleanup)
           \/ \E j \in Jobs, how \in DOMAIN RetriedKind : Resume(j, how)
           \/ \E j \in Jobs : DiscardBegin(j) \/ DiscardEnd(j)
  <2>1. Steady
    BY <1>5, ControlSteady
  <2>2. CommitsOK'
    BY <1>5, <2>1, CalmKept, CommitsTyped DEF Cancel, Resume, DiscardBegin, DiscardEnd, calls, Steady
  <2>3. CallsOK'
    BY <1>5 DEF Cancel, Resume, DiscardBegin, DiscardEnd, calls, Typed, CallsOK
  <2>4. HistoryOK'
    BY <1>5 DEF Cancel, Resume, DiscardBegin, DiscardEnd, Typed, HistoryOK
  <2>5. WorldOK'
    <3>1. CASE \E j \in Jobs : DiscardEnd(j)
      <4>1. PICK j \in Jobs : DiscardEnd(j)
        BY <3>1
      <4>2. \A w \in Worlds : DeleteOwned(w, TRUE) \subseteq Worlds
        BY DEF DeleteOwned, Worlds
      <4>3. PICK w \in Worlds :
              world' = [world EXCEPT ![j] =
                IF rec[j].dirs THEN [w EXCEPT !.payload = FALSE, !.archive = FALSE] ELSE w]
        BY <4>1, <4>2 DEF DiscardEnd, Typed, WorldOK
      <4>4. [w EXCEPT !.payload = FALSE, !.archive = FALSE] \in Worlds
        BY DEF Worlds
      <4> QED
        BY <4>3, <4>4 DEF Typed, WorldOK
    <3> QED
      BY <1>5, <3>1 DEF Cancel, Resume, DiscardBegin, Typed, WorldOK
  <2> QED
    BY <1>1, <2>1, <2>2, <2>3, <2>4, <2>5
<1>6. CASE \E p \in Pipes : PipelineStep(p)
  <2>1. PICK p \in Pipes : PipelineStep(p)
    BY <1>6
  <2>2. WorldOK' /\ CallsOK' /\ HistoryOK'
    <3>1. CallsOK' /\ HistoryOK'
      BY <2>1 DEF PipelineStep, calls, Typed, CallsOK, HistoryOK
    <3> QED
      BY <2>1, <3>1, WorldTyped DEF Typed
  <2>3. UNCHANGED commit
    BY <2>1 DEF PipelineStep, calls
  <2>4. CASE Steady
    BY <1>1, <2>2, <2>3, <2>4, CalmKept, CommitsTyped DEF Steady
  <2>5. CASE Verified(p) \/ Resolved(p) \/ Complete(p) \/ Cleanup(p)
    <3>1. /\ RecordsOK' /\ PipesOK' /\ SlotsOK' /\ Kept /\ SamePipes
          /\ ~DiskMayFail /\ UrlFollowed /\ UrlBeforeRelease => UrlFollowed' /\ UrlBeforeRelease'
      BY <2>5, VerifiedKept, ResolvedKept, ReleaseKept
    <3>2. CommitsOK'
      BY <2>3, <3>1, CommitsTyped
    <3>3. JobsExist'
      BY <3>1, KeptJobs DEF Typed
    <3> QED
      BY <2>2, <3>1, <3>2, <3>3, KeptUrls DEF Typed
  <2>6. Steady \/ Verified(p) \/ Resolved(p) \/ Complete(p) \/ Cleanup(p)
    BY <2>1, StartOfLinkSteady, TorrentSteady, PhasesSteady
       DEF PipelineStep, OwnStep, RemoteStep, Typed
  <2> QED
    BY <2>4, <2>5, <2>6
<1>7. CASE Restart
  BY <1>7, RestartSafe
<1>8. \/ \E j \in Jobs, source \in Sources : Create(j, source)
      \/ \E j \in Jobs : MetadataResult(j)
      \/ \E c \in Requests, j \in Jobs, selection \in SUBSET Files, policy \in Policies :
           CommitBegin(c, j, selection, policy)
      \/ \E c \in Requests : CommitStep(c)
      \/ \E j \in Jobs, cleanup \in BOOLEAN : Cancel(j, cleanup)
      \/ \E j \in Jobs, how \in DOMAIN RetriedKind : Resume(j, how)
      \/ \E j \in Jobs : DiscardBegin(j) \/ DiscardEnd(j)
      \/ \E p \in Pipes : PipelineStep(p)
      \/ Restart
      \/ UNCHANGED vars
  BY DEF Next, UserStep
<1> QED
  BY <1>1, <1>2, <1>3, <1>4, <1>5, <1>6, <1>7, <1>8

LEMMA InitSafe == Init => FInv
<1> SUFFICES ASSUME Init
             PROVE  FInv
  OBVIOUS
<1>1. \A j \in Jobs : rec[j] = Absent /\ disk[j] = Absent
  BY DEF Init
<1>2. RecordsOK
  BY AbsentTyped DEF Init, RecordsOK
<1>3. PipesOK /\ JobsExist /\ UrlFollowed
  <2>1. NewPipe("free", NoJob, "run") \in Pipelines
    BY NewPipeTyped DEF PipeStates
  <2>2. \A p \in Pipes : pipe[p].pc = "free"
    BY DEF Init, NewPipe
  <2> QED
    BY <2>1, <2>2 DEF Init, PipesOK, JobsExist, UrlFollowed
<1>4. SlotsOK /\ CallsOK /\ WorldOK /\ HistoryOK /\ CommitsOK
  BY DEF Init, SlotsOK, CallsOK, WorldOK, Worlds, HistoryOK, CommitsOK, Commits, IdleCommit
<1>5. UrlsKnown /\ UrlBeforeRelease
  BY <1>1 DEF UrlsKnown, UrlBeforeRelease, Released, Absent, StageNames
<1> QED
  BY <1>2, <1>3, <1>4, <1>5 DEF FInv, IInv, Typed

-----------------------------------------------------------------------------
(* Theorems *)

LEMMA Inductive == Spec => []IInv
<1>1. Init => IInv
  BY InitSafe DEF FInv
<1>2. IInv /\ [Next]_vars => IInv'
  BY StepSafe
<1> QED
  BY <1>1, <1>2, PTL DEF Spec

\* Every variable keeps its type, whatever the number of jobs, requests,
\* pipelines and restarts: engine.ts and pipeline.ts write nothing else.
THEOREM Typing == Spec => []TypeOK
<1>1. IInv => TypeOK
  BY DEF IInv, Typed, TypeOK, RecordsOK, PipesOK, SlotsOK, CommitsOK, CallsOK, WorldOK, HistoryOK
<1> QED
  BY <1>1, Inductive, PTL

\* A URL that reached the history file is never lost again, whether or not later
\* flushes fail and however often the process restarts (json-repository.ts, startupSweep).
THEOREM UrlSurvives == Spec => UrlNeverLost
<1>1. IInv /\ [Next]_vars => [\A j \in Jobs : disk[j].url => disk'[j].url]_vars
  BY StepSafe
<1> QED
  BY <1>1, Inductive, PTL DEF Spec, UrlNeverLost

\* "Persist the final URL/hash BEFORE any destructive cleanup" (pipeline.ts) holds as
\* long as flushes of the history file succeed, with any number of racing requests.
THEOREM UrlFirst ==
  ASSUME ~DiskMayFail
  PROVE  Spec => []UrlBeforeCleanup
<1>1. Init => FInv
  BY InitSafe
<1>2. FInv /\ [Next]_vars => FInv'
  BY StepSafe DEF FInv
<1>3. FInv => UrlBeforeCleanup
  BY DEF FInv, UrlBeforeRelease, Released, UrlBeforeCleanup
<1> QED
  BY <1>1, <1>2, <1>3, PTL DEF Spec

-----------------------------------------------------------------------------
(* The promise chain: transfers execute one at a time, and the slots that     *)
(* refuse other transfers are released with their pipeline.                   *)

\* A link starts only after every earlier one is done, and joins only behind them.
ChainOrder ==
  \A p, q \in Pipes :
    q < p => /\ pipe[p].pc # "free" => pipe[q].pc # "free"
             /\ pipe[p].pc \notin {"free", "waiting"} => pipe[q].pc = "done"

CInv == ChainOrder /\ SlotsReleased

-----------------------------------------------------------------------------
(* What a step can do to the chain *)

Others(p) == \A q \in Pipes \ {p} : pipe'[q].pc = pipe[q].pc /\ pipe'[q].job = pipe[q].job

Keeps == UNCHANGED slots
Takes(p) == active' = pipe'[p].job /\ live' = p

\* The link at the head of the chain goes on.
Moves(p) ==
  /\ Ready(p) \/ Executing(p)
  /\ pipe'[p].pc \notin {"free", "waiting", "done"} /\ pipe'[p].job = pipe[p].job
  /\ Others(p)
  /\ Keeps \/ Takes(p)

\* A new link joins the end.
Joins(p) ==
  /\ NextPipe(p)
  /\ pipe'[p].pc = "waiting"
  /\ Others(p)
  /\ Keeps \/ (Takes(p) /\ pipe'[p].job # NoJob)

\* The link at the head is over; it takes no slot with it.
Leaves(p) ==
  /\ Ready(p) \/ Executing(p)
  /\ pipe'[p].pc = "done" /\ pipe'[p].job = pipe[p].job
  /\ Others(p)
  /\ active' \in {NoJob, active} /\ (active' = NoJob \/ active' # pipe[p].job)
  /\ live' \in {0, live} /\ live' # p

Rests ==
  /\ Keeps
  /\ \A p \in Pipes : pipe'[p].pc = pipe[p].pc /\ pipe'[p].job = pipe[p].job

-----------------------------------------------------------------------------
(* Which of these the steps are *)

LEMMA GotoMoves ==
  ASSUME PipesOK, NEW p \in Pipes, Ready(p) \/ Executing(p),
         NEW pc \in PipeStates \ {"free", "waiting", "done"}, Goto(p, pc), UNCHANGED slots
  PROVE  Moves(p)
BY DEF PipesOK, Pipelines, Goto, Moves, Others, Keeps

LEMMA SettleLeaves ==
  ASSUME PipesOK, SlotsOK, NEW p \in Pipes, Ready(p) \/ Executing(p), Settle(p)
  PROVE  Leaves(p)
<1>1. /\ pipe'[p].pc = "done" /\ pipe'[p].job = pipe[p].job
      /\ Others(p)
  BY DEF Settle, NewPipe, PipesOK, Others
<1>2. p # 0
  BY EngineConstants DEF Pipes
<1> QED
  BY <1>1, <1>2 DEF Settle, Leaves, Job

LEMMA ThrowInChain ==
  ASSUME PipesOK, SlotsOK, NEW p \in Pipes, Executing(p), Throw(p)
  PROVE  Moves(p) \/ Leaves(p)
BY GotoMoves, SettleLeaves DEF Throw, PipeStates

LEMMA CancelOutMoves ==
  ASSUME PipesOK, NEW p \in Pipes, Executing(p), CancelOut(p)
  PROVE  Moves(p)
BY GotoMoves DEF CancelOut, FinishCancel, PipeStates

LEMMA BeginMoves ==
  ASSUME PipesOK, NEW p \in Pipes, Executing(p), BeginZip(p) \/ BeginUpload(p) \/ BeginFinalize(p)
  PROVE  Moves(p)
BY GotoMoves DEF BeginZip, BeginUpload, BeginFinalize, FailAt, PipeStates

\* A pipeline's own step moves it, or ends it with its slots released.
LEMMA PipelineInChain ==
  ASSUME PipesOK, SlotsOK, NEW p \in Pipes, PipelineStep(p)
  PROVE  Rests \/ Moves(p) \/ Leaves(p)
<1> DEFINE Head == Ready(p) \/ Executing(p)
           Goes(pc) == Goto(p, pc) /\ UNCHANGED slots
<1>1. ASSUME Head, NEW pc \in PipeStates \ {"free", "waiting", "done"}, Goes(pc)
      PROVE  Moves(p)
  BY <1>1, GotoMoves
<1>2. ASSUME Head, Settle(p)
      PROVE  Leaves(p)
  BY <1>2, SettleLeaves
<1>3. CASE RunRefused(p) \/ RunCancelled(p) \/ RunDownload(p)
  <2>1. Ready(p) /\ (Settle(p) \/ Goes("ending") \/ Goes("fetching") \/ Goes("adding"))
    BY <1>3 DEF RunRefused, RunCancelled, RunDownload, FinishCancel
  <2> HIDE DEF Goes
  <2> QED
    BY <1>1, <1>2, <2>1 DEF PipeStates
<1>4. CASE RetryRefused(p)
  <2>1. /\ pipe'[p].pc = "done" /\ pipe'[p].job = pipe[p].job
        /\ Others(p)
    BY <1>4 DEF RetryRefused, NewPipe, PipesOK, Others
  <2>2. p # 0
    BY EngineConstants DEF Pipes
  <2> QED
    BY <1>4, <2>1, <2>2 DEF RetryRefused, Leaves
<1>5. CASE RetryBegin(p)
  <2>1. PICK pc \in {"checking", "reset"} : Goto(p, pc)
    BY <1>5 DEF RetryBegin
  <2>2. /\ pipe'[p].pc = pc /\ pipe'[p].job = pipe[p].job
        /\ Others(p)
    BY <2>1 DEF Goto, PipesOK, Pipelines, Others
  <2> QED
    BY <1>5, <2>1, <2>2 DEF RetryBegin, Moves, Takes, Job
<1>6. CASE CheckInputs(p) \/ ZipRefused(p) \/ End(p)
  <2>1. Executing(p) /\ (Settle(p) \/ Goes("reset"))
    BY <1>6 DEF CheckInputs, ZipRefused, End, At, Executing
  <2> HIDE DEF Goes
  <2> QED
    BY <1>1, <1>2, <2>1 DEF PipeStates
<1>7. CASE TorrentAdded(p)
  BY <1>7 DEF TorrentAdded, At, Executing, PipesOK, Pipelines, Moves, Others, Keeps
<1>8. CASE AddReturns(p) \/ PollCancelled(p) \/ StoppedCritical(p) \/ Dropped(p) \/ Stopped(p)
           \/ Purged(p) \/ FetchFails(p) \/ ZipFails(p)
           \/ Verified(p) \/ Resolved(p) \/ Complete(p) \/ Cleanup(p)
  <2>1. Executing(p)
    BY <1>8 DEF AddReturns, PollCancelled, StoppedCritical, Dropped, Stopped, Purged, FetchFails,
                ZipFails, Verified, Resolved, Complete, Cleanup, At, Executing
  <2>2. \E pc \in {"polling", "dropping", "downloaded", "uploaded", "unzipping", "resolving",
                   "ending", "published", "cleaning"} : Goes(pc)
    BY <1>8 DEF AddReturns, PollCancelled, StoppedCritical, Dropped, Stopped, Purged, FetchFails,
                ZipFails, Verified, Resolved, Complete, Cleanup, FailAt, FinishCancel
  <2> HIDE DEF Goes
  <2> QED
    BY <1>1, <2>1, <2>2 DEF PipeStates
<1>9. CASE ProgressSaved(p)
  BY <1>9 DEF ProgressSaved, Rests, Keeps
<1>10. CASE AddThrows(p) \/ PollEnds(p) \/ Sized(p)
  <2>1. Executing(p)
    BY <1>10 DEF AddThrows, PollEnds, Sized, At, Executing
  <2>2. \/ Throw(p)
        \/ \E pc \in {"critical", "dropping", "stopping", "downloaded"} : Goes(pc)
    BY <1>10 DEF AddThrows, PollEnds, Sized, FailAt
  <2> HIDE DEF Goes
  <2> QED
    BY <1>1, <2>1, <2>2, ThrowInChain DEF PipeStates
<1>11. CASE Fetched(p) \/ PartialZipRemoved(p) \/ UploadFails(p) \/ ZipDone(p)
  <2>1. Executing(p)
    BY <1>11 DEF Fetched, PartialZipRemoved, UploadFails, ZipDone, At, Executing
  <2>2. CancelOut(p) \/ \E pc \in {"sizing", "zipped", "uploaded"} : Goes(pc)
    BY <1>11 DEF Fetched, PartialZipRemoved, UploadFails, ZipDone, FailAt, FinishCancel
  <2> HIDE DEF Goes
  <2> QED
    BY <1>1, <2>1, <2>2, CancelOutMoves DEF PipeStates
<1>12. CASE UploadDone(p)
  <2>1. Executing(p)
    BY <1>12 DEF UploadDone, At, Executing
  <2>2. CASE CancelOut(p)
    BY <2>1, <2>2, CancelOutMoves
  <2>3. CASE /\ pipe' = [pipe EXCEPT ![p].pc = "uploaded", ![p].uploaded = TRUE]
             /\ UNCHANGED slots
    BY <2>1, <2>3 DEF PipesOK, Pipelines, Moves, Others, Keeps
  <2> QED
    BY <1>12, <2>2, <2>3 DEF UploadDone
<1>13. CASE ResumeAfterReset(p) \/ AfterPhase(p) \/ Gated(p)
  <2>1. Executing(p)
    BY <1>13 DEF ResumeAfterReset, AfterPhase, Gated, At, Executing
  <2>2. \/ Settle(p) \/ BeginZip(p) \/ BeginUpload(p) \/ BeginFinalize(p)
        \/ \E pc \in {"gating", "gated", "zipped"} : Goes(pc)
    BY <1>13 DEF ResumeAfterReset, AfterPhase, Gated, FailAt
  <2> HIDE DEF Goes
  <2> QED
    BY <1>1, <1>2, <2>1, <2>2, BeginMoves DEF PipeStates
<1> QED
  BY <1>3, <1>4, <1>5, <1>6, <1>7, <1>8, <1>9, <1>10, <1>11, <1>12, <1>13
     DEF PipelineStep, OwnStep, RemoteStep

LEMMA NextInChain ==
  ASSUME IInv, [Next]_vars
  PROVE  Restart \/ Rests \/ \E p \in Pipes : Moves(p) \/ Joins(p) \/ Leaves(p)
<1> USE DEF IInv, Typed
<1>1. CASE \E p \in Pipes : PipelineStep(p)
  BY <1>1, PipelineInChain
<1>2. ASSUME NEW c \in Requests, NEW p \in Pipes, StartTransfer(c, p)
      PROVE  Joins(p)
  BY <1>2, EngineConstants
     DEF StartTransfer, Joins, Others, Takes, NewPipe, PipesOK, CommitsOK
<1>3. ASSUME NEW j \in Jobs, NEW how \in DOMAIN RetriedKind, Resume(j, how)
      PROVE  \E p \in Pipes : Joins(p)
  <2>1. PICK p \in Pipes : NextPipe(p) /\ pipe' = [pipe EXCEPT ![p] = NewPipe("waiting", j, how)]
    BY <1>3 DEF Resume
  <2> QED
    BY <1>3, <2>1 DEF Resume, Joins, Others, Keeps, NewPipe, PipesOK
<1>4. ASSUME NEW j \in Jobs, NEW cleanup \in BOOLEAN, Cancel(j, cleanup)
      PROVE  Rests
  <2>1. CASE pipe' = pipe
    BY <1>4, <2>1 DEF Cancel, Rests, Keeps
  <2>2. CASE CancelLive(j, cleanup)
    BY <1>4, <2>2 DEF Cancel, CancelLive, Rests, Keeps, PipesOK, Pipelines
  <2> QED
    BY <1>4, <2>1, <2>2 DEF Cancel, CancelDraft
<1>5. CASE UNCHANGED << pipe, slots >>
  BY <1>5 DEF Rests, Keeps
<1>6. \/ \E p \in Pipes : PipelineStep(p)
      \/ \E c \in Requests, p \in Pipes : StartTransfer(c, p)
      \/ \E j \in Jobs, how \in DOMAIN RetriedKind : Resume(j, how)
      \/ \E j \in Jobs, cleanup \in BOOLEAN : Cancel(j, cleanup)
      \/ Restart
      \/ UNCHANGED << pipe, slots >>
  <2>1. CASE UserStep
    BY <2>1 DEF UserStep, Create, CommitBegin, DiscardBegin, slots
  <2>2. CASE \E j \in Jobs : MetadataResult(j) \/ DiscardEnd(j)
    BY <2>2 DEF MetadataResult, DiscardEnd, slots
  <2>3. CASE \E c \in Requests : CommitStep(c)
    BY <2>3 DEF CommitStep, CommitPreflight, CommitDirs, slots
  <2>4. CASE UNCHANGED vars
    BY <2>4 DEF vars, slots
  <2> QED
    BY <2>1, <2>2, <2>3, <2>4 DEF Next
<1> QED
  BY <1>1, <1>2, <1>3, <1>4, <1>5, <1>6

-----------------------------------------------------------------------------
(* The chain stays in order *)

LEMMA OrderKept ==
  ASSUME ChainOrder, Rests \/ \E p \in Pipes : Moves(p) \/ Joins(p) \/ Leaves(p)
  PROVE  ChainOrder'
<1>1. CASE Rests
  BY <1>1 DEF Rests, ChainOrder
<1>2. ASSUME NEW p \in Pipes, Moves(p) \/ Leaves(p)
      PROVE  ChainOrder'
  <2>1. pipe[p].pc \notin {"free", "done"} /\ pipe'[p].pc \notin {"free", "waiting"}
    BY <1>2 DEF Moves, Leaves, Ready, Executing
  <2>2. \A q \in Pipes : q < p => pipe[q].pc = "done"
    BY <1>2, EngineConstants DEF Moves, Leaves, Ready, Executing, ChainOrder, Pipes
  <2>3. \A q \in Pipes \ {p} : pipe'[q].pc = pipe[q].pc
    BY <1>2 DEF Moves, Leaves, Others
  <2>4. \A q \in Pipes : p < q => pipe[q].pc \in {"free", "waiting"}
    BY <2>1 DEF ChainOrder
  <2> QED
    BY <2>1, <2>2, <2>3, <2>4, EngineConstants DEF ChainOrder, Pipes
<1>3. ASSUME NEW p \in Pipes, Joins(p)
      PROVE  ChainOrder'
  <2>1. /\ pipe[p].pc = "free" /\ pipe'[p].pc = "waiting"
        /\ \A q \in Pipes : q < p => pipe[q].pc # "free"
    BY <1>3, EngineConstants DEF Joins, NextPipe, Pipes
  <2>2. \A q \in Pipes \ {p} : pipe'[q].pc = pipe[q].pc
    BY <1>3 DEF Joins, Others
  <2>3. \A q \in Pipes : p < q => pipe[q].pc = "free"
    BY <2>1 DEF ChainOrder
  <2> QED
    BY <2>1, <2>2, <2>3, EngineConstants DEF ChainOrder, Pipes
<1> QED
  BY <1>1, <1>2, <1>3

\* A slot is held only by, or for, a pipeline that is not over.
LEMMA SlotsKept ==
  ASSUME SlotsOK, SlotsReleased, Rests \/ \E p \in Pipes : Moves(p) \/ Joins(p) \/ Leaves(p)
  PROVE  SlotsReleased'
<1>1. CASE Rests
  BY <1>1 DEF Rests, Keeps, slots, SlotsReleased, SlotsOK
<1>2. ASSUME NEW p \in Pipes, Moves(p) \/ Joins(p)
      PROVE  SlotsReleased'
  <2>1. /\ pipe'[p].pc \notin {"free", "done"}
        /\ \A q \in Pipes \ {p} : pipe'[q].pc = pipe[q].pc /\ pipe'[q].job = pipe[q].job
        /\ Keeps \/ Takes(p)
        /\ pipe[p].pc = "free" \/ pipe'[p].job = pipe[p].job
    BY <1>2 DEF Moves, Joins, Others, NextPipe
  <2> QED
    BY <2>1 DEF Keeps, Takes, slots, SlotsReleased, SlotsOK
<1>3. ASSUME NEW p \in Pipes, Leaves(p)
      PROVE  SlotsReleased'
  BY <1>3 DEF Leaves, Others, SlotsReleased, SlotsOK
<1> QED
  BY <1>1, <1>2, <1>3

LEMMA ChainInductive == Spec => []CInv
<1>1. Init => CInv
  BY DEF Init, CInv, ChainOrder, SlotsReleased, NewPipe
<1>2. IInv /\ CInv /\ [Next]_vars => CInv'
  <2> SUFFICES ASSUME IInv, CInv, [Next]_vars
               PROVE  CInv'
    OBVIOUS
  <2>1. CASE Restart
    BY <2>1 DEF Restart, CInv, ChainOrder, SlotsReleased, NewPipe
  <2> QED
    BY <2>1, NextInChain, OrderKept, SlotsKept DEF CInv, IInv, Typed
<1> QED
  BY <1>1, <1>2, Inductive, PTL DEF Spec

-----------------------------------------------------------------------------
(* Theorems *)

\* The promise chain of engine.ts serialises transfers, however many Starts and
\* retries race to join it.
THEOREM Serialised == Spec => []OneAtATime
<1>1. CInv => OneAtATime
  BY DEF CInv, ChainOrder, OneAtATime
<1> QED
  BY <1>1, ChainInductive, PTL

\* #activeTransferJobId and #activePipeline never outlive the transfers they stand
\* for: no failure, refusal or cancel leaves the engine refusing every Start.
THEOREM Unblocked == Spec => []SlotsReleased
<1>1. CInv => SlotsReleased
  BY DEF CInv
<1> QED
  BY <1>1, ChainInductive, PTL

-----------------------------------------------------------------------------
(* The promise to the users: the payload is kept, and the engine implements   *)
(* Delivery.  It leans on the history file, so flushes must succeed: a flush  *)
(* that fails is swallowed (json-repository.ts).                              *)

\* Whoever drops data does so for a user who asked.
Asking ==
  /\ \A p \in Pipes :
       /\ pipe[p].cancelled => pipe[p].pc # "free" /\ "cancel" \in asked[pipe[p].job]
       /\ pipe[p].pc \in {"dropping", "purging"} => pipe[p].cancelled
  /\ \A j \in discard : "discard" \in asked[j]

Excused(j) == disk[j].url \/ asked[j] # {}

\* Files go on the record only while they are there.
Held ==
  /\ \A p \in Pipes :
       pipe[p].pc \in {"stopping", "sizing"} =>
         world[pipe[p].job].payload \/ Excused(pipe[p].job)
  /\ \A j \in Jobs :
       rec[j].files # {} \/ disk[j].files # {} => world[j].payload \/ Excused(j)

\* Only the pipeline that resolves a URL knows one the file does not have.
UrlPending ==
  \A j \in Jobs : rec[j].url /\ ~disk[j].url =>
    \E p \in Pipes : pipe[p].pc = "resolving" /\ pipe[p].job = j

DInv == Asking /\ Held /\ UrlPending

-----------------------------------------------------------------------------
(* What a step of a pipeline does to its marks *)

Marks(p) ==
  /\ \A q \in Pipes \ {p} : pipe'[q] = pipe[q]
  /\ pipe[p].pc # "free" /\ pipe'[p].pc # "free" /\ pipe'[p].job = pipe[p].job
  /\ pipe'[p].cancelled => pipe[p].cancelled
  /\ pipe'[p].pc \in {"dropping", "purging"} => pipe'[p].cancelled
  /\ pipe'[p].pc \in {"stopping", "sizing"} => world'[Job(p)].payload
  /\ pipe'[p].pc = "resolving" => Verified(p)
  /\ pipe[p].pc = "resolving" => Resolved(p)

\* The awaits that nothing is said about.
Plain == PipeStates \ {"free", "dropping", "purging", "stopping", "sizing", "resolving"}

LEMMA GotoMarks ==
  ASSUME PipesOK, NEW p \in Pipes, pipe[p].pc \notin {"free", "resolving"},
         NEW pc \in Plain, Goto(p, pc)
  PROVE  Marks(p)
BY DEF PipesOK, Pipelines, Goto, Marks, Plain

LEMMA SettleMarks ==
  ASSUME PipesOK, NEW p \in Pipes, pipe[p].pc \notin {"free", "resolving"}, Settle(p)
  PROVE  Marks(p)
BY DEF PipesOK, Pipelines, Settle, NewPipe, Marks

LEMMA CancelOutMarks ==
  ASSUME PipesOK, NEW p \in Pipes, pipe[p].pc \notin {"free", "resolving"},
         pipe[p].cancelled, CancelOut(p)
  PROVE  Marks(p)
<1>1. CASE FinishCancel(p, "uploaded")
  BY <1>1, GotoMarks DEF FinishCancel, Plain, PipeStates
<1>2. CASE Goto(p, "purging")
  BY <1>2 DEF PipesOK, Pipelines, Goto, Marks
<1> QED
  BY <1>1, <1>2 DEF CancelOut

LEMMA StepMarks ==
  ASSUME PipesOK, WorldOK, NEW p \in Pipes, PipelineStep(p), ~ProgressSaved(p)
  PROVE  Marks(p)
<1> DEFINE Starts == pipe[p].pc \notin {"free", "resolving"}
           Goes(pc) == Goto(p, pc)
<1>1. ASSUME Starts, NEW pc \in Plain, Goes(pc)
      PROVE  Marks(p)
  BY <1>1, GotoMarks
<1>2. CASE RunRefused(p) \/ RunCancelled(p) \/ RunDownload(p)
  <2>1. Starts /\ (Settle(p) \/ Goes("ending") \/ Goes("fetching") \/ Goes("adding"))
    BY <1>2 DEF RunRefused, RunCancelled, RunDownload, FinishCancel, Ready
  <2> HIDE DEF Goes
  <2> QED
    BY <1>1, <2>1, SettleMarks DEF Plain, PipeStates
<1>3. CASE RetryRefused(p)
  BY <1>3 DEF RetryRefused, NewPipe, PipesOK, Marks, Ready
<1>4. CASE RetryBegin(p) \/ CheckInputs(p) \/ ZipRefused(p) \/ End(p)
  <2>1. Starts /\ (Settle(p) \/ Goes("checking") \/ Goes("reset"))
    BY <1>4 DEF RetryBegin, CheckInputs, ZipRefused, End, At, Ready
  <2> HIDE DEF Goes
  <2> QED
    BY <1>1, <2>1, SettleMarks DEF Plain, PipeStates
<1>5. CASE TorrentAdded(p)
  BY <1>5 DEF TorrentAdded, At, PipesOK, Pipelines, Marks
<1>6. CASE AddReturns(p) \/ StoppedCritical(p) \/ Dropped(p) \/ Stopped(p) \/ Purged(p)
           \/ FetchFails(p) \/ ZipFails(p) \/ Complete(p) \/ Cleanup(p)
  <2>1. Starts
    BY <1>6 DEF AddReturns, StoppedCritical, Dropped, Stopped, Purged, FetchFails,
                ZipFails, Complete, Cleanup, At
  <2>2. \E pc \in {"polling", "downloaded", "uploaded", "unzipping", "ending", "cleaning"} : Goes(pc)
    BY <1>6 DEF AddReturns, StoppedCritical, Dropped, Stopped, Purged, FetchFails,
                ZipFails, Complete, Cleanup, FailAt, FinishCancel
  <2> HIDE DEF Goes
  <2> QED
    BY <1>1, <2>1, <2>2 DEF Plain, PipeStates
<1>7. CASE PollCancelled(p)
  BY <1>7 DEF PollCancelled, Goto, At, PipesOK, Pipelines, Marks
<1>8. CASE Verified(p)
  <2>1. pipe[p].pc = "verifying"
    BY <1>8 DEF Verified, At
  <2>2. CASE Goto(p, "resolving")
    BY <1>8, <2>1, <2>2 DEF Goto, PipesOK, Pipelines, Marks
  <2>3. CASE Goto(p, "ending")
    BY <2>1, <2>3, GotoMarks DEF Plain, PipeStates
  <2> QED
    BY <1>8, <2>2, <2>3 DEF Verified, FailAt
<1>9. CASE Resolved(p)
  BY <1>9 DEF Resolved, Goto, At, PipesOK, Pipelines, Marks
<1>10. CASE AddThrows(p)
  <2>1. Starts /\ (Settle(p) \/ Goes("ending"))
    BY <1>10 DEF AddThrows, Throw, At
  <2> HIDE DEF Goes
  <2> QED
    BY <1>1, <2>1, SettleMarks DEF Plain, PipeStates
<1>11. CASE PollEnds(p)
  <2>1. pipe[p].pc = "polling"
    BY <1>11 DEF PollEnds, At
  <2>2. CASE Settle(p) \/ Goes("ending") \/ Goes("downloaded") \/ Goes("critical")
    <3> HIDE DEF Goes
    <3> QED
      BY <1>1, <2>1, <2>2, SettleMarks DEF Plain, PipeStates
  <2>3. CASE /\ Goto(p, IF pipe[p].cancelled THEN "dropping" ELSE "stopping")
             /\ world' = [world EXCEPT ![Job(p)].payload = TRUE]
    <3>1. world'[Job(p)].payload
      BY <2>1, <2>3 DEF WorldOK, Worlds, PipesOK, Job
    <3> QED
      BY <2>1, <2>3, <3>1 DEF Goto, PipesOK, Pipelines, Marks
  <2> QED
    BY <1>11, <2>2, <2>3 DEF PollEnds, FailAt, Throw
<1>12. CASE Fetched(p)
  <2>1. pipe[p].pc = "fetching" /\ Job(p) \in Jobs
    BY <1>12 DEF Fetched, At, PipesOK, Job
  <2>2. world'[Job(p)].payload
    BY <1>12, <2>1 DEF Fetched, WorldOK, Worlds
  <2>3. CASE Goto(p, "sizing")
    BY <2>1, <2>2, <2>3 DEF Goto, PipesOK, Pipelines, Marks
  <2> QED
    BY <1>12, <2>1, <2>3, CancelOutMarks DEF Fetched
<1>13. CASE Sized(p)
  <2>1. Starts /\ (Settle(p) \/ Goes("ending") \/ Goes("downloaded"))
    BY <1>13 DEF Sized, Throw, At
  <2> HIDE DEF Goes
  <2> QED
    BY <1>1, <2>1, SettleMarks DEF Plain, PipeStates
<1>14. CASE ResumeAfterReset(p) \/ AfterPhase(p) \/ Gated(p)
  <2>1. Starts
    BY <1>14 DEF ResumeAfterReset, AfterPhase, Gated, At
  <2>2. \/ Settle(p)
        \/ \E pc \in {"zipping", "uploaded", "uploading", "verifying", "gating", "zipped", "gated"} : Goes(pc)
    BY <1>14 DEF ResumeAfterReset, AfterPhase, Gated, FailAt, BeginZip, BeginUpload, BeginFinalize
  <2> HIDE DEF Goes
  <2> QED
    BY <1>1, <2>1, <2>2, SettleMarks DEF Plain, PipeStates
<1>15. CASE ZipDone(p) \/ PartialZipRemoved(p) \/ UploadFails(p)
  <2>1. Starts
    BY <1>15 DEF ZipDone, PartialZipRemoved, UploadFails, At
  <2>2. \/ pipe[p].cancelled /\ CancelOut(p)
        \/ \E pc \in {"zipped", "uploaded"} : Goes(pc)
    BY <1>15 DEF ZipDone, PartialZipRemoved, UploadFails, FailAt, FinishCancel
  <2> HIDE DEF Goes
  <2> QED
    BY <1>1, <2>1, <2>2, CancelOutMarks DEF Plain, PipeStates
<1>16. CASE UploadDone(p)
  <2>1. pipe[p].pc = "uploading"
    BY <1>16 DEF UploadDone, At
  <2>2. CASE pipe' = [pipe EXCEPT ![p].pc = "uploaded", ![p].uploaded = TRUE]
    BY <2>1, <2>2 DEF PipesOK, Pipelines, Marks
  <2> QED
    BY <1>16, <2>1, <2>2, CancelOutMarks DEF UploadDone
<1> QED
  BY <1>2, <1>3, <1>4, <1>5, <1>6, <1>7, <1>8, <1>9, <1>10, <1>11, <1>12, <1>13, <1>14, <1>15, <1>16
     DEF PipelineStep, OwnStep, RemoteStep

-----------------------------------------------------------------------------
(* What a step does to the user's requests, the payload and the file *)

LEMMA AskedGrows ==
  ASSUME Typed, [Next]_vars, NEW j \in Jobs
  PROVE  asked[j] \subseteq asked'[j]
<1>1. CASE UNCHANGED asked
  BY <1>1
<1>2. ASSUME NEW i \in Jobs, NEW what \in {"cancel", "discard"},
             asked' = [asked EXCEPT ![i] = @ \cup {what}]
      PROVE  asked[j] \subseteq asked'[j]
  BY <1>2 DEF Typed, HistoryOK
<1>3. CASE UserStep
  BY <1>1, <1>2, <1>3 DEF UserStep, Create, CommitBegin, Cancel, Resume, DiscardBegin
<1>4. CASE ~UserStep
  BY <1>1, <1>4 DEF Next, vars, MetadataResult, DiscardEnd, CommitStep, CommitPreflight, CommitDirs,
                    StartTransfer, PipelineStep, Restart
<1> QED
  BY <1>3, <1>4

\* The steps of a pipeline that touch what is outside the process.
LEMMA WorldSteps ==
  ASSUME Typed, NEW p \in Pipes, PipelineStep(p), world' # world
  PROVE  /\ Executing(p) /\ Job(p) \in Jobs
         /\ \A i \in Jobs : i # Job(p) => world'[i] = world[i]
         /\ world[Job(p)].payload /\ ~world'[Job(p)].payload =>
              Dropped(p) \/ Purged(p) \/ Cleanup(p)
<1>1. \/ TorrentAdded(p) \/ PollEnds(p) \/ Dropped(p) \/ Purged(p) \/ Fetched(p)
      \/ ZipDone(p) \/ ZipFails(p) \/ Cleanup(p)
  BY DEF PipelineStep, OwnStep, RemoteStep, RunRefused, RunCancelled, RunDownload, RetryRefused,
         RetryBegin, CheckInputs, AddReturns, AddThrows, ProgressSaved, PollCancelled,
         StoppedCritical, Stopped, FetchFails, Sized, ResumeAfterReset, AfterPhase, Gated,
         ZipRefused, PartialZipRemoved, UploadDone, UploadFails, Verified, Resolved, Complete, End
<1>2. Executing(p) /\ Job(p) \in Jobs
  BY <1>1 DEF TorrentAdded, PollEnds, Dropped, Purged, Fetched, ZipDone, ZipFails, Cleanup,
              At, Executing, Typed, PipesOK, Job
<1>3. PICK w : world' = [world EXCEPT ![Job(p)] = w]
  BY <1>1 DEF TorrentAdded, PollEnds, Dropped, Purged, Fetched, ZipDone, ZipFails, Cleanup
<1>4. \A i \in Jobs : i # Job(p) => world'[i] = world[i]
  BY <1>3 DEF Typed, WorldOK
<1>5. CASE TorrentAdded(p) \/ PollEnds(p) \/ Fetched(p) \/ ZipDone(p) \/ ZipFails(p)
  BY <1>2, <1>5 DEF TorrentAdded, PollEnds, Fetched, ZipDone, ZipFails, Typed, WorldOK, Worlds
<1> QED
  BY <1>1, <1>2, <1>4, <1>5

\* Downloaded files go only after their URL is in the file or the user asked.
LEMMA PayloadLost ==
  ASSUME Typed, UrlFollowed, Asking, [Next]_vars, NEW j \in Jobs,
         world[j].payload, ~world'[j].payload
  PROVE  Excused(j)
<1>1. ASSUME NEW p \in Pipes, PipelineStep(p)
      PROVE  Excused(j)
  <2>1. Job(p) = j /\ (Dropped(p) \/ Purged(p) \/ Cleanup(p))
    BY <1>1, WorldSteps
  <2>2. CASE Dropped(p) \/ Purged(p)
    BY <2>1, <2>2 DEF Dropped, Purged, At, Asking, Excused, Job
  <2>3. CASE Cleanup(p)
    BY <2>1, <2>3 DEF Cleanup, At, UrlFollowed, Excused, Job
  <2> QED
    BY <2>1, <2>2, <2>3
<1>2. ASSUME NEW i \in Jobs, DiscardEnd(i)
      PROVE  Excused(j)
  <2>1. i = j
    BY <1>2 DEF DiscardEnd, Typed, WorldOK
  <2> QED
    BY <1>2, <2>1 DEF DiscardEnd, Asking, Excused
<1>3. CASE UNCHANGED world
  BY <1>3
<1> QED
  BY <1>1, <1>2, <1>3 DEF Next, UserStep, Create, CommitBegin, Cancel, Resume, DiscardBegin,
     MetadataResult, CommitStep, CommitPreflight, CommitDirs, StartTransfer, Restart, vars

\* Only the job's own transfer brings files.
LEMMA PayloadFound ==
  ASSUME Typed, [Next]_vars, NEW j \in Jobs, ~world[j].payload, world'[j].payload
  PROVE  \E p \in Pipes : pipe[p].job = j /\ Executing(p)
<1>1. ASSUME NEW p \in Pipes, PipelineStep(p)
      PROVE  pipe[p].job = j /\ Executing(p)
  BY <1>1, WorldSteps DEF Job
<1>2. ASSUME NEW i \in Jobs, DiscardEnd(i)
      PROVE  FALSE
  <2>1. PICK w \in DeleteOwned(world[i], TRUE) \cup {world[i]} :
          world' = [world EXCEPT ![i] =
            IF rec[i].dirs THEN [w EXCEPT !.payload = FALSE, !.archive = FALSE] ELSE w]
    BY <1>2 DEF DiscardEnd
  <2>2. i = j
    BY <2>1 DEF Typed, WorldOK
  <2>3. world[j] \in Worlds /\ w \in DeleteOwned(world[j], TRUE) \cup {world[j]}
    BY <2>1, <2>2 DEF Typed, WorldOK
  <2>4. ~w.payload /\ w \in Worlds
    BY <2>3 DEF DeleteOwned, Worlds
  <2> QED
    BY <2>1, <2>2, <2>4 DEF Typed, WorldOK, Worlds
<1>3. CASE UNCHANGED world
  BY <1>3
<1> QED
  BY <1>1, <1>2, <1>3 DEF Next, UserStep, Create, CommitBegin, Cancel, Resume, DiscardBegin,
     MetadataResult, CommitStep, CommitPreflight, CommitDirs, StartTransfer, Restart, vars

Silent == disk' = disk /\ \A j \in Jobs : rec'[j].url => rec[j].url

\* When flushes succeed a step brings all of memory to the file or tells it no new URL.
LEMMA FlushedOrSilent ==
  ASSUME ~DiskMayFail, Typed, [Next]_vars
  PROVE  disk' = rec' \/ Silent \/ \E p \in Pipes : PipelineStep(p) /\ Verified(p)
<1> DEFINE Flushed == \E records : Save(records)
<1>1. Flushed => disk' = rec'
  BY DEF Save
<1>2. UNCHANGED << rec, disk >> => Silent
  BY DEF Silent
<1>3. ASSUME NEW j \in Jobs, NEW r \in JobRecords, rec' = Put(j, r), disk' = disk,
             r.url => rec[j].url
      PROVE  Silent
  BY <1>3 DEF Put, Silent, Typed, RecordsOK
<1>4. CASE UserStep
  <2>1. ASSUME NEW c \in Requests, NEW j \in Jobs, NEW selection \in SUBSET Files,
               NEW policy \in Policies, CommitBegin(c, j, selection, policy)
        PROVE  Silent
    <3> DEFINE r == [rec[j] EXCEPT !.selection = selection, !.policy = policy,
                                   !.stages["preflight"] = "active"]
    <3>0. rec[j] \in JobRecords /\ policy \in SUBSET Artifacts
      BY EngineConstants DEF Typed, RecordsOK
    <3>1. r \in JobRecords /\ r.url = rec[j].url
      BY <3>0 DEF JobRecords, StageNames, StageStates
    <3>2. rec' = Put(j, r) /\ disk' = disk
      BY <2>1 DEF CommitBegin
    <3> HIDE DEF r
    <3> QED
      BY <1>3, <3>1, <3>2
  <2>2. ASSUME NEW j \in Jobs, NEW source \in Sources, Create(j, source)
        PROVE  Flushed
    BY <2>2 DEF Create
  <2>3. ASSUME NEW j \in Jobs, NEW cleanup \in BOOLEAN, Cancel(j, cleanup)
        PROVE  Flushed \/ UNCHANGED << rec, disk >>
    BY <2>3 DEF Cancel, CancelLive, CancelDraft
  <2>4. ASSUME NEW j \in Jobs, DiscardBegin(j) \/ \E how \in DOMAIN RetriedKind : Resume(j, how)
        PROVE  UNCHANGED << rec, disk >>
    BY <2>4 DEF DiscardBegin, Resume
  <2> HIDE DEF Flushed
  <2> QED
    BY <1>1, <1>2, <1>4, <2>1, <2>2, <2>3, <2>4 DEF UserStep
<1>5. CASE \E j \in Jobs : MetadataResult(j) \/ DiscardEnd(j)
  <2>1. Flushed \/ UNCHANGED << rec, disk >>
    BY <1>5 DEF MetadataResult, DiscardEnd
  <2> QED
    BY <1>1, <1>2, <2>1
<1>6. ASSUME NEW c \in Requests, CommitStep(c)
      PROVE  disk' = rec' \/ Silent
  <2>1. CASE CommitDirs(c) \/ \E p \in Pipes : StartTransfer(c, p)
    <3>1. Flushed \/ UNCHANGED << rec, disk >>
      BY <2>1 DEF CommitDirs, StartTransfer
    <3> QED
      BY <1>1, <1>2, <3>1
  <2>2. CASE CommitPreflight(c)
    <3> DEFINE j == commit[c].job
               r == [rec[j] EXCEPT !.stages["preflight"] = "complete"]
    <3>1. j \in Jobs /\ rec[j] \in JobRecords
      BY <2>2 DEF CommitPreflight, Typed, CommitsOK, RecordsOK
    <3>2. r \in JobRecords /\ r.url = rec[j].url
      BY <3>1 DEF JobRecords, StageNames, StageStates
    <3>3. Flushed \/ (rec' = Put(j, r) /\ disk' = disk)
      BY <2>2 DEF CommitPreflight
    <3> HIDE DEF r, j
    <3> QED
      BY <1>1, <1>3, <3>1, <3>2, <3>3
  <2> QED
    BY <1>6, <2>1, <2>2 DEF CommitStep
<1>7. ASSUME NEW p \in Pipes, PipelineStep(p), ~Verified(p)
      PROVE  disk' = rec' \/ Silent
  <2>1. CASE AddReturns(p)
    <3> DEFINE r == [Rec(p) EXCEPT !.hash = TRUE]
    <3>1. Job(p) \in Jobs /\ Rec(p) = rec[Job(p)] /\ Rec(p) \in JobRecords
      BY <2>1, WorkingTyped DEF AddReturns, At, Typed
    <3>2. r \in JobRecords /\ r.url = rec[Job(p)].url
      BY <3>1 DEF JobRecords
    <3>3. rec' = Put(Job(p), r) /\ disk' = disk
      BY <2>1 DEF AddReturns
    <3> HIDE DEF r
    <3> QED
      BY <1>3, <3>1, <3>2, <3>3
  <2>2. CASE ~AddReturns(p)
    <3>1. Flushed \/ UNCHANGED << rec, disk >>
      BY <1>7, <2>2
         DEF PipelineStep, OwnStep, RemoteStep, RunRefused, RunCancelled, RunDownload, RetryRefused,
             RetryBegin, CheckInputs, TorrentAdded, AddThrows, ProgressSaved, PollCancelled, PollEnds,
             StoppedCritical, Dropped, Stopped, Purged, Fetched, FetchFails, Sized, ResumeAfterReset,
             AfterPhase, Gated, ZipRefused, ZipDone, ZipFails, PartialZipRemoved, UploadDone,
             UploadFails, Resolved, Complete, Cleanup, End, Throw, FailAt, FinishCancel, CancelOut,
             BeginZip, BeginUpload, BeginFinalize
    <3> QED
      BY <1>1, <1>2, <3>1
  <2> QED
    BY <2>1, <2>2
<1>8. CASE Restart
  BY <1>1, <1>8 DEF Restart
<1>9. CASE UNCHANGED vars
  BY <1>2, <1>9 DEF vars
<1> HIDE DEF Flushed
<1> QED
  BY <1>4, <1>5, <1>6, <1>7, <1>8, <1>9 DEF Next

-----------------------------------------------------------------------------
(* Steps that are not a pipeline's *)

\* They move no pipeline, but a restart frees all and a new one begins to wait.
LEMMA Elsewhere ==
  ASSUME Typed, [Next]_vars, ~ \E p \in Pipes : PipelineStep(p), NEW q \in Pipes
  PROVE  \/ pipe'[q].pc = pipe[q].pc /\ pipe'[q].job = pipe[q].job
         \/ Restart /\ pipe'[q].pc = "free"
         \/ pipe[q].pc = "free" /\ pipe'[q].pc = "waiting"
<1>1. CASE UNCHANGED pipe
  BY <1>1
<1>2. CASE Restart
  BY <1>2 DEF Restart, NewPipe
<1>3. ASSUME NEW p \in Pipes, NextPipe(p), NEW j, NEW how,
             pipe' = [pipe EXCEPT ![p] = NewPipe("waiting", j, how)]
      PROVE  \/ pipe'[q].pc = pipe[q].pc /\ pipe'[q].job = pipe[q].job
             \/ pipe[q].pc = "free" /\ pipe'[q].pc = "waiting"
  BY <1>3 DEF NextPipe, NewPipe, Typed, PipesOK
<1>4. ASSUME NEW j \in Jobs, NEW cleanup \in BOOLEAN, CancelLive(j, cleanup)
      PROVE  pipe'[q].pc = pipe[q].pc /\ pipe'[q].job = pipe[q].job
  BY <1>4 DEF CancelLive, LiveFor, Typed, PipesOK, Pipelines, SlotsOK
<1>5. ASSUME NEW j \in Jobs, NEW how \in DOMAIN RetriedKind, Resume(j, how)
      PROVE  \/ pipe'[q].pc = pipe[q].pc /\ pipe'[q].job = pipe[q].job
             \/ pipe[q].pc = "free" /\ pipe'[q].pc = "waiting"
  BY <1>3, <1>5 DEF Resume
<1>6. ASSUME NEW c \in Requests, NEW p \in Pipes, StartTransfer(c, p)
      PROVE  \/ pipe'[q].pc = pipe[q].pc /\ pipe'[q].job = pipe[q].job
             \/ pipe[q].pc = "free" /\ pipe'[q].pc = "waiting"
  BY <1>3, <1>6 DEF StartTransfer
<1>7. ASSUME NEW j \in Jobs, NEW cleanup \in BOOLEAN, Cancel(j, cleanup)
      PROVE  pipe'[q].pc = pipe[q].pc /\ pipe'[q].job = pipe[q].job
  BY <1>1, <1>4, <1>7 DEF Cancel, CancelDraft
<1>8. CASE UserStep
  <2>1. \/ UNCHANGED pipe
        \/ \E j \in Jobs, how \in DOMAIN RetriedKind : Resume(j, how)
        \/ \E j \in Jobs, cleanup \in BOOLEAN : Cancel(j, cleanup)
    BY <1>8 DEF UserStep, Create, CommitBegin, DiscardBegin
  <2> QED
    BY <1>5, <1>7, <2>1
<1>9. CASE \/ \E j \in Jobs : MetadataResult(j) \/ DiscardEnd(j)
           \/ \E c \in Requests : CommitStep(c)
           \/ UNCHANGED vars
  <2>1. UNCHANGED pipe \/ \E c \in Requests, p \in Pipes : StartTransfer(c, p)
    BY <1>9 DEF MetadataResult, DiscardEnd, CommitStep, CommitPreflight, CommitDirs, vars
  <2> QED
    BY <1>6, <2>1
<1> QED
  BY <1>2, <1>8, <1>9 DEF Next

-----------------------------------------------------------------------------
(* Asking *)

LEMMA AskingInit == Init => Asking
BY DEF Init, Asking, NewPipe

LEMMA AskingStep ==
  ASSUME Typed, SlotsReleased, Asking, [Next]_vars
  PROVE  Asking'
<1>1. \A j \in Jobs : asked[j] \subseteq asked'[j]
  BY AskedGrows
<1>2. \A p \in Pipes : pipe[p].pc # "free" => pipe[p].job \in Jobs
  BY DEF Typed, PipesOK
<1>3. CASE UNCHANGED << pipe, discard >>
  BY <1>1, <1>2, <1>3 DEF Asking, Typed, CallsOK
<1>4. ASSUME NEW p \in Pipes, PipelineStep(p)
      PROVE  Asking'
  <2>1. CASE ProgressSaved(p)
    BY <1>3, <1>4, <2>1 DEF ProgressSaved, PipelineStep, calls
  <2>2. CASE Marks(p)
    BY <1>2, <1>4, <2>2 DEF Marks, Asking, PipelineStep, calls
  <2> QED
    BY <1>4, <2>1, <2>2, StepMarks DEF Typed
<1>5. ASSUME NEW p \in Pipes, NEW j \in Jobs, NEW how,
             pipe' = [pipe EXCEPT ![p] = NewPipe("waiting", j, how)], UNCHANGED << discard, asked >>
      PROVE  Asking'
  BY <1>5 DEF NewPipe, Asking, Typed, PipesOK
<1>6. ASSUME NEW j \in Jobs, NEW cleanup \in BOOLEAN, Cancel(j, cleanup)
      PROVE  Asking'
  <2>1. "cancel" \in asked'[j] /\ UNCHANGED discard
    BY <1>6 DEF Cancel, calls, Typed, HistoryOK
  <2>2. CASE CancelLive(j, cleanup)
    <3>1. live \in Pipes /\ pipe[live].job = j
      BY <2>2 DEF CancelLive, LiveFor, Job, Typed, SlotsOK
    <3>2. /\ \A q \in Pipes \ {live} : pipe'[q] = pipe[q]
          /\ pipe'[live].cancelled /\ pipe'[live].pc = pipe[live].pc /\ pipe'[live].job = j
      BY <2>2, <3>1 DEF CancelLive, Typed, PipesOK, Pipelines
    <3>3. pipe[live].pc # "free"
      BY <3>1, EngineConstants DEF SlotsReleased, Pipes
    <3> QED
      BY <1>1, <1>2, <2>1, <3>1, <3>2, <3>3 DEF Asking, Typed, CallsOK
  <2> QED
    BY <1>3, <1>6, <2>1, <2>2 DEF Cancel, CancelDraft
<1>7. ASSUME NEW j \in Jobs, DiscardBegin(j) \/ DiscardEnd(j)
      PROVE  Asking'
  <2>1. UNCHANGED pipe /\ (discard' \subseteq discard \/ (discard' = discard \cup {j} /\ "discard" \in asked'[j]))
    BY <1>7 DEF DiscardBegin, DiscardEnd, Typed, HistoryOK
  <2> QED
    BY <1>1, <1>2, <2>1 DEF Asking, Typed, CallsOK
<1>8. CASE Restart
  BY <1>8 DEF Restart, Asking, NewPipe
<1>9. ASSUME NEW j \in Jobs, NEW how \in DOMAIN RetriedKind, Resume(j, how)
      PROVE  Asking'
  BY <1>5, <1>9 DEF Resume, calls
<1>10. ASSUME NEW c \in Requests, NEW p \in Pipes, StartTransfer(c, p)
      PROVE  Asking'
  BY <1>5, <1>10 DEF StartTransfer, Typed, CommitsOK
<1> QED
  BY <1>3, <1>4, <1>6, <1>7, <1>8, <1>9, <1>10
     DEF Next, UserStep, Create, CommitBegin, MetadataResult, CommitStep, CommitPreflight, CommitDirs,
         vars, calls

-----------------------------------------------------------------------------
(* Held: where the files of a record come from *)

LEMMA FileSaved ==
  ASSUME ~DiskMayFail, Typed, [Next]_vars
  PROVE  disk' \in {disk, rec'}
<1>1. ASSUME NEW p \in Pipes, Verified(p)
      PROVE  disk' \in {disk, rec'}
  BY <1>1 DEF Verified, FailAt, Save
<1> QED
  BY <1>1, FlushedOrSilent DEF Silent

\* What is downloaded and what is published.
Same(r, s) == s.files = r.files /\ s.url = r.url

Intact == \A j \in Jobs : Same(rec[j], rec'[j])

\* What was downloaded is recorded by Stopped and Sized, the URL by Verified.
LEMMA IntactStep ==
  ASSUME Typed, NEW p \in Pipes, PipelineStep(p), ~Stopped(p), ~Sized(p), ~Verified(p)
  PROVE  Intact
<1>1. UNCHANGED rec => Intact
  BY DEF Intact, Same
<1>2. ASSUME NEW r, Same(Rec(p), r), rec' = Put(Job(p), r)
      PROVE  Intact
  BY <1>2 DEF Intact, Same, Put, Rec, Job, Typed, RecordsOK
<1>3. pipe[p].pc # "free" => Rec(p) \in JobRecords
  BY WorkingTyped DEF Typed
<1>4. ASSUME NEW k \in FailureKinds, NEW pc, FailAt(p, k, pc), pipe[p].pc # "free"
      PROVE  Intact
  <2>1. Same(Rec(p), Fail(Rec(p), k))
    BY <1>3, <1>4 DEF Fail, JobRecords, Same
  <2> QED
    BY <1>2, <1>4, <2>1 DEF FailAt, Save
<1>5. ASSUME NEW pc, FinishCancel(p, pc), pipe[p].pc # "free"
      PROVE  Intact
  <2>1. Same(Rec(p), Cancelled(Rec(p)))
    BY <1>3, <1>5 DEF Cancelled, JobRecords, Same
  <2> QED
    BY <1>2, <1>5, <2>1 DEF FinishCancel, Save
<1>6. ASSUME Throw(p), pipe[p].pc # "free"
      PROVE  Intact
  <2>1. Same(Rec(p), Unexpected(Rec(p)))
    BY <1>3, <1>6 DEF Unexpected, JobRecords, Same
  <2> QED
    BY <1>1, <1>2, <1>6, <2>1 DEF Throw, Save
<1>7. ASSUME CancelOut(p), pipe[p].pc # "free"
      PROVE  Intact
  BY <1>1, <1>5, <1>7 DEF CancelOut
<1>8. ASSUME BeginZip(p) \/ BeginUpload(p) \/ BeginFinalize(p), pipe[p].pc # "free"
      PROVE  Intact
  <2>1. ASSUME NEW st \in JobStates, NEW stage \in StageNames,
               rec' = Put(Job(p), [Rec(p) EXCEPT !.state = st, !.stages[stage] = "active"])
        PROVE  Intact
    <3>1. Same(Rec(p), [Rec(p) EXCEPT !.state = st, !.stages[stage] = "active"])
      BY <1>3, <1>8 DEF JobRecords, Same
    <3> QED
      BY <1>2, <2>1, <3>1
  <2> QED
    BY <1>4, <1>8, <2>1 DEF BeginZip, BeginUpload, BeginFinalize, Save, FailureKinds, JobStates, BusyStates,
       StageNames
<1>9. CASE RunRefused(p) \/ RetryRefused(p) \/ TorrentAdded(p) \/ ProgressSaved(p) \/ PollCancelled(p)
           \/ ZipRefused(p) \/ ZipFails(p) \/ End(p)
  BY <1>1, <1>9 DEF RunRefused, RetryRefused, TorrentAdded, ProgressSaved, PollCancelled,
     ZipRefused, ZipFails, End, Save
<1>10. CASE RunCancelled(p) \/ Dropped(p) \/ Purged(p)
  BY <1>5, <1>10 DEF RunCancelled, Dropped, Purged, Ready, At
<1>11. CASE RunDownload(p) \/ RetryBegin(p) \/ CheckInputs(p)
  <2>1. Rec(p) \in JobRecords
    BY <1>3, <1>11 DEF RunDownload, RetryBegin, CheckInputs, Ready, At
  <2>2. Same(Rec(p), Reset(Rec(p)))
    BY <2>1 DEF Reset, JobRecords, Same
  <2>3. Same(Rec(p), [Rec(p) EXCEPT !.state = "downloading", !.stages["download"] = "active"])
    BY <2>1 DEF JobRecords, Same
  <2> QED
    BY <1>1, <1>2, <1>11, <2>2, <2>3 DEF RunDownload, RetryBegin, CheckInputs, Save
<1>12. CASE AddReturns(p)
  <2>1. Rec(p) \in JobRecords /\ pipe[p].pc # "free"
    BY <1>3, <1>12 DEF AddReturns, At
  <2>2. Same(Rec(p), [Rec(p) EXCEPT !.hash = TRUE])
    BY <2>1 DEF JobRecords, Same
  <2> QED
    BY <1>2, <1>12, <2>2 DEF AddReturns
<1>13. CASE AddThrows(p) \/ PollEnds(p) \/ StoppedCritical(p) \/ FetchFails(p)
  BY <1>1, <1>4, <1>6, <1>13 DEF AddThrows, PollEnds, StoppedCritical, FetchFails, At, Save, FailureKinds
<1>14. CASE Fetched(p) \/ PartialZipRemoved(p) \/ UploadFails(p)
  BY <1>1, <1>4, <1>7, <1>14 DEF Fetched, PartialZipRemoved, UploadFails, At, FailureKinds
<1>15. CASE UploadDone(p) \/ ZipDone(p)
  <2>1. Rec(p) \in JobRecords /\ pipe[p].pc # "free"
    BY <1>3, <1>15 DEF UploadDone, ZipDone, At
  <2>2. /\ Same(Rec(p), [Rec(p) EXCEPT !.stages["upload"] = "complete"])
        /\ Same(Rec(p), [Rec(p) EXCEPT !.zipPath = TRUE, !.stages["packaging"] = "complete"])
    BY <2>1 DEF JobRecords, Same
  <2> QED
    BY <1>2, <1>5, <1>7, <1>15, <2>1, <2>2 DEF UploadDone, ZipDone, Save
<1>16. CASE ResumeAfterReset(p) \/ AfterPhase(p) \/ Gated(p)
  <2>1. Rec(p) \in JobRecords /\ pipe[p].pc # "free"
    BY <1>3, <1>16 DEF ResumeAfterReset, AfterPhase, Gated, At
  <2>2. Same(Rec(p), [Rec(p) EXCEPT !.stages["packaging"] = "skipped"])
    BY <2>1 DEF JobRecords, Same
  <2> QED
    BY <1>1, <1>2, <1>4, <1>8, <1>16, <2>1, <2>2 DEF ResumeAfterReset, AfterPhase, Gated, Save, FailureKinds
<1>17. CASE Resolved(p) \/ Complete(p) \/ Cleanup(p)
  <2>1. Rec(p) \in JobRecords
    BY <1>3, <1>17 DEF Resolved, Complete, Cleanup, At
  <2>2. /\ Same(Rec(p), [Rec(p) EXCEPT !.stages["finalize"] = "complete"])
        /\ Same(Rec(p), [Rec(p) EXCEPT !.state = "complete", !.stages["cleanup"] = "active"])
        /\ \A v : Same(Rec(p), [Rec(p) EXCEPT !.stages["cleanup"] = v])
    BY <2>1 DEF JobRecords, Same
  <2> QED
    BY <1>2, <1>17, <2>2 DEF Resolved, Complete, Cleanup, Save
<1> QED
  BY <1>9, <1>10, <1>11, <1>12, <1>13, <1>14, <1>15, <1>16, <1>17 DEF PipelineStep, OwnStep, RemoteStep


\* Files and URL of a record were in memory or in the file before, or its own
\* transfer has just obtained them.
LEMMA Origin ==
  ASSUME Typed, [Next]_vars, NEW j \in Jobs
  PROVE  \/ Same(rec[j], rec'[j]) \/ Same(disk[j], rec'[j])
         \/ rec'[j].files = {} /\ ~rec'[j].url
         \/ \E p \in Pipes : /\ pipe[p].pc \in {"stopping", "sizing"} /\ pipe[p].job = j
                             /\ rec'[j].url = rec[j].url
         \/ \E p \in Pipes : /\ pipe[p].pc = "verifying" /\ pipe[p].job = j
                             /\ rec'[j].files = rec[j].files
<1>0. \A i \in Jobs : rec[i] \in JobRecords
  BY DEF Typed, RecordsOK
<1>1. CASE Intact
  BY <1>1 DEF Intact
<1>2. ASSUME NEW i \in Jobs, NEW r, Same(rec[i], r), rec' = Put(i, r)
      PROVE  Same(rec[j], rec'[j])
  BY <1>2 DEF Put, Typed, RecordsOK, Same
<1>3. CASE UNCHANGED rec
  BY <1>3 DEF Same
<1>4. ASSUME NEW p \in Pipes, Stopped(p) \/ Sized(p)
      PROVE  /\ pipe[p].pc \in {"stopping", "sizing"}
             /\ \A i \in Jobs \ {Job(p)} : rec'[i] = rec[i]
             /\ rec'[Job(p)].url = rec[Job(p)].url
  <2> DEFINE s == [Rec(p) EXCEPT !.stages["download"] = "complete"]
             a == [s EXCEPT !.files = pipe[p].added, !.direct = @ \/ ~Zip(s),
                            !.stages["packaging"] = IF Zip(s) THEN @ ELSE "skipped"]
             b == [Rec(p) EXCEPT !.stages["download"] = "complete", !.files = {0},
                                 !.direct = TRUE, !.stages["packaging"] = "skipped"]
  <2>1. pipe[p].pc \in {"stopping", "sizing"}
    BY <1>4 DEF Stopped, Sized, At
  <2>2. Job(p) \in Jobs /\ Rec(p) \in JobRecords /\ Rec(p) = rec[Job(p)]
    BY <2>1, WorkingTyped DEF Typed
  <2>3. s \in JobRecords /\ s.url = Rec(p).url
    BY <2>2 DEF JobRecords, StageNames, StageStates
  <2>4. a.url = s.url /\ b.url = Rec(p).url /\ Fail(s, "download").url = s.url
    BY <2>2, <2>3 DEF JobRecords, Fail
  <2>5. Unexpected(Rec(p)).url = Rec(p).url
    BY <2>2 DEF JobRecords, Unexpected
  <2>6. \/ rec' = rec
        \/ rec' = Put(Job(p), a) \/ rec' = Put(Job(p), b)
        \/ rec' = Put(Job(p), Fail(s, "download")) \/ rec' = Put(Job(p), Unexpected(Rec(p)))
    BY <1>4 DEF Stopped, Sized, Throw, Save
  <2>7. PICK r : r.url = Rec(p).url /\ (rec' = rec \/ rec' = Put(Job(p), r))
    <3> HIDE DEF s, a, b
    <3> QED
      BY <2>3, <2>4, <2>5, <2>6
  <2> QED
    BY <2>1, <2>2, <2>7 DEF Put, Typed, RecordsOK
<1>5. ASSUME NEW p \in Pipes, Verified(p)
      PROVE  /\ pipe[p].pc = "verifying"
             /\ \A i \in Jobs \ {Job(p)} : rec'[i] = rec[i]
             /\ rec'[Job(p)].files = rec[Job(p)].files
  <2>1. pipe[p].pc = "verifying"
    BY <1>5 DEF Verified, At
  <2>2. Job(p) \in Jobs /\ Rec(p) \in JobRecords /\ Rec(p) = rec[Job(p)]
    BY <2>1, WorkingTyped DEF Typed
  <2>3. /\ [Rec(p) EXCEPT !.url = TRUE].files = Rec(p).files
        /\ Fail(Rec(p), "finalize").files = Rec(p).files
    BY <2>2 DEF JobRecords, Fail
  <2>4. PICK r : r.files = Rec(p).files /\ rec' = Put(Job(p), r)
    BY <1>5, <2>3 DEF Verified, FailAt, Save
  <2> QED
    BY <2>1, <2>2, <2>4 DEF Put, Typed, RecordsOK
<1>6. ASSUME NEW p \in Pipes, PipelineStep(p), ~Intact
      PROVE  \/ Same(rec[j], rec'[j])
             \/ /\ pipe[p].pc \in {"stopping", "sizing"} /\ pipe[p].job = j
                /\ rec'[j].url = rec[j].url
             \/ /\ pipe[p].pc = "verifying" /\ pipe[p].job = j
                /\ rec'[j].files = rec[j].files
  <2>1. Stopped(p) \/ Sized(p) \/ Verified(p)
    BY <1>6, IntactStep
  <2> QED
    BY <1>4, <1>5, <2>1 DEF Same, Job
<1>7. CASE Restart
  <2>1. rec'[j] = Swept(disk[j]) /\ disk[j] \in JobRecords
    BY <1>7 DEF Restart, Save, Typed, RecordsOK
  <2> QED
    BY <2>1 DEF Swept, JobRecords, Same
<1>8. ASSUME NEW i \in Jobs, NEW source \in Sources, Create(i, source)
      PROVE  Same(rec[j], rec'[j]) \/ (rec'[j].files = {} /\ ~rec'[j].url)
  <2> DEFINE r == [Absent EXCEPT !.state = "reading_metadata", !.source = source,
                                 !.stages["metadata"] = "active"]
  <2>1. r.files = {} /\ ~r.url /\ rec' = Put(i, r)
    BY <1>8 DEF Create, Save, Absent
  <2> HIDE DEF r
  <2> QED
    BY <2>1 DEF Same, Put, Typed, RecordsOK
<1>9. ASSUME NEW i \in Jobs, NEW cleanup \in BOOLEAN, Cancel(i, cleanup)
      PROVE  Same(rec[j], rec'[j])
  <2>1. Same(rec[i], Cancelled(rec[i]))
    BY <1>0 DEF Cancelled, JobRecords, Same
  <2>2. rec' = rec \/ rec' = Put(i, Cancelled(rec[i]))
    BY <1>9 DEF Cancel, CancelLive, CancelDraft, Save
  <2> QED
    BY <1>2, <1>3, <2>1, <2>2 DEF Same
<1>10. ASSUME NEW i \in Jobs, MetadataResult(i)
       PROVE  Same(rec[j], rec'[j])
  <2> DEFINE r == [rec[i] EXCEPT !.state = "awaiting_selection", !.stages["metadata"] = "complete",
                                 !.stages["selection"] = "waiting"]
  <2>1. Same(rec[i], Fail(rec[i], "metadata")) /\ Same(rec[i], r)
    BY <1>0 DEF Fail, JobRecords, Same
  <2>2. rec' = rec \/ rec' = Put(i, Fail(rec[i], "metadata")) \/ rec' = Put(i, r)
    BY <1>10 DEF MetadataResult, Save
  <2> HIDE DEF r
  <2> QED
    BY <1>2, <2>1, <2>2 DEF Same
<1>11. ASSUME NEW c \in Requests, NEW i \in Jobs, NEW selection \in SUBSET Files,
              NEW policy \in Policies, CommitBegin(c, i, selection, policy)
       PROVE  Same(rec[j], rec'[j])
  <2> DEFINE r == [rec[i] EXCEPT !.selection = selection, !.policy = policy,
                                 !.stages["preflight"] = "active"]
  <2>1. Same(rec[i], r) /\ rec' = Put(i, r)
    BY <1>0, <1>11 DEF CommitBegin, JobRecords, Same
  <2> HIDE DEF r
  <2> QED
    BY <1>2, <2>1
<1>12. ASSUME NEW c \in Requests, CommitStep(c)
       PROVE  Same(rec[j], rec'[j])
  <2> DEFINE i == commit[c].job
             a == [rec[i] EXCEPT !.stages["preflight"] = "failed", !.error = "storage_preflight"]
             b == [rec[i] EXCEPT !.stages["preflight"] = "complete"]
             d == [rec[i] EXCEPT !.dirs = TRUE, !.stages["selection"] = "complete", !.state = "queued"]
  <2>1. rec' = rec \/ (commit[c].pc # "idle" /\ (rec' = Put(i, a) \/ rec' = Put(i, b) \/ rec' = Put(i, d)))
    BY <1>12 DEF CommitStep, CommitPreflight, CommitDirs, StartTransfer, Save
  <2>2. commit[c].pc # "idle" =>
          i \in Jobs /\ Same(rec[i], a) /\ Same(rec[i], b) /\ Same(rec[i], d)
    BY <1>0 DEF JobRecords, Typed, CommitsOK, Same
  <2> HIDE DEF a, b, d, i
  <2> QED
    BY <1>2, <2>1, <2>2 DEF Same
<1>13. CASE UserStep
  <2>1. CASE \E i \in Jobs : DiscardBegin(i) \/ \E how \in DOMAIN RetriedKind : Resume(i, how)
    BY <1>3, <2>1 DEF DiscardBegin, Resume
  <2> QED
    BY <1>8, <1>9, <1>11, <1>13, <2>1 DEF UserStep
<1>14. CASE \E i \in Jobs : DiscardEnd(i)
  BY <1>3, <1>14 DEF DiscardEnd
<1>15. CASE \E p \in Pipes : PipelineStep(p)
  BY <1>1, <1>6, <1>15
<1> QED
  BY <1>3, <1>7, <1>10, <1>12, <1>13, <1>14, <1>15 DEF Next, vars

LEMMA HeldStep ==
  ASSUME ~DiskMayFail, FInv, Asking, Held, [Next]_vars
  PROVE  Held'
<1> DEFINE Good(j) == world[j].payload \/ Excused(j)
<1>1. Typed /\ UrlFollowed
  BY DEF FInv, IInv
<1>2. ASSUME NEW j \in Jobs, Good(j)
      PROVE  world'[j].payload \/ disk'[j].url \/ asked'[j] # {}
  <2>1. Excused(j) => disk'[j].url \/ asked'[j] # {}
    BY <1>1, StepSafe, AskedGrows DEF Excused, FInv
  <2>2. world[j].payload => world'[j].payload \/ Excused(j)
    BY <1>1, PayloadLost
  <2> QED
    BY <1>2, <2>1, <2>2
<1>3. ASSUME NEW j \in Jobs, rec'[j].files # {} \/ disk'[j].files # {}
      PROVE  Good(j)
  <2>1. disk' \in {disk, rec'}
    BY <1>1, FileSaved
  <2>2. CASE rec'[j].files # {}
    BY <1>1, <2>2, Origin DEF Held, Same
  <2>3. CASE disk[j].files # {}
    BY <2>3 DEF Held
  <2> QED
    BY <1>3, <2>1, <2>2, <2>3
<1>4. ASSUME NEW q \in Pipes, pipe'[q].pc \in {"stopping", "sizing"}
      PROVE  world'[pipe'[q].job].payload \/ disk'[pipe'[q].job].url \/ asked'[pipe'[q].job] # {}
  <2>1. CASE pipe'[q].pc = pipe[q].pc /\ pipe'[q].job = pipe[q].job
    <3>1. pipe[q].job \in Jobs /\ Good(pipe[q].job)
      BY <1>1, <1>4, <2>1 DEF Held, Typed, PipesOK
    <3> HIDE DEF Good
    <3> QED
      BY <1>2, <2>1, <3>1
  <2>2. ASSUME NEW p \in Pipes, PipelineStep(p), ~(pipe'[q].pc = pipe[q].pc /\ pipe'[q].job = pipe[q].job)
        PROVE  world'[pipe'[q].job].payload
    <3>1. Marks(p)
      BY <1>1, <2>2, StepMarks DEF ProgressSaved, Typed
    <3> QED
      BY <1>4, <2>2, <3>1 DEF Marks, Job
  <2>3. CASE ~ \E p \in Pipes : PipelineStep(p)
    BY <1>1, <1>4, <2>1, <2>3, Elsewhere
  <2> QED
    BY <2>1, <2>2, <2>3
<1>5. ASSUME NEW j \in Jobs, rec'[j].files # {} \/ disk'[j].files # {}
      PROVE  world'[j].payload \/ disk'[j].url \/ asked'[j] # {}
  <2>1. Good(j)
    BY <1>3, <1>5
  <2> HIDE DEF Good
  <2> QED
    BY <1>2, <2>1
<1> QED
  BY <1>4, <1>5 DEF Held, Excused

LEMMA UrlPendingStep ==
  ASSUME ~DiskMayFail, Typed, UrlPending, [Next]_vars
  PROVE  UrlPending'
<1>1. CASE disk' = rec'
  BY <1>1 DEF UrlPending
<1>2. ASSUME NEW p \in Pipes, Verified(p), disk' # rec', PipelineStep(p)
      PROVE  UrlPending'
  <2>1. pipe'[p].pc = "resolving" /\ pipe'[p].job = Job(p) /\ Job(p) \in Jobs /\ disk' = disk
    BY <1>2 DEF Verified, FailAt, Save, Goto, At, Typed, PipesOK, Pipelines, Job
  <2>2. \A j \in Jobs \ {Job(p)} : rec'[j] = rec[j]
    BY <1>2 DEF Verified, FailAt, Save, Put, Typed, RecordsOK
  <2>3. \A q \in Pipes \ {p} : pipe'[q] = pipe[q]
    BY <1>2 DEF Verified, FailAt, Goto, Typed, PipesOK
  <2>4. pipe[p].pc = "verifying"
    BY <1>2 DEF Verified, At
  <2> QED
    BY <2>1, <2>2, <2>3, <2>4 DEF UrlPending
<1>3. CASE Silent /\ disk' # rec'
  <2>1. ASSUME NEW q \in Pipes, pipe[q].pc = "resolving"
        PROVE  pipe'[q].pc = "resolving" /\ pipe'[q].job = pipe[q].job
    <3>1. ASSUME NEW p \in Pipes, PipelineStep(p)
          PROVE  pipe'[q].pc = "resolving" /\ pipe'[q].job = pipe[q].job
      <4>1. CASE ProgressSaved(p)
        BY <2>1, <4>1 DEF ProgressSaved
      <4>2. CASE Marks(p) /\ q # p
        BY <2>1, <4>2 DEF Marks
      <4>3. CASE Marks(p) /\ q = p
        <5>1. Resolved(p)
          BY <2>1, <4>3 DEF Marks
        <5>2. disk' = rec'
          BY <5>1 DEF Resolved, Save
        <5> QED
          BY <1>3, <5>2
      <4> QED
        BY <3>1, <4>1, <4>2, <4>3, StepMarks DEF Typed
    <3>2. CASE ~ \E p \in Pipes : PipelineStep(p)
      <4>1. ~Restart
        BY <1>3 DEF Restart, Save
      <4> QED
        BY <2>1, <3>2, <4>1, Elsewhere
    <3> QED
      BY <3>1, <3>2
  <2> QED
    BY <1>3, <2>1 DEF UrlPending, Silent
<1> QED
  BY <1>1, <1>2, <1>3, FlushedOrSilent

-----------------------------------------------------------------------------
(* The invariant of the promise *)

EInv == FInv /\ CInv /\ DInv

LEMMA EInit == Init => EInv
<1> SUFFICES ASSUME Init
             PROVE  EInv
  OBVIOUS
<1>1. CInv
  BY DEF Init, CInv, ChainOrder, SlotsReleased, NewPipe
<1>2. \A j \in Jobs : rec[j] = Absent /\ disk[j] = Absent
  BY DEF Init
<1>3. Held /\ UrlPending
  BY <1>2 DEF Init, Held, UrlPending, NewPipe, Absent
<1> QED
  BY <1>1, <1>3, InitSafe, AskingInit DEF EInv, DInv

LEMMA EStep ==
  ASSUME ~DiskMayFail, EInv, [Next]_vars
  PROVE  EInv'
<1>1. FInv /\ IInv /\ Typed /\ CInv /\ SlotsReleased /\ ChainOrder /\ Asking /\ Held /\ UrlPending
  BY DEF EInv, FInv, IInv, CInv, DInv
<1>2. FInv'
  BY <1>1, StepSafe DEF FInv
<1>3. CInv'
  <2>1. CASE Restart
    BY <2>1 DEF Restart, CInv, ChainOrder, SlotsReleased, NewPipe
  <2> QED
    BY <1>1, <2>1, NextInChain, OrderKept, SlotsKept DEF CInv, Typed
<1>4. DInv'
  BY <1>1, AskingStep, HeldStep, UrlPendingStep DEF DInv
<1> QED
  BY <1>2, <1>3, <1>4 DEF EInv

\* No failure, retry, restart or race loses a download: its files go only once their
\* URL is in the history file (cleanup) or because the user cancelled or discarded.
THEOREM PayloadSafe ==
  ASSUME ~DiskMayFail
  PROVE  Spec => []PayloadKept
<1>1. Init => EInv
  BY EInit
<1>2. EInv /\ [Next]_vars => EInv'
  BY EStep
<1>3. EInv => PayloadKept
  BY DEF EInv, DInv, Held, Excused, PayloadKept
<1> QED
  BY <1>1, <1>2, <1>3, PTL DEF Spec

-----------------------------------------------------------------------------
(* The refinement *)

Running == { j \in Jobs : \E p \in Pipes : pipe[p].job = j /\ Executing(p) }

LEMMA PromiseInit == Init => Promise!Init
<1> SUFFICES ASSUME Init
             PROVE  Promise!Init
  OBVIOUS
<1>1. Running = {}
  BY DEF Init, Running, Executing, NewPipe
<1> QED
  BY <1>1 DEF Init, Promise!Init, Absent, Running

\* The promise chain hands the engine from one job to the next.
LEMMA ScheduleStep ==
  ASSUME IInv, ChainOrder, [Next]_vars
  PROVE  Running' = Running \/ (Running = {} /\ \E j \in Jobs : Running' = {j}) \/ Running' = {}
<1>1. CASE Restart
  BY <1>1 DEF Restart, Running, Executing, NewPipe
<1>2. CASE Rests
  BY <1>2 DEF Rests, Running, Executing
<1>3. ASSUME NEW p \in Pipes, Joins(p)
      PROVE  Running' = Running
  BY <1>3 DEF Joins, Others, NextPipe, Running, Executing
<1>4. ASSUME NEW p \in Pipes, Moves(p) \/ Leaves(p)
      PROVE  Running' = Running \/ (Running = {} /\ \E j \in Jobs : Running' = {j}) \/ Running' = {}
  <2>1. \A q \in Pipes \ {p} : pipe[q].pc \in {"free", "waiting", "done"}
    <3>1. \A q \in Pipes : q < p => pipe[q].pc = "done"
      BY <1>4, EngineConstants DEF Moves, Leaves, Ready, Executing, ChainOrder, Pipes
    <3>2. \A q \in Pipes : p < q => pipe[q].pc \in {"free", "waiting"}
      BY <1>4 DEF Moves, Leaves, Ready, Executing, ChainOrder
    <3> QED
      BY <3>1, <3>2, EngineConstants DEF Pipes
  <2>2. \A q \in Pipes \ {p} : pipe'[q].pc = pipe[q].pc
    BY <1>4 DEF Moves, Leaves, Others
  <2>3. pipe[p].job \in Jobs /\ pipe'[p].job = pipe[p].job
    BY <1>4 DEF Moves, Leaves, Ready, Executing, IInv, Typed, PipesOK
  <2>4. Running = IF Executing(p) THEN {pipe[p].job} ELSE {}
    BY <2>1, <2>3 DEF Running, Executing
  <2>5. CASE Moves(p)
    <3>1. Running' = {pipe[p].job}
      BY <2>1, <2>2, <2>3, <2>5 DEF Moves, Running, Executing
    <3> QED
      BY <2>3, <2>4, <3>1
  <2>6. CASE Leaves(p)
    BY <2>1, <2>2, <2>6 DEF Leaves, Running, Executing
  <2> QED
    BY <1>4, <2>5, <2>6
<1> QED
  BY <1>1, <1>2, <1>3, <1>4, NextInChain

\* A URL reaches the file only while its own job's transfer executes.
LEMMA PublishStep ==
  ASSUME ~DiskMayFail, Typed, UrlPending, [Next]_vars, NEW j \in Jobs,
         ~disk[j].url, disk'[j].url
  PROVE  j \in Running
<1>1. CASE rec[j].url
  BY <1>1 DEF UrlPending, Running, Executing
<1>2. CASE ~rec[j].url
  <2>1. rec'[j].url
    BY FileSaved
  <2> QED
    BY <1>2, <2>1, Origin DEF Same, Running, Executing
<1> QED
  BY <1>1, <1>2

\* Every step of the engine is a step of the promise, or of nobody it knows.
LEMMA PromiseStep ==
  ASSUME ~DiskMayFail, EInv, [Next]_vars
  PROVE  Promise!Next
<1>1. IInv /\ Typed /\ UrlFollowed /\ ChainOrder /\ Asking /\ UrlPending
  BY DEF EInv, FInv, IInv, CInv, DInv
<1>2. Promise!Schedule
  BY <1>1, ScheduleStep DEF Promise!Schedule, Running
<1>3. Promise!Publish
  BY <1>1, StepSafe, PublishStep DEF Promise!Publish, Running
<1>4. Promise!Keep
  <2>1. \A j \in Jobs : world[j].payload /\ ~world'[j].payload => Excused(j)
    BY <1>1, PayloadLost
  <2>2. \A j \in Jobs : asked[j] \subseteq asked'[j]
    BY <1>1, AskedGrows
  <2> QED
    BY <2>1, <2>2 DEF Promise!Keep, Excused
<1>5. Promise!Fetch
  BY <1>1, PayloadFound DEF Promise!Fetch
<1>6. Promise!Release
  BY <1>1, AskedGrows DEF Promise!Release
<1> QED
  BY <1>2, <1>3, <1>4, <1>5, <1>6 DEF Promise!Next

\* JobEngine implements Delivery: engine.ts and pipeline.ts give no payload up unless
\* its URL is published or its user asked, publish a URL only from the transfer that
\* runs, run one transfer at a time, and take no published URL back.
THEOREM DeliveryImplemented ==
  ASSUME ~DiskMayFail
  PROVE  Spec => ImplementsDelivery
<1>1. Init => EInv /\ Promise!Init
  BY EInit, PromiseInit
<1>2. EInv /\ [Next]_vars => EInv' /\ [Promise!Next]_(Promise!vars)
  BY EStep, PromiseStep
<1> QED
  BY <1>1, <1>2, PTL DEF Spec, Promise!Spec, ImplementsDelivery

-----------------------------------------------------------------------------
(* What the outcomes of JobEngine say is true, a started transfer is always    *)
(* driven, and nothing is downloaded twice, as long as no job is being started *)
(* by two requests at once (commitSelection looks at the state only once).     *)

Starting(c) == commit[c].pc # "idle"

\* No two commitSelection calls of the same job are in flight.
OneStart ==
  \A c, d \in Requests :
    Starting(c) /\ Starting(d) /\ commit[c].job = commit[d].job => c = d

-----------------------------------------------------------------------------
(* Records *)

Late == {"storage_before_packaging", "packaging", "upload"}

\* What an upload sends.
Artifact(r) == IF Zip(r) THEN r.zipPath ELSE r.direct

Goods(r) == r.files # {} /\ EntriesKnown(r)

Fresh(r) == r.files = {} /\ r.error \notin Late

Chosen(r) == r.selection # {} /\ (r.source = "direct" => r.selection = {0})

\* A record by itself, in memory or in the file.
RecOK(r) ==
  /\ r.state = "failed" =>
       /\ r.error # "none"
       /\ r.error \in Late => r.files # {}
       /\ r.error \in {"storage_before_packaging", "packaging"} => Goods(r) /\ Zip(r)
       /\ r.error = "upload" => Artifact(r)
  /\ r.state \in DraftStates \cup {"absent"} => Fresh(r)
  /\ r.url => r.state \in {"finalizing", "complete", "interrupted"}

-----------------------------------------------------------------------------
(* What a pipeline finds on its record at each await *)

DownloadPcs == {"adding", "added", "polling", "critical", "dropping", "stopping", "fetching", "sizing"}

Fits(pc, how, r) ==
  /\ pc = "waiting" => r.state \in {"queued", "cancelled"} /\ Fresh(r) /\ Chosen(r)
  /\ pc \in DownloadPcs => r.state = "downloading" /\ Fresh(r) /\ Chosen(r)
  /\ pc \in {"fetching", "sizing"} => r.source = "direct"
  /\ pc = "downloaded" =>
       /\ r.state \in {"downloading", "failed", "cancelled"}
       /\ r.state = "downloading" => Goods(r) /\ (Zip(r) \/ r.direct)
  /\ pc = "gating" => r.state \in {"downloading", "queued", "cancelled"} /\ Goods(r) /\ Zip(r)
  /\ pc = "gated" => r.state = "failed"
  /\ pc = "checking" => r.state = "failed" /\ r.error = "packaging" /\ how = "retryPackaging"
  /\ pc = "reset" =>
       /\ r.state \in {"queued", "cancelled"} /\ r.files # {}
       /\ how = "retryUpload" => Artifact(r)
       /\ how # "retryUpload" => Goods(r) /\ Zip(r)
  /\ pc \in {"zipping", "unzipping"} => r.state = "packaging" /\ Goods(r) /\ Zip(r)
  /\ pc = "zipped" =>
       /\ r.state \in {"packaging", "downloading", "failed", "cancelled"}
       /\ r.state \in BusyStates => Artifact(r) /\ r.files # {}
  /\ pc = "uploading" => r.state = "uploading" /\ Artifact(r) /\ r.files # {}
  /\ pc = "purging" => r.state \in {"downloading", "packaging", "uploading"}
  /\ pc = "uploaded" => r.state \in {"uploading", "failed", "cancelled"}
  /\ pc = "verifying" => r.state = "finalizing" /\ ~r.url
  /\ pc \in {"resolving", "published"} => r.state = "finalizing"
  /\ pc = "cleaning" => r.state = "complete"
  /\ pc = "ending" => r.state \in TerminalStates

-----------------------------------------------------------------------------
(* The invariant *)

\* A retry that waits has no say yet: it looks at the record when its turn comes.
Working(w) == w.pc \notin {"free", "done"} /\ (w.pc = "waiting" => w.how = "run")

Intaking == \A j \in intake : rec[j].state \in {"reading_metadata", "cancelled"} /\ Fresh(rec[j])

Started(pc, r) ==
  /\ r.state \in {IF pc = "saving" THEN "queued" ELSE "awaiting_selection", "cancelled"}
  /\ Fresh(r) /\ Chosen(r)

Starts == \A c \in Requests : Starting(c) => Started(commit[c].pc, rec[commit[c].job])

Phases == \A p \in Pipes : Working(pipe[p]) => Fits(pipe[p].pc, pipe[p].how, rec[pipe[p].job])

\* Nobody but p works on its job.
Alone(p) ==
  /\ Job(p) \notin intake
  /\ \A c \in Requests : Starting(c) => commit[c].job # Job(p)
  /\ \A q \in Pipes \ {p} : Working(pipe[q]) => pipe[q].job # Job(p)

Apart ==
  /\ \A p \in Pipes : Working(pipe[p]) => Alone(p)
  /\ \A c \in Requests : Starting(c) => commit[c].job \notin intake

HasDriver(j) ==
  \/ \E c \in Requests : commit[c].job = j /\ commit[c].pc = "saving"
  \/ \E p \in Pipes : pipe[p].job = j /\ Working(pipe[p])

Drives == \A j \in Jobs : rec[j].state \in BusyStates => HasDriver(j) \/ "cancel" \in asked[j]

Sound == \A j \in Jobs : RecOK(rec[j]) /\ RecOK(disk[j])

\* A cancel that a pipeline was told of is one the user asked for.
Told == \A p \in Pipes : pipe[p].cancelled => pipe[p].job \in Jobs /\ "cancel" \in asked[pipe[p].job]

OInv == Sound /\ Intaking /\ Starts /\ Phases /\ Apart /\ Drives /\ Told

-----------------------------------------------------------------------------
(* One turn of one pipeline *)

Turns(p, w, r) ==
  /\ \A q \in Pipes \ {p} : pipe'[q] = pipe[q]
  /\ pipe'[p] = w /\ w.job = Job(p) /\ (w.cancelled => pipe[p].cancelled)
  /\ \A j \in Jobs \ {Job(p)} : rec'[j] = rec[j]
  /\ rec'[Job(p)] = r
  /\ disk' \in {disk, rec'}
  /\ UNCHANGED << calls, asked >>

LEMMA TurnSafe ==
  ASSUME Typed, OInv, NEW p \in Pipes, pipe[p].pc # "free", Alone(p),
         NEW w, NEW r, Turns(p, w, r), w.pc # "free",
         RecOK(r), Working(w) => Fits(w.pc, w.how, r),
         Working(w) \/ r.state \notin BusyStates \/ "cancel" \in asked[Job(p)]
  PROVE  OInv'
<1>1. Job(p) \in Jobs /\ \A q \in Pipes : pipe[q].pc # "free" => pipe[q].job \in Jobs
  BY DEF Typed, PipesOK, Job
<1>2. UNCHANGED << commit, intake, asked >>
  BY DEF Turns, calls
<1>3. \A c \in Requests : Starting(c) => commit[c].job \in Jobs \ {Job(p)}
  BY DEF Typed, CommitsOK, Starting, Alone
<1>4. \A q \in Pipes \ {p} : Working(pipe[q]) => pipe[q].job \in Jobs \ {Job(p)}
  BY <1>1 DEF Alone, Working
<1>5. Sound'
  BY DEF Turns, Sound, OInv
<1>6. Intaking'
  BY <1>2 DEF Turns, Intaking, Alone, OInv, Typed, CallsOK
<1>7. Starts'
  BY <1>2, <1>3 DEF Turns, Starts, Starting, OInv
<1>8. Phases'
  <2> SUFFICES ASSUME NEW q \in Pipes, Working(pipe'[q])
               PROVE  Fits(pipe'[q].pc, pipe'[q].how, rec'[pipe'[q].job])
    BY DEF Phases
  <2>1. CASE q = p
    BY <2>1 DEF Turns
  <2>2. CASE q # p
    BY <1>4, <2>2 DEF Turns, Phases, OInv
  <2> QED
    BY <2>1, <2>2
<1>9. Apart'
  BY <1>2, <1>3, <1>4 DEF Turns, Apart, Alone, Starting, Job, OInv
<1>10. Drives'
  <2> SUFFICES ASSUME NEW j \in Jobs, rec'[j].state \in BusyStates, "cancel" \notin asked[j]
               PROVE  HasDriver(j)'
    BY <1>2 DEF Drives
  <2>1. CASE j = Job(p)
    BY <2>1 DEF Turns, HasDriver
  <2>2. CASE j # Job(p)
    <3>1. HasDriver(j)
      BY <2>2 DEF Turns, Drives, OInv
    <3> QED
      BY <1>2, <2>2, <3>1 DEF HasDriver, Turns, Job
  <2> QED
    BY <2>1, <2>2
<1>11. Told'
  BY <1>2 DEF Turns, Told, OInv, Job
<1> QED
  BY <1>5, <1>6, <1>7, <1>8, <1>9, <1>10, <1>11 DEF OInv

LEMMA GotoSafe ==
  ASSUME Typed, OInv, NEW p \in Pipes, pipe[p].pc # "free", Alone(p),
         NEW pc \in PipeStates \ {"free", "waiting", "done"}, Goto(p, pc),
         NEW r, rec' = Put(Job(p), r), disk' \in {disk, rec'},
         RecOK(r), Fits(pc, pipe[p].how, r), UNCHANGED << calls, asked >>
  PROVE  OInv'
<1> DEFINE w == [pipe[p] EXCEPT !.pc = pc]
<1>1. /\ w.pc = pc /\ w.how = pipe[p].how /\ w.job = Job(p) /\ w.cancelled = pipe[p].cancelled
      /\ pipe'[p] = w /\ \A q \in Pipes \ {p} : pipe'[q] = pipe[q]
  BY DEF Goto, Typed, PipesOK, Pipelines, Job
<1>2. rec'[Job(p)] = r /\ \A j \in Jobs \ {Job(p)} : rec'[j] = rec[j]
  BY DEF Put, Typed, RecordsOK, PipesOK, Job
<1> HIDE DEF w
<1>3. Turns(p, w, r)
  BY <1>1, <1>2 DEF Turns
<1> QED
  BY <1>1, <1>3, TurnSafe DEF Working

LEMMA KeepPut ==
  ASSUME Typed, NEW p \in Pipes, pipe[p].pc # "free", UNCHANGED << rec, disk >>
  PROVE  rec' = Put(Job(p), Rec(p)) /\ disk' \in {disk, rec'}
BY DEF Typed, RecordsOK, PipesOK, Put, Job, Rec

\* A step that only goes on.
LEMMA PassSafe ==
  ASSUME Typed, OInv, NEW p \in Pipes, pipe[p].pc # "free", Alone(p),
         NEW pc \in PipeStates \ {"free", "waiting", "done"}, Goto(p, pc),
         Fits(pc, pipe[p].how, Rec(p)), UNCHANGED << rec, disk, calls, asked >>
  PROVE  OInv'
<1>1. RecOK(Rec(p))
  BY DEF OInv, Sound, Rec, Typed, PipesOK
<1> QED
  BY <1>1, KeepPut, GotoSafe

\* The end of a link, done or refused.
LEMMA EndSafe ==
  ASSUME Typed, OInv, NEW p \in Pipes, pipe[p].pc # "free",
         pipe' = [pipe EXCEPT ![p] = NewPipe("done", pipe[p].job, pipe[p].how)],
         Working(pipe[p]) => Rec(p).state \notin BusyStates \/ pipe[p].cancelled,
         UNCHANGED << rec, disk, calls, asked >>
  PROVE  OInv'
<1>1. /\ \A q \in Pipes \ {p} : pipe'[q] = pipe[q]
      /\ pipe'[p].pc = "done" /\ pipe'[p].job = Job(p) /\ ~pipe'[p].cancelled
  BY DEF NewPipe, Typed, PipesOK, Job
<1>2. Sound' /\ Intaking' /\ Starts'
  BY DEF Sound, Intaking, Starts, Starting, OInv, calls
<1>3. Phases'
  BY <1>1 DEF Phases, Working, OInv
<1>4. Apart'
  BY <1>1 DEF Apart, Alone, Working, Job, Starting, OInv, calls
<1>5. Told'
  BY <1>1 DEF Told, OInv
<1>6. Drives'
  <2> SUFFICES ASSUME NEW j \in Jobs, rec[j].state \in BusyStates, "cancel" \notin asked[j]
               PROVE  HasDriver(j)'
    BY DEF Drives
  <2>1. HasDriver(j)
    BY DEF Drives, OInv
  <2>2. ~(pipe[p].job = j /\ Working(pipe[p]))
    BY DEF Told, OInv, Rec
  <2> QED
    BY <1>1, <2>1, <2>2 DEF HasDriver, calls
<1> QED
  BY <1>2, <1>3, <1>4, <1>5, <1>6 DEF OInv

-----------------------------------------------------------------------------
(* What the steps write *)

\* The parts of a record that Fits and RecOK speak of besides its state.
Stuff(r) == << r.error, r.selection, r.source, r.files, r.direct, r.zipPath, r.url >>

LEMMA StuffSame ==
  ASSUME NEW r, NEW s, Stuff(s) = Stuff(r)
  PROVE  /\ Goods(s) <=> Goods(r)
         /\ Zip(s) <=> Zip(r)
         /\ Artifact(s) = Artifact(r)
         /\ Fresh(s) <=> Fresh(r)
         /\ Chosen(s) <=> Chosen(r)
         /\ s.url = r.url /\ s.error = r.error /\ s.files = r.files /\ s.direct = r.direct
         /\ s.zipPath = r.zipPath /\ s.source = r.source
BY DEF Stuff, Goods, EntriesKnown, Zip, Artifact, Fresh, Chosen

\* A state of its own and the same belongings.
LEMMA MoveOn ==
  ASSUME NEW r \in JobRecords, RecOK(r), ~r.url \/ r.state = "finalizing",
         NEW s, Stuff(s) = Stuff(r),
         \/ s.state \in BusyStates /\ ~r.url
         \/ s.state \in {"finalizing", "complete"}
  PROVE  RecOK(s)
BY StuffSame DEF RecOK, BusyStates, DraftStates

LEMMA CancelledOK ==
  ASSUME NEW r \in JobRecords, RecOK(r), ~r.url
  PROVE  RecOK(Cancelled(r)) /\ Stuff(Cancelled(r)) = Stuff(r) /\ Cancelled(r).state = "cancelled"
<1>1. Stuff(Cancelled(r)) = Stuff(r) /\ Cancelled(r).state = "cancelled"
  BY DEF Cancelled, Stuff, JobRecords
<1> QED
  BY <1>1, StuffSame DEF RecOK, DraftStates

\* A failure that its record can bear out.
Blames(r, kind) ==
  /\ ~r.url
  /\ kind \in Late => r.files # {}
  /\ kind \in {"storage_before_packaging", "packaging"} => Goods(r) /\ Zip(r)
  /\ kind = "upload" => Artifact(r)

LEMMA FailOK ==
  ASSUME NEW r \in JobRecords, NEW kind \in FailureKinds, Blames(r, kind)
  PROVE  RecOK(Fail(r, kind)) /\ Fail(r, kind).state = "failed"
<1> DEFINE s == Fail(r, kind)
<1>1. /\ s.state = "failed" /\ s.error = kind /\ s.files = r.files /\ s.url = r.url
      /\ s.selection = r.selection /\ s.zipPath = r.zipPath /\ s.direct = r.direct
  BY DEF Fail, JobRecords
<1>2. kind # "none"
  BY DEF FailureKinds
<1> HIDE DEF s
<1>3. RecOK(s)
  BY <1>1, <1>2 DEF RecOK, Blames, Goods, EntriesKnown, Zip, Artifact, DraftStates
<1> QED
  BY <1>1, <1>3 DEF s

\* What a retry starts from is what its failure left.
LEMMA ResetFits ==
  ASSUME NEW r \in JobRecords, RecOK(r), r.state = "failed",
         NEW how, how \in {"retryPackaging", "retryUpload", "retryStorageCheck"},
         how = "retryUpload" => r.error = "upload",
         how # "retryUpload" => r.error \in {"storage_before_packaging", "packaging"}
  PROVE  RecOK(Reset(r)) /\ Fits("reset", how, Reset(r))
<1> DEFINE s == Reset(r)
<1>1. /\ s.state = "queued" /\ s.error = "none" /\ s.files = r.files /\ s.url = r.url
      /\ s.selection = r.selection /\ s.zipPath = r.zipPath /\ s.direct = r.direct
  BY DEF Reset, JobRecords
<1> HIDE DEF s
<1>2. RecOK(s)
  BY <1>1 DEF RecOK, DraftStates
<1>3. Fits("reset", how, s)
  BY <1>1 DEF RecOK, Fits, DownloadPcs, Late, Goods, EntriesKnown, Zip, Artifact
<1> QED
  BY <1>2, <1>3 DEF s

\* The pipeline that is at work.
LEMMA AtWork ==
  ASSUME Typed, OInv, NEW p \in Pipes, Working(pipe[p])
  PROVE  /\ pipe[p].pc # "free" /\ Alone(p) /\ Job(p) \in Jobs
         /\ Rec(p) \in JobRecords /\ Rec(p) = rec[Job(p)] /\ RecOK(Rec(p))
         /\ Fits(pipe[p].pc, pipe[p].how, Rec(p))
<1>1. pipe[p].pc # "free"
  BY DEF Working
<1> QED
  BY <1>1, WorkingTyped DEF OInv, Sound, Apart, Phases, Typed, Rec, Job

LEMMA FailAtSafe ==
  ASSUME Typed, OInv, NEW p \in Pipes, Working(pipe[p]), NEW kind \in FailureKinds,
         NEW pc \in {"downloaded", "gated", "zipped", "uploaded", "ending"},
         FailAt(p, kind, pc), Blames(Rec(p), kind), UNCHANGED << calls, asked >>
  PROVE  OInv'
<1> DEFINE s == Fail(Rec(p), kind)
<1>1. pipe[p].pc # "free" /\ Alone(p) /\ Rec(p) \in JobRecords
  BY AtWork
<1>2. RecOK(s) /\ s.state = "failed"
  BY <1>1, FailOK
<1>3. rec' = Put(Job(p), s) /\ disk' \in {disk, rec'} /\ Goto(p, pc)
  BY DEF FailAt, Save
<1> HIDE DEF s
<1>4. Fits(pc, pipe[p].how, s)
  BY <1>2 DEF Fits, DownloadPcs, BusyStates, TerminalStates
<1> QED
  BY <1>1, <1>2, <1>3, <1>4, GotoSafe DEF PipeStates

LEMMA FinishCancelSafe ==
  ASSUME Typed, OInv, NEW p \in Pipes, Working(pipe[p]),
         NEW pc \in {"downloaded", "zipped", "uploaded", "ending"},
         FinishCancel(p, pc), ~Rec(p).url, UNCHANGED << calls, asked >>
  PROVE  OInv'
<1> DEFINE s == Cancelled(Rec(p))
<1>1. pipe[p].pc # "free" /\ Alone(p) /\ Rec(p) \in JobRecords /\ RecOK(Rec(p))
  BY AtWork
<1>2. RecOK(s) /\ s.state = "cancelled"
  BY <1>1, CancelledOK
<1>3. rec' = Put(Job(p), s) /\ disk' \in {disk, rec'} /\ Goto(p, pc)
  BY DEF FinishCancel, Save
<1> HIDE DEF s
<1>4. Fits(pc, pipe[p].how, s)
  BY <1>2 DEF Fits, DownloadPcs, BusyStates, TerminalStates
<1> QED
  BY <1>1, <1>2, <1>3, <1>4, GotoSafe DEF PipeStates

LEMMA CancelOutSafe ==
  ASSUME Typed, OInv, NEW p \in Pipes, Working(pipe[p]), CancelOut(p),
         Rec(p).state \in {"downloading", "packaging", "uploading"}, UNCHANGED << calls, asked >>
  PROVE  OInv'
<1>1. pipe[p].pc # "free" /\ Alone(p) /\ RecOK(Rec(p))
  BY AtWork
<1>2. CASE Goto(p, "purging") /\ UNCHANGED << rec, disk >>
  <2>1. Fits("purging", pipe[p].how, Rec(p))
    BY DEF Fits, DownloadPcs
  <2> QED
    BY <1>1, <1>2, <2>1, PassSafe DEF PipeStates
<1>3. CASE FinishCancel(p, "uploaded")
  BY <1>1, <1>3, FinishCancelSafe DEF RecOK
<1> QED
  BY <1>2, <1>3 DEF CancelOut

\* An unexpected error of a download that has nothing to show yet.
LEMMA ThrowSafe ==
  ASSUME Typed, OInv, NEW p \in Pipes, Working(pipe[p]), Throw(p),
         Rec(p).state = "downloading", Fresh(Rec(p)), UNCHANGED << calls, asked >>
  PROVE  OInv'
<1> DEFINE s == Unexpected(Rec(p))
<1>1. pipe[p].pc # "free" /\ Alone(p) /\ Rec(p) \in JobRecords /\ RecOK(Rec(p))
  BY AtWork
<1>2. rec' = Put(Job(p), s) /\ disk' \in {disk, rec'} /\ Goto(p, "ending")
  BY DEF Throw, Save, TerminalStates
<1>3. /\ s.state = "failed" /\ s.url = Rec(p).url /\ s.files = Rec(p).files
      /\ s.error = IF Rec(p).error = "none" THEN "download" ELSE Rec(p).error
  BY <1>1 DEF Unexpected, KindForState, JobRecords
<1> HIDE DEF s
<1>4. RecOK(s)
  BY <1>1, <1>3 DEF RecOK, Fresh, Late, DraftStates
<1>5. Fits("ending", pipe[p].how, s)
  BY <1>3 DEF Fits, DownloadPcs, TerminalStates
<1> QED
  BY <1>1, <1>2, <1>4, <1>5, GotoSafe DEF PipeStates

\* The phases begin with what they need.
LEMMA BeginSafe ==
  ASSUME Typed, OInv, NEW p \in Pipes, Working(pipe[p]),
         NEW st \in BusyStates, NEW stage \in StageNames, NEW pc \in PipeStates \ {"free", "waiting", "done"},
         Save(Put(Job(p), [Rec(p) EXCEPT !.state = st, !.stages[stage] = "active"])), Goto(p, pc),
         ~Rec(p).url,
         \A s : s.state = st /\ Stuff(s) = Stuff(Rec(p)) => Fits(pc, pipe[p].how, s),
         UNCHANGED << calls, asked >>
  PROVE  OInv'
<1> DEFINE s == [Rec(p) EXCEPT !.state = st, !.stages[stage] = "active"]
<1>1. pipe[p].pc # "free" /\ Alone(p) /\ Rec(p) \in JobRecords /\ RecOK(Rec(p))
  BY AtWork
<1>2. s.state = st /\ Stuff(s) = Stuff(Rec(p))
  BY <1>1 DEF JobRecords, Stuff
<1>3. rec' = Put(Job(p), s) /\ disk' \in {disk, rec'}
  BY DEF Save
<1> HIDE DEF s
<1>4. RecOK(s)
  BY <1>1, <1>2, MoveOn
<1> QED
  BY <1>1, <1>2, <1>3, <1>4, GotoSafe

LEMMA BeginZipSafe ==
  ASSUME Typed, OInv, NEW p \in Pipes, Working(pipe[p]), BeginZip(p),
         Goods(Rec(p)), Zip(Rec(p)), ~Rec(p).url, UNCHANGED << calls, asked >>
  PROVE  OInv'
<1>1. \A s : s.state = "packaging" /\ Stuff(s) = Stuff(Rec(p)) => Fits("zipping", pipe[p].how, s)
  BY StuffSame DEF Fits, DownloadPcs
<1> QED
  BY <1>1, BeginSafe DEF BeginZip, BusyStates, StageNames, PipeStates

LEMMA BeginUploadSafe ==
  ASSUME Typed, OInv, NEW p \in Pipes, Working(pipe[p]), BeginUpload(p),
         Artifact(Rec(p)), Rec(p).files # {}, ~Rec(p).url, UNCHANGED << calls, asked >>
  PROVE  OInv'
<1>1. \A s : s.state = "uploading" /\ Stuff(s) = Stuff(Rec(p)) => Fits("uploading", pipe[p].how, s)
  BY StuffSame DEF Fits, DownloadPcs
<1> QED
  BY <1>1, BeginSafe DEF BeginUpload, Artifact, BusyStates, StageNames, PipeStates

LEMMA BeginFinalizeSafe ==
  ASSUME Typed, OInv, NEW p \in Pipes, Working(pipe[p]), BeginFinalize(p),
         ~Rec(p).url, UNCHANGED << calls, asked >>
  PROVE  OInv'
<1>1. \A s : s.state = "finalizing" /\ Stuff(s) = Stuff(Rec(p)) => Fits("verifying", pipe[p].how, s)
  BY StuffSame DEF Fits, DownloadPcs
<1> QED
  BY <1>1, BeginSafe DEF BeginFinalize, BusyStates, StageNames, PipeStates

\* A record that stays in its state and gains nothing but stages and torrentId.
LEMMA StaySafe ==
  ASSUME Typed, OInv, NEW p \in Pipes, Working(pipe[p]),
         NEW pc \in PipeStates \ {"free", "waiting", "done"}, Goto(p, pc),
         NEW s, rec' = Put(Job(p), s), disk' \in {disk, rec'},
         s.state = Rec(p).state, Stuff(s) = Stuff(Rec(p)),
         Fits(pc, pipe[p].how, s), UNCHANGED << calls, asked >>
  PROVE  OInv'
<1>1. pipe[p].pc # "free" /\ Alone(p) /\ Rec(p) \in JobRecords /\ RecOK(Rec(p))
  BY AtWork
<1>2. RecOK(s)
  BY <1>1, StuffSame DEF RecOK
<1> QED
  BY <1>1, <1>2, GotoSafe

-----------------------------------------------------------------------------
(* The steps of a pipeline *)

LEMMA StartSafe ==
  ASSUME Typed, OInv, NEW p \in Pipes, UNCHANGED << calls, asked >>,
         RunRefused(p) \/ RunCancelled(p) \/ RunDownload(p) \/ RetryRefused(p)
  PROVE  OInv'
<1>1. CASE RetryRefused(p)
  BY <1>1, EndSafe DEF RetryRefused, Ready, Working
<1> SUFFICES ASSUME RunRefused(p) \/ RunCancelled(p) \/ RunDownload(p)
             PROVE  OInv'
  BY <1>1
<1>2. Working(pipe[p]) /\ pipe[p].pc = "waiting"
  BY DEF RunRefused, RunCancelled, RunDownload, Ready, Working
<1>3. /\ pipe[p].pc # "free" /\ Alone(p) /\ Rec(p) \in JobRecords /\ RecOK(Rec(p))
      /\ Rec(p).state \in {"queued", "cancelled"} /\ Fresh(Rec(p)) /\ Chosen(Rec(p))
  BY <1>2, AtWork DEF Fits
<1>4. ~Rec(p).url
  BY <1>3 DEF RecOK
<1>5. CASE RunRefused(p)
  BY <1>3, <1>5, EndSafe DEF RunRefused, Settle, BusyStates
<1>6. CASE RunCancelled(p)
  BY <1>2, <1>4, <1>6, FinishCancelSafe DEF RunCancelled
<1>7. CASE RunDownload(p)
  <2>1. PICK pc \in {"fetching", "adding"} :
          Goto(p, pc) /\ (pc = "fetching" => Rec(p).source = "direct")
    BY <1>7 DEF RunDownload
  <2>2. \A s : s.state = "downloading" /\ Stuff(s) = Stuff(Rec(p)) => Fits(pc, pipe[p].how, s)
    BY <1>3, <2>1, StuffSame DEF Fits, DownloadPcs
  <2> QED
    BY <1>2, <1>4, <1>7, <2>1, <2>2, BeginSafe DEF RunDownload, BusyStates, StageNames, PipeStates
<1> QED
  BY <1>5, <1>6, <1>7

\* Whoever may retry a job is alone with it.
LEMMA FailedAlone ==
  ASSUME Typed, OInv, ChainOrder, NEW p \in Pipes, Ready(p), Rec(p).state = "failed"
  PROVE  Alone(p)
<1>1. Job(p) \notin intake
  BY DEF OInv, Intaking, Rec, Job
<1>2. ASSUME NEW c \in Requests, Starting(c)
      PROVE  commit[c].job # Job(p)
  BY <1>2 DEF OInv, Starts, Started, Rec, Job
<1>3. ASSUME NEW q \in Pipes \ {p}, Working(pipe[q]), pipe[q].job = Job(p)
      PROVE  FALSE
  <2>1. pipe[q].pc # "waiting"
    BY <1>3 DEF OInv, Phases, Fits, Rec, Job
  <2>2. p < q
    BY <1>3, EngineConstants DEF Ready, Working, Pipes
  <2> QED
    BY <1>3, <2>1, <2>2 DEF ChainOrder, Working, Ready
<1> QED
  BY <1>1, <1>2, <1>3 DEF Alone

LEMMA RetrySafe ==
  ASSUME Typed, OInv, ChainOrder, NEW p \in Pipes, UNCHANGED << calls, asked >>, RetryBegin(p)
  PROVE  OInv'
<1>1. /\ Ready(p) /\ pipe[p].pc # "free"
      /\ pipe[p].how \in {"retryPackaging", "retryUpload", "retryStorageCheck"}
  BY DEF RetryBegin, Ready, Typed, PipesOK, Pipelines
<1>2. /\ Rec(p).state = "failed" /\ Alone(p) /\ Rec(p) \in JobRecords /\ RecOK(Rec(p))
      /\ Rec(p).error = RetriedKind[pipe[p].how]
  BY <1>1, FailedAlone, WorkingTyped DEF RetryBegin, Retryable, OInv, Sound, Rec, Job, Typed
<1>3. CASE pipe[p].how = "retryPackaging"
  <2>1. Fits("checking", pipe[p].how, Rec(p))
    BY <1>2, <1>3 DEF RetriedKind, Fits, DownloadPcs
  <2>2. Goto(p, "checking") /\ UNCHANGED << rec, disk >>
    BY <1>3 DEF RetryBegin
  <2> QED
    BY <1>1, <1>2, <2>1, <2>2, PassSafe DEF PipeStates
<1>4. CASE pipe[p].how # "retryPackaging"
  <2>1. Goto(p, "reset") /\ Save(Put(Job(p), Reset(Rec(p))))
    BY <1>4 DEF RetryBegin
  <2>2. /\ pipe[p].how = "retryUpload" => Rec(p).error = "upload"
        /\ pipe[p].how = "retryStorageCheck" => Rec(p).error = "storage_before_packaging"
    BY <1>2 DEF RetriedKind
  <2>3. RecOK(Reset(Rec(p))) /\ Fits("reset", pipe[p].how, Reset(Rec(p)))
    BY <1>1, <1>2, <1>4, <2>2, ResetFits
  <2> QED
    BY <1>1, <1>2, <2>1, <2>3, GotoSafe DEF Save, PipeStates
<1> QED
  BY <1>3, <1>4

LEMMA CheckSafe ==
  ASSUME Typed, OInv, NEW p \in Pipes, UNCHANGED << calls, asked >>, CheckInputs(p)
  PROVE  OInv'
<1>1. pipe[p].pc = "checking" /\ Working(pipe[p])
  BY DEF CheckInputs, At, Working
<1>2. /\ pipe[p].pc # "free" /\ Alone(p) /\ Rec(p) \in JobRecords /\ RecOK(Rec(p))
      /\ Rec(p).state = "failed" /\ Rec(p).error = "packaging" /\ pipe[p].how = "retryPackaging"
  BY <1>1, AtWork DEF Fits
<1>3. CASE Settle(p) /\ UNCHANGED << rec, disk >>
  BY <1>2, <1>3, EndSafe DEF Settle, BusyStates
<1>4. CASE Save(Put(Job(p), Reset(Rec(p)))) /\ Goto(p, "reset")
  <2>1. RecOK(Reset(Rec(p))) /\ Fits("reset", pipe[p].how, Reset(Rec(p)))
    BY <1>2, ResetFits
  <2> QED
    BY <1>2, <1>4, <2>1, GotoSafe DEF Save, PipeStates
<1> QED
  BY <1>3, <1>4 DEF CheckInputs

LEMMA DownloadSafe ==
  ASSUME Typed, OInv, NEW p \in Pipes, UNCHANGED << calls, asked >>, pipe[p].pc \in DownloadPcs,
         \/ TorrentAdded(p) \/ AddReturns(p) \/ AddThrows(p) \/ PollCancelled(p) \/ PollEnds(p)
         \/ StoppedCritical(p) \/ Dropped(p) \/ Fetched(p) \/ FetchFails(p)
  PROVE  OInv'
<1>1. Working(pipe[p])
  BY DEF DownloadPcs, Working
<1>2. /\ pipe[p].pc # "free" /\ Alone(p) /\ Rec(p) \in JobRecords /\ RecOK(Rec(p))
      /\ Job(p) \in Jobs /\ Rec(p) = rec[Job(p)]
      /\ Rec(p).state = "downloading" /\ Fresh(Rec(p)) /\ Chosen(Rec(p))
  BY <1>1, AtWork DEF Fits
<1>3. ~Rec(p).url /\ Blames(Rec(p), "download")
  BY <1>2 DEF RecOK, Blames, Late
<1> DEFINE Torrents == DownloadPcs \ {"fetching", "sizing"}
<1>4. \A pc \in Torrents : Fits(pc, pipe[p].how, Rec(p))
  BY <1>2 DEF Fits, DownloadPcs
<1>5. ASSUME NEW pc \in Torrents, Goto(p, pc), UNCHANGED << rec, disk >>
      PROVE  OInv'
  BY <1>2, <1>4, <1>5, PassSafe DEF DownloadPcs, PipeStates
<1>6. ASSUME NEW pc \in Torrents, Goto(p, pc), Save(rec)
      PROVE  OInv'
  <2>1. rec' = Put(Job(p), Rec(p)) /\ disk' \in {disk, rec'}
    BY <1>2, <1>6 DEF Save, Put, Typed, RecordsOK
  <2> QED
    BY <1>2, <1>4, <1>6, <2>1, GotoSafe DEF DownloadPcs, PipeStates
<1>7. ASSUME FailAt(p, "download", "downloaded")
      PROVE  OInv'
  BY <1>1, <1>3, <1>7, FailAtSafe DEF FailureKinds
<1>8. CASE TorrentAdded(p)
  <2> DEFINE w == [pipe[p] EXCEPT !.pc = "added", !.added = Rec(p).selection]
  <2>1. /\ w.pc = "added" /\ w.how = pipe[p].how /\ w.job = Job(p) /\ w.cancelled = pipe[p].cancelled
        /\ pipe'[p] = w /\ \A q \in Pipes \ {p} : pipe'[q] = pipe[q]
    BY <1>8 DEF TorrentAdded, Typed, PipesOK, Pipelines, Job
  <2>2. rec' = rec /\ disk' = disk
    BY <1>8 DEF TorrentAdded
  <2> HIDE DEF w
  <2>3. Turns(p, w, Rec(p))
    BY <1>2, <2>1, <2>2 DEF Turns
  <2>4. Fits(w.pc, w.how, Rec(p)) /\ Working(w)
    BY <1>4, <2>1 DEF DownloadPcs, Working
  <2> QED
    BY <1>2, <2>1, <2>3, <2>4, TurnSafe
<1>9. CASE AddReturns(p)
  <2> DEFINE s == [Rec(p) EXCEPT !.hash = TRUE]
  <2>1. s.state = Rec(p).state /\ Stuff(s) = Stuff(Rec(p))
    BY <1>2 DEF JobRecords, Stuff
  <2>2. rec' = Put(Job(p), s) /\ disk' = disk /\ Goto(p, "polling")
    BY <1>9 DEF AddReturns
  <2> HIDE DEF s
  <2>3. Fits("polling", pipe[p].how, s)
    BY <1>2, <2>1, StuffSame DEF Fits, DownloadPcs
  <2> QED
    BY <1>1, <2>1, <2>2, <2>3, StaySafe DEF PipeStates
<1>10. CASE AddThrows(p)
  BY <1>1, <1>2, <1>10, ThrowSafe DEF AddThrows
<1>11. CASE PollCancelled(p)
  BY <1>5, <1>11 DEF PollCancelled, DownloadPcs
<1>12. CASE PollEnds(p)
  BY <1>1, <1>2, <1>6, <1>7, <1>12, ThrowSafe DEF PollEnds, DownloadPcs
<1>13. CASE StoppedCritical(p) \/ FetchFails(p)
  BY <1>7, <1>13 DEF StoppedCritical, FetchFails
<1>14. CASE Dropped(p)
  BY <1>1, <1>3, <1>14, FinishCancelSafe DEF Dropped
<1>15. CASE Fetched(p) /\ pipe[p].cancelled
  BY <1>1, <1>2, <1>15, CancelOutSafe DEF Fetched
<1>16. CASE Fetched(p) /\ ~pipe[p].cancelled
  <2>1. Rec(p).source = "direct"
    BY <1>1, <1>16, AtWork DEF Fetched, At, Fits
  <2>2. Fits("sizing", pipe[p].how, Rec(p))
    BY <1>2, <2>1 DEF Fits, DownloadPcs
  <2> QED
    BY <1>2, <1>16, <2>2, PassSafe DEF Fetched, PipeStates
<1> QED
  BY <1>8, <1>9, <1>10, <1>11, <1>12, <1>13, <1>14, <1>15, <1>16

LEMMA DownloadedSafe ==
  ASSUME Typed, OInv, NEW p \in Pipes, UNCHANGED << calls, asked >>, Stopped(p) \/ Sized(p)
  PROVE  OInv'
<1>1. pipe[p].pc \in {"stopping", "sizing"} /\ Working(pipe[p])
  BY DEF Stopped, Sized, At, Working
<1>2. /\ pipe[p].pc # "free" /\ Alone(p) /\ Rec(p) \in JobRecords /\ RecOK(Rec(p))
      /\ Rec(p).state = "downloading" /\ Fresh(Rec(p)) /\ Chosen(Rec(p))
  BY <1>1, AtWork DEF Fits, DownloadPcs
<1>3. ~Rec(p).url
  BY <1>2 DEF RecOK
<1>4. ASSUME NEW s, s.state = "downloading", ~s.url, Goods(s), Zip(s) \/ s.direct,
             Save(Put(Job(p), s)), Goto(p, "downloaded")
      PROVE  OInv'
  <2>1. RecOK(s) /\ Fits("downloaded", pipe[p].how, s)
    BY <1>4 DEF RecOK, Fits, DownloadPcs, DraftStates
  <2> QED
    BY <1>2, <1>4, <2>1, GotoSafe DEF Save, PipeStates
<1>5. CASE Stopped(p)
  <2> DEFINE r == [Rec(p) EXCEPT !.stages["download"] = "complete"]
             s == [r EXCEPT !.files = pipe[p].added, !.direct = @ \/ ~Zip(r),
                            !.stages["packaging"] = IF Zip(r) THEN @ ELSE "skipped"]
  <2>1. /\ r \in JobRecords /\ r.state = "downloading" /\ r.selection = Rec(p).selection
        /\ r.url = Rec(p).url
    BY <1>2 DEF JobRecords, StageNames, StageStates
  <2>2. CASE r.selection \subseteq pipe[p].added
    <3>1. /\ s.state = r.state /\ s.url = r.url /\ s.files = pipe[p].added
          /\ s.selection = r.selection /\ s.direct = (r.direct \/ ~Zip(r))
      BY <2>1 DEF JobRecords
    <3>2. Save(Put(Job(p), s)) /\ Goto(p, "downloaded")
      BY <1>5, <2>2 DEF Stopped
    <3>3. Zip(s) = Zip(r)
      BY <3>1 DEF Zip
    <3> HIDE DEF s, r
    <3>4. Goods(s) /\ (Zip(s) \/ s.direct)
      BY <1>2, <2>1, <2>2, <3>1, <3>3 DEF Goods, EntriesKnown, Chosen
    <3> QED
      BY <1>3, <1>4, <2>1, <3>1, <3>2, <3>4
  <2>3. CASE ~(r.selection \subseteq pipe[p].added)
    <3>1. Save(Put(Job(p), Fail(r, "download"))) /\ Goto(p, "downloaded")
      BY <1>5, <2>3 DEF Stopped
    <3> HIDE DEF r, s
    <3>2. RecOK(Fail(r, "download")) /\ Fail(r, "download").state = "failed"
      BY <1>3, <2>1, FailOK DEF Blames, Late, FailureKinds
    <3>3. Fits("downloaded", pipe[p].how, Fail(r, "download"))
      BY <3>2 DEF Fits, DownloadPcs
    <3> QED
      BY <1>2, <3>1, <3>2, <3>3, GotoSafe DEF Save, PipeStates
  <2> QED
    BY <2>2, <2>3
<1>6. CASE Sized(p)
  <2> DEFINE s == [Rec(p) EXCEPT !.stages["download"] = "complete", !.files = {0},
                                 !.direct = TRUE, !.stages["packaging"] = "skipped"]
  <2>1. /\ s.state = Rec(p).state /\ s.url = Rec(p).url /\ s.files = {0} /\ s.direct
        /\ s.selection = Rec(p).selection
    BY <1>2 DEF JobRecords
  <2>2. CASE Throw(p)
    BY <1>1, <1>2, <2>2, ThrowSafe
  <2>3. CASE Save(Put(Job(p), s)) /\ Goto(p, "downloaded")
    <3>1. Rec(p).selection = {0}
      <4>1. Rec(p).source = "direct"
        BY <1>1, <1>6, AtWork DEF Sized, At, Fits
      <4> QED
        BY <1>2, <4>1 DEF Chosen
    <3> HIDE DEF s
    <3> QED
      BY <1>2, <1>3, <1>4, <2>1, <2>3, <3>1 DEF Goods, EntriesKnown
  <2> QED
    BY <1>6, <2>2, <2>3 DEF Sized
<1> QED
  BY <1>5, <1>6

\* A retry goes on with what it needs.
LEMMA ResumeSafe ==
  ASSUME Typed, OInv, NEW p \in Pipes, UNCHANGED << calls, asked >>, ResumeAfterReset(p)
  PROVE  OInv'
<1>1. pipe[p].pc = "reset" /\ Working(pipe[p])
  BY DEF ResumeAfterReset, At, Working
<1>2. /\ pipe[p].pc # "free" /\ Alone(p) /\ Rec(p) \in JobRecords /\ RecOK(Rec(p))
      /\ Rec(p).state \in {"queued", "cancelled"} /\ Rec(p).files # {}
      /\ pipe[p].how = "retryUpload" => Artifact(Rec(p))
      /\ pipe[p].how # "retryUpload" => Goods(Rec(p)) /\ Zip(Rec(p))
  BY <1>1, AtWork DEF Fits
<1>3. ~Rec(p).url
  BY <1>2 DEF RecOK
<1>4. CASE pipe[p].how = "retryPackaging" /\ BeginZip(p)
  BY <1>1, <1>2, <1>3, <1>4, BeginZipSafe
<1>5. CASE pipe[p].how = "retryUpload" /\ BeginUpload(p)
  BY <1>1, <1>2, <1>3, <1>5, BeginUploadSafe
<1>6. CASE pipe[p].how = "retryStorageCheck" /\ Goto(p, "gating") /\ UNCHANGED << rec, disk >>
  <2>1. Fits("gating", pipe[p].how, Rec(p))
    BY <1>2, <1>6 DEF Fits, DownloadPcs
  <2> QED
    BY <1>2, <1>6, <2>1, PassSafe DEF PipeStates
<1> QED
  BY <1>4, <1>5, <1>6 DEF ResumeAfterReset

\* shouldContinue lets a job go on only from the state its phase left it in.
LEMMA PhaseSafe ==
  ASSUME Typed, OInv, NEW p \in Pipes, UNCHANGED << calls, asked >>, AfterPhase(p)
  PROVE  OInv'
<1>1. pipe[p].pc \in {"downloaded", "gated", "zipped", "uploaded"} /\ Working(pipe[p])
  BY DEF AfterPhase, At, Working
<1>2. /\ pipe[p].pc # "free" /\ Alone(p) /\ Rec(p) \in JobRecords /\ RecOK(Rec(p))
      /\ Fits(pipe[p].pc, pipe[p].how, Rec(p))
  BY <1>1, AtWork
<1>3. CASE ~ShouldContinue(p)
  <2>1. Rec(p).state \notin BusyStates \/ pipe[p].cancelled
    BY <1>3 DEF ShouldContinue, BusyStates
  <2> QED
    BY <1>2, <1>3, <2>1, EndSafe DEF AfterPhase, Settle
<1>4. CASE ShouldContinue(p)
  <2>1. /\ Rec(p).state \notin {"failed", "cancelled"} /\ pipe[p].pc # "gated"
        /\ pipe[p].pc = "downloaded" =>
             Rec(p).state = "downloading" /\ Goods(Rec(p)) /\ (Zip(Rec(p)) \/ Rec(p).direct)
        /\ pipe[p].pc = "zipped" =>
             Rec(p).state \in {"packaging", "downloading"} /\ Artifact(Rec(p)) /\ Rec(p).files # {}
        /\ pipe[p].pc = "uploaded" => Rec(p).state = "uploading"
    BY <1>2, <1>4 DEF ShouldContinue, Fits, BusyStates
  <2>2. ~Rec(p).url
    BY <1>1, <1>2, <2>1 DEF RecOK
  <2>3. CASE pipe[p].pc = "downloaded" /\ Zip(Rec(p))
    <3>1. Fits("gating", pipe[p].how, Rec(p))
      BY <2>1, <2>3 DEF Fits, DownloadPcs
    <3>2. Goto(p, "gating") /\ UNCHANGED << rec, disk >>
      BY <1>4, <2>3 DEF AfterPhase
    <3> QED
      BY <1>2, <3>1, <3>2, PassSafe DEF PipeStates
  <2>4. CASE pipe[p].pc = "downloaded" /\ ~Zip(Rec(p))
    <3> DEFINE s == [Rec(p) EXCEPT !.stages["packaging"] = "skipped"]
    <3>1. s.state = Rec(p).state /\ Stuff(s) = Stuff(Rec(p))
      BY <1>2 DEF JobRecords, Stuff
    <3>2. Save(Put(Job(p), s)) /\ Goto(p, "zipped")
      BY <1>4, <2>4 DEF AfterPhase
    <3> HIDE DEF s
    <3>3. Fits("zipped", pipe[p].how, s)
      BY <2>1, <2>4, <3>1, StuffSame DEF Fits, DownloadPcs, Goods, Artifact
    <3> QED
      BY <1>1, <3>1, <3>2, <3>3, StaySafe DEF Save, PipeStates
  <2>5. CASE pipe[p].pc = "zipped"
    BY <1>1, <1>4, <2>1, <2>2, <2>5, BeginUploadSafe DEF AfterPhase
  <2>6. CASE pipe[p].pc = "uploaded"
    BY <1>1, <1>4, <2>1, <2>2, <2>6, BeginFinalizeSafe DEF AfterPhase
  <2> QED
    BY <1>1, <2>1, <2>3, <2>4, <2>5, <2>6
<1> QED
  BY <1>3, <1>4

LEMMA GateSafe ==
  ASSUME Typed, OInv, NEW p \in Pipes, UNCHANGED << calls, asked >>, Gated(p)
  PROVE  OInv'
<1>1. pipe[p].pc = "gating" /\ Working(pipe[p])
  BY DEF Gated, At, Working
<1>2. /\ pipe[p].pc # "free" /\ Alone(p) /\ Rec(p) \in JobRecords /\ RecOK(Rec(p))
      /\ Rec(p).state \in {"downloading", "queued", "cancelled"} /\ Goods(Rec(p)) /\ Zip(Rec(p))
  BY <1>1, AtWork DEF Fits
<1>3. ~Rec(p).url
  BY <1>2 DEF RecOK
<1>4. CASE FailAt(p, "storage_before_packaging", "gated")
  BY <1>1, <1>2, <1>3, <1>4, FailAtSafe DEF Blames, Goods, FailureKinds
<1>5. CASE ShouldContinue(p) /\ BeginZip(p)
  BY <1>1, <1>2, <1>3, <1>5, BeginZipSafe
<1>6. CASE ~ShouldContinue(p) /\ Settle(p) /\ UNCHANGED << rec, disk >>
  <2>1. Rec(p).state \notin BusyStates \/ pipe[p].cancelled
    BY <1>6 DEF ShouldContinue, BusyStates
  <2> QED
    BY <1>2, <1>6, <2>1, EndSafe DEF Settle
<1> QED
  BY <1>4, <1>5, <1>6 DEF Gated

LEMMA ZipSafe ==
  ASSUME Typed, OInv, NEW p \in Pipes, UNCHANGED << calls, asked >>,
         ZipRefused(p) \/ ZipDone(p) \/ ZipFails(p) \/ PartialZipRemoved(p)
  PROVE  OInv'
<1>1. pipe[p].pc \in {"zipping", "unzipping"} /\ Working(pipe[p])
  BY DEF ZipRefused, ZipDone, ZipFails, PartialZipRemoved, At, Working
<1>2. /\ pipe[p].pc # "free" /\ Alone(p) /\ Rec(p) \in JobRecords /\ RecOK(Rec(p))
      /\ Rec(p).state = "packaging" /\ Goods(Rec(p)) /\ Zip(Rec(p))
  BY <1>1, AtWork DEF Fits
<1>3. ~Rec(p).url
  BY <1>2 DEF RecOK
<1>4. ~ZipRefused(p)
  BY <1>2 DEF ZipRefused, Goods
<1>5. CASE ZipDone(p) /\ pipe[p].cancelled
  BY <1>1, <1>3, <1>5, FinishCancelSafe DEF ZipDone
<1>6. CASE ZipDone(p) /\ ~pipe[p].cancelled
  <2> DEFINE s == [Rec(p) EXCEPT !.zipPath = TRUE, !.stages["packaging"] = "complete"]
  <2>1. /\ s.state = "packaging" /\ s.zipPath /\ s.files = Rec(p).files /\ s.url = Rec(p).url
        /\ s.selection = Rec(p).selection
    BY <1>2 DEF JobRecords
  <2>2. Save(Put(Job(p), s)) /\ Goto(p, "zipped")
    BY <1>6 DEF ZipDone
  <2>3. Zip(s)
    BY <1>2, <2>1 DEF Zip
  <2> HIDE DEF s
  <2>4. RecOK(s) /\ Fits("zipped", pipe[p].how, s)
    BY <1>2, <1>3, <2>1, <2>3 DEF RecOK, Fits, DownloadPcs, DraftStates, Artifact, Goods
  <2> QED
    BY <1>2, <2>2, <2>4, GotoSafe DEF Save, PipeStates
<1>7. CASE ZipFails(p)
  <2>1. Fits("unzipping", pipe[p].how, Rec(p))
    BY <1>2 DEF Fits, DownloadPcs
  <2> QED
    BY <1>2, <1>7, <2>1, PassSafe DEF ZipFails, PipeStates
<1>8. CASE PartialZipRemoved(p) /\ pipe[p].cancelled
  BY <1>1, <1>2, <1>8, CancelOutSafe DEF PartialZipRemoved
<1>9. CASE PartialZipRemoved(p) /\ ~pipe[p].cancelled
  BY <1>1, <1>2, <1>3, <1>9, FailAtSafe DEF PartialZipRemoved, Blames, Goods, FailureKinds
<1> QED
  BY <1>4, <1>5, <1>6, <1>7, <1>8, <1>9

LEMMA UploadSafe ==
  ASSUME Typed, OInv, NEW p \in Pipes, UNCHANGED << calls, asked >>,
         UploadDone(p) \/ UploadFails(p) \/ Purged(p)
  PROVE  OInv'
<1>1. pipe[p].pc \in {"uploading", "purging"} /\ Working(pipe[p])
  BY DEF UploadDone, UploadFails, Purged, At, Working
<1>2. /\ pipe[p].pc # "free" /\ Alone(p) /\ Rec(p) \in JobRecords /\ RecOK(Rec(p))
      /\ Job(p) \in Jobs /\ Rec(p) = rec[Job(p)]
      /\ Rec(p).state \in {"downloading", "packaging", "uploading"}
      /\ pipe[p].pc = "uploading" =>
           Rec(p).state = "uploading" /\ Artifact(Rec(p)) /\ Rec(p).files # {}
  BY <1>1, AtWork DEF Fits
<1>3. ~Rec(p).url
  BY <1>2 DEF RecOK
<1>4. CASE Purged(p)
  BY <1>1, <1>3, <1>4, FinishCancelSafe DEF Purged
<1>5. CASE (UploadDone(p) \/ UploadFails(p)) /\ pipe[p].cancelled
  BY <1>1, <1>2, <1>5, CancelOutSafe DEF UploadDone, UploadFails
<1>6. CASE UploadFails(p) /\ ~pipe[p].cancelled
  <2>1. Blames(Rec(p), "upload")
    BY <1>2, <1>3, <1>6 DEF UploadFails, At, Blames
  <2> QED
    BY <1>1, <1>6, <2>1, FailAtSafe DEF UploadFails, FailureKinds
<1>7. CASE UploadDone(p) /\ ~pipe[p].cancelled
  <2> DEFINE s == [Rec(p) EXCEPT !.stages["upload"] = "complete"]
             w == [pipe[p] EXCEPT !.pc = "uploaded", !.uploaded = TRUE]
  <2>1. s.state = "uploading" /\ Stuff(s) = Stuff(Rec(p))
    BY <1>2, <1>7 DEF UploadDone, At, JobRecords, Stuff
  <2>2. /\ w.pc = "uploaded" /\ w.how = pipe[p].how /\ w.job = Job(p) /\ w.cancelled = pipe[p].cancelled
        /\ pipe'[p] = w /\ \A q \in Pipes \ {p} : pipe'[q] = pipe[q]
    BY <1>7 DEF UploadDone, Typed, PipesOK, Pipelines, Job
  <2>3. /\ rec'[Job(p)] = s /\ \A j \in Jobs \ {Job(p)} : rec'[j] = rec[j]
        /\ disk' \in {disk, rec'}
    BY <1>2, <1>7 DEF UploadDone, Save, Put, Typed, RecordsOK
  <2> HIDE DEF s, w
  <2>4. Turns(p, w, s)
    BY <2>2, <2>3 DEF Turns
  <2>5. RecOK(s) /\ Fits("uploaded", w.how, s)
    BY <1>2, <1>3, <2>1, StuffSame DEF RecOK, Fits, DownloadPcs, DraftStates
  <2> QED
    BY <1>2, <2>2, <2>4, <2>5, TurnSafe DEF Working
<1> QED
  BY <1>4, <1>5, <1>6, <1>7

LEMMA FinalizeSafe ==
  ASSUME Typed, OInv, NEW p \in Pipes, UNCHANGED << calls, asked >>,
         Verified(p) \/ Resolved(p) \/ Complete(p) \/ Cleanup(p) \/ End(p)
  PROVE  OInv'
<1>1. pipe[p].pc \in {"verifying", "resolving", "published", "cleaning", "ending"} /\ Working(pipe[p])
  BY DEF Verified, Resolved, Complete, Cleanup, End, At, Working
<1>2. /\ pipe[p].pc # "free" /\ Alone(p) /\ Rec(p) \in JobRecords /\ RecOK(Rec(p))
      /\ Fits(pipe[p].pc, pipe[p].how, Rec(p))
  BY <1>1, AtWork
<1>3. ASSUME NEW s, NEW pc \in {"resolving", "published", "cleaning", "ending"},
             Goto(p, pc), rec' = Put(Job(p), s), disk' \in {disk, rec'},
             s.state = (IF pc \in {"cleaning", "ending"} THEN "complete" ELSE "finalizing")
      PROVE  OInv'
  <2>1. RecOK(s) /\ Fits(pc, pipe[p].how, s)
    BY <1>3 DEF RecOK, Fits, DownloadPcs, DraftStates, TerminalStates
  <2> QED
    BY <1>2, <1>3, <2>1, GotoSafe DEF PipeStates
<1>4. CASE Verified(p)
  <2>1. Rec(p).state = "finalizing" /\ ~Rec(p).url
    BY <1>2, <1>4 DEF Verified, At, Fits
  <2>2. CASE FailAt(p, "finalize", "ending")
    BY <1>1, <2>1, <2>2, FailAtSafe DEF Blames, Late, FailureKinds
  <2>3. CASE rec' = Put(Job(p), [Rec(p) EXCEPT !.url = TRUE]) /\ Goto(p, "resolving") /\ UNCHANGED disk
    <3>1. [Rec(p) EXCEPT !.url = TRUE].state = "finalizing"
      BY <1>2, <2>1 DEF JobRecords
    <3> QED
      BY <1>3, <2>3, <3>1
  <2> QED
    BY <1>4, <2>2, <2>3 DEF Verified
<1>5. CASE Resolved(p)
  <2>1. Rec(p).state = "finalizing"
    BY <1>2, <1>5 DEF Resolved, At, Fits
  <2>2. [Rec(p) EXCEPT !.stages["finalize"] = "complete"].state = "finalizing"
    BY <1>2, <2>1 DEF JobRecords
  <2> QED
    BY <1>3, <1>5, <2>2 DEF Resolved, Save
<1>6. CASE Complete(p)
  <2>1. [Rec(p) EXCEPT !.state = "complete", !.stages["cleanup"] = "active"].state = "complete"
    BY <1>2 DEF JobRecords
  <2> QED
    BY <1>3, <1>6, <2>1 DEF Complete, Save
<1>7. CASE Cleanup(p)
  <2>1. Rec(p).state = "complete"
    BY <1>2, <1>7 DEF Cleanup, At, Fits
  <2>2. PICK v : rec' = Put(Job(p), [Rec(p) EXCEPT !.stages["cleanup"] = v]) /\ disk' \in {disk, rec'}
    BY <1>7 DEF Cleanup, Save
  <2>3. [Rec(p) EXCEPT !.stages["cleanup"] = v].state = "complete"
    BY <1>2, <2>1 DEF JobRecords
  <2> QED
    BY <1>3, <1>7, <2>2, <2>3 DEF Cleanup
<1>8. CASE End(p)
  <2>1. Rec(p).state \in TerminalStates
    BY <1>2, <1>8 DEF End, At, Fits
  <2> QED
    BY <1>2, <1>8, <2>1, EndSafe DEF End, Settle, TerminalStates, BusyStates
<1> QED
  BY <1>4, <1>5, <1>6, <1>7, <1>8

LEMMA PipelineSafe ==
  ASSUME Typed, OInv, ChainOrder, NEW p \in Pipes, PipelineStep(p)
  PROVE  OInv'
<1>1. UNCHANGED << calls, asked >>
  BY DEF PipelineStep
<1>2. CASE ProgressSaved(p)
  <2>1. rec' = rec /\ pipe' = pipe /\ disk' \in {disk, rec'}
    BY <1>2 DEF ProgressSaved, Save
  <2> QED
    BY <1>1, <2>1 DEF OInv, Sound, Intaking, Starts, Phases, Apart, Drives, Told, Starting, Alone,
       HasDriver, Job, calls
<1>3. CASE RunRefused(p) \/ RunCancelled(p) \/ RunDownload(p) \/ RetryRefused(p)
  BY <1>1, <1>3, StartSafe
<1>4. CASE RetryBegin(p) \/ CheckInputs(p)
  BY <1>1, <1>4, RetrySafe, CheckSafe
<1>5. CASE \/ TorrentAdded(p) \/ AddReturns(p) \/ AddThrows(p) \/ PollCancelled(p) \/ PollEnds(p)
           \/ StoppedCritical(p) \/ Dropped(p) \/ Fetched(p) \/ FetchFails(p)
  <2>1. pipe[p].pc \in DownloadPcs
    BY <1>5 DEF TorrentAdded, AddReturns, AddThrows, PollCancelled, PollEnds, StoppedCritical,
       Dropped, Fetched, FetchFails, At, DownloadPcs
  <2> QED
    BY <1>1, <1>5, <2>1, DownloadSafe
<1>6. CASE Stopped(p) \/ Sized(p)
  BY <1>1, <1>6, DownloadedSafe
<1>7. CASE ResumeAfterReset(p) \/ AfterPhase(p) \/ Gated(p)
  BY <1>1, <1>7, ResumeSafe, PhaseSafe, GateSafe
<1>8. CASE ZipRefused(p) \/ ZipDone(p) \/ ZipFails(p) \/ PartialZipRemoved(p)
  BY <1>1, <1>8, ZipSafe
<1>9. CASE UploadDone(p) \/ UploadFails(p) \/ Purged(p)
  BY <1>1, <1>9, UploadSafe
<1>10. CASE Verified(p) \/ Resolved(p) \/ Complete(p) \/ Cleanup(p) \/ End(p)
  BY <1>1, <1>10, FinalizeSafe
<1> QED
  BY <1>2, <1>3, <1>4, <1>5, <1>6, <1>7, <1>8, <1>9, <1>10 DEF PipelineStep, OwnStep, RemoteStep

-----------------------------------------------------------------------------
(* The steps of requests and intakes *)

\* A request changes the record of j, and nobody else's.
Touches(j, s) ==
  /\ rec'[j] = s /\ \A i \in Jobs \ {j} : rec'[i] = rec[i]
  /\ disk' \in {disk, rec'}
  /\ \A q \in Pipes :
       /\ pipe'[q].pc = pipe[q].pc /\ pipe'[q].how = pipe[q].how /\ pipe'[q].job = pipe[q].job
       /\ pipe'[q].cancelled => pipe[q].cancelled \/ (pipe[q].job = j /\ "cancel" \in asked'[j])
  /\ \A c \in Requests :
       \/ commit'[c] = commit[c]
       \/ /\ commit[c].pc = "idle" \/ commit[c].job = j
          /\ commit'[c].pc = "idle" \/ commit'[c].job = j
  /\ intake' \subseteq intake \cup {j}
  /\ \A i \in Jobs : asked[i] \subseteq asked'[i]

LEMMA TouchSafe ==
  ASSUME Typed, OInv, NEW j \in Jobs, NEW s, Touches(j, s), RecOK(s),
         \A q \in Pipes : Working(pipe[q]) /\ pipe[q].job = j => Fits(pipe[q].pc, pipe[q].how, s),
         \A c \in Requests : Starting(c)' /\ commit'[c].job = j => Started(commit'[c].pc, s),
         j \in intake' => s.state \in {"reading_metadata", "cancelled"} /\ Fresh(s),
         j \in intake' \/ (\E c \in Requests : Starting(c)' /\ commit'[c].job = j) =>
           \A q \in Pipes : Working(pipe[q]) => pipe[q].job # j,
         j \in intake' => \A c \in Requests : Starting(c)' => commit'[c].job # j,
         s.state \in BusyStates =>
           \/ "cancel" \in asked'[j]
           \/ \E c \in Requests : commit'[c].job = j /\ commit'[c].pc = "saving"
           \/ \E q \in Pipes : pipe[q].job = j /\ Working(pipe[q])
  PROVE  OInv'
<1>1. \A q \in Pipes : pipe[q].pc # "free" => pipe[q].job \in Jobs
  BY DEF Typed, PipesOK
<1>2. \A q \in Pipes : Working(pipe'[q]) <=> Working(pipe[q])
  BY DEF Touches, Working
<1>3. \A c \in Requests : Starting(c)' /\ commit'[c].job # j => Starting(c) /\ commit'[c] = commit[c]
  BY DEF Starting, Touches
<1>4. \A c \in Requests : Starting(c) => commit[c].job \in Jobs
  BY DEF Starting, Typed, CommitsOK
<1>5. Sound'
  BY DEF Touches, Sound, OInv
<1>6. Intaking'
  BY DEF Touches, Intaking, OInv, Typed, CallsOK
<1>7. Starts'
  <2> SUFFICES ASSUME NEW c \in Requests, Starting(c)'
               PROVE  Started(commit'[c].pc, rec'[commit'[c].job])
    BY DEF Starts
  <2>1. CASE commit'[c].job = j
    BY <2>1 DEF Touches
  <2>2. CASE commit'[c].job # j
    <3>1. Starting(c) /\ commit'[c] = commit[c] /\ commit[c].job \in Jobs \ {j}
      BY <1>3, <1>4, <2>2
    <3> QED
      BY <3>1 DEF Touches, Starts, OInv
  <2> QED
    BY <2>1, <2>2
<1>8. Phases'
  <2> SUFFICES ASSUME NEW q \in Pipes, Working(pipe[q])
               PROVE  Fits(pipe'[q].pc, pipe'[q].how, rec'[pipe'[q].job])
    BY <1>2 DEF Phases
  <2>1. /\ pipe'[q].pc = pipe[q].pc /\ pipe'[q].how = pipe[q].how /\ pipe'[q].job = pipe[q].job
        /\ pipe[q].job \in Jobs
    BY <1>1 DEF Touches, Working
  <2>2. Fits(pipe[q].pc, pipe[q].how, rec[pipe[q].job])
    BY DEF Phases, OInv
  <2>3. rec'[pipe[q].job] = IF pipe[q].job = j THEN s ELSE rec[pipe[q].job]
    BY <2>1 DEF Touches
  <2> QED
    BY <2>1, <2>2, <2>3
<1>9. Apart'
  <2>1. ASSUME NEW q \in Pipes, Working(pipe[q])
        PROVE  Alone(q)'
    <3>1. pipe'[q].job = pipe[q].job /\ Alone(q)
      BY <2>1 DEF Touches, Apart, OInv
    <3>2. pipe[q].job \notin intake'
      BY <2>1, <3>1 DEF Touches, Alone, Job
    <3>3. ASSUME NEW c \in Requests, Starting(c)'
          PROVE  commit'[c].job # pipe[q].job
      BY <1>3, <2>1, <3>1, <3>3 DEF Alone, Job
    <3>4. ASSUME NEW k \in Pipes \ {q}, Working(pipe'[k])
          PROVE  pipe'[k].job # pipe[q].job
      BY <1>2, <3>1, <3>4 DEF Touches, Alone, Job
    <3> QED
      BY <3>1, <3>2, <3>3, <3>4 DEF Alone, Job
  <2>2. ASSUME NEW c \in Requests, Starting(c)'
        PROVE  commit'[c].job \notin intake'
    BY <1>3, <2>2 DEF Touches, Apart, OInv
  <2> QED
    BY <1>2, <2>1, <2>2 DEF Apart
<1>10. Drives'
  <2> SUFFICES ASSUME NEW i \in Jobs, rec'[i].state \in BusyStates, "cancel" \notin asked'[i]
               PROVE  HasDriver(i)'
    BY DEF Drives
  <2>1. \A q \in Pipes : pipe'[q].job = pipe[q].job
    BY DEF Touches
  <2>2. CASE i = j
    BY <1>2, <2>1, <2>2 DEF HasDriver, Touches
  <2>3. CASE i # j
    <3>1. HasDriver(i)
      BY <2>3 DEF Touches, Drives, OInv
    <3>2. \A c \in Requests : commit[c].job = i /\ commit[c].pc = "saving" => commit'[c] = commit[c]
      BY <2>3 DEF Touches
    <3> QED
      BY <1>2, <2>1, <3>1, <3>2 DEF HasDriver
  <2> QED
    BY <2>2, <2>3
<1>11. Told'
  BY DEF Told, Touches, OInv
<1> QED
  BY <1>5, <1>6, <1>7, <1>8, <1>9, <1>10, <1>11 DEF OInv

\* Nobody drives a draft.
LEMMA DraftIdle ==
  ASSUME Typed, OInv, NEW j \in Jobs,
         rec[j].state \in DraftStates \cup {"absent"} \/ j \in intake
            \/ \E c \in Requests : Starting(c) /\ commit[c].job = j,
         NEW q \in Pipes, Working(pipe[q])
  PROVE  pipe[q].job # j
<1>1. j \in intake \/ (\E c \in Requests : Starting(c) /\ commit[c].job = j) => pipe[q].job # j
  BY DEF OInv, Apart, Alone, Job
<1>2. CASE rec[j].state \in DraftStates \cup {"absent"}
  <2>1. pipe[q].pc \in PipeStates \ {"free", "done"}
    BY DEF Typed, PipesOK, Pipelines, Working
  <2>2. Fits(pipe[q].pc, pipe[q].how, rec[pipe[q].job])
    BY DEF OInv, Phases
  <2> QED
    BY <1>2, <2>1, <2>2 DEF Fits, DownloadPcs, PipeStates, DraftStates, TerminalStates
<1> QED
  BY <1>1, <1>2

LEMMA CreateSafe ==
  ASSUME Typed, OInv, NEW j \in Jobs, NEW source \in Sources, Create(j, source)
  PROVE  OInv'
<1> DEFINE s == [Absent EXCEPT !.state = "reading_metadata", !.source = source,
                               !.stages["metadata"] = "active"]
<1>1. s.state = "reading_metadata" /\ s.files = {} /\ s.error = "none" /\ ~s.url
  BY DEF Absent
<1>2. /\ rec[j].state = "absent" /\ rec' = Put(j, s) /\ disk' \in {disk, rec'}
      /\ intake' = intake \cup {j} /\ UNCHANGED << pipe, commit, asked >>
  BY DEF Create, Save
<1> HIDE DEF s
<1>3. RecOK(s) /\ Fresh(s)
  BY <1>1 DEF RecOK, Fresh, Late, DraftStates
<1>4. Touches(j, s)
  BY <1>2 DEF Touches, Put, Typed, RecordsOK
<1>5. \A q \in Pipes : Working(pipe[q]) => pipe[q].job # j
  BY <1>2, DraftIdle
<1>6. \A c \in Requests : Starting(c)' => commit'[c].job # j
  BY <1>2 DEF Starting, Typed, CommitsOK
<1> QED
  BY <1>1, <1>2, <1>3, <1>4, <1>5, <1>6, TouchSafe DEF BusyStates

LEMMA MetadataSafe ==
  ASSUME Typed, OInv, NEW j \in Jobs, MetadataResult(j)
  PROVE  OInv'
<1> DEFINE a == [rec[j] EXCEPT !.state = "awaiting_selection", !.stages["metadata"] = "complete",
                               !.stages["selection"] = "waiting"]
           b == Fail(rec[j], "metadata")
<1>1. /\ rec[j] \in JobRecords /\ RecOK(rec[j]) /\ Fresh(rec[j])
      /\ rec[j].state \in {"reading_metadata", "cancelled"}
  BY DEF MetadataResult, OInv, Sound, Intaking, Typed, RecordsOK
<1>2. ~rec[j].url
  BY <1>1 DEF RecOK
<1>3. RecOK(a) /\ a.state = "awaiting_selection"
  <2>1. a.state = "awaiting_selection" /\ Stuff(a) = Stuff(rec[j])
    BY <1>1 DEF JobRecords, Stuff
  <2> HIDE DEF a
  <2> QED
    BY <1>1, <1>2, <2>1, StuffSame DEF RecOK
<1>4. RecOK(b) /\ b.state = "failed"
  BY <1>1, <1>2, FailOK DEF Blames, Late, FailureKinds
<1>5. \E s \in {rec[j], a, b} : rec' = Put(j, s) /\ disk' \in {disk, rec'}
  <2>1. rec = Put(j, rec[j])
    BY DEF Put, Typed, RecordsOK
  <2> QED
    BY <2>1 DEF MetadataResult, Save
<1> HIDE DEF a, b
<1>6. PICK s \in {rec[j], a, b} : rec' = Put(j, s) /\ disk' \in {disk, rec'}
  BY <1>5
<1>7. /\ j \in intake /\ intake' = intake \ {j} /\ UNCHANGED << pipe, commit, asked >>
  BY DEF MetadataResult
<1>8. Touches(j, s)
  BY <1>6, <1>7 DEF Touches, Put, Typed, RecordsOK
<1>9. \A q \in Pipes : Working(pipe[q]) => pipe[q].job # j
  BY <1>7, DraftIdle
<1>10. \A c \in Requests : Starting(c)' => commit'[c].job # j
  BY <1>7 DEF Starting, OInv, Apart
<1>11. RecOK(s) /\ s.state \notin BusyStates
  BY <1>1, <1>3, <1>4, <1>6 DEF BusyStates
<1> QED
  BY <1>7, <1>8, <1>9, <1>10, <1>11, TouchSafe

LEMMA CommitBeginSafe ==
  ASSUME Typed, OInv, NEW j \in Jobs, NEW c \in Requests, NEW selection \in SUBSET Files,
         NEW policy \in Policies, CommitBegin(c, j, selection, policy)
  PROVE  OInv'
<1> DEFINE s == [rec[j] EXCEPT !.selection = selection, !.policy = policy,
                               !.stages["preflight"] = "active"]
<1>1. rec[j] \in JobRecords /\ RecOK(rec[j]) /\ rec[j].state = "awaiting_selection"
  BY DEF CommitBegin, OInv, Sound, Typed, RecordsOK
<1>2. /\ s.state = "awaiting_selection" /\ s.files = rec[j].files /\ s.error = rec[j].error
      /\ s.url = rec[j].url /\ s.selection = selection /\ s.source = rec[j].source
  BY <1>1 DEF JobRecords
<1>3. /\ rec' = Put(j, s) /\ disk' = disk /\ UNCHANGED << pipe, intake, asked >>
      /\ commit' = [commit EXCEPT ![c] = [pc |-> "preflight", job |-> j]]
      /\ selection # {} /\ (rec[j].source = "direct" => selection = {0}) /\ commit[c].pc = "idle"
  BY DEF CommitBegin
<1> HIDE DEF s
<1>4. RecOK(s) /\ Fresh(s) /\ Chosen(s)
  BY <1>1, <1>2, <1>3 DEF RecOK, Fresh, Chosen, DraftStates
<1>5. Touches(j, s)
  BY <1>3 DEF Touches, Put, Typed, RecordsOK, CommitsOK
<1>6. \A q \in Pipes : Working(pipe[q]) => pipe[q].job # j
  BY <1>1, DraftIdle DEF DraftStates
<1>7. j \notin intake'
  BY <1>1, <1>3 DEF OInv, Intaking
<1>8. ASSUME NEW d \in Requests, Starting(d)', commit'[d].job = j
      PROVE  Started(commit'[d].pc, s)
  <2>1. CASE d = c
    BY <1>2, <1>3, <1>4, <2>1 DEF Started, Typed, CommitsOK
  <2>2. CASE d # c
    <3>1. Starting(d) /\ commit[d].job = j /\ commit'[d] = commit[d]
      BY <1>3, <1>8, <2>2 DEF Starting, Typed, CommitsOK
    <3>2. Started(commit[d].pc, rec[j])
      BY <3>1 DEF OInv, Starts
    <3> QED
      BY <1>1, <1>2, <1>4, <3>1, <3>2 DEF Started
  <2> QED
    BY <2>1, <2>2
<1> QED
  BY <1>2, <1>4, <1>5, <1>6, <1>7, <1>8, TouchSafe DEF BusyStates

\* The later steps of a Start rely on being the only Start of their job.
LEMMA CommitGoesSafe ==
  ASSUME Typed, OInv, OneStart, NEW c \in Requests, CommitPreflight(c) \/ CommitDirs(c)
  PROVE  OInv'
<1> DEFINE j == commit[c].job
           a == [rec[j] EXCEPT !.stages["preflight"] = "failed", !.error = "storage_preflight"]
           b == [rec[j] EXCEPT !.stages["preflight"] = "complete"]
           d == [rec[j] EXCEPT !.dirs = TRUE, !.stages["selection"] = "complete", !.state = "queued"]
<1>1. Starting(c) /\ j \in Jobs /\ commit[c].pc \in {"preflight", "dirs"}
  BY DEF CommitPreflight, CommitDirs, Starting, Typed, CommitsOK
<1>2. /\ rec[j] \in JobRecords /\ RecOK(rec[j]) /\ Fresh(rec[j]) /\ Chosen(rec[j])
      /\ rec[j].state \in {"awaiting_selection", "cancelled"}
  BY <1>1 DEF OInv, Sound, Starts, Started, Typed, RecordsOK
<1>3. ~rec[j].url
  BY <1>2 DEF RecOK
<1>4. /\ \A s \in {a, b, d} : /\ s.files = rec[j].files /\ s.url = rec[j].url
                              /\ s.selection = rec[j].selection /\ s.source = rec[j].source
      /\ a.state = rec[j].state /\ a.error = "storage_preflight"
      /\ b.state = rec[j].state /\ b.error = rec[j].error
      /\ d.state = "queued" /\ d.error = rec[j].error
  BY <1>2 DEF JobRecords
<1>5. \E s \in {rec[j], a, b, d} :
        /\ rec' = Put(j, s) /\ disk' \in {disk, rec'}
        /\ \/ commit' = [commit EXCEPT ![c] = IdleCommit] /\ s # d
           \/ commit' = [commit EXCEPT ![c].pc = "dirs"] /\ s = b
           \/ commit' = [commit EXCEPT ![c].pc = "saving"] /\ s = d
        /\ s = rec[j] \/ s \in {a, b, d}
  <2>1. rec = Put(j, rec[j])
    BY <1>1 DEF Put, Typed, RecordsOK
  <2>2. d # rec[j] /\ d # a /\ d # b
    BY <1>2, <1>4
  <2> HIDE DEF a, b, d
  <2>3. CASE CommitPreflight(c)
    BY <2>2, <2>3 DEF CommitPreflight, Save, a, b
  <2>4. CASE CommitDirs(c)
    BY <2>1, <2>2, <2>4 DEF CommitDirs, Save, d
  <2> QED
    BY <2>3, <2>4
<1> HIDE DEF a, b, d
<1>6. PICK s \in {rec[j], a, b, d} :
        /\ rec' = Put(j, s) /\ disk' \in {disk, rec'}
        /\ \/ commit' = [commit EXCEPT ![c] = IdleCommit] /\ s # d
           \/ commit' = [commit EXCEPT ![c].pc = "dirs"] /\ s = b
           \/ commit' = [commit EXCEPT ![c].pc = "saving"] /\ s = d
  BY <1>5
<1>7. RecOK(s) /\ Fresh(s) /\ Chosen(s)
  <2>1. s.state \in {"awaiting_selection", "cancelled", "queued"} /\ s.files = {} /\ ~s.url
    BY <1>2, <1>3, <1>4, <1>6 DEF Fresh
  <2>2. s.error \notin Late /\ s.selection = rec[j].selection /\ s.source = rec[j].source
    BY <1>2, <1>4, <1>6 DEF Fresh, Late
  <2> QED
    BY <1>2, <2>1, <2>2 DEF RecOK, Fresh, Chosen
<1>8. UNCHANGED << pipe, intake, asked >> /\ j \notin intake
  BY <1>1 DEF CommitPreflight, CommitDirs, OInv, Apart
<1>9. /\ \A e \in Requests \ {c} : commit'[e] = commit[e]
      /\ commit'[c].pc = "idle" \/ commit'[c].job = j
      /\ commit'[c].pc = "idle" => s # d
      /\ commit'[c].pc = "dirs" => s = b
      /\ commit'[c].pc = "saving" => s = d
      /\ commit'[c].pc \in {"idle", "dirs", "saving"}
      /\ s = d => commit'[c].job = j /\ commit'[c].pc = "saving"
  BY <1>6, <1>4, <1>2 DEF IdleCommit, Typed, CommitsOK, Commits
<1>10. Touches(j, s)
  BY <1>1, <1>6, <1>8, <1>9 DEF Touches, Put, Typed, RecordsOK, Starting
<1>11. \A q \in Pipes : Working(pipe[q]) => pipe[q].job # j
  BY <1>1, DraftIdle
<1>12. ASSUME NEW e \in Requests, Starting(e)', commit'[e].job = j
       PROVE  Started(commit'[e].pc, s)
  <2>1. e = c
    BY <1>1, <1>9, <1>12 DEF OneStart, Starting
  <2> QED
    BY <1>2, <1>4, <1>7, <1>9, <1>12, <2>1 DEF Started, Starting
<1>13. s.state \in BusyStates => commit'[c].job = j /\ commit'[c].pc = "saving"
  BY <1>2, <1>4, <1>6, <1>9 DEF BusyStates
<1> HIDE DEF j
<1> QED
  BY <1>1, <1>7, <1>8, <1>10, <1>11, <1>12, <1>13, TouchSafe

LEMMA StartTransferSafe ==
  ASSUME Typed, OInv, OneStart, NEW c \in Requests, NEW p \in Pipes, StartTransfer(c, p)
  PROVE  OInv'
<1> DEFINE j == commit[c].job
<1>1. /\ Starting(c) /\ commit[c].pc = "saving" /\ j \in Jobs /\ pipe[p].pc = "free"
      /\ UNCHANGED << rec, disk, intake, asked >>
  BY DEF StartTransfer, NextPipe, Starting, Typed, CommitsOK
<1>2. Started("saving", rec[j]) /\ j \notin intake
  BY <1>1 DEF OInv, Starts, Apart
<1>3. /\ pipe'[p].pc = "waiting" /\ pipe'[p].how = "run" /\ pipe'[p].job = j /\ ~pipe'[p].cancelled
      /\ \A q \in Pipes \ {p} : pipe'[q] = pipe[q]
      /\ commit'[c].pc = "idle" /\ \A d \in Requests \ {c} : commit'[d] = commit[d]
  BY DEF StartTransfer, NewPipe, IdleCommit, Typed, PipesOK, CommitsOK
<1>4. ~Working(pipe[p]) /\ Working(pipe'[p])
  BY <1>1, <1>3 DEF Working
<1>5. \A q \in Pipes : Working(pipe[q]) => pipe[q].job # j
  BY <1>1, DraftIdle
<1>6. \A d \in Requests : Starting(d)' => d # c /\ Starting(d) /\ commit'[d] = commit[d] /\ commit[d].job # j
  BY <1>1, <1>3 DEF Starting, OneStart
<1> HIDE DEF j
<1>7. Sound' /\ Intaking'
  BY <1>1 DEF Sound, Intaking, OInv
<1>8. Starts'
  BY <1>1, <1>6 DEF Starts, OInv
<1>9. Phases'
  <2>1. Fits("waiting", "run", rec[j])
    BY <1>2 DEF Started, Fits, DownloadPcs
  <2> QED
    BY <1>1, <1>3, <2>1 DEF Phases, OInv
<1>10. Apart'
  <2>1. \A q \in Pipes : Working(pipe'[q]) => q = p \/ (Working(pipe[q]) /\ pipe'[q] = pipe[q])
    BY <1>3
  <2>2. Alone(p)'
    BY <1>1, <1>2, <1>3, <1>5, <1>6 DEF Alone, Job
  <2>3. ASSUME NEW q \in Pipes \ {p}, Working(pipe[q])
        PROVE  Alone(q)'
    BY <1>1, <1>3, <1>4, <1>5, <1>6, <2>3 DEF Apart, Alone, Job, OInv
  <2>4. \A d \in Requests : Starting(d)' => commit'[d].job \notin intake'
    BY <1>1, <1>6 DEF Apart, OInv
  <2> QED
    BY <2>1, <2>2, <2>3, <2>4 DEF Apart
<1>11. Drives'
  <2> SUFFICES ASSUME NEW i \in Jobs, rec[i].state \in BusyStates, "cancel" \notin asked[i]
               PROVE  HasDriver(i)'
    BY <1>1 DEF Drives
  <2>1. HasDriver(i)
    BY DEF Drives, OInv
  <2>2. CASE i = j
    BY <1>3, <1>4, <2>2 DEF HasDriver
  <2>3. CASE i # j
    BY <1>3, <1>4, <2>1, <2>3 DEF HasDriver, j
  <2> QED
    BY <2>2, <2>3
<1>12. Told'
  BY <1>1, <1>3 DEF Told, OInv
<1> QED
  BY <1>7, <1>8, <1>9, <1>10, <1>11, <1>12 DEF OInv

\* A retry joins the chain and has no say yet.
LEMMA RetryJoins ==
  ASSUME Typed, OInv, NEW j \in Jobs, NEW how \in DOMAIN RetriedKind, Resume(j, how)
  PROVE  OInv'
<1>1. PICK p \in Pipes : NextPipe(p) /\ pipe' = [pipe EXCEPT ![p] = NewPipe("waiting", j, how)]
  BY DEF Resume
<1>2. how # "run"
  BY DEF RetriedKind
<1>3. /\ pipe'[p].pc = "waiting" /\ pipe'[p].how = how /\ ~pipe'[p].cancelled
      /\ \A q \in Pipes \ {p} : pipe'[q] = pipe[q]
      /\ UNCHANGED << rec, disk, commit, intake, asked >>
  BY <1>1 DEF Resume, NewPipe, Typed, PipesOK, calls
<1>4. ~Working(pipe[p]) /\ ~Working(pipe'[p])
  BY <1>1, <1>2, <1>3 DEF Working, NextPipe
<1>5. Sound' /\ Intaking' /\ Starts'
  BY <1>3 DEF Sound, Intaking, Starts, Starting, OInv
<1>6. Phases'
  BY <1>3, <1>4 DEF Phases, OInv
<1>7. Apart'
  BY <1>3, <1>4 DEF Apart, Alone, Starting, Job, OInv
<1>8. Drives'
  BY <1>3, <1>4 DEF Drives, HasDriver, OInv
<1>9. Told'
  BY <1>3 DEF Told, OInv
<1> QED
  BY <1>5, <1>6, <1>7, <1>8, <1>9 DEF OInv

LEMMA CancelSafe ==
  ASSUME Typed, OInv, NEW j \in Jobs, NEW cleanup \in BOOLEAN, Cancel(j, cleanup)
  PROVE  OInv'
<1> DEFINE s == Cancelled(rec[j])
           early == rec[j].state \in DraftStates \cup {"queued"}
<1>1. rec[j] \in JobRecords /\ RecOK(rec[j])
  BY DEF OInv, Sound, Typed, RecordsOK
<1>2. /\ UNCHANGED << commit, intake >>
      /\ "cancel" \in asked'[j] /\ \A i \in Jobs : asked[i] \subseteq asked'[i]
  BY DEF Cancel, calls, Typed, HistoryOK
<1>3. \A q \in Pipes :
        /\ pipe'[q].pc = pipe[q].pc /\ pipe'[q].how = pipe[q].how /\ pipe'[q].job = pipe[q].job
        /\ pipe'[q].cancelled => pipe[q].cancelled \/ pipe[q].job = j
  <2>1. CASE CancelLive(j, cleanup)
    BY <2>1 DEF CancelLive, LiveFor, Job, Typed, PipesOK, Pipelines, SlotsOK
  <2>2. CASE UNCHANGED pipe
    BY <2>2
  <2> QED
    BY <2>1, <2>2 DEF Cancel, CancelDraft
<1>4. CASE early /\ Save(Put(j, s))
  <2>1. ~rec[j].url
    BY <1>1, <1>4 DEF RecOK, DraftStates
  <2>2. RecOK(s) /\ Stuff(s) = Stuff(rec[j]) /\ s.state = "cancelled"
    BY <1>1, <2>1, CancelledOK
  <2> HIDE DEF s
  <2>3. Touches(j, s)
    BY <1>2, <1>3, <1>4 DEF Touches, Save, Put, Typed, RecordsOK
  <2>4. ASSUME NEW q \in Pipes, Working(pipe[q]), pipe[q].job = j
        PROVE  Fits(pipe[q].pc, pipe[q].how, s)
    <3>1. Fits(pipe[q].pc, pipe[q].how, rec[j])
      BY <2>4 DEF OInv, Phases
    <3>2. rec[j].state = "queued"
      BY <1>4, <2>4, DraftIdle
    <3> QED
      BY <2>2, <3>1, <3>2, StuffSame DEF Fits, DownloadPcs, BusyStates, TerminalStates
  <2>5. ASSUME NEW c \in Requests, Starting(c)', commit'[c].job = j
        PROVE  Started(commit'[c].pc, s)
    <3>1. Started(commit[c].pc, rec[j]) /\ commit'[c] = commit[c]
      BY <1>2, <2>5 DEF OInv, Starts, Starting
    <3> QED
      BY <2>2, <3>1, StuffSame DEF Started
  <2>6. j \in intake' => Fresh(s) /\ \A c \in Requests : Starting(c)' => commit'[c].job # j
    BY <1>2, <2>2, StuffSame DEF OInv, Intaking, Apart, Starting
  <2>7. j \in intake' \/ (\E c \in Requests : Starting(c)' /\ commit'[c].job = j) =>
          \A q \in Pipes : Working(pipe[q]) => pipe[q].job # j
    BY <1>2, DraftIdle DEF Starting
  <2> QED
    BY <2>2, <2>3, <2>4, <2>5, <2>6, <2>7, TouchSafe DEF BusyStates
<1>5. CASE ~early /\ UNCHANGED << rec, disk >>
  <2>1. Touches(j, rec[j])
    BY <1>2, <1>3, <1>5 DEF Touches
  <2>2. \A q \in Pipes : Working(pipe[q]) /\ pipe[q].job = j => Fits(pipe[q].pc, pipe[q].how, rec[j])
    BY DEF OInv, Phases
  <2>3. \A c \in Requests : Starting(c)' /\ commit'[c].job = j => Started(commit'[c].pc, rec[j])
    BY <1>2 DEF OInv, Starts, Starting
  <2>4. j \in intake' => /\ rec[j].state \in {"reading_metadata", "cancelled"} /\ Fresh(rec[j])
                         /\ \A c \in Requests : Starting(c)' => commit'[c].job # j
    BY <1>2 DEF OInv, Intaking, Apart, Starting
  <2>5. j \in intake' \/ (\E c \in Requests : Starting(c)' /\ commit'[c].job = j) =>
          \A q \in Pipes : Working(pipe[q]) => pipe[q].job # j
    BY <1>2, DraftIdle DEF Starting
  <2> QED
    BY <1>1, <1>2, <2>1, <2>2, <2>3, <2>4, <2>5, TouchSafe
<1> QED
  BY <1>4, <1>5 DEF Cancel, CancelLive, CancelDraft

\* The sweep leaves records that need nobody.
LEMMA RestartSound ==
  ASSUME Typed, OInv, Restart
  PROVE  OInv'
<1>1. ASSUME NEW r \in JobRecords, RecOK(r)
      PROVE  RecOK(Swept(r)) /\ Swept(r).state \notin BusyStates
  <2>1. CASE r.state \in BusyStates
    <3>1. Swept(r).state = "interrupted"
      BY <2>1 DEF Swept, JobRecords
    <3> QED
      BY <3>1 DEF RecOK, DraftStates, BusyStates
  <2>2. CASE r.state \notin BusyStates
    BY <1>1, <2>2 DEF Swept
  <2> QED
    BY <2>1, <2>2
<1>2. \A j \in Jobs : rec'[j] = Swept(disk[j]) /\ disk[j] \in JobRecords /\ RecOK(disk[j])
  BY DEF Restart, Save, OInv, Sound, Typed, RecordsOK
<1>3. disk' \in {disk, rec'}
  BY DEF Restart, Save
<1>4. Sound' /\ Drives'
  BY <1>1, <1>2, <1>3 DEF Sound, Drives
<1>5. Intaking' /\ Starts' /\ Phases' /\ Apart' /\ Told'
  BY DEF Restart, Intaking, Starts, Starting, Phases, Working, Apart, Told, NewPipe, IdleCommit
<1> QED
  BY <1>4, <1>5 DEF OInv

LEMMA SameSafe ==
  ASSUME OInv, UNCHANGED << rec, disk, pipe, commit, intake >>, asked' = asked \/
         \E j \in Jobs : DiscardBegin(j), Typed
  PROVE  OInv'
<1>1. \A i \in Jobs : asked[i] \subseteq asked'[i]
  BY DEF DiscardBegin, Typed, HistoryOK
<1>2. Sound' /\ Intaking' /\ Starts' /\ Phases' /\ Apart'
  BY DEF OInv, Sound, Intaking, Starts, Starting, Phases, Apart, Alone, Job
<1>3. Drives' /\ Told'
  BY <1>1 DEF OInv, Drives, HasDriver, Told
<1> QED
  BY <1>2, <1>3 DEF OInv

-----------------------------------------------------------------------------
(* One step, and the theorems *)

LEMMA OutcomeInit == Init => OInv
<1> SUFFICES ASSUME Init
             PROVE  OInv
  OBVIOUS
<1>1. RecOK(Absent) /\ Absent.state \notin BusyStates
  BY DEF RecOK, Absent, Fresh, Late, BusyStates
<1>2. \A j \in Jobs : rec[j] = Absent /\ disk[j] = Absent
  BY DEF Init
<1>3. Sound /\ Drives
  BY <1>1, <1>2 DEF Sound, Drives
<1> QED
  BY <1>3 DEF Init, OInv, Intaking, Starts, Starting, Phases, Working, Apart, Told, NewPipe, IdleCommit

LEMMA OutcomeStep ==
  ASSUME Typed, ChainOrder, OneStart, OInv, [Next]_vars
  PROVE  OInv'
<1>1. CASE \E p \in Pipes : PipelineStep(p)
  BY <1>1, PipelineSafe
<1>2. CASE \E c \in Requests : CommitStep(c)
  BY <1>2, CommitGoesSafe, StartTransferSafe DEF CommitStep
<1>3. CASE \E j \in Jobs : MetadataResult(j) \/ DiscardEnd(j)
  <2>1. ASSUME NEW j \in Jobs, DiscardEnd(j)
        PROVE  OInv'
    BY <2>1, SameSafe DEF DiscardEnd
  <2> QED
    BY <1>3, <2>1, MetadataSafe
<1>4. CASE UserStep
  <2>1. ASSUME NEW j \in Jobs, DiscardBegin(j)
        PROVE  OInv'
    BY <2>1, SameSafe DEF DiscardBegin
  <2> QED
    BY <1>4, <2>1, CreateSafe, CommitBeginSafe, CancelSafe, RetryJoins DEF UserStep
<1>5. CASE Restart
  BY <1>5, RestartSound
<1>6. CASE UNCHANGED vars
  BY <1>6, SameSafe DEF vars
<1> QED
  BY <1>1, <1>2, <1>3, <1>4, <1>5, <1>6 DEF Next

LEMMA OutcomeInductive == Spec /\ []OneStart => [](Typed /\ OInv)
<1>1. Init => OInv
  BY OutcomeInit
<1>2. IInv /\ CInv /\ OneStart /\ OInv /\ [Next]_vars => OInv'
  BY OutcomeStep DEF IInv, CInv
<1>3. IInv => Typed
  BY DEF IInv
<1> QED
  BY <1>1, <1>2, <1>3, Inductive, ChainInductive, PTL DEF Spec

\* Every outcome is true of the job it is given to: a failed job has an error and
\* offers only retries that can work, a cancelled job has no published link.
THEOREM TrueOutcomes == Spec /\ []OneStart => []OutcomesTrue
<1>1. OInv => OutcomesTrue
  BY DEF OInv, Sound, RecOK, Late, Artifact, OutcomesTrue
<1> QED
  BY <1>1, OutcomeInductive, PTL

\* A transfer the user did not cancel is never left without a pipeline or a Start that
\* will make one: every way out of #runTracked gives it an outcome.
THEOREM AlwaysDriven == Spec /\ []OneStart => []TransferDriven
<1>1. OInv => TransferDriven
  <2> SUFFICES ASSUME OInv, NEW j \in Jobs, rec[j].state \in BusyStates
               PROVE  Driven(j) \/ "cancel" \in asked[j]
    BY DEF TransferDriven
  <2>1. HasDriver(j) => Driven(j)
    BY DEF HasDriver, Working, Driven
  <2> QED
    BY <2>1 DEF OInv, Drives
<1> QED
  BY <1>1, OutcomeInductive, PTL

-----------------------------------------------------------------------------
(* Never twice *)

\* s does not go to the download from r.
Past(r, s) == s.state = "downloading" => r.state = "downloading"

Onward == \A j \in Jobs : rec[j].files # {} => Past(rec[j], rec'[j])

LEMMA PutOnward ==
  ASSUME Typed, NEW j \in Jobs, NEW s, rec' = Put(j, s), Past(rec[j], s)
  PROVE  Onward
BY DEF Onward, Past, Put, Typed, RecordsOK

\* Of the steps of a pipeline only RunDownload begins a download.
LEMMA PipelineOnward ==
  ASSUME Typed, OInv, NEW p \in Pipes, PipelineStep(p)
  PROVE  Onward
<1>1. UNCHANGED rec => Onward
  BY DEF Onward, Past
<1>2. ASSUME NEW s, Past(Rec(p), s), rec' = Put(Job(p), s), pipe[p].pc # "free"
      PROVE  Onward
  BY <1>2, PutOnward DEF Rec, Job, Typed, PipesOK
<1>3. pipe[p].pc # "free" => Rec(p) \in JobRecords
  BY WorkingTyped DEF Typed
<1>4. ASSUME NEW k \in FailureKinds, NEW pc, FailAt(p, k, pc), pipe[p].pc # "free"
      PROVE  Onward
  <2>1. Past(Rec(p), Fail(Rec(p), k))
    BY <1>3, <1>4 DEF Fail, JobRecords, Past
  <2> QED
    BY <1>2, <1>4, <2>1 DEF FailAt, Save
<1>5. ASSUME NEW pc, FinishCancel(p, pc), pipe[p].pc # "free"
      PROVE  Onward
  <2>1. Past(Rec(p), Cancelled(Rec(p)))
    BY <1>3, <1>5 DEF Cancelled, JobRecords, Past
  <2> QED
    BY <1>2, <1>5, <2>1 DEF FinishCancel, Save
<1>6. ASSUME Throw(p), pipe[p].pc # "free"
      PROVE  Onward
  <2>1. Past(Rec(p), Unexpected(Rec(p)))
    BY <1>3, <1>6 DEF Unexpected, JobRecords, Past
  <2> QED
    BY <1>1, <1>2, <1>6, <2>1 DEF Throw, Save
<1>7. ASSUME CancelOut(p), pipe[p].pc # "free"
      PROVE  Onward
  BY <1>1, <1>5, <1>7 DEF CancelOut
<1>8. ASSUME BeginZip(p) \/ BeginUpload(p) \/ BeginFinalize(p), pipe[p].pc # "free"
      PROVE  Onward
  <2>1. ASSUME NEW st \in JobStates \ {"downloading"}, NEW stage \in StageNames,
               rec' = Put(Job(p), [Rec(p) EXCEPT !.state = st, !.stages[stage] = "active"])
        PROVE  Onward
    <3>1. Past(Rec(p), [Rec(p) EXCEPT !.state = st, !.stages[stage] = "active"])
      BY <1>3, <1>8 DEF JobRecords, Past
    <3> QED
      BY <1>2, <1>8, <2>1, <3>1
  <2> QED
    BY <1>4, <1>8, <2>1 DEF BeginZip, BeginUpload, BeginFinalize, Save, FailureKinds, JobStates, BusyStates,
       StageNames
<1>9. CASE RunRefused(p) \/ RetryRefused(p) \/ TorrentAdded(p) \/ ProgressSaved(p) \/ PollCancelled(p)
           \/ ZipRefused(p) \/ ZipFails(p) \/ End(p)
  BY <1>1, <1>9 DEF RunRefused, RetryRefused, TorrentAdded, ProgressSaved, PollCancelled,
     ZipRefused, ZipFails, End, Save
<1>10. CASE RunCancelled(p) \/ Dropped(p) \/ Purged(p)
  BY <1>5, <1>10 DEF RunCancelled, Dropped, Purged, Ready, At
<1>11. CASE RunDownload(p)
  <2>1. Working(pipe[p]) /\ pipe[p].pc = "waiting"
    BY <1>11 DEF RunDownload, Ready, Working
  <2>2. Job(p) \in Jobs /\ rec[Job(p)].files = {}
    BY <2>1, AtWork DEF Fits, Fresh, Rec, Job
  <2> QED
    BY <1>11, <2>2 DEF RunDownload, Save, Onward, Past, Put, Typed, RecordsOK
<1>12. CASE RetryBegin(p) \/ CheckInputs(p)
  <2>1. Rec(p) \in JobRecords /\ pipe[p].pc # "free"
    BY <1>3, <1>12 DEF RetryBegin, CheckInputs, Ready, At
  <2>2. Past(Rec(p), Reset(Rec(p)))
    BY <2>1 DEF Reset, JobRecords, Past
  <2> QED
    BY <1>1, <1>2, <1>12, <2>1, <2>2 DEF RetryBegin, CheckInputs, Save
<1>13. CASE AddReturns(p)
  <2>1. Rec(p) \in JobRecords /\ pipe[p].pc # "free"
    BY <1>3, <1>13 DEF AddReturns, At
  <2>2. Past(Rec(p), [Rec(p) EXCEPT !.hash = TRUE])
    BY <2>1 DEF JobRecords, Past
  <2> QED
    BY <1>2, <1>13, <2>1, <2>2 DEF AddReturns
<1>14. CASE AddThrows(p) \/ PollEnds(p) \/ StoppedCritical(p) \/ FetchFails(p)
  BY <1>1, <1>4, <1>6, <1>14 DEF AddThrows, PollEnds, StoppedCritical, FetchFails, At, Save, FailureKinds
<1>15. CASE Stopped(p)
  <2> DEFINE r == [Rec(p) EXCEPT !.stages["download"] = "complete"]
             t == [r EXCEPT !.files = pipe[p].added,
                            !.direct = @ \/ ~Zip(r),
                            !.stages["packaging"] = IF Zip(r) THEN @ ELSE "skipped"]
  <2>1. Rec(p) \in JobRecords /\ pipe[p].pc # "free"
    BY <1>3, <1>15 DEF Stopped, At
  <2>2. r.state = Rec(p).state /\ DOMAIN r = DOMAIN Rec(p)
    BY <2>1 DEF JobRecords
  <2>3. t.state = r.state /\ Fail(r, "download").state = "failed"
    BY <2>1 DEF JobRecords, Fail
  <2>4. rec' = Put(Job(p), t) \/ rec' = Put(Job(p), Fail(r, "download"))
    BY <1>15 DEF Stopped, Save
  <2> HIDE DEF r, t
  <2>5. Past(Rec(p), t) /\ Past(Rec(p), Fail(r, "download"))
    BY <2>2, <2>3 DEF Past
  <2> QED
    BY <1>2, <2>1, <2>4, <2>5
<1>16. CASE Sized(p)
  <2>1. Rec(p) \in JobRecords /\ pipe[p].pc # "free"
    BY <1>3, <1>16 DEF Sized, At
  <2>2. Past(Rec(p), [Rec(p) EXCEPT !.stages["download"] = "complete", !.files = {0},
                                    !.direct = TRUE, !.stages["packaging"] = "skipped"])
    BY <2>1 DEF JobRecords, Past
  <2> QED
    BY <1>2, <1>6, <1>16, <2>1, <2>2 DEF Sized, Save
<1>17. CASE Fetched(p) \/ PartialZipRemoved(p) \/ UploadFails(p)
  BY <1>1, <1>4, <1>7, <1>17 DEF Fetched, PartialZipRemoved, UploadFails, At, FailureKinds
<1>18. CASE UploadDone(p) \/ ZipDone(p)
  <2>1. Rec(p) \in JobRecords /\ pipe[p].pc # "free"
    BY <1>3, <1>18 DEF UploadDone, ZipDone, At
  <2>2. /\ Past(Rec(p), [Rec(p) EXCEPT !.stages["upload"] = "complete"])
        /\ Past(Rec(p), [Rec(p) EXCEPT !.zipPath = TRUE, !.stages["packaging"] = "complete"])
    BY <2>1 DEF JobRecords, Past
  <2> QED
    BY <1>2, <1>5, <1>7, <1>18, <2>1, <2>2 DEF UploadDone, ZipDone, Save
<1>19. CASE ResumeAfterReset(p) \/ AfterPhase(p) \/ Gated(p)
  <2>1. Rec(p) \in JobRecords /\ pipe[p].pc # "free"
    BY <1>3, <1>19 DEF ResumeAfterReset, AfterPhase, Gated, At
  <2>2. Past(Rec(p), [Rec(p) EXCEPT !.stages["packaging"] = "skipped"])
    BY <2>1 DEF JobRecords, Past
  <2> QED
    BY <1>1, <1>2, <1>4, <1>8, <1>19, <2>1, <2>2 DEF ResumeAfterReset, AfterPhase, Gated, Save, FailureKinds
<1>20. CASE Verified(p)
  <2>1. Rec(p) \in JobRecords /\ pipe[p].pc # "free"
    BY <1>3, <1>20 DEF Verified, At
  <2>2. Past(Rec(p), [Rec(p) EXCEPT !.url = TRUE])
    BY <2>1 DEF JobRecords, Past
  <2> QED
    BY <1>2, <1>4, <1>20, <2>1, <2>2 DEF Verified, FailureKinds
<1>21. CASE Resolved(p) \/ Complete(p) \/ Cleanup(p)
  <2>1. Rec(p) \in JobRecords /\ pipe[p].pc # "free"
    BY <1>3, <1>21 DEF Resolved, Complete, Cleanup, At
  <2>2. /\ Past(Rec(p), [Rec(p) EXCEPT !.stages["finalize"] = "complete"])
        /\ Past(Rec(p), [Rec(p) EXCEPT !.state = "complete", !.stages["cleanup"] = "active"])
        /\ \A v : Past(Rec(p), [Rec(p) EXCEPT !.stages["cleanup"] = v])
    BY <2>1 DEF JobRecords, Past
  <2> QED
    BY <1>2, <1>21, <2>1, <2>2 DEF Resolved, Complete, Cleanup, Save
<1> QED
  BY <1>9, <1>10, <1>11, <1>12, <1>13, <1>14, <1>15, <1>16, <1>17, <1>18, <1>19, <1>20, <1>21
     DEF PipelineStep, OwnStep, RemoteStep

\* No request, intake or restart begins a download.
LEMMA RequestOnward ==
  ASSUME Typed, [Next]_vars, \A p \in Pipes : ~PipelineStep(p)
  PROVE  Onward
<1>1. UNCHANGED rec => Onward
  BY DEF Onward, Past
<1>2. \A j \in Jobs : rec[j] \in JobRecords /\ disk[j] \in JobRecords
  BY DEF Typed, RecordsOK
<1>3. ASSUME NEW j \in Jobs, NEW source \in Sources, Create(j, source)
      PROVE  Onward
  <2>1. Past(rec[j], [Absent EXCEPT !.state = "reading_metadata", !.source = source,
                                    !.stages["metadata"] = "active"])
    BY DEF Past, Absent
  <2> QED
    BY <1>3, <2>1, PutOnward DEF Create, Save
<1>4. ASSUME NEW j \in Jobs, MetadataResult(j)
      PROVE  Onward
  <2>1. /\ Past(rec[j], [rec[j] EXCEPT !.state = "awaiting_selection",
                                       !.stages["metadata"] = "complete",
                                       !.stages["selection"] = "waiting"])
        /\ Past(rec[j], Fail(rec[j], "metadata"))
    BY <1>2 DEF Past, Fail, JobRecords
  <2> QED
    BY <1>1, <1>4, <2>1, PutOnward DEF MetadataResult, Save
<1>5. ASSUME NEW c \in Requests, NEW j \in Jobs, NEW selection \in SUBSET Files, NEW policy \in Policies,
             CommitBegin(c, j, selection, policy)
      PROVE  Onward
  <2>1. Past(rec[j], [rec[j] EXCEPT !.selection = selection, !.policy = policy,
                                    !.stages["preflight"] = "active"])
    BY <1>2 DEF Past, JobRecords
  <2> QED
    BY <1>5, <2>1, PutOnward DEF CommitBegin
<1>6. ASSUME NEW c \in Requests, CommitPreflight(c) \/ CommitDirs(c)
      PROVE  Onward
  <2> DEFINE j == commit[c].job
  <2>1. j \in Jobs
    BY <1>6 DEF CommitPreflight, CommitDirs, Typed, CommitsOK
  <2>2. /\ Past(rec[j], [rec[j] EXCEPT !.stages["preflight"] = "failed", !.error = "storage_preflight"])
        /\ Past(rec[j], [rec[j] EXCEPT !.stages["preflight"] = "complete"])
        /\ Past(rec[j], [rec[j] EXCEPT !.dirs = TRUE, !.stages["selection"] = "complete",
                                       !.state = "queued"])
    BY <1>2, <2>1 DEF Past, JobRecords
  <2> QED
    BY <1>1, <1>6, <2>1, <2>2, PutOnward DEF CommitPreflight, CommitDirs, Save
<1>7. ASSUME NEW j \in Jobs, NEW cleanup \in BOOLEAN, Cancel(j, cleanup)
      PROVE  Onward
  <2>1. Past(rec[j], Cancelled(rec[j]))
    BY <1>2 DEF Past, Cancelled, JobRecords
  <2> QED
    BY <1>1, <1>7, <2>1, PutOnward DEF Cancel, CancelLive, CancelDraft, Save
<1>8. CASE Restart
  <2>1. \A j \in Jobs : Swept(disk[j]).state # "downloading"
    BY <1>2 DEF Swept, Unexpected, JobRecords, BusyStates, DraftStates
  <2> QED
    BY <1>8, <2>1 DEF Restart, Save, Onward, Past
<1>9. CASE UNCHANGED vars
  BY <1>1, <1>9 DEF vars
<1>10. CASE UserStep
  BY <1>1, <1>3, <1>5, <1>7, <1>10 DEF UserStep, Resume, DiscardBegin
<1>11. CASE (\E j \in Jobs : MetadataResult(j) \/ DiscardEnd(j)) \/ (\E c \in Requests : CommitStep(c))
  BY <1>1, <1>4, <1>6, <1>11 DEF DiscardEnd, CommitStep, StartTransfer
<1> QED
  BY <1>8, <1>9, <1>10, <1>11 DEF Next

\* "Never redownloads" (pipeline.ts): no retry, restart or late Start sends a job
\* whose files are complete back to its download.
THEOREM DownloadedOnce == Spec /\ []OneStart => NeverRedownloads
<1>1. Typed /\ OInv /\ [Next]_vars =>
        [\A j \in Jobs :
           rec[j].files # {} /\ rec[j].state # "downloading" => rec'[j].state # "downloading"]_vars
  BY PipelineOnward, RequestOnward DEF Onward, Past
<1> QED
  BY <1>1, OutcomeInductive, PTL DEF Spec, NeverRedownloads
=============================================================================
