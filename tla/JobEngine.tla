----------------------------- MODULE JobEngine -----------------------------
(***************************************************************************)
(* The server's job engine: JobEngine (engine.ts) owns the job records and *)
(* a promise chain of TransferPipelines (pipeline.ts) that drive one job   *)
(* each from "queued" to an outcome.  Everything runs on one event loop,   *)
(* so a step below is the code between two awaits that wait for real I/O,  *)
(* and a pc names the await a pipeline or a request is suspended at.       *)
(*                                                                         *)
(* Records are shared by reference: every writer sees every mutation at    *)
(* once.  `await save` only moves them to the history file, which is what  *)
(* a restart reads back.                                                   *)
(***************************************************************************)
EXTENDS Naturals, FiniteSets

CONSTANTS
  Jobs,         \* job ids
  NoJob,        \* the null of #activeTransferJobId
  Requests,     \* slots for commitSelection calls in flight at the same time
  MaxPipes,     \* bound: TransferPipelines created in one session
  MaxRestarts,  \* bound: process restarts
  Sources,      \* kinds of intake source: "torrent" (magnet, .torrent URL), "direct"
  Files,        \* file indexes of a torrent; a direct link has the one file 0
  Policies,     \* cleanup policies a Start may ask for, subsets of Artifacts
  DiskMayFail   \* whether a flush of the history file may fail (it is swallowed)

Artifacts == {"torrent", "files", "zip"}

ASSUME EngineConstants ==
  /\ NoJob \notin Jobs
  /\ MaxPipes \in Nat
  /\ MaxRestarts \in Nat
  /\ Sources \subseteq {"torrent", "direct"}
  /\ 0 \in Files
  /\ Policies \subseteq SUBSET Artifacts
  /\ DiskMayFail \in BOOLEAN

Pipes == 1 .. MaxPipes

-----------------------------------------------------------------------------
(* Vocabulary of jobs/types.ts *)

TerminalStates == {"complete", "failed", "cancelled", "interrupted"}
DraftStates    == {"reading_metadata", "awaiting_selection"}
BusyStates     == {"queued", "downloading", "packaging", "uploading", "finalizing"}
JobStates      == TerminalStates \cup DraftStates \cup BusyStates

StageOrder == << "metadata", "selection", "preflight", "download",
                 "packaging", "upload", "finalize", "cleanup" >>
StageNames == { "metadata", "selection", "preflight", "download",
                "packaging", "upload", "finalize", "cleanup" }
StageStates == {"waiting", "active", "complete", "failed", "skipped"}

FailureKinds == { "metadata", "storage_preflight", "download",
                  "storage_before_packaging", "packaging", "upload", "finalize" }

\* The parts of a JobRecord that later steps read.
JobRecords ==
  [ state     : JobStates \cup {"absent"},
    error     : FailureKinds \cup {"none"},
    stages    : [StageNames -> StageStates],
    source    : {"torrent", "direct"},
    selection : SUBSET Files,
    policy    : SUBSET Artifacts,           \* cleanupPolicy
    dirs      : BOOLEAN,                    \* jobDir, downloadDir, packageDir
    hash      : BOOLEAN,                    \* torrentId
    files     : SUBSET Files,               \* completedFiles
    direct    : BOOLEAN,                    \* directSourcePath
    zipPath   : BOOLEAN,
    url       : BOOLEAN,                    \* result.url
    lastStage : StageNames \cup {"none"} ]  \* lastKnownStage

Absent ==
  [ state |-> "absent", error |-> "none", stages |-> [s \in StageNames |-> "waiting"],
    source |-> "torrent", selection |-> {}, policy |-> {}, dirs |-> FALSE, hash |-> FALSE,
    files |-> {}, direct |-> FALSE, zipPath |-> FALSE, url |-> FALSE,
    lastStage |-> "none" ]

\* What exists outside the process, per job.
Worlds == [ torrent : BOOLEAN,     \* an owned torrent in qBittorrent
            payload : BOOLEAN,     \* the downloaded files
            archive : BOOLEAN ]    \* the finished ZIP

PipeStates ==
  { "free", "waiting", "adding", "added", "polling", "critical", "dropping",
    "stopping", "fetching", "sizing", "downloaded", "gating", "gated", "checking",
    "reset", "zipping", "unzipping", "zipped", "uploading", "purging", "uploaded",
    "verifying", "resolving", "published", "cleaning", "ending", "done" }

\* One TransferPipeline: its pc, its job, the method the engine runs on it,
\* #cancelRequested and #cancelCleanup, the selection handed to addTorrent,
\* and whether #uploadResult is set.
Pipelines ==
  [ pc : PipeStates, job : Jobs \cup {NoJob},
    how : {"run", "retryPackaging", "retryUpload", "retryStorageCheck"},
    cancelled : BOOLEAN, purge : BOOLEAN, added : SUBSET Files, uploaded : BOOLEAN ]

NewPipe(pc, j, how) ==
  [ pc |-> pc, job |-> j, how |-> how, cancelled |-> FALSE, purge |-> FALSE,
    added |-> {}, uploaded |-> FALSE ]

\* One commitSelection call in flight.
Commits == [ pc : {"idle", "preflight", "dirs", "saving"}, job : Jobs \cup {NoJob} ]
IdleCommit == [ pc |-> "idle", job |-> NoJob ]

VARIABLES
  rec,       \* the repository cache: the records the program works on
  disk,      \* the records in the history file
  pipe,      \* the pipelines of this session, in the order of the promise chain
  active,    \* #activeTransferJobId
  live,      \* #activePipeline (0: null)
  commit,    \* commitSelection calls in flight
  intake,    \* jobs whose metadata fetch or probe is in flight
  discard,   \* jobs with a discardArtifacts call in flight
  world,     \* torrents and files, which survive a restart
  asked,     \* history variable: what the user asked for each job ("cancel", "discard")
  restarts   \* number of restarts so far

calls == << commit, intake, discard >>
slots == << active, live >>
vars  == << rec, disk, pipe, active, live, commit, intake, discard, world, asked, restarts >>

TypeOK ==
  /\ rec \in [Jobs -> JobRecords]
  /\ disk \in [Jobs -> JobRecords]
  /\ pipe \in [Pipes -> Pipelines]
  /\ active \in Jobs \cup {NoJob}
  /\ live \in Pipes \cup {0}
  /\ commit \in [Requests -> Commits]
  /\ intake \subseteq Jobs
  /\ discard \subseteq Jobs
  /\ world \in [Jobs -> Worlds]
  /\ asked \in [Jobs -> SUBSET {"cancel", "discard"}]
  /\ restarts \in Nat

Init ==
  /\ rec = [j \in Jobs |-> Absent]
  /\ disk = rec
  /\ pipe = [p \in Pipes |-> NewPipe("free", NoJob, "run")]
  /\ active = NoJob
  /\ live = 0
  /\ commit = [c \in Requests |-> IdleCommit]
  /\ intake = {}
  /\ discard = {}
  /\ world = [j \in Jobs |-> [torrent |-> FALSE, payload |-> FALSE, archive |-> FALSE]]
  /\ asked = [j \in Jobs |-> {}]
  /\ restarts = 0

-----------------------------------------------------------------------------
(* Records *)

StageOf == [ k \in FailureKinds |->
  CASE k = "storage_preflight" -> "preflight"
    [] k = "storage_before_packaging" -> "packaging"
    [] OTHER -> k ]

Fail(r, kind) ==
  [r EXCEPT !.state = "failed", !.error = kind, !.stages[StageOf[kind]] = "failed"]

\* zipRequired
Zip(r) == Cardinality(r.selection) > 1

Cancelled(r) == [r EXCEPT !.state = "cancelled"]

\* kindForState: the kind #runTracked gives to an unexpected error.
KindForState(s) ==
  CASE s = "packaging" -> "packaging"
    [] s = "uploading" -> "upload"
    [] s = "finalizing" -> "finalize"
    [] OTHER -> "download"

\* #runTracked's catch: an error already on the record is kept (??=) and no
\* stage is marked.
Unexpected(r) ==
  [r EXCEPT !.state = "failed",
            !.error = IF r.error = "none" THEN KindForState(r.state) ELSE r.error]

LastNonWaitingStage(stages) ==
  LET begun == { i \in 1 .. 8 : stages[StageOrder[i]] # "waiting" }
  IN  IF begun = {} THEN "none"
      ELSE StageOrder[CHOOSE i \in begun : \A k \in begun : k <= i]

\* Mutant of Swept: a state added to the machine and forgotten in the sweep.
SweptButPackaging(r) ==
  IF r.state \in BusyStates \ {"packaging"}
  THEN [r EXCEPT !.state = "interrupted", !.lastStage = LastNonWaitingStage(r.stages)]
  ELSE r

\* Mutant of Swept: the sweep rebuilds the record and drops its result.
SweptClean(r) ==
  IF r.state \in BusyStates
  THEN [r EXCEPT !.state = "interrupted", !.lastStage = LastNonWaitingStage(r.stages),
                 !.url = FALSE]
  ELSE r

\* startupSweep on one record.
Swept(r) ==
  IF r.state \in BusyStates
  THEN [r EXCEPT !.state = "interrupted", !.lastStage = LastNonWaitingStage(r.stages)]
  ELSE r

Put(j, r) == [rec EXCEPT ![j] = r]

\* What a guarded delete of the owned torrent can leave: it may refuse or fail.
DeleteOwned(w, withFiles) ==
  { w, [w EXCEPT !.torrent = FALSE, !.payload = w.payload /\ ~withFiles] }

\* repository.upsert: one flush writes every record of the cache; when it fails
\* nobody is told.
Save(records) ==
  /\ rec' = records
  /\ disk' \in (IF DiskMayFail THEN {records, disk} ELSE {records})

-----------------------------------------------------------------------------
(* The promise chain *)

Job(p) == pipe[p].job
Rec(p) == rec[pipe[p].job]

Executing(p) == pipe[p].pc \notin {"free", "waiting", "done"}

\* Mutant of Ready: the new link does not wait for the chain.
ReadyAtOnce(p) == pipe[p].pc = "waiting"

\* Links of #transferChain run in order.
Ready(p) == pipe[p].pc = "waiting" /\ \A q \in 1 .. p - 1 : pipe[q].pc = "done"

\* The start of the next link is a microtask: it runs before any I/O event or
\* request is looked at.
Quiet == \A p \in Pipes : ~Ready(p)

NextPipe(p) == pipe[p].pc = "free" /\ \A q \in 1 .. p - 1 : pipe[q].pc # "free"

\* Bound: a call that will create a pipeline is accepted only while one is left for it.
PipesLeft ==
  Cardinality({c \in Requests : commit[c].pc # "idle"})
    < Cardinality({p \in Pipes : pipe[p].pc = "free"})

Goto(p, pc) == pipe' = [pipe EXCEPT ![p].pc = pc]

At(p, pc) == Quiet /\ pipe[p].pc = pc

\* The finally of #runTracked.
Settle(p) ==
  /\ pipe' = [pipe EXCEPT ![p] = NewPipe("done", pipe[p].job, pipe[p].how)]
  /\ active' = IF active = Job(p) THEN NoJob ELSE active
  /\ live' = IF live = p THEN 0 ELSE live

\* The catch of #runTracked for anything but an InvalidTransitionError.
Throw(p) ==
  \/ /\ Rec(p).state \notin TerminalStates
     /\ Save(Put(Job(p), Unexpected(Rec(p))))
     /\ Goto(p, "ending")
     /\ UNCHANGED slots
  \/ /\ Rec(p).state \in TerminalStates
     /\ Settle(p)
     /\ UNCHANGED << rec, disk >>

\* #fail and #finishCancel, then back to the caller's #shouldContinue at pc.
FailAt(p, kind, pc) ==
  Save(Put(Job(p), Fail(Rec(p), kind))) /\ Goto(p, pc) /\ UNCHANGED slots
FinishCancel(p, pc) ==
  Save(Put(Job(p), Cancelled(Rec(p)))) /\ Goto(p, pc) /\ UNCHANGED slots

ShouldContinue(p) == Rec(p).state \notin {"failed", "cancelled"} /\ ~pipe[p].cancelled

-----------------------------------------------------------------------------
(* Intake: createIntake and its continuation *)

Create(j, source) ==
  /\ Quiet
  /\ rec[j].state = "absent"
  /\ Save(Put(j, [Absent EXCEPT !.state = "reading_metadata", !.source = source,
                                !.stages["metadata"] = "active"]))
  /\ intake' = intake \cup {j}
  /\ UNCHANGED << pipe, slots, commit, discard, world, asked, restarts >>

\* Metadata arrives or the fetch fails.  The torrent path keeps a state that
\* changed meanwhile; the direct path assigns whatever happened to the draft.
MetadataResult(j) ==
  /\ Quiet
  /\ j \in intake
  /\ intake' = intake \ {j}
  /\ \/ /\ rec[j].source = "torrent" /\ rec[j].state # "reading_metadata"
        /\ UNCHANGED << rec, disk >>
     \/ /\ rec[j].source = "direct" \/ rec[j].state = "reading_metadata"
        /\ \/ Save(Put(j, [rec[j] EXCEPT !.state = "awaiting_selection",
                                         !.stages["metadata"] = "complete",
                                         !.stages["selection"] = "waiting"]))
           \/ Save(Put(j, Fail(rec[j], "metadata")))
  /\ UNCHANGED << pipe, slots, commit, discard, world, asked, restarts >>

-----------------------------------------------------------------------------
(* commitSelection *)

\* Everything before `await storage.preflight` is one step: the state and the
\* active transfer are looked at here and never again.
CommitBegin(c, j, selection, policy) ==
  /\ Quiet
  /\ commit[c].pc = "idle"
  /\ PipesLeft
  /\ rec[j].state = "awaiting_selection"
  /\ active = NoJob
  /\ selection # {}
  /\ rec[j].source = "direct" => selection = {0}
  /\ rec' = Put(j, [rec[j] EXCEPT !.selection = selection, !.policy = policy,
                                  !.stages["preflight"] = "active"])
  /\ commit' = [commit EXCEPT ![c] = [pc |-> "preflight", job |-> j]]
  /\ UNCHANGED << disk, pipe, slots, intake, discard, world, asked, restarts >>

CommitPreflight(c) ==
  LET j == commit[c].job IN
  /\ Quiet
  /\ commit[c].pc = "preflight"
  /\ \/ \* blocked: the draft stays, Start can be tried again
        /\ Save(Put(j, [rec[j] EXCEPT !.stages["preflight"] = "failed",
                                      !.error = "storage_preflight"]))
        /\ commit' = [commit EXCEPT ![c] = IdleCommit]
     \/ /\ rec' = Put(j, [rec[j] EXCEPT !.stages["preflight"] = "complete"])
        /\ commit' = [commit EXCEPT ![c].pc = "dirs"]
        /\ UNCHANGED disk
  /\ UNCHANGED << pipe, slots, intake, discard, world, asked, restarts >>

CommitDirs(c) ==
  LET j == commit[c].job IN
  /\ Quiet
  /\ commit[c].pc = "dirs"
  /\ \/ /\ Save(Put(j, [rec[j] EXCEPT !.dirs = TRUE, !.stages["selection"] = "complete",
                                      !.state = "queued"]))
        /\ commit' = [commit EXCEPT ![c].pc = "saving"]
     \/ \* mkdir fails: the call rejects
        /\ commit' = [commit EXCEPT ![c] = IdleCommit]
        /\ UNCHANGED << rec, disk >>
  /\ UNCHANGED << pipe, slots, intake, discard, world, asked, restarts >>

\* #startTransfer: the new pipeline takes the active slots at once and joins
\* the end of the chain.
StartTransfer(c, p) ==
  /\ Quiet
  /\ commit[c].pc = "saving"
  /\ NextPipe(p)
  /\ pipe' = [pipe EXCEPT ![p] = NewPipe("waiting", commit[c].job, "run")]
  /\ live' = p
  /\ active' = commit[c].job
  /\ commit' = [commit EXCEPT ![c] = IdleCommit]
  /\ UNCHANGED << rec, disk, intake, discard, world, asked, restarts >>

-----------------------------------------------------------------------------
(* cancel, retry*, discardArtifacts *)

\* live.record.id === jobId
LiveFor(j) == live # 0 /\ Job(live) = j

\* TransferPipeline.cancel on the live pipeline.
CancelLive(j, cleanup) ==
  /\ LiveFor(j)
  /\ ~(rec[j].state = "finalizing" /\ rec[j].url)
  /\ pipe' = [pipe EXCEPT ![live].cancelled = TRUE, ![live].purge = cleanup]
  /\ IF rec[j].state \in DraftStates \cup {"queued"}
     THEN Save(Put(j, Cancelled(rec[j])))
     ELSE UNCHANGED << rec, disk >>

\* A job that no live pipeline drives.
CancelDraft(j) ==
  /\ ~LiveFor(j)
  /\ rec[j].state \in DraftStates \cup {"queued"}
  /\ Save(Put(j, Cancelled(rec[j])))
  /\ UNCHANGED pipe

Cancel(j, cleanup) ==
  /\ Quiet
  /\ rec[j].state \notin TerminalStates \cup {"absent"}
  /\ CancelLive(j, cleanup) \/ CancelDraft(j)
  /\ asked' = [asked EXCEPT ![j] = @ \cup {"cancel"}]
  /\ UNCHANGED << slots, calls, world, restarts >>

\* #resume: joins the chain; the active slots are taken only when it runs.
Resume(j, how) ==
  /\ Quiet
  /\ rec[j].state # "absent"
  /\ active \in {NoJob, j}
  /\ PipesLeft
  /\ \E p \in Pipes : NextPipe(p) /\ pipe' = [pipe EXCEPT ![p] = NewPipe("waiting", j, how)]
  /\ UNCHANGED << rec, disk, slots, calls, world, asked, restarts >>

DiscardBegin(j) ==
  /\ Quiet
  /\ rec[j].state \in TerminalStates
  /\ j \notin discard
  /\ discard' = discard \cup {j}
  /\ asked' = [asked EXCEPT ![j] = @ \cup {"discard"}]
  /\ UNCHANGED << rec, disk, pipe, slots, commit, intake, world, restarts >>

\* The guarded delete, whose refusal is swallowed, then removePath(jobDir).
DiscardEnd(j) ==
  /\ Quiet
  /\ j \in discard
  /\ discard' = discard \ {j}
  /\ \E w \in IF rec[j].hash THEN DeleteOwned(world[j], TRUE) ELSE {world[j]} :
       world' = [world EXCEPT ![j] =
                   IF rec[j].dirs THEN [w EXCEPT !.payload = FALSE, !.archive = FALSE] ELSE w]
  /\ UNCHANGED << rec, disk, pipe, slots, commit, intake, asked, restarts >>

-----------------------------------------------------------------------------
(* TransferPipeline: the start of a link *)

RunRefused(p) ==
  /\ Ready(p) /\ pipe[p].how = "run"
  /\ Rec(p).state # "queued"
  /\ Settle(p)
  /\ UNCHANGED << rec, disk, world >>

RunCancelled(p) ==
  /\ Ready(p) /\ pipe[p].how = "run"
  /\ Rec(p).state = "queued" /\ pipe[p].cancelled
  /\ FinishCancel(p, "ending")
  /\ UNCHANGED world

RunDownload(p) ==
  /\ Ready(p) /\ pipe[p].how = "run"
  /\ Rec(p).state = "queued" /\ ~pipe[p].cancelled
  /\ Save(Put(Job(p), [Rec(p) EXCEPT !.state = "downloading", !.stages["download"] = "active"]))
  /\ Goto(p, IF Rec(p).source = "direct" THEN "fetching" ELSE "adding")
  /\ UNCHANGED << slots, world >>

RetriedKind == [ h \in {"retryPackaging", "retryUpload", "retryStorageCheck"} |->
  CASE h = "retryPackaging" -> "packaging"
    [] h = "retryUpload" -> "upload"
    [] h = "retryStorageCheck" -> "storage_before_packaging" ]

\* packageEntries: every selected file needs a completed path.
EntriesKnown(r) == r.selection \subseteq r.files

Retryable(p) ==
  /\ Rec(p).state = "failed"
  /\ Rec(p).error = RetriedKind[pipe[p].how]
  /\ pipe[p].how = "retryPackaging" => EntriesKnown(Rec(p))

\* Mutant of RetryRefused: the refusal is thrown outside the try that releases.
RetryRefusedUnreleased(p) ==
  /\ Ready(p) /\ pipe[p].how # "run"
  /\ ~Retryable(p)
  /\ Goto(p, "done")
  /\ active' = Job(p)
  /\ live' = p
  /\ UNCHANGED << rec, disk, world >>

\* The link takes the active slots, throws, and releases them.
RetryRefused(p) ==
  /\ Ready(p) /\ pipe[p].how # "run"
  /\ ~Retryable(p)
  /\ pipe' = [pipe EXCEPT ![p] = NewPipe("done", pipe[p].job, pipe[p].how)]
  /\ active' = NoJob
  /\ live' = 0
  /\ UNCHANGED << rec, disk, world >>

\* #resetError
Reset(r) == [r EXCEPT !.error = "none", !.state = "queued"]

\* Mutant of RetryBegin: a retry starts over with the download.
RetryFromStart(p) ==
  /\ Ready(p) /\ pipe[p].how # "run"
  /\ Retryable(p)
  /\ active' = Job(p)
  /\ live' = p
  /\ Goto(p, "fetching")
  /\ Save(Put(Job(p), [Reset(Rec(p)) EXCEPT !.state = "downloading"]))
  /\ UNCHANGED world

RetryBegin(p) ==
  /\ Ready(p) /\ pipe[p].how # "run"
  /\ Retryable(p)
  /\ active' = Job(p)
  /\ live' = p
  /\ IF pipe[p].how = "retryPackaging"
     THEN Goto(p, "checking") /\ UNCHANGED << rec, disk >>
     ELSE Goto(p, "reset") /\ Save(Put(Job(p), Reset(Rec(p))))
  /\ UNCHANGED world

\* retryPackaging looks for every input file before it touches the record.
CheckInputs(p) ==
  /\ At(p, "checking")
  /\ \/ /\ world[Job(p)].payload
        /\ Save(Put(Job(p), Reset(Rec(p))))
        /\ Goto(p, "reset")
        /\ UNCHANGED slots
     \/ /\ ~world[Job(p)].payload
        /\ Settle(p)
        /\ UNCHANGED << rec, disk >>
  /\ UNCHANGED world

-----------------------------------------------------------------------------
(* runDownload *)

\* The torrent appears in qBittorrent while addTorrent is still waiting.
TorrentAdded(p) ==
  /\ At(p, "adding")
  /\ world' = [world EXCEPT ![Job(p)].torrent = TRUE]
  /\ pipe' = [pipe EXCEPT ![p].pc = "added", ![p].added = Rec(p).selection]
  /\ UNCHANGED << rec, disk, slots >>

AddReturns(p) ==
  /\ At(p, "added")
  /\ rec' = Put(Job(p), [Rec(p) EXCEPT !.hash = TRUE])
  /\ Goto(p, "polling")
  /\ UNCHANGED << disk, slots, world >>

AddThrows(p) ==
  /\ At(p, "adding") \/ At(p, "added")
  /\ Throw(p)
  /\ UNCHANGED world

\* A turn of the poll loop that decides nothing, or a progress callback of a
\* fetch, a ZIP or an upload: the record is saved on the way.
ProgressSaved(p) ==
  /\ \E pc \in {"polling", "fetching", "zipping", "uploading"} : At(p, pc)
  /\ rec # disk
  /\ Save(rec)
  /\ UNCHANGED << pipe, slots, world >>

PollCancelled(p) ==
  /\ At(p, "polling")
  /\ pipe[p].cancelled
  /\ Goto(p, "dropping")
  /\ UNCHANGED << rec, disk, slots, world >>

\* The ways a turn of the loop ends it without the user: the tenth polling
\* error, a headroom computation that throws, space running out, completion.
PollEnds(p) ==
  /\ At(p, "polling")
  /\ \/ FailAt(p, "download", "downloaded") /\ UNCHANGED world
     \/ Throw(p) /\ UNCHANGED world
     \/ Save(rec) /\ Goto(p, "critical") /\ UNCHANGED << slots, world >>
     \/ /\ world[Job(p)].torrent
        /\ Save(rec)
        /\ Goto(p, IF pipe[p].cancelled THEN "dropping" ELSE "stopping")
        /\ world' = [world EXCEPT ![Job(p)].payload = TRUE]
        /\ UNCHANGED slots

\* torrent.stop before giving up for lack of space
StoppedCritical(p) ==
  /\ At(p, "critical")
  /\ FailAt(p, "download", "downloaded")
  /\ UNCHANGED world

\* A cancelled download: stop, delete the owned torrent and its data.
Dropped(p) ==
  /\ At(p, "dropping")
  /\ \E w \in DeleteOwned(world[Job(p)], TRUE) : world' = [world EXCEPT ![Job(p)] = w]
  /\ FinishCancel(p, "downloaded")

\* torrent.stop returned: the paths the adapter reported must cover the selection.
Stopped(p) ==
  LET r == [Rec(p) EXCEPT !.stages["download"] = "complete"] IN
  /\ At(p, "stopping")
  /\ IF r.selection \subseteq pipe[p].added
     THEN Save(Put(Job(p),
            [r EXCEPT !.files = pipe[p].added,
                      !.direct = @ \/ ~Zip(r),
                      !.stages["packaging"] = IF Zip(r) THEN @ ELSE "skipped"]))
     ELSE Save(Put(Job(p), Fail(r, "download")))
  /\ Goto(p, "downloaded")
  /\ UNCHANGED << slots, world >>

\* applyCancelCleanup, then finishCancel; without cleanup there is nothing to wait for.
CancelOut(p) ==
  \/ pipe[p].purge /\ Goto(p, "purging") /\ UNCHANGED << rec, disk, slots >>
  \/ ~pipe[p].purge /\ FinishCancel(p, "uploaded")

Purged(p) ==
  /\ At(p, "purging")
  /\ \E w \in IF Rec(p).hash THEN DeleteOwned(world[Job(p)], TRUE) ELSE {world[Job(p)]} :
       world' = [world EXCEPT ![Job(p)] =
                   [w EXCEPT !.archive = @ /\ ~(Zip(Rec(p)) /\ Rec(p).zipPath)]]
  /\ FinishCancel(p, "uploaded")

\* runDirectDownload: the stream has no abort, the flag is read when it ends.
Fetched(p) ==
  /\ At(p, "fetching")
  /\ world' = [world EXCEPT ![Job(p)].payload = TRUE]
  /\ \/ pipe[p].cancelled /\ CancelOut(p)
     \/ ~pipe[p].cancelled /\ Goto(p, "sizing") /\ UNCHANGED << rec, disk, slots >>

FetchFails(p) ==
  /\ At(p, "fetching")
  /\ FailAt(p, "download", "downloaded")
  /\ UNCHANGED world

Sized(p) ==
  /\ At(p, "sizing")
  /\ \/ /\ Save(Put(Job(p), [Rec(p) EXCEPT !.stages["download"] = "complete", !.files = {0},
                                          !.direct = TRUE, !.stages["packaging"] = "skipped"]))
        /\ Goto(p, "downloaded")
        /\ UNCHANGED slots
     \/ Throw(p)
  /\ UNCHANGED world

-----------------------------------------------------------------------------
(* Packaging and upload *)

BeginZip(p) ==
  /\ Save(Put(Job(p), [Rec(p) EXCEPT !.state = "packaging", !.stages["packaging"] = "active"]))
  /\ Goto(p, "zipping")
  /\ UNCHANGED slots

BeginUpload(p) ==
  \/ /\ IF Zip(Rec(p)) THEN ~Rec(p).zipPath ELSE ~Rec(p).direct
     /\ FailAt(p, "upload", "uploaded")
  \/ /\ IF Zip(Rec(p)) THEN Rec(p).zipPath ELSE Rec(p).direct
     /\ Save(Put(Job(p), [Rec(p) EXCEPT !.state = "uploading", !.stages["upload"] = "active"]))
     /\ Goto(p, "uploading")
     /\ UNCHANGED slots

BeginFinalize(p) ==
  /\ Save(Put(Job(p), [Rec(p) EXCEPT !.state = "finalizing", !.stages["finalize"] = "active"]))
  /\ Goto(p, "verifying")
  /\ UNCHANGED slots

\* A retry goes on right after resetError, without looking at the state again.
ResumeAfterReset(p) ==
  /\ At(p, "reset")
  /\ \/ pipe[p].how = "retryPackaging" /\ BeginZip(p)
     \/ pipe[p].how = "retryUpload" /\ BeginUpload(p)
     \/ /\ pipe[p].how = "retryStorageCheck"
        /\ Goto(p, "gating") /\ UNCHANGED << rec, disk, slots >>
  /\ UNCHANGED world

\* shouldContinue between two phases; when it says no, run() just returns.
AfterPhase(p) ==
  /\ \/ At(p, "downloaded") \/ At(p, "gated") \/ At(p, "zipped") \/ At(p, "uploaded")
  /\ IF ~ShouldContinue(p) THEN Settle(p) /\ UNCHANGED << rec, disk >>
     ELSE \/ /\ pipe[p].pc = "downloaded" /\ Zip(Rec(p))
             /\ Goto(p, "gating") /\ UNCHANGED << rec, disk, slots >>
          \/ /\ pipe[p].pc = "downloaded" /\ ~Zip(Rec(p))
             /\ Save(Put(Job(p), [Rec(p) EXCEPT !.stages["packaging"] = "skipped"]))
             /\ Goto(p, "zipped") /\ UNCHANGED slots
          \/ pipe[p].pc = "gated" /\ BeginZip(p)
          \/ pipe[p].pc = "zipped" /\ BeginUpload(p)
          \/ pipe[p].pc = "uploaded" /\ BeginFinalize(p)
  /\ UNCHANGED world

\* gatePackagingOnStorage
Gated(p) ==
  /\ At(p, "gating")
  /\ \/ FailAt(p, "storage_before_packaging", "gated")
     \/ /\ IF ShouldContinue(p) THEN BeginZip(p)
           ELSE Settle(p) /\ UNCHANGED << rec, disk >>
  /\ UNCHANGED world

\* It throws an InvalidTransitionError, for which #runTracked changes nothing.
ZipRefused(p) ==
  /\ At(p, "zipping")
  /\ ~EntriesKnown(Rec(p))
  /\ Settle(p)
  /\ UNCHANGED << rec, disk, world >>

\* Mutant of ZipDone: the path of the archive is not recorded.
ZipDoneUnrecorded(p) ==
  /\ At(p, "zipping")
  /\ EntriesKnown(Rec(p)) /\ world[Job(p)].payload
  /\ world' = [world EXCEPT ![Job(p)].archive = ~pipe[p].cancelled]
  /\ IF pipe[p].cancelled
     THEN FinishCancel(p, "zipped")
     ELSE /\ Save(Put(Job(p), [Rec(p) EXCEPT !.stages["packaging"] = "complete"]))
          /\ Goto(p, "zipped")
          /\ UNCHANGED slots

ZipDone(p) ==
  /\ At(p, "zipping")
  /\ EntriesKnown(Rec(p)) /\ world[Job(p)].payload
  /\ world' = [world EXCEPT ![Job(p)].archive = ~pipe[p].cancelled]
  /\ IF pipe[p].cancelled
     THEN FinishCancel(p, "zipped")
     ELSE /\ Save(Put(Job(p), [Rec(p) EXCEPT !.zipPath = TRUE, !.stages["packaging"] = "complete"]))
          /\ Goto(p, "zipped")
          /\ UNCHANGED slots

ZipFails(p) ==
  /\ At(p, "zipping")
  /\ EntriesKnown(Rec(p))
  /\ world' = [world EXCEPT ![Job(p)].archive = FALSE]
  /\ Goto(p, "unzipping")
  /\ UNCHANGED << rec, disk, slots >>

\* Mutant of PartialZipRemoved: packaging is tried again, as often as it fails.
ZipAgain(p) ==
  /\ At(p, "unzipping")
  /\ IF pipe[p].cancelled THEN CancelOut(p) ELSE Goto(p, "zipping") /\ UNCHANGED << rec, disk, slots >>
  /\ UNCHANGED world

\* The partial ZIP is removed: was it a cancel or a failure?
PartialZipRemoved(p) ==
  /\ At(p, "unzipping")
  /\ IF pipe[p].cancelled THEN CancelOut(p) ELSE FailAt(p, "packaging", "zipped")
  /\ UNCHANGED world

UploadDone(p) ==
  /\ At(p, "uploading")
  /\ IF Zip(Rec(p)) THEN world[Job(p)].archive ELSE world[Job(p)].payload
  /\ IF pipe[p].cancelled THEN CancelOut(p)
     ELSE /\ Save(Put(Job(p), [Rec(p) EXCEPT !.stages["upload"] = "complete"]))
          /\ pipe' = [pipe EXCEPT ![p].pc = "uploaded", ![p].uploaded = TRUE]
          /\ UNCHANGED slots
  /\ UNCHANGED world

\* Mutant of UploadFails: a failed upload removes what it could not send.
UploadFailsRemoving(p) ==
  /\ At(p, "uploading")
  /\ IF pipe[p].cancelled THEN CancelOut(p) ELSE FailAt(p, "upload", "uploaded")
  /\ world' = [world EXCEPT ![Job(p)].payload = FALSE]

UploadFails(p) ==
  /\ At(p, "uploading")
  /\ IF pipe[p].cancelled THEN CancelOut(p) ELSE FailAt(p, "upload", "uploaded")
  /\ UNCHANGED world

-----------------------------------------------------------------------------
(* runFinalizeAndCleanup *)

\* The URL is on the record, in memory, while the direct link is resolved.
Verified(p) ==
  /\ At(p, "verifying")
  /\ IF pipe[p].uploaded
     THEN /\ rec' = Put(Job(p), [Rec(p) EXCEPT !.url = TRUE])
          /\ Goto(p, "resolving")
          /\ UNCHANGED << disk, slots >>
     ELSE FailAt(p, "finalize", "ending")
  /\ UNCHANGED world

\* Mutant of Resolved: cleanup first, the record is saved when it is over.
ResolvedUnsaved(p) ==
  /\ At(p, "resolving")
  /\ rec' = Put(Job(p), [Rec(p) EXCEPT !.stages["finalize"] = "complete",
                                       !.state = "complete", !.stages["cleanup"] = "active"])
  /\ Goto(p, "cleaning")
  /\ UNCHANGED << disk, slots, world >>

Resolved(p) ==
  /\ At(p, "resolving")
  /\ Save(Put(Job(p), [Rec(p) EXCEPT !.stages["finalize"] = "complete"]))
  /\ Goto(p, "published")
  /\ UNCHANGED << slots, world >>

Complete(p) ==
  /\ At(p, "published")
  /\ Save(Put(Job(p), [Rec(p) EXCEPT !.state = "complete", !.stages["cleanup"] = "active"]))
  /\ Goto(p, "cleaning")
  /\ UNCHANGED << slots, world >>

\* The ZIP first, then the torrent; a failure stops there and is only a warning.
Cleanup(p) ==
  LET r == Rec(p)
      wantZip == Zip(r) /\ r.zipPath /\ "zip" \in r.policy
      wantTorrent == r.hash /\ "torrent" \in r.policy
  IN
  /\ At(p, "cleaning")
  /\ \E zipGone, torrentGone \in BOOLEAN :
       /\ zipGone => wantZip
       /\ torrentGone => wantTorrent /\ (wantZip => zipGone)
       /\ world' = [world EXCEPT ![Job(p)] =
            [ torrent |-> @.torrent /\ ~torrentGone,
              payload |-> @.payload /\ ~(torrentGone /\ "files" \in r.policy),
              archive |-> @.archive /\ ~zipGone ]]
       /\ Save(Put(Job(p), [r EXCEPT !.stages["cleanup"] =
            IF (wantZip => zipGone) /\ (wantTorrent => torrentGone) THEN "complete" ELSE "failed"]))
  /\ Goto(p, "ending")
  /\ UNCHANGED slots

End(p) ==
  /\ At(p, "ending")
  /\ Settle(p)
  /\ UNCHANGED << rec, disk, world >>

-----------------------------------------------------------------------------
(* The process dies and starts again: memory is lost, startupSweep runs before *)
(* any request is served, qBittorrent is not asked.                            *)

Restart ==
  /\ restarts < MaxRestarts
  /\ restarts' = restarts + 1
  /\ Save([j \in Jobs |-> Swept(disk[j])])
  /\ pipe' = [p \in Pipes |-> NewPipe("free", NoJob, "run")]
  /\ active' = NoJob /\ live' = 0
  /\ commit' = [c \in Requests |-> IdleCommit]
  /\ intake' = {} /\ discard' = {}
  /\ UNCHANGED << world, asked >>

-----------------------------------------------------------------------------

\* Steps the engine and its local services take without the user.
OwnStep(p) ==
  \/ RunRefused(p) \/ RunCancelled(p) \/ RunDownload(p) \/ RetryRefused(p) \/ RetryBegin(p)
  \/ CheckInputs(p) \/ TorrentAdded(p) \/ AddReturns(p) \/ AddThrows(p)
  \/ PollCancelled(p) \/ StoppedCritical(p) \/ Dropped(p) \/ Stopped(p) \/ Sized(p)
  \/ ResumeAfterReset(p) \/ AfterPhase(p) \/ Gated(p) \/ Purged(p)
  \/ ZipRefused(p) \/ ZipDone(p) \/ ZipFails(p) \/ PartialZipRemoved(p)
  \/ UploadDone(p) \/ UploadFails(p)
  \/ Verified(p) \/ Resolved(p) \/ Complete(p) \/ Cleanup(p) \/ End(p)

\* Steps that wait for the swarm or for the server behind a direct link.
RemoteStep(p) == ProgressSaved(p) \/ PollEnds(p) \/ Fetched(p) \/ FetchFails(p)

PipelineStep(p) ==
  (OwnStep(p) \/ RemoteStep(p)) /\ UNCHANGED << calls, asked, restarts >>

CommitStep(c) == CommitPreflight(c) \/ CommitDirs(c) \/ \E p \in Pipes : StartTransfer(c, p)

UserStep ==
  \E j \in Jobs :
    \/ \E source \in Sources : Create(j, source)
    \/ \E c \in Requests, selection \in SUBSET Files, policy \in Policies :
         CommitBegin(c, j, selection, policy)
    \/ \E cleanup \in BOOLEAN : Cancel(j, cleanup)
    \/ \E how \in DOMAIN RetriedKind : Resume(j, how)
    \/ DiscardBegin(j)

Next ==
  \/ UserStep
  \/ \E j \in Jobs : MetadataResult(j) \/ DiscardEnd(j)
  \/ \E c \in Requests : CommitStep(c)
  \/ \E p \in Pipes : PipelineStep(p)
  \/ Restart

Spec == Init /\ [][Next]_vars

(***************************************************************************)
(* Local I/O, qBittorrent's API, packaging and Viking calls end (they carry *)
(* timeouts or work on finite data).  Nothing is assumed of the swarm, of a *)
(* direct link's server, or of the user.                                    *)
(***************************************************************************)
Fairness ==
  /\ \A p \in Pipes : WF_vars(OwnStep(p) /\ UNCHANGED << calls, asked, restarts >>)
  /\ \A c \in Requests : WF_vars(CommitStep(c))
  /\ \A j \in Jobs : WF_vars(MetadataResult(j)) /\ WF_vars(DiscardEnd(j))

FairSpec == Spec /\ Fairness

-----------------------------------------------------------------------------
(* Safety *)

\* The promise chain serialises transfers: of two pipelines the later one has
\* not begun before the earlier one is done (#startTransfer, #resume).
OneAtATime ==
  \A p, q \in Pipes : q < p /\ pipe[p].pc \notin {"free", "waiting"} => pipe[q].pc = "done"

\* #activeTransferJobId never outlives the pipelines of its job, so Start is
\* never refused for a transfer that no longer exists; nor does #activePipeline.
SlotsReleased ==
  /\ active # NoJob =>
       \E p \in Pipes : pipe[p].job = active /\ pipe[p].pc \notin {"free", "done"}
  /\ live # 0 => pipe[live].pc \notin {"free", "done"}

\* "Persist the final URL/hash BEFORE any destructive cleanup": a cleanup that has
\* begun, and a job shown as complete, have their URL in the history file.
UrlBeforeCleanup ==
  \A j \in Jobs :
    rec[j].state = "complete" \/ rec[j].stages["cleanup"] # "waiting" => disk[j].url

\* Downloaded files disappear only when their URL is on disk or when the user
\* cancelled or discarded the job: no failure, retry or restart loses them.
PayloadKept ==
  \A j \in Jobs :
    rec[j].files # {} /\ ~world[j].payload => disk[j].url \/ asked[j] # {}

\* A started transfer that the user never cancelled is always driven by someone:
\* a Start about to create its pipeline or a pipeline not yet done.
Driven(j) ==
  \/ \E c \in Requests : commit[c].job = j /\ commit[c].pc = "saving"
  \/ \E p \in Pipes : pipe[p].job = j /\ pipe[p].pc \notin {"free", "done"}

TransferDriven ==
  \A j \in Jobs : rec[j].state \in BusyStates => Driven(j) \/ "cancel" \in asked[j]

\* What an outcome says is true. A failed job offers only retries that can work
\* from what is recorded: packaging needs the completed files, upload also the
\* artifact. A job shown as cancelled has no published link.
OutcomesTrue ==
  \A j \in Jobs :
    /\ rec[j].state = "failed" =>
         /\ rec[j].error # "none"
         /\ rec[j].error \in {"storage_before_packaging", "packaging", "upload"} => rec[j].files # {}
         /\ rec[j].error = "upload" => IF Zip(rec[j]) THEN rec[j].zipPath ELSE rec[j].direct
    /\ rec[j].state = "cancelled" => ~rec[j].url

(* What a step may never do *)

\* A URL that reached the history file is never lost again.
UrlNeverLost == [][\A j \in Jobs : disk[j].url => disk'[j].url]_vars

\* Once its files are complete a job is never downloaded again ("never redownloads").
NeverRedownloads ==
  [][\A j \in Jobs :
       rec[j].files # {} /\ rec[j].state # "downloading" => rec'[j].state # "downloading"]_vars

(* Liveness *)

\* A pipeline ends whatever the swarm does, once it is cancelled in the download of
\* its torrent or past it: nothing waits for a remote peer any more, and the poll
\* loop notices the flag by itself.
PipelineEnds ==
  \A p \in Pipes :
    (\/ pipe[p].pc = "polling" /\ pipe[p].cancelled
     \/ pipe[p].pc \in {"downloaded", "zipping", "uploading", "verifying"})
    ~> pipe[p].pc \in {"free", "done"}

-----------------------------------------------------------------------------
(* The abstract promise the engine implements (Delivery) *)

Promise == INSTANCE Delivery WITH
  running   <- { j \in Jobs : \E p \in Pipes : pipe[p].job = j /\ Executing(p) },
  published <- { j \in Jobs : disk[j].url },
  held      <- { j \in Jobs : world[j].payload },
  released  <- { j \in Jobs : asked[j] # {} }

ImplementsDelivery == Promise!Spec

-----------------------------------------------------------------------------
(* What comments and reports say of the engine, and the code does not keep *)

\* "user cancel -> cancelled": a job in a busy state always has somebody who will
\* take it to an outcome, cancelled or not.
NoJobAbandoned == \A j \in Jobs : rec[j].state \in BusyStates => Driven(j)

=============================================================================
