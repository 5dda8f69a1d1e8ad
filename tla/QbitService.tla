---------------------------- MODULE QbitService ----------------------------
(***************************************************************************)
(* What the job engine does to qBittorrent (src/main/qbit and the torrent  *)
(* gateway): two or more jobs whose source is the same torrent, so the     *)
(* same info hash, a user who works in qBittorrent beside them, and a      *)
(* WebUI API whose calls may be refused, or be done and their answer lost. *)
(*                                                                         *)
(* A pipeline (there is one at a time) and the discards a user asks for    *)
(* run side by side.  A step is one call of the WebUI API with the code up *)
(* to the next one: whatever a step read may be stale when the next runs.  *)
(* serial tells the torrents added under the hash apart, seen is the one   *)
(* the last guard let pass; raced is a history variable, set when a call   *)
(* changes another torrent than the one its guard had looked at.           *)
(***************************************************************************)
EXTENDS Naturals, FiniteSets

CONSTANTS
  Jobs,         \* jobs of the one source
  NoJob,        \* no job: the user's own directory, no category
  Files,        \* file indexes of the torrent
  Selection,    \* [Jobs -> files the user selected for the job]
  MaxAdds,      \* bound: torrents ever added under the hash
  MaxRestarts,  \* bound: restarts of the app
  MayFail,      \* whether calls of the WebUI API may fail
  UserActs      \* what the user does in qBittorrent: subset of {"add", "remove", "tag"}

INTAKE_TAG == "vr_intake"

ASSUME QbitConstants ==
  /\ NoJob \notin Jobs /\ INTAKE_TAG \notin Jobs
  /\ Selection \in [Jobs -> (SUBSET Files) \ {{}}]
  /\ IsFiniteSet(Jobs) /\ MaxAdds \in Nat /\ MaxAdds >= Cardinality(Jobs)
  /\ MaxRestarts \in Nat
  /\ MayFail \in BOOLEAN

Owners == Jobs \cup {NoJob}

-----------------------------------------------------------------------------
(* A torrent of qBittorrent *)

NoTorrent == [serial |-> 0]

\* "active" is every state in which qBittorrent works on it: downloading,
\* stalled, queued, checking, moving, seeding.
RunStates == {"stopped", "active", "error", "missingFiles"}

Torrents ==
  [ serial   : 1 .. MaxAdds,
    tags     : SUBSET (Jobs \cup {INTAKE_TAG}),
    category : Owners,
    path     : Owners,                  \* whose directory it downloads into
    run      : RunStates,
    meta     : BOOLEAN,                 \* the file list is known
    wanted   : SUBSET Files ]           \* files with a priority above 0

PipeStates ==
  { "idle", "inspect", "lookup", "evict", "add", "metadata", "recheck", "tag",
    "categorise", "untag", "deselect", "select", "verify", "start", "check", "contain",
    "poll", "files", "paths", "save", "halt", "halting", "kept", "prove", "guard", "erase" }

\* elsewhere is a history field: the files that were found complete are those of
\* a torrent that downloads into another directory than the job's.
Pipes == [ pc : PipeStates, job : Owners, seen : 0 .. MaxAdds,
           why : {"none", "cancel", "critical", "done"}, cancelled : BOOLEAN,
           elsewhere : BOOLEAN ]
IdlePipe == [ pc |-> "idle", job |-> NoJob, seen |-> 0, why |-> "none", cancelled |-> FALSE,
              elsewhere |-> FALSE ]

Discards == [ pc : {"idle", "prove", "guard", "erase", "rmdir"}, seen : 0 .. MaxAdds ]
IdleDiscard == [ pc |-> "idle", seen |-> 0 ]

JobStates == {"new", "draft", "downloading", "complete", "failed", "cancelled"}

VARIABLES
  torrent,    \* the torrent under the hash, or NoTorrent
  adds,       \* torrents added so far
  data,       \* directory -> files complete on disk
  job,        \* job -> state
  handle,     \* job -> record.torrentId: "none", "held" in memory, "saved"
  pipe,       \* the pipeline in progress
  discard,    \* job -> a discardArtifacts in progress
  jobs,       \* IntakeRegistry.jobs
  intake,     \* IntakeRegistry knows the intake token
  token,      \* QbitTorrentGateway.tokensBySource knows the token
  restarts,
  raced,      \* history: see above
  leaked      \* history: jobs whose cancel left their torrent, since a call of the
              \* deletion failed or the cancel came once packaging had begun

vars == << torrent, adds, data, job, handle, pipe, discard, jobs, intake, token,
           restarts, raced, leaked >>

\* Every variable holds a value of its shape.
TypeOK ==
  /\ torrent \in Torrents \cup {NoTorrent}
  /\ adds \in 0 .. MaxAdds
  /\ data \in [Owners -> SUBSET Files]
  /\ job \in [Jobs -> JobStates]
  /\ handle \in [Jobs -> {"none", "held", "saved"}]
  /\ pipe \in Pipes
  /\ discard \in [Jobs -> Discards]
  /\ jobs \subseteq Jobs
  /\ {intake, token, raced} \subseteq BOOLEAN
  /\ restarts \in 0 .. MaxRestarts
  /\ leaked \subseteq Jobs

Init ==
  /\ torrent = NoTorrent /\ adds = 0
  /\ data = [d \in Owners |-> {}]
  /\ job = [j \in Jobs |-> "new"]
  /\ handle = [j \in Jobs |-> "none"]
  /\ pipe = IdlePipe
  /\ discard = [j \in Jobs |-> IdleDiscard]
  /\ jobs = {} /\ intake = FALSE /\ token = FALSE
  /\ restarts = 0 /\ raced = FALSE /\ leaked = {}

-----------------------------------------------------------------------------
(* Ownership *)

Exists == torrent # NoTorrent

\* The jobs and the intake that a torrent's tags and category name.
Marks(t) == t.tags \cup ({t.category} \ {NoJob})

Foreign(t, j) == \E k \in Jobs \ {j} : k \in Marks(t)

Claimable(t, j) == j \in Marks(t) \/ INTAKE_TAG \in Marks(t)

\* Mutant: anything without another job's mark is adopted.
AdoptableUnmarked(t, j) == ~Foreign(t, j)

\* assertCommitOwnership does not throw
Adoptable(t, j) == Claimable(t, j) /\ ~Foreign(t, j)

\* The leftover of another job that commit removes: only a torrent that is
\* claimable gets as far as having its foreign tag reported.  The set of
\* removable states names 'errored', which qBittorrent never reports.
RemovableStates == {"stopped", "missingFiles"}
Evictable(t, j) == Claimable(t, j) /\ Foreign(t, j) /\ t.run \in RemovableStates

\* verifyOwnership: tag or category, and the save path
Owned(t, j) == j \in Marks(t) /\ t.path = j

-----------------------------------------------------------------------------
(* Calls of the WebUI API *)

\* A call is done and answered, refused, or done and its answer lost.
Outcomes == IF MayFail THEN {"ok", "refused", "lost"} ELSE {"ok"}

FreshStopped(j) ==
  [ serial |-> adds + 1, tags |-> {j}, category |-> j, path |-> j, run |-> "stopped",
    meta |-> FALSE, wanted |-> Files ]

Prioritised(t, set, up) ==
  [t EXCEPT !.wanted = IF up THEN @ \cup set ELSE @ \ set]

\* A start or a stop of an unknown hash is answered Ok.
Started(t) == IF t # NoTorrent /\ t.run = "stopped" THEN [t EXCEPT !.run = "active"] ELSE t
Stopped(t) == IF t # NoTorrent /\ t.run = "active" THEN [t EXCEPT !.run = "stopped"] ELSE t

\* So are addTags, setCategory and removeTags.
Tagged(t, j) == IF t = NoTorrent THEN t ELSE [t EXCEPT !.tags = @ \cup {j}]
Categorised(t, j) == IF t = NoTorrent THEN t ELSE [t EXCEPT !.category = j]
Untagged(t) == IF t = NoTorrent THEN t ELSE [t EXCEPT !.tags = @ \ {INTAKE_TAG}]

\* /torrents/delete removes whatever has the hash, with its files if asked to
DeletedData(withFiles) ==
  IF Exists /\ withFiles THEN [data EXCEPT ![torrent.path] = {}] ELSE data

\* What a call that changes the torrent to t says of the guard before it
Touches(t, seen) == raced' = (raced \/ (t # torrent /\ torrent.serial # seen))

-----------------------------------------------------------------------------
(* The pipeline's helpers *)

J == pipe.job
Goto(pc) == pipe' = [pipe EXCEPT !.pc = pc]
Look(pc) == pipe' = [pipe EXCEPT !.pc = pc, !.seen = torrent.serial]
At(pc) == pipe.pc = pc

\* The pipeline's job ends in a state, the next pipeline may start.
EndAs(s) == job' = [job EXCEPT ![J] = s] /\ pipe' = IdlePipe
Throw == EndAs("failed")

Server == << torrent, adds, data >>
Registry == << jobs, intake, token >>
History == << raced, leaked >>
Local == << discard, restarts, leaked >>

\* A read that fails ends a commit as it is.
ReadFails == MayFail /\ Throw /\ UNCHANGED << Server, handle, Registry, Local, raced >>

\* A call that would make the torrent t and lead to pc.
CallTo(t, pc) ==
  \E o \in Outcomes :
    /\ torrent' = IF o = "refused" THEN torrent ELSE t
    /\ IF o = "refused" THEN UNCHANGED raced ELSE Touches(t, pipe.seen)
    /\ IF o = "ok" THEN Goto(pc) /\ UNCHANGED job ELSE Throw
    /\ UNCHANGED << adds, data, handle, Registry, Local >>

\* A call that would make the torrent t and whose outcome nobody looks at.
Quietly(t) ==
  \E u \in {t} \cup (IF MayFail THEN {torrent} ELSE {}) :
    torrent' = u /\ Touches(u, pipe.seen)

StopQuietly == Quietly(Stopped(torrent))

-----------------------------------------------------------------------------
(* Intake and commitTorrentSelection *)

\* inspectTorrent made a record of the metadata: the registry knows the intake,
\* the gateway its token.
IntakeKnown == token' = TRUE /\ intake' = TRUE

\* fetchMetadata of the user's draft: nothing is added to qBittorrent.
FetchMetadata(j) ==
  /\ job[j] = "new"
  /\ job' = [job EXCEPT ![j] = "draft"]
  /\ IntakeKnown
  /\ UNCHANGED << Server, handle, pipe, jobs, discard, restarts, History >>

\* The token is cached by source, else the source is inspected again.
ResolveIntake == IF token THEN "lookup" ELSE "inspect"

Begin(j) ==
  /\ At("idle") /\ job[j] = "draft"
  /\ job' = [job EXCEPT ![j] = "downloading"]
  /\ pipe' = [IdlePipe EXCEPT !.pc = ResolveIntake, !.job = j]
  /\ UNCHANGED << Server, handle, Registry, Local, raced >>

\* A poll of fetchMetadata is answered with the file list.
Inspected ==
  /\ At("inspect")
  /\ Goto("lookup") /\ IntakeKnown
  /\ UNCHANGED << Server, job, handle, jobs, Local, raced >>

\* qBittorrent is too old for fetchMetadata or for the API key (the fallback
\* lacks a directory and throws), or the metadata do not come in time.
Uninspected ==
  /\ At("inspect")
  /\ Throw
  /\ UNCHANGED << Server, handle, Registry, Local, raced >>

\* Of commit's input only the intake can be wrong: a selection is not empty and
\* was made of the indexes of this source.
UnknownIntake ==
  /\ At("lookup") /\ ~intake
  /\ Throw
  /\ UNCHANGED << Server, handle, Registry, Local, raced >>

Lookup ==
  /\ At("lookup") /\ intake
  /\ \/ /\ CASE ~Exists                -> Look("add") /\ UNCHANGED job
              [] Exists /\ Adoptable(torrent, J) -> Look("tag") /\ UNCHANGED job
              [] Exists /\ Evictable(torrent, J) -> Look("evict") /\ UNCHANGED job
              [] OTHER                 -> Throw
        /\ UNCHANGED << Server, handle, Registry, Local, raced >>
     \/ ReadFails

Evict == At("evict") /\ CallTo(NoTorrent, "add")

\* "Fails." when the hash is taken: commit looks again.
AddRefused ==
  /\ At("add") /\ Exists
  /\ Goto("recheck")
  /\ UNCHANGED << Server, job, handle, Registry, Local, raced >>

AddFresh ==
  /\ At("add") /\ ~Exists
  /\ \/ /\ torrent' = FreshStopped(J) /\ adds' = adds + 1
        /\ Goto("metadata") /\ UNCHANGED job
     \/ /\ MayFail /\ torrent' = FreshStopped(J) /\ adds' = adds + 1 /\ Throw
     \/ MayFail /\ UNCHANGED << torrent, adds >> /\ Throw
  /\ UNCHANGED << data, handle, Registry, Local, raced >>

\* Mutant: no deadline.
MetadataForever ==
  /\ At("metadata") /\ Exists /\ torrent.meta /\ Goto("recheck")
  /\ UNCHANGED << Server, job, handle, Registry, Local, raced >>

Metadata ==
  /\ At("metadata")
  /\ \/ Exists /\ torrent.meta /\ Goto("recheck") /\ UNCHANGED job
     \/ Throw
  /\ UNCHANGED << Server, handle, Registry, Local, raced >>

Recheck ==
  /\ At("recheck")
  /\ \/ /\ IF Exists /\ Adoptable(torrent, J) THEN Look("tag") /\ UNCHANGED job ELSE Throw
        /\ UNCHANGED << Server, handle, Registry, Local, raced >>
     \/ ReadFails

AddTags == At("tag") /\ CallTo(Tagged(torrent, J), "categorise")

SetCategory == At("categorise") /\ CallTo(Categorised(torrent, J), "untag")

\* "Best-effort; intake tag absence is not fatal."
DropIntakeTag ==
  /\ At("untag")
  /\ Quietly(Untagged(torrent))
  /\ Goto("deselect")
  /\ UNCHANGED << adds, data, job, handle, Registry, Local >>

\* filePrio of a torrent without a file list is an error; and the server may
\* answer Ok without having changed a thing.
SetPriorities(set, up, pc) ==
  \/ /\ Exists /\ torrent.meta
     /\ \E applied \in BOOLEAN :
          CallTo(IF applied THEN Prioritised(torrent, set, up) ELSE torrent, pc)
  \/ /\ ~(Exists /\ torrent.meta) /\ Throw
     /\ UNCHANGED << Server, handle, Registry, Local, raced >>

Deselect == At("deselect") /\ SetPriorities(Files \ Selection[J], FALSE, "select")

Select == At("select") /\ SetPriorities(Selection[J], TRUE, "verify")

PrioritiesApplied == Exists /\ torrent.meta /\ torrent.wanted = Selection[J]

\* Mutant: the priorities are not read back.
VerifyUnread ==
  /\ At("verify") /\ Goto("start")
  /\ UNCHANGED << Server, job, handle, Registry, Local, raced >>

Verify ==
  /\ At("verify")
  /\ \/ /\ IF PrioritiesApplied THEN Goto("start") /\ UNCHANGED job ELSE Throw
        /\ UNCHANGED << Server, handle, Registry, Local, raced >>
     \/ ReadFails

Start == At("start") /\ CallTo(Started(torrent), "check")

\* Identity, ownership and place of the live torrent: drift is contained.
Check ==
  /\ At("check")
  /\ \/ /\ CASE ~Exists -> Throw /\ UNCHANGED << handle, jobs >>
              [] Exists /\ torrent.run \notin {"error", "missingFiles"} /\ Owned(torrent, J) ->
                   /\ Look("poll") /\ UNCHANGED job
                   /\ jobs' = jobs \cup {J}
                   /\ handle' = [handle EXCEPT ![J] = "held"]
              [] OTHER -> Goto("contain") /\ UNCHANGED << job, handle, jobs >>
        /\ UNCHANGED << Server, intake, token, Local, raced >>
     \/ ReadFails

\* Best effort: the answer of the stop is not looked at.
Contain ==
  /\ At("contain")
  /\ StopQuietly
  /\ Throw
  /\ UNCHANGED << adds, data, handle, Registry, Local >>

-----------------------------------------------------------------------------
(* Polling, and what follows the download *)

\* The torrent under the hash is there; whose it is is not looked at.
Poll ==
  /\ At("poll") /\ ~pipe.cancelled /\ Exists
  /\ Goto("files")
  /\ UNCHANGED << Server, job, handle, Registry, Local, raced >>

\* Five polls in a row failed.
PollGivesUp ==
  /\ At("poll") /\ ~pipe.cancelled
  /\ MayFail \/ ~Exists
  /\ Throw
  /\ handle' = [handle EXCEPT ![J] = "saved"]
  /\ UNCHANGED << Server, Registry, Local, raced >>

PollCancelled ==
  /\ At("poll") /\ pipe.cancelled
  /\ pipe' = [pipe EXCEPT !.pc = "halt", !.why = "cancel"]
  /\ UNCHANGED << Server, job, handle, Registry, Local, raced >>

SelectedComplete == Exists /\ torrent.meta /\ Selection[J] \subseteq data[torrent.path]

\* The file list: "completion degrades to zeros rather than failing the poll".
PollFiles ==
  /\ At("files")
  /\ \/ SelectedComplete /\ pipe' = [pipe EXCEPT !.pc = "paths", !.elsewhere = torrent.path # J]
     \/ /\ MayFail \/ ~SelectedComplete
        /\ pipe' = [pipe EXCEPT !.pc = "save", !.why = "none"]
  /\ UNCHANGED << Server, job, handle, Registry, Local, raced >>

\* assertWithinJobRoot, for the directory of the live torrent; when there is none,
\* or the call fails, the job's directory is taken for it.
PathsInJobRoot == Exists => torrent.path = J

\* The selected files are handed out.
DownloadDone ==
  /\ At("paths")
  /\ MayFail \/ PathsInJobRoot
  /\ pipe' = [pipe EXCEPT !.pc = "save", !.why = "done"]
  /\ UNCHANGED << Server, job, handle, Registry, Local, raced >>

\* A path outside the job's directory fails the poll, which may be the fifth.
PathsOutside ==
  /\ At("paths") /\ ~PathsInJobRoot
  /\ \/ /\ pipe' = [pipe EXCEPT !.pc = "poll", !.elsewhere = FALSE]
        /\ UNCHANGED << job, handle >>
     \/ Throw /\ handle' = [handle EXCEPT ![J] = "saved"]
  /\ UNCHANGED << Server, Registry, Local, raced >>

\* A poll that answered saves the record; then the disk, the files and the user
\* are asked whether it was the last.
PollSave ==
  /\ At("save")
  /\ handle' = [handle EXCEPT ![J] = "saved"]
  /\ \/ pipe' = [pipe EXCEPT !.pc = "halt", !.why = "critical"]
     \/ pipe.cancelled /\ pipe' = [pipe EXCEPT !.pc = "halt", !.why = "cancel"]
     \/ ~pipe.cancelled /\ Goto(IF pipe.why = "done" THEN "halt" ELSE "poll")
  /\ UNCHANGED << Server, job, Registry, Local, raced >>

\* A cancel between two phases: the pipeline returns and nobody drives the job.
Abandon == pipe' = IdlePipe /\ UNCHANGED job

\* Mutant: a cancel stops the torrent and leaves it.
AfterHaltKeeps ==
  CASE pipe.why = "cancel"   -> EndAs("cancelled")
    [] pipe.why = "critical" -> Throw
    [] pipe.why = "done"     -> IF pipe.cancelled THEN Abandon ELSE Goto("kept") /\ UNCHANGED job

\* Where a stop leads, whether or not it worked.
AfterHalt ==
  CASE pipe.why = "cancel"   -> Goto("prove") /\ UNCHANGED job
    [] pipe.why = "critical" -> Throw
    [] pipe.why = "done"     -> IF pipe.cancelled THEN Abandon ELSE Goto("kept") /\ UNCHANGED job

\* stopJobTorrent verifies; a torrent the registry or qBittorrent does not
\* know is stopped by its hash, a refusal and an error are swallowed.
Halt ==
  /\ At("halt")
  /\ \/ IF J \in jobs /\ Exists /\ ~Owned(torrent, J)
        THEN AfterHalt ELSE Look("halting") /\ UNCHANGED job
     \/ MayFail /\ AfterHalt
  /\ UNCHANGED << Server, handle, Registry, Local, raced >>

Halting ==
  /\ At("halting")
  /\ StopQuietly
  /\ AfterHalt
  /\ UNCHANGED << adds, data, handle, Registry, Local >>

\* Packaging and upload: the job fails with its files kept, or is complete and
\* cleaned up (the torrent deleted as well, when the policy says so).  A cancel
\* that comes now ends it too, and leaves the torrent and the files; it may also
\* fall between two phases, or be too late to be heard.
Kept ==
  /\ At("kept")
  /\ \/ EndAs("failed") /\ UNCHANGED leaked
     \/ EndAs("complete") /\ UNCHANGED leaked
     \/ Goto("prove") /\ job' = [job EXCEPT ![J] = "complete"] /\ UNCHANGED leaked
     \/ pipe.cancelled /\ EndAs("cancelled") /\ leaked' = leaked \cup {J}
     \/ pipe.cancelled /\ Abandon /\ UNCHANGED leaked
  /\ UNCHANGED << Server, handle, Registry, discard, restarts, raced >>

-----------------------------------------------------------------------------
(* deleteOwned, by the pipeline (with cancel or cleanup) and by a discard *)

\* How the proof ends for the torrent there is now: cleanupJobTorrent knows the
\* job, or the local guard takes over; it is refused, void, or may delete.
Proof(j, pc) ==
  CASE pc = "prove" /\ (j \notin jobs \/ ~Exists) -> "guard"
    [] pc = "guard" /\ ~Exists -> "gone"
    [] Exists /\ Owned(torrent, j) /\ (pc = "prove" => j \in jobs) -> "erase"
    [] OTHER -> "refused"

\* The deletion is over; nothing it throws reaches the job's state.
PurgeOver(deleted) ==
  /\ EndAs(IF pipe.why = "cancel" THEN "cancelled" ELSE job[J])
  /\ handle' = [handle EXCEPT ![J] = "saved"]
  /\ leaked' = IF deleted \/ pipe.why # "cancel" THEN leaked ELSE leaked \cup {J}

Prove ==
  /\ pipe.pc \in {"prove", "guard"}
  /\ \/ LET r == Proof(J, pipe.pc) IN
        IF r \in {"guard", "erase"} THEN Look(r) /\ UNCHANGED << job, handle, leaked >>
                                    ELSE PurgeOver(r = "gone")
     \/ MayFail /\ PurgeOver(FALSE)
  /\ UNCHANGED << Server, Registry, discard, restarts, raced >>

\* A cancel deletes the files, a cleanup as its policy says.
Erase ==
  /\ At("erase")
  /\ \E o \in Outcomes, withFiles \in IF pipe.why = "cancel" THEN {TRUE} ELSE BOOLEAN :
       /\ torrent' = IF o = "refused" THEN torrent ELSE NoTorrent
       /\ data' = IF o = "refused" THEN data ELSE DeletedData(withFiles)
       /\ IF o = "refused" THEN UNCHANGED raced ELSE Touches(NoTorrent, pipe.seen)
       /\ jobs' = IF o = "ok" THEN jobs \ {J} ELSE jobs
       /\ PurgeOver(o = "ok")
  /\ UNCHANGED << adds, intake, token, discard, restarts >>

Terminal(j) == job[j] \in {"complete", "failed", "cancelled"}

\* Mutant: the job's state is not looked at.
DiscardBeginAnytime(j) ==
  /\ discard[j].pc = "idle"
  /\ handle[j] # "none" \/ data[j] # {}
  /\ discard' = [discard EXCEPT ![j].pc = IF handle[j] = "none" THEN "rmdir" ELSE "prove"]
  /\ UNCHANGED << Server, job, handle, pipe, Registry, restarts, History >>

DiscardBegin(j) ==
  /\ Terminal(j) /\ discard[j].pc = "idle"
  /\ handle[j] # "none" \/ data[j] # {}
  /\ discard' = [discard EXCEPT ![j].pc = IF handle[j] = "none" THEN "rmdir" ELSE "prove"]
  /\ UNCHANGED << Server, job, handle, pipe, Registry, restarts, History >>

DiscardProve(j) ==
  /\ discard[j].pc \in {"prove", "guard"}
  /\ \E r \in {Proof(j, discard[j].pc)} \cup (IF MayFail THEN {"refused"} ELSE {}) :
       discard' = [discard EXCEPT ![j] =
         [pc |-> IF r \in {"guard", "erase"} THEN r ELSE "rmdir", seen |-> torrent.serial]]
  /\ UNCHANGED << Server, job, handle, pipe, Registry, restarts, History >>

DiscardErase(j) ==
  /\ discard[j].pc = "erase"
  /\ \E o \in Outcomes :
       /\ torrent' = IF o = "refused" THEN torrent ELSE NoTorrent
       /\ data' = IF o = "refused" THEN data ELSE DeletedData(TRUE)
       /\ IF o = "refused" THEN UNCHANGED raced ELSE Touches(NoTorrent, discard[j].seen)
       /\ jobs' = IF o = "ok" THEN jobs \ {j} ELSE jobs
  /\ discard' = [discard EXCEPT ![j].pc = "rmdir"]
  /\ UNCHANGED << adds, job, handle, pipe, intake, token, restarts, leaked >>

\* The job directory goes, whatever became of the torrent.
DiscardEnd(j) ==
  /\ discard[j].pc = "rmdir"
  /\ data' = [data EXCEPT ![j] = {}]
  /\ discard' = [discard EXCEPT ![j] = IdleDiscard]
  /\ UNCHANGED << torrent, adds, job, handle, pipe, Registry, restarts, History >>

-----------------------------------------------------------------------------
(* The user, the app's life, qBittorrent *)

Cancel ==
  /\ pipe.pc \notin {"idle", "prove", "guard", "erase"} /\ job[J] = "downloading"
  /\ ~pipe.cancelled
  /\ pipe' = [pipe EXCEPT !.cancelled = TRUE]
  /\ UNCHANGED << Server, job, handle, Registry, Local, raced >>

\* The qBittorrent settings change: a new service with an empty registry, while
\* the gateway keeps its tokens.  Not during a transfer.
SwapService ==
  /\ At("idle") /\ (intake \/ jobs # {})
  /\ jobs' = {} /\ intake' = FALSE
  /\ UNCHANGED << Server, job, handle, pipe, token, Local, raced >>

Restart ==
  /\ restarts < MaxRestarts
  /\ restarts' = restarts + 1
  /\ pipe' = IdlePipe /\ discard' = [j \in Jobs |-> IdleDiscard]
  /\ job' = [j \in Jobs |-> IF job[j] = "downloading" THEN "failed" ELSE job[j]]
  /\ handle' = [j \in Jobs |-> IF handle[j] = "saved" THEN "saved" ELSE "none"]
  /\ jobs' = {} /\ intake' = FALSE /\ token' = FALSE
  /\ UNCHANGED << Server, History >>

\* Within the bound, every job that may still add its torrent can.
ToAdd == { j \in Jobs : \/ job[j] \in {"new", "draft"}
                        \/ pipe.job = j /\ pipe.pc \in {"inspect", "lookup", "evict", "add"} }

UserAdds ==
  /\ "add" \in UserActs /\ ~Exists /\ adds + Cardinality(ToAdd) < MaxAdds
  /\ adds' = adds + 1
  /\ torrent' = [ serial |-> adds + 1, tags |-> {}, category |-> NoJob, path |-> NoJob,
                  run |-> "active", meta |-> FALSE, wanted |-> Files ]
  /\ UNCHANGED << data, job, handle, pipe, Registry, Local, raced >>

UserRemoves ==
  /\ "remove" \in UserActs /\ Exists
  /\ torrent' = NoTorrent
  /\ UNCHANGED << adds, data, job, handle, pipe, Registry, Local, raced >>

\* "(or tag it) before retrying": what the refusal of a duplicate advises.
UserTags ==
  /\ "tag" \in UserActs /\ Exists /\ INTAKE_TAG \notin torrent.tags
  /\ torrent' = [torrent EXCEPT !.tags = @ \cup {INTAKE_TAG}]
  /\ UNCHANGED << adds, data, job, handle, pipe, Registry, Local, raced >>

QbitStep ==
  /\ Exists
  /\ \/ /\ ~torrent.meta
        /\ torrent' = [torrent EXCEPT !.meta = TRUE] /\ UNCHANGED data
     \/ /\ torrent.run = "active" /\ torrent.meta
        /\ \E f \in torrent.wanted \ data[torrent.path] :
             data' = [data EXCEPT ![torrent.path] = @ \cup {f}]
        /\ UNCHANGED torrent
     \/ /\ torrent.run # "error"
        /\ torrent' = [torrent EXCEPT !.run = "error"] /\ UNCHANGED data
  /\ UNCHANGED << adds, job, handle, pipe, Registry, Local, raced >>

-----------------------------------------------------------------------------
CommitStep ==
  \/ Inspected \/ Uninspected \/ UnknownIntake \/ Lookup \/ Evict \/ AddRefused \/ AddFresh \/ Metadata
  \/ Recheck \/ AddTags \/ SetCategory \/ DropIntakeTag \/ Deselect \/ Select \/ Verify \/ Start \/ Check
  \/ Contain

PollStep ==
  Poll \/ PollGivesUp \/ PollCancelled \/ PollFiles \/ DownloadDone \/ PathsOutside \/ PollSave

DriveStep == PollStep \/ Halt \/ Halting \/ Kept \/ Prove \/ Erase

DiscardStep(j) == DiscardBegin(j) \/ DiscardProve(j) \/ DiscardErase(j) \/ DiscardEnd(j)

Next ==
  \/ \E j \in Jobs : FetchMetadata(j) \/ Begin(j) \/ DiscardStep(j)
  \/ CommitStep \/ DriveStep
  \/ Cancel \/ SwapService \/ Restart
  \/ UserAdds \/ UserRemoves \/ UserTags \/ QbitStep

Spec == Init /\ [][Next]_vars

\* The pipeline goes on: every call of the WebUI API has a timeout, and so has
\* the wait for metadata.
FairSpec == Spec /\ WF_vars(CommitStep \/ DriveStep)

-----------------------------------------------------------------------------
(* Properties *)

\* Nothing but the selected files is ever downloaded into a job's directory:
\* no download begins before the priorities were set and read back.
OnlySelected == \A j \in Jobs : data[j] \subseteq Selection[j]

\* The app never changes or deletes a torrent that carries no mark of its own,
\* unless it was put in the place of the one the guard had looked at.
ForeignUntouched ==
  [][ Exists /\ Marks(torrent) = {} /\ torrent' # torrent /\ << pipe, discard >>' # << pipe, discard >>
        => raced' ]_vars

\* When a download is handed to packaging its files are there, and no other
\* job's commit, cancel or discard takes them away, short of such a race; unless
\* a poll saw them complete in a torrent put in another directory, and then
\* could not ask where that is: the gateway takes the job's own for it.
KeptPayload == At("kept") => raced \/ pipe.elsewhere \/ Selection[J] \subseteq data[J]

\* A job cancelled before its files were handed to packaging leaves no torrent
\* of its own behind, unless a call of the deletion failed.  (A later cancel
\* keeps the torrent, for the local files are kept.)
CancelRemoves ==
  \A j \in Jobs : job[j] = "cancelled" =>
    \/ j \in leaked
    \/ ~(Exists /\ j \in Marks(torrent))

\* A cancel, at any call of the commit, of the download or in packaging, ends
\* the pipeline.
CancelEnds == pipe.cancelled ~> At("idle")

=============================================================================
