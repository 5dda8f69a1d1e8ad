# A formal model of TorrentHub / Viking Relay

TorrentHub is a desktop application (Electron, TypeScript, `src/src/`). One PC runs
as *server*: it takes a magnet link, a `.torrent` URL or a direct link from a
*client* PC over a private network, downloads it with qBittorrent (or by plain
HTTP), packs several files into one ZIP, uploads the result to Viking, publishes
the link and cleans up. A second, smaller mode sends a link straight to a
friend's PC. This directory holds TLA+ specifications of the parts of it where
order matters, the TLC configurations that check them and proofs for TLAPS.

Contents: [System](#the-system) · [Modules and plan](#modules-and-plan) ·
[Job engine](#the-job-engine-jobenginetla) · [qBittorrent](#qbittorrent-qbitservicetla) ·
[Viking upload](#the-viking-upload-vikinguploadtla) · [Packaging](#packaging-and-the-storage-policy) ·
[Job history](#the-job-history-jobhistorytla) · [Server](#the-server-around-the-engine) ·
[Client](#the-client-clientapptla-selectiontreetla) · [Friend mode](#friend-mode-directjobstla) ·
[Window](#the-servers-window-serverwindowtla) · [Runs](#runs) · [Fairness](#fairness) · [Proofs](#proofs) ·
[Disagreements](#disagreements-between-the-code-and-what-it-says-of-itself) ·
[Limits](#what-is-only-model-checked-and-what-is-not-modelled)

    tlc -workers 2 -config Engine_one_client.cfg MCJobEngine.tla
    tlapm JobEngineProofs.tla

## The system

Paths below are relative to `src/src/main/` unless they begin with `renderer/`.
Everything runs on one Node event loop per process, so there are no data races:
concurrency is the interleaving of async functions at their awaits, with each
other, with user requests, and with the end of the process.

| Component | State it keeps | Operations | Talks to | What is hard | What makes it correct |
|---|---|---|---|---|---|
| **Job engine** `jobs/engine.ts`, `pipeline.ts`, `types.ts` | job records, `#activeTransferJobId`, `#activePipeline`, `#transferChain`; per pipeline `#cancelRequested`, `#cancelCleanup`, `#uploadResult` | `createIntake`, `commitSelection`, `cancel`, `retryPackaging/Upload/StorageCheck`, `discardArtifacts`, `startupSweep` | all gateways, history file | every operation checks, awaits and then acts; cancels land in any await; crash at any await | one transfer at a time; no data lost before its URL is durable; every started job is driven to an outcome; retries have their inputs |
| **Job history** `jobs/json-repository.ts` | record cache, write chain, history file | `loadAll`, `get`, `upsert`, flush, eviction | engine, file system | lazy load raced by two callers; flush snapshot taken before an await; swallowed failures; torn file read as empty | what a completed `upsert` wrote is read back after a restart, and the cap evicts oldest first |
| **Workspace, hints** `jobs/storage.ts`, `speed-hints.ts` | none | path helpers, wording | file system | — | — |
| **Gateways** `integration/*-gateway.ts`, `job-service.ts` | token caches, volatile ownership registry, per-client visibility | adapt services to the engine's interfaces; who may see or change a job | engine, services, relay routes | registry lost at restart; guard between a check and a delete | a client changes only its own jobs; nothing not owned is deleted |
| **qBittorrent service** `qbit/` | torrents with tag and category in qBittorrent; registry; cookie session | `inspect`, `commit`, `stop`, `deleteOwned`, login retry | qBittorrent Web API | commit is eight remote calls, each can fail or be repeated; a leftover of an earlier try; recheck | a torrent starts only with its selection verified; foreign torrents are never touched; a retry converges |
| **Viking uploader** `viking/` | multipart session: next part, uploaded bytes, worker promises | `upload`, `uploadParts` (3 workers), `complete`, retries with back-off, `resolveDirectLink` | Viking HTTP API | one worker fails while its siblings go on; progress rolled back; abort during back-off; an expired session | complete is sent only with every part; progress never exceeds the file; an abort ends it |
| **Packaging** `package/` | partial file, writer, settled flag | `package`, abort, rename into place | file system | error, close and abort race to settle | settles once; the final name never holds a partial ZIP |
| **Storage policy** `storage/` | none | preflight and headroom arithmetic | engine | boundary cases | the estimate is never below what the phases can use |
| **Relay listener** `relay/lifecycle.ts`, `adapters.ts` | status, chain, server handle, watcher | `start`, `stop`, watch tick | OS network adapters, HTTP app | adapter appears, vanishes or changes during a start | listens only on the private address; never two listeners |
| **Relay routes** `relay/http/` | none | parse, authorise, map errors | services | — | — |
| **Pairing, tokens** `auth/`, `server/auth-persistence.ts` | active codes, tokens, rate windows | `createCode`, `redeem`, `verify`, `revoke`, sliding windows | routes, token file | expiry between check and use; oldest code evicted at the cap | a code pairs at most once |
| **Server controller** `server/` | settings, engine graph, `#lastJob`, relay handle | start, stop, settings change, graph rebuild | everything | a deferred change; two graphs on one history file | the graph is never swapped under a transfer |
| **Friend mode** `server/direct-job-store.ts`, `client-relay/direct-downloads.ts` | server queue file; client items file; a running download | add, list, accept, decline, progress, poll | relay, client qBittorrent, two files | load–modify–save without a lock; item saved from a copy read before a long download | no job is lost; accepted jobs end |
| **Client relay** `client-relay/service.ts`, `http-client.ts` | pairing, server address | pair, request, poll | relay | stale answers | — |
| **Renderers** `renderer/` | screens, polling, tree selection, setup wizard | user events | IPC | a poll answer for a job no longer shown; snapshot older than an event | shown state belongs to the job shown; selection equals the checked files |
| **Desktop shell** `index.ts`, `ipc.ts`, `settings-store.ts`, `updater.ts`, … | windows, settings file | start-up, IPC glue | everything | — | — |

How they interact: the relay's routes call `job-service`, which calls the engine.
The engine owns the records and hands one to a `TransferPipeline`, which mutates
it through a long sequence of awaits on gateways and saves it through the history
repository. Records are shared by reference: a mutation is seen by every reader at
once; a save only makes it survive a restart. Cancels, retries and discards call
the engine while a pipeline is suspended; the pipeline learns of a cancel by
polling a flag.

## Modules and plan

| Modules | Model | Proofs |
|---|---|---|
| `JobEngine`, `Delivery` | engine and pipeline; the promise they implement | `JobEngineProofs` |
| `QbitService` | intake, commit, drive and delete of torrents that share a hash | `QbitServiceProofs` |
| `VikingUpload` | one upload: session, part workers, retries, abort | `VikingUploadProofs` |
| `StoragePolicy`, `Packaging` | disk arithmetic; the packaging phase with its streams, which uses it | `PackagingProofs` |
| `JobHistory` | the repository of records: cache, write chain, file | `JobHistoryProofs` |
| `RelayManager`, `Pairing`, `ServerController` | listener; codes and tokens; the controller that composes both with engine graphs | `ServerControllerProofs` |
| `SelectionTree`, `ClientApp` | the file tree; the client's screens, calls and polls against a server, which uses it | `ClientAppProofs` |
| `DirectJobs` | friend mode: the server's queue and the client's | `DirectJobsProofs` |
| `SetupWizard`, `ServerWindow` | the wizard's state; the server's window with it, against its main process | `ServerControllerProofs` (last part) |

How they fit. `JobEngine` takes each gateway for a choice of outcomes in one or a few
steps; `QbitService`, `VikingUpload` and `Packaging` open those steps. It takes a save for
one step; `JobHistory` opens it. `ClientApp` and `ServerController` reduce the engine to
what a caller and the controller see of a job, and `ServerWindow` reduces the controller to what it pushes.

The plan is carried out: every safety and action property a passing run checks is also a theorem, and the
liveness properties stay with TLC. An extension would begin with the streams of a direct download and the limiter.

## The job engine (`JobEngine.tla`)

### State

| Variable | Code |
|---|---|
| `rec` | the `JobRecord`s in the repository's cache — the objects engine and pipelines share |
| `disk` | the records in the history file |
| `pipe` | the `TransferPipeline`s of this session in the order of `#transferChain`; `pc` names the await a pipeline is suspended at; `cancelled`, `purge`, `uploaded` are `#cancelRequested`, `#cancelCleanup`, `#uploadResult !== null`; `added` the selection given to `addTorrent` |
| `active`, `live` | `#activeTransferJobId`, `#activePipeline` |
| `commit` | calls of `commitSelection` in flight and the await each is at |
| `intake` | metadata fetches and probes in flight |
| `discard` | `discardArtifacts` calls in flight |
| `world` | outside the process, per job: an owned torrent, the payload, the archive |
| `asked` | history variable: the user cancelled, or discarded, the job |
| `restarts` | restarts so far |

`TypeOK` fixes the shape; a record keeps the fields later steps read.

### Actions

One action is the code between two awaits that wait for something real, so an
interleaving of actions is an interleaving of the event loop.

* *Intake*: `Create`, `MetadataResult` (`createIntake` and its continuation).
* *Start*: `CommitBegin` → `CommitPreflight` → `CommitDirs` → `StartTransfer` — the
  stretches of `commitSelection` between `storage.preflight`, the directory
  creation, the save and `#startTransfer`.
* *Control*: `Cancel` (the live pipeline's `cancel` or the draft branch of
  `engine.cancel`), `Resume` (the three retries join the chain), `DiscardBegin`,
  `DiscardEnd`.
* *A link begins*: `RunRefused`, `RunCancelled`, `RunDownload`, `RetryRefused`,
  `RetryBegin`, `CheckInputs`, `ResumeAfterReset`.
* *Download*: `TorrentAdded`, `AddReturns`, `AddThrows`, `ProgressSaved`,
  `PollCancelled`, `PollEnds`, `StoppedCritical`, `Dropped`, `Stopped`; for a direct
  link `Fetched`, `FetchFails`, `Sized`.
* *Between phases*: `AfterPhase` (`#shouldContinue`), `Gated`.
* *Packaging and upload*: `ZipRefused`, `ZipDone`, `ZipFails`, `PartialZipRemoved`,
  `UploadDone`, `UploadFails`, `Purged`.
* *Finalize and cleanup*: `Verified`, `Resolved`, `Complete`, `Cleanup`, `End`.
* `Restart`: memory is lost, `startupSweep` runs before a request is served.

Two points deserve a reader's attention. The start of the next link of a promise
chain is a microtask, so it precedes every I/O callback: `Quiet` holds the other
actions back while a link is `Ready`. And `Settle` is the `finally` of `#runTracked`,
which releases a slot only if it still stands for this pipeline, while
`RetryRefused` is `#resume`'s, which releases both.

### Abstractions

* `await save` is one step with the mutation before it. A crash during the save is
  a crash before the step; a flush that fails (`repository.upsert` swallows it) is
  the choice `DiskMayFail` allows. A flush writes every record of the cache.
* A turn of the poll loop that decides nothing is one saving step; the ten polling
  errors in a row are one of the ways `PollEnds`.
* Amounts (bytes, percentages) are dropped: the storage gates are choices.
* Partly downloaded data is not payload. Whether the torrent runs or is stopped is not
  kept, so calls of `stop` change nothing.
* The guarded delete (`deleteOwned`) may refuse or fail: `DeleteOwned` is a choice.
* Idempotency keys are left out: a keyed call behaves as the unkeyed one or returns
  the earlier answer. Archiving, telemetry and hints change nothing the model keeps.
* The cap of 100 records belongs to the history repository (`JobHistory`).
* When a cancel is found during packaging or upload the model returns to pc
  `uploaded` at once: every `#shouldContinue` between there and the end says no.

### Properties

| Property | Says | Hazard |
|---|---|---|
| `PayloadKept` | downloaded files disappear only when the URL is on disk or the user cancelled or discarded the job | cleanup, failure paths, retries, restarts |
| `UrlBeforeCleanup` | a cleanup that has begun, and a job shown complete, have their URL in the history file | order of save and delete |
| `UrlNeverLost` | a URL in the history file stays there | sweep, retries, cancels overwriting records |
| `TransferDriven` | a busy job the user never cancelled is driven by a Start or a pipeline | crash, refused links |
| `OutcomesTrue` | a failed job offers only retries that have their inputs; a cancelled job has no published link | retry after partial failure, cancel racing finalize |
| `NeverRedownloads` | a job whose files are complete never downloads again | retry |
| `OneAtATime` | of two pipelines the later has not begun before the earlier is done | racing Starts and retries |
| `SlotsReleased` | the active slots stand for pipelines that are not over | a Start refused for ever |
| `ImplementsDelivery` | the engine refines `Delivery` | all of the above together |
| `PipelineEnds` | a cancelled torrent download ends whatever the swarm does, and so does every pipeline past its download | waiting on a remote peer, a phase that never returns |

`Delivery` says the same without the engine's means: one transfer runs at a time, a
URL appears only while its own transfer runs and stays, and a payload is given up
only for its URL or at its user's request. The mapping takes `published` from
`disk`, not from `rec`: a URL counts once it survives a restart.

## qBittorrent (`QbitService.tla`)

Two or more jobs whose source is the same torrent, so the same info hash; a user who
works in qBittorrent beside them; a WebUI API whose calls may be refused, or be done and
their answer lost. A step is one call with the code up to the next one.

| Variable | Code |
|---|---|
| `torrent`, `adds` | qBittorrent's torrent under the hash: tags, category, save path, run state, file list, priorities; `serial` tells one added later from one deleted |
| `data` | per directory the files complete on disk |
| `job`, `handle` | the job's outcome; `record.torrentId`: none, in memory, saved |
| `pipe` | the one pipeline: the call it is at, whether it was cancelled, why it stops the torrent, the torrent its last guard looked at; `elsewhere` is history: the files found complete are those of a torrent in another directory |
| `discard` | `discardArtifacts` under way |
| `jobs`, `intake` | `IntakeRegistry` |
| `token` | `QbitTorrentGateway.tokensBySource` |
| `raced`, `leaked` | history variables: a call hit another torrent than its guard had seen; jobs whose cancel left their torrent (a call of the deletion failed, or the cancel came once packaging had begun) |

*Intake*: `FetchMetadata`, and `Begin` with `Inspected`/`Uninspected` when the token is not
cached. *`commitTorrentSelection`*: `Lookup` → `Evict` or `AddFresh`/`AddRefused` → `Metadata` →
`Recheck` → `AddTags` → `SetCategory` → `DropIntakeTag` → `Deselect` → `Select` → `Verify` → `Start` → `Check`, and
`Contain` when the live torrent is not as it should be. *Drive*: one poll is three calls, each of which may fail by
itself. `Poll` asks for the torrent, `PollFiles` for its file list (a failure reads as "not complete"), and
once the files are complete `DownloadDone` or `PathsOutside` asks again for the live torrent's directory; when that call fails or finds
nothing, the gateway takes the job's own directory for it (`integration/qbit-gateway.ts:222-227`, `:241-247`). `PollSave` saves the
record and decides; `PollGivesUp`, `PollCancelled`, then `Halt`, `Halting`, `Kept`. *`deleteOwned`*: `Prove` (the registry's guard,
then the local one), `Erase`; the same for a discard. `SwapService` is a change of settings, which makes a new
registry; `Restart` loses it too.

`Cancel` is heard from the commit to the end of the upload. Up to the last poll it stops and deletes the torrent. Between the last poll
and packaging it abandons the job (`Abandon`, the run `engine_cancel_between_phases`). During packaging or the upload it ends the job
"cancelled" and keeps the torrent and the files: `Kept`, `jobs/pipeline.ts:532-535`, `:722-723`; `reports/A5_JOB_ENGINE.md:104-109`
says the local files are kept.

Abstractions: URLs, magnets and the login are left out; the run states are those the code
tells apart; a server may answer "Ok" to a change of priorities and not do it; the
source's file list is the same for all jobs; packaging and the upload are one step; the retries of a failed job are `JobEngine`'s (a job
cancelled in a retry of its packaging or upload keeps its torrent as in `Kept`).

| Property | Says | Hazard |
|---|---|---|
| `OnlySelected` | nothing but the selected files is ever downloaded into a job's directory | eight calls, each failing or lost, between the add and the start; a leftover of an earlier try adopted |
| `KeptPayload` | what is handed to packaging is there, and no other job's commit, cancel or discard takes it; unless its files were seen in a torrent elsewhere and the directory could not be asked for (`elsewhere`) | the same hash in two jobs |
| `CancelRemoves` | a job cancelled before packaging leaves no torrent of its own, unless a call of the deletion failed | cancel at any call |
| `ForeignUntouched` | no torrent without a mark of the app is changed or deleted | user adds the same torrent |
| `CancelEnds` | a cancel, at any call of the commit, of the download or in packaging, ends the pipeline | waiting for metadata |

`KeptPayload` and `ForeignUntouched` are stated up to `raced`: ownership is
verified on an answer and the delete goes by hash in a later call (`qbit/lifecycle.ts:85`),
so a torrent put there in between is hit.

## The Viking upload (`VikingUpload.tla`)

One `VikingClient.uploadFile`, inside one step of `JobEngine` (`UploadDone`,
`UploadFails`): the session is created, a pool of workers sends the parts by `PUT`,
the upload is completed.

| Variable | Code |
|---|---|
| `phase` | which of the three calls `uploadFile` awaits, or how it ended |
| `call` | the loop of `postFormWithRetry` for the API call of the phase |
| `aborted` | the `AbortSignal` |
| `nextIndex`, `results` | the shared variables of the pool's closures in `uploadParts` |
| `worker` | each worker: which part, which attempt, chunks counted in it (`writtenThisAttempt`) |
| `uploaded` | `state.uploadedBytes` |
| `stray` | chunks still to come from streams of attempts the server refused early |
| `published` | outside the process: the parts the server put together |

*Calls*: `CallFails` (retry or give up; the server may have acted before its answer
was lost), `CallAgain` and `CallAborted` (the back-off ends or is aborted),
`SessionCreated`, `Completed`. *Workers*: `ChunkSent`, `PartDone` (2xx with an ETag;
the worker takes the next index in the same step), `PartFails`, `PartAgain`,
`PartAborted`. *The transport*: `StrayChunk`, `StrayCut`: when a server answers before
it has read a whole part, `httpRequest` resolves while the read stream is still piped.
`Abort` destroys every request, so after it an attempt can only fail.

Abstractions: which status, error code or malformed answer ends an attempt is one
choice, retryable or not; a chunk of the read stream is the unit of bytes; delays are
dropped; a 2xx answer is given only to a whole part. `numberParts` other than the
number of ranges is refused by `uploadParts`, which is the failing branch of
`SessionCreated`.

| Property | Says | Hazard |
|---|---|---|
| `PublishedWhole` | complete-upload is asked for with every part or not at all, and what the server puts together is the whole file | a worker fails while its siblings go on; `results` has its full length from the start, so the length check in `completeMultipart` says nothing |
| `PartSentOnce` | no part is sent while another worker sends it, or after its ETag arrived | `nextIndex` shared between awaits |
| `NothingAfterAbort` | after an abort no attempt of any part or call begins | abort in a back-off |
| `UploadEnds` | the upload ends, and so do the workers its end left behind | retries without bound |

## Packaging and the storage policy

`StoragePolicy` is the arithmetic of `storage/spacePolicy.ts` as operators over whole bytes
(the code's `0.05` and `0.1` are floating point and may round one byte up) with the verdicts
`integration/storage-gateway.ts` makes of it; theorems compare its operators with each other.
`Packaging` extends it with the packaging phase of one job: the gate and retries of
the pipeline, the packager, the streams of the ZIP writer, on a disk others use too.

| Variable | Code |
|---|---|
| `pc`, `aborted` | where the pipeline and its packager are; `#zipAbort`, set with `#cancelRequested` |
| `src`, `checked` | the downloaded files on disk (whole, short, gone); those `validateSources` has passed |
| `out`, `streams`, `settled` | the output stream, the source streams, whether `settle()` was called |
| `partial`, `final` | `<name>.partial.zip`, `<name>.zip`: whether it is there, whether its directory is written, what it has of each file |
| `free` | what the volume has left: each entry is charged as it is appended, the directory when the output closes |
| `renamed` | `sanitizeBaseName` changes the torrent's name |
| `cut`, `others`, `escaped`, `stuck` | history variables naming the exceptions of the properties |

Every callback of a stream is a step: `OutputOpens`, `SourceOpens`, `Append` (one entry),
`StreamFails`, `OutputCloses`, `WriterEnds`; before them `Gate`, `Validate`, `Probe`, after them `LookAgain`,
`Publish`, `Clean`, `EndZip`; `RetryPackaging`, `RetryStorageCheck`, `Cancel`; and `Damage`, `Elsewhere` by
other programs. Abstractions: a retry begins after the earlier output stream is
closed; a short source is charged its full size; entries' paths and name collisions are left
out; the delete of the torrent after a cancel is `JobEngine`'s.

| Property | Says | Hazard |
|---|---|---|
| `PackedSafely` | a ZIP that is reported holds every file as validated, no partial file is beside it, and the safety reserve is still free unless others took space | truncated source, full disk, stale partial file |
| `NothingSurvives` | a failed or cancelled packaging leaves neither file, but for the named gaps | error, close and abort race to settle |
| `PackagingEnds` | it always ends, and a cancel sent in time is the outcome | an error nobody listens to |

## The job history (`JobHistory.tla`)

`JsonJobRepository` hands out the record objects of its cache themselves, and saves
by writing the whole cache to a file, one flush after the other. `JobEngine` takes a
save for one atomic step; this module shows what a save is made of, and on what
condition the engine may count on it.

| Variable | Code |
|---|---|
| `file` | the history file: per job the version of its record, 0 if it has none |
| `heap` | the versions of the record objects; objects of one job differ by *generation*: who parsed the file they come from, or `New` for a record made in this session |
| `loaded`, `cache` | `#cache`: not null, and which object stands for a job |
| `queued`, `flush` | `#writeChain`: flushes that have not begun, and the one under way — the list it chose (`listed`) and the text of the temporary file (`tmp`) |
| `caller` | the async functions using the repository: loading, holding a record, waiting for a save |
| `version` | of the latest save |
| `acked` | history variable: per job the version of the latest save that returned after writing; nothing after a file that could not be read |
| `raced` | history variable: two first loads overlapped |

*Reading*: `OpenFile` → `ReadFile` → `Install` are the stretches of `ensureLoaded`
around its await, `ReadFails` its `catch` (an unreadable history starts empty); `Look` is `get` or `loadAll`; `Create` a new job; `Release` drops a
reference. *Saving*: `Save` is the mutation of a record with the `upsert` that follows
it; the caller then waits for its own flush at the end of the chain. *The chain*:
`FlushBegin` sorts, cuts to the cap (the cut records leave the cache too) and waits for
`mkdir`; `FlushWrite` stringifies the records as they are then; `FlushRename` replaces
the file; `FlushFails` is a rejection of any of the three, swallowed. `Restart` is the
end of the process anywhere; since a file is replaced by `rename`, it is never half
written, though the temporary one may be.

Abstractions: a record is its version; `Quiet` gives the start of a flush, a
microtask, precedence over file callbacks; job ids are never reused; `updatedAt` is
the version divided by `SavesPerTick`, so that several saves can share one, and the order
of equals (that of the `Map`) is a choice.

| Property | Says | Hazard |
|---|---|---|
| `AckedDurable` | what a successful save wrote is read back after any restart at which the file can be read, unless the cap's worth of records no older is there | crash, failed flushes, eviction at the cap |
| `OneObject` | the cache, the flush and every holder of a job refer to the same object | records shared by reference across awaits |
| `FileForward` | no flush takes a job in the file back to an earlier version | late stringifying, saves overtaking each other |
| `SaveReturns` | every save returns | one rejection in the chain |

All but `SaveReturns` are stated up to `raced`. `ensureLoaded` does not
remember a load under way: of two callers that both find the cache null, the later
*replaces* the cache of the earlier (`json-repository.ts:60-71`), and records handed out
in between are orphans. Dropping that condition, TLC finds `OneObject` violated in a few
steps: see [Disagreements](#disagreements-between-the-code-and-what-it-says-of-itself).

## The server around the engine

`RelayManager` is `relay/lifecycle.ts`, `Pairing` is `auth/` with `server/auth-persistence.ts`, and
`ServerController` extends both: the calls of the desktop UI, which nothing serialises, over
engine graphs, relays and pairings, the requests of clients that reach a graph through a
relay, and the push loop.

| Variable | Code |
|---|---|
| `adapter`, `mgr` | the Radmin adapter's address now; per `RelayManager` its state, socket, remembered adapter, watcher and promise chain |
| `auth`, `stored`, `issued`, `removed` | the `AuthController` of each graph; the secret and digests in safeStorage; tokens issued, and revoked by the user |
| `shown`, `clock` | pairing codes and which have expired |
| `graph`, `relay`, `wiring`, `sweepDone`, `ticking`, `lastJob` | `#graph`, `#relay`, the graph each relay serves, `#sweepDone`, `#pushTimer`, `#lastJob` |
| `call` | calls of the UI and the await each is at |
| `jobs`, `driver` | the records as the graph in use has them; which graph's engine drives a job |
| `slipped`, `crossed` | history variables: jobs a folder change left running unseen; two calls crossed |
| `mgr[r].moved` | history field: the watcher found another address while it listened, and since then neither found the adapter gone nor was stopped or rebound |

*Relay*: `Begin`, `CloseDone`, `Bound`, `BindFailed` are the stretches of a chained task; a task that finds
the chain empty begins at once; `WatchTick`, `AdapterChanges`. *UI calls*: `Start` → `SweepOne` →
`SweepEnds` → `StartEnds`; `Stop`, `SelectInterface`, `ChangeFolder`, `UpdateSettings`, `Reset` with what follows their
await of the relay; `GeneratePairingCode`, `RevokePairedClient`, `Look` (anything that reads makes the graph).
*Clients and engines*: `Pair`, `Intake`, `Commit`, `CancelDraft`, `Progress`, `Finish`, `PushTick`. `Restart` clears
memory. Abstractions: safeStorage is available; attempts refused by the limiter change nothing; the power
blocker follows `#lastJob`; managers, graphs, calls and jobs are numbered as they come.

| Property | Says | Hazard |
|---|---|---|
| `NoStrayListener` | a socket or a watcher belongs to `#relay` or to a manager whose stop is still awaited | stop, folder change and reset racing ticks |
| `PairedLast` | the graph in use, and one built from what is stored, accept the tokens of the paired and of nobody else | revocation, folder change, reset, restart in any order |
| `Driven` | a job its record calls running is driven by the engine the UI talks to, or waits for the sweep | a graph swapped under a transfer |
| `Recovers` | when Radmin has settled, the relay that watches a known adapter listens on the adapter's address, the old one or another, however often it went and came; but for a relay under which the address changed while it listened (`moved`) | adapter lost and back, on its address or another |
| `ListeningServes` | (violated) a manager that says it listens has its socket | the adapter's address changes |

The properties of the controller hold up to the first two calls that cross (`crossed`: a
second start beside one that sweeps or beside a relay; a folder change while a start
sweeps; a rebind behind a stop; a call that makes a newer relay null).
What happens then is under [Disagreements](#disagreements-between-the-code-and-what-it-says-of-itself).

## The client (`ClientApp.tla`, `SelectionTree.tla`)

The screens of the client, the polls behind them, the calls its main process makes for
them and the server that answers, with the engine reduced to what a caller sees of a job.
`SelectionTree` defines the tree of files, its boxes (a recursive function from the leaves up)
and the toggle.

| Variable | Code |
|---|---|
| `server`, `disk`, `active` | the engine's records, as saved, `#activeTransferJobId` |
| `screen`, `form`, `live`, `busy` | `App`'s phase, `SelectionScreen`'s state, `latestJob`, `submitBusy` |
| `poll` | `usePolling`'s request in flight |
| `calls` | POSTs in flight: where each is, its answer, whether somebody still waits for it |
| `retried`, `touched` | history variables: a Retry was pressed; the form was changed with a commit of it under way or done |
| `raced` | history variable: a commit or a retry was let in during the preflight of a commit |

A call is sent by the user's action (`Submit`, `ConfirmSelection`, `Start`, `CancelJob`, `Retry`), handled by the
server in the stretches between its awaits (`HandleIntake`, `MetadataRead`, `HandleLook`, `HandleCommit`,
`Begin`, `HandleCancel`, `HandleRetry`), answered (`Answer`), lost (`Forget`), or given up after ten seconds while the
server goes on (`GiveUp`). `PollRead`, `DraftData`, `JobData`, `PollFails` are a poll; `ServerRestarts`, `ClientRestarts`.
Abstractions: connection and pairing are fixed; history and the connect form are one "aside";
a cancel of a live transfer is atomic; search and expansion are left out.

| Property | Says | Hazard |
|---|---|---|
| `ScreenIsReal` | what a screen says of its job is so on the server | answers and polls that come late |
| `StartedUnchanged` | a repeated confirm finds the job as it left it; there is never a second transfer (up to `raced`) | lost answer, retry, double click |
| `BoxesAgree` | a box is checked exactly when all files below are selected; a click selects or clears all | tri-state boxes |
| `Settles` | the active screen is always left | lost polls, restarts of either side |

## Friend mode (`DirectJobs.tla`)

Two queues, each in a JSON file that every operation reads, changes and writes back
without a lock; the client's poll and its user's clicks, the server's requests.

| Variable | Code |
|---|---|
| `queue`, `items` | `direct-jobs.json` of the server, `direct-downloads.json` of the client |
| `op` | calls in progress on the client: step, job at hand, its copy of the file |
| `req` | requests on their way or being saved |
| `paired` | whether the token is accepted |
| `sent`, `fetched`, `lost`, `stranded`, `hurt` | history variables; `stranded`: items whose taking a crash cut off, or whose end could not be saved |

`PollOnce` … `AppendLocal` … `PollRefresh` are the poll, `DownloadPending` → `Fetched` → `RemoteAction` an accept,
`MarkLocal` a decline, `RefreshProgress` → `Measured` → `RemoteReport` the reports; `Send`, `ServeList`, `Operate`, `QueueSaved` the
server. `RequestLost`, `RequestTimesOut`, `Unpair`, `SaveFails`, `QueueSaveFails`, `ClientCrash`, `ServerCrash` are the faults; a read
beside a write may find nothing, two writes may mix, a crash in a write or a failed write may truncate. A write that fails ends the
call it belongs to (`Rejected`): an append ends the poll's cycle, anything else the accept, the decline or the refresh. The save of an item's
end (`direct-downloads.ts:211`) is outside the `try`, so when it fails the item stays "downloading" and the server is not told.

| Property | Says | Hazard |
|---|---|---|
| `QueuesAgree` | at rest, a sent job is in the server's queue and undecided there exactly when it is on the client | lost and late requests |
| `Driven` | an item is left "downloading" only by a crash in the middle of taking it or a failed save of its end; never by a download that fails, nor by any other save | a copy kept across a long download, a write that fails |
| `FetchedOnce` | what was handed to qBittorrent is not handed over twice | stale lists, repeated polls |
| `Arrives` | a sent job reaches the client's list | losses |

All of them are stated up to `hurt`, the first overlap of two read–change–write sequences on
one file: after it an update may be gone.

## The server's window (`SetupWizard.tla`, `ServerWindow.tla`)

The runtime context that mirrors the jobs, the dashboard's recent transfers and banner,
and the setup wizard before them, against the controller's pushes, its tick and its answers.

| Variable | Code |
|---|---|
| `folder`, `hash` | the saved settings |
| `server`, `record`, `unsaved`, `last` | start-up of the server, the job records in cache order, those waiting for the disk, `#lastJob` |
| `events`, `reads`, `answers` | snapshots pushed and not received; history reads; answers under way by kind of call |
| `app`, `wiz` | `RuntimeContext`'s state; the wizard's (`setupMachine.ts`) |
| `blinked` | history variable: terminal snapshots overwritten before React rendered them |

Main: `Sweep`, `Started`, `JobMoves`, `RecordSaved`, `Tick`, `ReadsHistory`. Window: `Hydrated`, `Receive`, `Render`,
`Hide`, and the wizard's clicks (`ChooseFolder`, `AskRadmin`, `EditUrl`, `Probe`, `PickHash`, `SaveMode`, `Go`, `Start`) with the
answers to each. Abstractions: effects of wizard calls happen at the call (requests arrive in
order and nobody else writes); a first run has neither jobs nor a hash; one history
answer on its way at a time; equal consecutive snapshots collapse; a second press of Start and a folder
change beside a start are `ServerController`'s crossings; no address reads like
a verdict (`WizardAssumption`); keys, health, the pairing and settings panels and
the archived list are left out, and so is the limit of twenty entries.

| Property | Says | Hazard |
|---|---|---|
| `StepsHold` | what the wizard shows as done is done in the main process | late, failing and refused answers |
| `WindowCatchesUp` | a finished job comes into the recent transfers and an archived one leaves them, a finished job is not shown active for ever, a start from the wizard leads to the dashboard | pushes, ticks, reads and renders interleave |

## Runs

| Run | Instance | Checks | States |
|---|---|---|---|
| `engine_one_client` | 1 job, both source kinds, 2 files (so both the ZIP and the single-file path), policies "keep all"/"delete all", 1 request slot, 2 pipelines, 1 restart, fairness | `PayloadKept`, `TransferDriven`, `OutcomesTrue`, `UrlBeforeCleanup`, `UrlNeverLost`, `NeverRedownloads`, `PipelineEnds` | 234 645 |
| `engine_two_jobs` | 2 jobs (symmetric), direct links, 2 racing requests, 2 pipelines | `OneAtATime`, `SlotsReleased`, `ImplementsDelivery` | 1 939 421 |
| `engine_cancel_between_phases` | 1 torrent job | `NoJobAbandoned` violated | |
| `qbit_shared_hash` | 2 jobs, 2 files, each job wants one, 2 adds, failing calls, a user who adds, removes and tags, 1 restart, fairness | `OnlySelected`, `KeptPayload`, `CancelRemoves`, `ForeignUntouched`, `CancelEnds` | 757 762 |
| `viking_upload` | 5 chunks in parts of 2 (the last is short), 2 workers, 2 attempts, early answers, fairness | `PublishedWhole`, `PartSentOnce`, `NothingAfterAbort`, `UploadEnds` | 18 243 |
| `packaging` | 2 files of sizes 1 and 2, a volume of 9, reserve 2, 3 faults, fairness | `PackedSafely`, `NothingSurvives`, `PackagingEnds` | 170 896 |
| `history` | 3 jobs, cap 2, 2 callers, 3 saves of which 2 share a time, failing flushes, 1 restart, fairness | `AckedDurable`, `OneObject`, `FileForward`, `SaveReturns` | 3 184 787 |
| `server` | 2 places for calls, 3 calls (restarts included), 2 addresses, 2 changes of the adapter, 2 jobs (both changes with one job only, `MaxTogether`), 1 code, 1 token, up to `crossed`, fairness | `NoStrayListener`, `PairedLast`, `Driven`, `Recovers` | 1 127 062 |
| `relay_address_change` | 1 manager, 2 addresses, 3 changes, 1 failed bind | `ListeningServes` violated | |
| `client` | 2 files, 2 jobs, 2 calls in flight, 4 presses, 2 faults, fairness | `ScreenIsReal`, `BoxesAgree`, `StartedUnchanged`, `Settles` | 556 454 |
| `friend_mode` | 2 jobs, one of them a magnet, 1 fault, up to `hurt`, fairness | `QueuesAgree`, `Driven`, `FetchedOnce`, `Arrives` | 1 863 753 |
| `window` | 2 jobs, 2 addresses, 5 clicks, 1 change, 1 queued event, fairness | `StepsHold`, `WindowCatchesUp` | 840 688 |

Why the bounds suffice. *Engine*: jobs meet only through the chain and the two slots, so two
jobs show every interference there is, and one job shows all of a record's life.
`MaxPipes = 2` allows a Start and one retry of it (any of the three kinds), or two
Starts racing; `MaxRestarts = 1` puts the crash before, within and after any await
of either. Two files are the least for which `zipRequired` holds. Policies between
"keep all" and "delete all" delete a subset of the latter. With two Start requests on *one* job
`TransferDriven`, `OutcomesTrue` and `NeverRedownloads` fail: the second `commitSelection` re-queues a record
its own first call already runs, so they are checked with one request slot;
`OneAtATime`, `SlotsReleased`, `UrlBeforeCleanup` and `UrlNeverLost` are proved for any number.
`DiskMayFail` is false in both runs, as the failing flush is `JobHistory`'s subject; `Typing` and `UrlSurvives`
are proved with it.

*qBittorrent*: two jobs with different selections are the least with a wrong owner and a wrong
selection; two adds allow a torrent to be replaced under a guard. (Three adds pass the five minutes a run is given, and are left to the proofs.)
*Upload*: three parts over two workers is the least with a worker that takes a
second part while another is under way, and with a worker that finds none left; two
attempts are one retry and one giving up.
*Packaging*: the volume holds the sources' ZIP and the reserve with room to spare or not, depending
on the initial free space, which is any; three faults are an error, another while it is cleaned up,
and one in the retry.
*History*: three jobs are the least that exceed a cap of two, which is the least
cap at which a flush has to choose whom to keep beside the newest; two callers are a
save that overtakes a flush under way, and two first loads; a save before, during
and after another flush takes three.
*Server*: three calls are a start, a change that stops it and a start or restart after. Two changes of the adapter let it go
and come back on its address or on the other, or change under a listener; that a relay so deceived recovers once the adapter
was seen gone takes a third change (in a smaller instance, one job and no tokens, `Recovers` holds with three). Both changes
beside both jobs pass the five minutes a run is given, hence `MaxTogether`; the safety properties are proved without it. Time passes only
while a code is pending that has not expired (`CodeExpires`): it is looked at for no other.
Two jobs are the least for which `#lastJob` shows one and hides another.
*Client*: two jobs are the least for an answer about a job no longer shown; four presses are
a submit, a confirm, its repetition and a cancel or retry.
*Friend mode*: the second job shows what a save of the first can undo; the fault is any one loss, timeout,
failed write or crash at any step.
*Window*: one job ends while another is active; five clicks go through the wizard's steps once, one
of them edited or repeated.

Deadlock is not checked: with the bounds used up and the jobs over, the model stops,
as the idle program does. `server` and `friend_mode` are cut by a state constraint where their properties
cease to apply (`Uncrossed`, `Undamaged`), `server` also by its bound `Together`.

Each property has a mutant in the module (`… Mutant of …` or `Mutant: …`): a variant of one
definition with a plausible bug, under which TLC finds the property violated.

## Fairness

`Fairness` is weak fairness of each pipeline's own steps, of each `commitSelection`
in flight and of the continuations of intake and discard: the event loop runs
every callback, and local file I/O, qBittorrent's local API (with its timeouts),
packaging and Viking calls (stall timeouts, bounded attempts) end one way or the
other. Nothing is assumed of the swarm or of a direct link's server
(`RemoteStep`), nor of the user: a download may last for ever. That is why
`PipelineEnds` is worth stating of a cancelled download — the poll loop must notice the flag by itself —
and why that part is stated for torrents only.

`VikingUpload` assumes weak fairness of the call and of each worker: every request
has a stall timer (`http.ts:164`) and every back-off a timer, so an attempt ends
whatever the server does. A server that trickles bytes for ever would escape the stall
timer; the parts are finite, so it can do so in an answer only, and answers are
capped at 1 MiB.

`JobHistory` assumes weak fairness of the flush under way alone: operations on the
local disk end, with success or not. Callers may hold a record for ever.

The others, each weak fairness of:

* `QbitService`: the pipeline's next call (`CommitStep \/ DriveStep`): every call of the WebUI has
  a timeout and the wait for metadata a deadline. Neither the swarm nor the user is fair.
* `Packaging`: the packager's steps and `EndZip`: operations on local files end.
* `ServerController`: the links of every relay's chain and its watcher's interval. Nothing is
  assumed of the UI's calls, the adapter or the clients.
* `ClientApp`: the poll and what the screens do with its answer: it runs on a timer, and the bounded
  faults make losses finite. Neither a press of a button nor the end of a transfer is assumed.
* `DirectJobs`: the poll timer, each await of the client and of the server, and the end of a
  request that is refused. `Arrives` also asks that the user at last leaves the list alone:
  a save meeting every poll could hide the queue from each of them.
* `ServerWindow`: the main process's own steps, the delivery of events and answers, the tick's
  interval and React's render. Neither the user nor a transfer is fair.

## Proofs

For all values of the constants that satisfy `EngineConstants`, `UploadConstants`,
`HistoryConstants`, `QbitConstants`, `PackagingAssumption` with `PolicyAssumption`, `DirectConstants`,
`ControllerConstants` with those of the modules it extends, `SlotsAssumption` and `JobsAssumption` with
`FilesAssumption` and `PathAssumption`, or `WizardAssumption`:

| Theorem | Module | States |
|---|---|---|
| `Typing` | `JobEngineProofs` | `Spec => []TypeOK` |
| `UrlSurvives` | `JobEngineProofs` | `Spec => UrlNeverLost`, flushes failing or not |
| `UrlFirst` | `JobEngineProofs` | `Spec => []UrlBeforeCleanup` when `~DiskMayFail` |
| `Serialised` | `JobEngineProofs` | `Spec => []OneAtATime` |
| `Unblocked` | `JobEngineProofs` | `Spec => []SlotsReleased` |
| `PayloadSafe` | `JobEngineProofs` | `Spec => []PayloadKept` when `~DiskMayFail` |
| `DeliveryImplemented` | `JobEngineProofs` | `Spec => ImplementsDelivery` when `~DiskMayFail` |
| `TrueOutcomes` | `JobEngineProofs` | `Spec /\ []OneStart => []OutcomesTrue` |
| `AlwaysDriven` | `JobEngineProofs` | `Spec /\ []OneStart => []TransferDriven` |
| `DownloadedOnce` | `JobEngineProofs` | `Spec /\ []OneStart => NeverRedownloads` |
| `OnceEach` | `VikingUploadProofs` | `Spec => []PartSentOnce` |
| `Whole` | `VikingUploadProofs` | `Spec => []PublishedWhole` |
| `AbortHeard` | `VikingUploadProofs` | `Spec => NothingAfterAbort` |
| `Shared` | `JobHistoryProofs` | `Spec => []OneObject` |
| `Forward` | `JobHistoryProofs` | `Spec => FileForward` |
| `Acknowledged` | `JobHistoryProofs` | `Spec => []AckedDurable` |
| `Selected` | `QbitServiceProofs` | `Spec => []OnlySelected` |
| `OthersUntouched` | `QbitServiceProofs` | `Spec => ForeignUntouched` |
| `CancelCleans` | `QbitServiceProofs` | `Spec => []CancelRemoves` |
| `PayloadStays` | `QbitServiceProofs` | `Spec => []KeptPayload` |
| `NothingLeft` | `PackagingProofs` | `Spec => []NothingSurvives` |
| `ReportedWhole` | `PackagingProofs` | `Spec => []PackedWhole`: `PackedSafely` without the reserve |
| `LeftSafely` | `PackagingProofs` | `Spec => []PackedSafely`, with the reserve |
| `TypeCorrect` | `PackagingProofs` | `Spec => []TypeOK`: in particular the volume is never overfilled |
| `PreflightCoversPackaging` | `PackagingProofs` | a download its preflight let start finds room for its ZIP if nobody else took space |
| `LiveHeadroomKeepsPreflight` | `PackagingProofs` | a job's own bytes never make its live headroom critical |
| `ReserveSurvivesPackaging` | `PackagingProofs` | a ZIP that was allowed and keeps to its estimate leaves the reserve free |
| `DeficitIsExact` | `PackagingProofs` | the deficit shown is exactly what has to be freed |
| `StrayListeners` | `ServerControllerProofs` | `Spec => []NoStrayListener` |
| `PairedTokens` | `ServerControllerProofs` | `Spec => [](Uncrossed => PairedLast)` |
| `RunningDriven` | `ServerControllerProofs` | `Spec => []Driven` |
| `QueuesKept` | `DirectJobsProofs` | `Spec => []QueuesAgree` |
| `ItemsDriven` | `DirectJobsProofs` | `Spec => []Driven` |
| `HandedOnce` | `DirectJobsProofs` | `Spec => FetchedOnce` |
| `WizardTruthful` | `ServerControllerProofs` | `Window!Spec => []StepsHold`: `Window` is `ServerWindow` |
| `Invariance` | `ClientAppProofs` | `Spec => []CInv`, the invariant the next two rest on |
| `ScreensReal` | `ClientAppProofs` | `Spec => []ScreenIsReal` |
| `StartedOnce` | `ClientAppProofs` | `Spec => StartedUnchanged` |
| `BoxesTrue` | `ClientAppProofs` | `Spec => []BoxesAgree`, for every tree of files |

*`JobEngineProofs`.* The invariant `IInv` is `TypeOK` (in parts: `Typed`) with what
typing alone cannot give: pipelines, commits, intakes and discards refer to jobs
that exist, and a URL in the file is also on the record in memory. The last is the
key to `UrlSurvives`: every save writes the whole cache, so a URL can be lost only if
memory lacks it; and no action clears `url` in memory, because retries, cancels and
failures are `EXCEPT`s of other fields and the sweep starts from what the file has.
The proof shows each step either keeps the URLs of a record or is a restart.
For `UrlFirst`, `FInv` adds that a pipeline beyond `published`, and a record
whose cleanup stage has begun, have their URL on disk; without failing flushes
`disk` equals `rec` after a save, so the step that enters `published` establishes it.
Without the assumption the cleanup may run ahead of the file (see Disagreements).

*The chain* (same module). `OneAtATime` and `SlotsReleased` look at a pipeline's position
only, so every action is first classified as one of four moves: it *rests* (no
pipeline changes its position), a pipeline *moves* within its execution, *joins* the
chain, or *leaves* it (`NextInChain`). `ChainOrder` — an executing pipeline has only
finished ones before it and only waiting or free ones after it — is then
preserved by the four moves, four cases in place of thirty actions.

*The promise* (same module). A payload is dropped by a pipeline that cleans up, by one that was cancelled and by a
discard. The first is covered by `FInv` (a pipeline that cleans has its URL on disk), the others by `Asking`: the
flag of a pipeline is set, and a discard is under way, only for a user who asked. `Held` then says that
files are on a record only while they are there, and `UrlPending` that the pipeline that resolves a URL
is the only one that knows more than the file. `DInv` is their conjunction. The refinement takes each
step of the engine to a step of `Delivery` or to none: `ChainOrder` gives that no second transfer is in progress
when one begins, `UrlPending` that what a flush publishes belongs to the transfer in progress. The flushes must
succeed (`~DiskMayFail`), as for `UrlFirst`: otherwise a payload may go before its URL is durable.

*The outcomes* (same module). `OInv` describes a job by who works on it. `Fits` gives, for each await a pipeline can be
at, the states its record may be in and what the record holds then: it is what the next step relies on. That
holds only if nobody else changes the record meanwhile, which is `Apart`: one pipeline, one Start or one
intake works on a job, a waiting retry not counted since it looks at the record when its turn comes (`Working`).
From `Fits` follow the two facts about records by themselves (`Sound`: a failed record has what its retries need; a URL belongs to a finalized job)
and `Drives`: a busy record has a driver, or its user cancelled it.
A step that changes one pipeline and its record is one lemma for all (the turn of a pipeline), so each action only shows that
its new record fits its new place. The hypothesis `OneStart` — no two `commitSelection` calls of *one* job
in flight — cannot be dropped: the second call finds the draft it looked at before its awaits started by the first, and queues the record
again under a running pipeline (see Disagreements). Racing Starts of different jobs, retries,
cancels and restarts are all allowed, and any flush may fail. The run `engine_one_client` satisfies it by having one request slot.

*`VikingUploadProofs`*, for any file, part size, number of workers and attempts that
satisfy `UploadConstants`. `PublishedWhole` alone is not inductive: that all workers
returned must imply that all parts are acknowledged. `PoolInv` adds that the parts are
an initial segment of the naturals (`Downward`), that `nextIndex` lies beyond every
taken part (`Taken`), that a part below it is acknowledged, under way or held by a
failed worker (`NoneDropped`), and that a worker returns only when `nextIndex` has left
the parts (`ReturnsLast`). Steps that keep a worker's part are one lemma
(`KeepsPart`), the step to the next part another (`TakesNext`).

*`JobHistoryProofs`.* That the file never goes back depends on what is in memory: the text
a flush has written must lie between the file and the object it was taken from
(`TmpAhead`), and every object somebody refers to must be at least as new as the file
(`Ahead`) — else a holder of an old object could save it. Two objects of one job would
break that, so `OneObject` is part of the same invariant (`Agree`), and it rests on the
first load: a load under way is alone, sees no cache, and has read what the file still
has, or nothing (`OneLoad`), since before it nothing is in memory that could be written
(`EmptyBefore`). `HInv` is their conjunction, the parts about objects under `~raced`.
`RefsKept` says that a step which creates no reference keeps `Agree` and `Ahead`: most
steps are that lemma. The cap needs no assumption here: eviction only drops references.

For `AckedDurable`, `Cover(f, i, v)` says that the records `f` have version `v` of job `i`, or are full of others no
older. It survives two things: records of `f` getting newer (`CoverGrows`), and a cut to the newest `MaxRecords`
(`CoverCut`: if one of those kept is older than `v`, whatever was not older than `v` is kept too). The file, a load
under way, memory and a flush under way must all cover what was promised, for each may become the file; besides,
memory covers the saves that wait and a flush the one save it will answer (`Durable`). Which save that is follows from the
chain: the saves that wait have distinct numbers of flushes before them, none more than there are (`Queue`).
Flushes may fail here: a save whose flush fails is answered but not promised.

*`QbitServiceProofs`*, for any number of jobs, files and torrents, any failing calls and any user.
`OnlySelected` follows from where the one torrent may be and what it may want: a torrent in a
job's directory carries that job's marks and no other's (`Placed`), so the one a commit adopts is in
its own job's directory or in the user's (`InPlace`), and one that runs there, or whose priorities
were read back, wants only selected files (`Limited`). `Fits` joins them for a position of the
pipeline; each call's torrent is shown to fit where the call leads (`TaggedFits`, `PrioritisedFits`,
`StartedFits`, …), and each step is then a walk, a call or an end of the pipeline (`Walks`, `Calls`, `Finishes`).
`ForeignUntouched` needs that what a guard saw keeps its mark until the call after it (`Vouched`):
the tag that `DropIntakeTag` removes is no job's, a new torrent has a serial number no guard has seen (`Numbered`,
`Heir`), and the stop after a poll is guarded at all because the registry keeps the job of a transfer,
no discard of a job being under way before the job has ended (`LifeInv`).

*Deletes* (same module) build on it. A step gives marks to a torrent for the transferring job only, and no torrent
changes its directory (`Succession`); the step that cancels a job removes its torrent or records the leak, as a failed
deletion or a cancel once packaging had begun (`CancelledClean`), so `CancelRemoves` is inductive with `OwnInv`. For
`KeptPayload`, `PayloadInv` adds that from the call that saw the files complete on they are in the job's directory, or
`elsewhere` says whose torrent that call saw (`Finished`: through the question for the paths, the save and the stop), and that a
torrent which a discard proved to be its job's lies in that job's directory: deleting it takes nobody else's files. The calls of a poll change
nothing but the pipeline, its job and handle (`PollMoves`), which every part of the invariants uses.

*`PackagingProofs`*, for any number of files, any volume and any faults. For `NothingSurvives` it is enough to know where a partial
file may be: only between the start of the writer and the end of its cleaning (`PartialInv`), everything else is `escaped` or `stuck`; most
steps make no file, which is one lemma (`MakesNone`). `PackedWhole` needs the way of each file: validated, and whole since unless
marked `cut` (`CheckedInv`); while the output is open the partial file holds what the finished streams put there (`Filling`), so a
writer that settles well has them all (`WriteInv`); and from there to the reported ZIP nothing writes any more, since the output is closed (`ZipInv`).

*The reserve* (same module) is about sums over the files, `Total`, which a fold computes. Its recursion is a `CHOOSE` of a function with
the fold's equation: that there is one for every finite set, and that any two agree, follows from the least set of a
collection of counterexamples (`LeastSubset`), and with it `Total` splits at any file (`TotalSplit`). Then the space of the
volume is an account: free, partial and final file together never exceed the volume, and while the output is open the partial
file has the entries of the finished streams only (`VolumeInv`), so a rename over an old ZIP frees what that one took and
nothing is charged twice; this is also what bounds `free` in `TypeOK`. `RoomInv` says that, unless others took space since the fresh
check, what is not written yet fits beside the reserve: `Probe`, the fresh check, establishes it, since the estimate covers every entry
and the directory (`EntriesEstimated`), and each `Append` takes from both sides alike.

*The disk space policy* (in `PackagingProofs`), for all sizes, counts and constants of the policy. Types of the reserve and of the
estimate come first (`ReserveType`, `EstimateType`), so that each statement becomes an inequality between sums: the
peak requirement is the packaging requirement plus what is downloaded, and the future requirement
falls by exactly what was downloaded. `KnownPreflight` adds the gateway's case of a volume whose free space is unknown.

*`ServerControllerProofs`*, for any number of callers, jobs, managers, codes and tokens, up to `crossed`. Calls are what
builds graphs and managers, so the numbers of both stay within their bounds (`Counted`). For
`NoStrayListener`, `Linked` says that whoever put a task other than a tick on a chain still waits for it, and that
nothing but ticks and stops stands behind a stop; `OneUp`, that a manager other than the relay in use is stopped, or
its stop is pending; and so no tick can bring up a listener that was given up. For `PairedLast`, `TokensKept` compares
the store with the controller of the graph in use: what was paired and not removed is in both, under the
secret the graph has, unless a reset took the stored one away. For `Driven`, the relay in use serves the graph in use (`Wired`), so a client's
commit reaches the engine the UI talks to, and a folder change drops a graph only when `#lastJob` shows none of
its jobs running — except for those in `slipped`, the disagreement named above; `BeforeSweep`
and `SweepOK` give that a running record without an engine waits for the sweep that will mark it.

*The setup wizard* (last part of the same module), for any jobs, addresses and clicks. The state is `SetupWizard`'s;
`ServerWindow` is instantiated over it and the rest of its variables, the window's and the controller's models sharing none.
`WizardInv` relates each answer under way to the main process. The first answer is the state at the first read and nothing
is clicked before it (`HydrateOK`); one folder is under way at a time and it is the saved one (`FolderOK`); saves of the
hash overtake each other, but the last that did not fail is what is saved, and with none under way the choice shown is
(`HashOK`); one probe is under way, of the address in the field unless that was edited meanwhile (`ProbeOK`). All of it
needs that the wizard is mounted once, with no answers of an earlier one (`Mounted`).

*`ClientAppProofs`*, for any files, jobs, slots, presses and faults. `ScreenIsReal` must follow from what answers and polls under way
will bring, so `CInv` says of each call what may be relied on at the place it has reached (`CallOK`), of a poll that an end it has read
still is one unless the job was started again (`PollOK`), and of each record what its saved copy agrees with (`RecordOK`), since a restart
goes back to that. `FormOK` and `ScreenOK` are the screens themselves. A job an intake makes is new to everybody: intakes have a job each
(`IntakeAlone`), jobs enough are left for those on their way (`Waiting`, `Unused`), and whatever names a job names one that exists (`AllKnown`).
`StartedUnchanged` adds `Orderly`: without a race one job at most transfers, and it is the active one. What a step of
the server does is summed up twice, for the records (`Onward`: a job that was started keeps its selection and its end) and for the calls
(`Tame`); what the client's actions send is `Asked`, and the end of a call is `Quiet`. Most of `CInv` is kept by one lemma for each.
`BoxesAgree` is about the tree only. A check mark depends on those of the children, so a counterexample may be taken at the greatest depth
(`LeastNumber`), where the children have none; and every node has a file below it.

*`DirectJobsProofs`*, for any number of jobs, magnets and faults, up to the first damage (`hurt`). While the client's
file is not damaged, a call that holds a copy, or a decision taken from one, is alone in that (`Alone`), so its
copy is the file but for the item at hand (`Counts`, one line per step): when it is saved nothing
else changes, and the item changes as the step means it to (`Puts`). With it go what may be on hand: a
fetched item is done or downloading, and one that is downloading has its fetcher (`ItemsSafe`), or is `stranded`: a write that fails
leaves the file as it was, so only the save of an end takes a fetcher away (`SaveFailsKeeps`). `Driven` is part
of that; `FetchedOnce` follows because the accept that takes an item has just read it. For `QueuesAgree` both files count
(`QueueSafe`): a request that is being saved is the only one, in a copy that differs at its job; what the server shows
decided, or is told, the client has decided; and what the client has decided and the server
still shows queued has a call about to tell, or a request on its way, unless the decision is `lost`. At rest there is none of either.
The client's steps are then one lemma (`ClientQueue`), what the server and the faults do another (`ServedQueue`).

## Disagreements between the code and what it says of itself

Runs that end in a violation:

1. **`engine_cancel_between_phases`.** `TransferPipeline.cancel` is "Safe to call while
   run()/retry*() is in flight." (`jobs/pipeline.ts:173`). A cancel that arrives while
   the pipeline awaits a save between two phases is seen only by
   `#shouldContinue`; `run()` then returns without `#finishCancel`. The job stays
   `downloading` (or `packaging`, `queued`) with nobody driving it until a restart.
2. **`relay_address_change`.** The relay "rebinds automatically, including to a NEW address"
   (`reports/A6_RELAY_AUTH.md:91`). When the address changes under a listening relay the watch tick
   closes the listener and calls `startLocked` with the state still `listening`, which returns at
   once: the relay says it listens and serves nobody, and later ticks see nothing to do.

Met while modelling, without a run of their own. Most are visible in a model as the condition of a property (`raced`,
`crossed`, `hurt`, `escaped`, `blinked`, …).

*Engine.*

* `commitSelection` assigns `queued` after two awaits without looking at the state again (`engine.ts:328`): a cancel
  accepted in between is undone, though a terminal state is one a job "will never leave on its own" (`shared/domain.ts:25`).
* "Persist the final URL/hash BEFORE any destructive cleanup." (`pipeline.ts:622`): `upsert` swallows a
  failed flush (`json-repository.ts:56`), so cleanup may delete the data while the file knows no URL.
* Two Starts that pass the `#activeTransferJobId` check before their preflights are both
  accepted, though "second `commitSelection` while one is active throws"
  (`reports/A5_JOB_ENGINE.md:11`). They are still serialised (`OneAtATime`). A client that gives up a confirm after ten
  seconds and confirms again does this to one job. So does a Retry accepted during the preflight of another job's Start: during
  the preflight nothing is active (`engine.ts:456`), and after it the Start does not look again. It takes six presses, more than
  the run `client` allows; the proof of `StartedOnce` needs that `raced` counts such a retry.
* The direct branch of `#createIntakeInner` (`engine.ts:156`) assigns the probe's outcome
  to a draft cancelled meanwhile; the torrent branch re-checks.
* The start-up sweep runs "before jobs are exposed" (`server/composition.ts:9`), but the
  window's history request does not wait for it and loads the same repository. When the two
  first loads overlap (`raced` in `JobHistory`), the later replaces the cache with the file's
  records: the sweep's marks are then missing in memory until the next restart, and a save
  of a replaced record can put an older version back.
* A draft in `reading_metadata` at a restart stays there: nothing restarts its fetch,
  though "the user can still select files and start them" (`engine.ts:77`).
* `record.error ??=` (`engine.ts:485`) keeps a blocked Start's `storage_preflight` error as
  the reason of a later, unrelated failure.
* Cleanup deletes data only through a torrent handle (`pipeline.ts:657`): a direct
  download stays under a policy of deleting everything, and the stage says complete.
* A direct download has no abort signal, and its timeout is cleared when headers arrive
  (`direct-gateway.ts`): a cancel waits for the remote server. An error of the output is heard only while the
  writer waits for `drain`; one that comes after leaves it waiting for a `drain` that never comes.

*qBittorrent, packaging, Viking.*

* The states from which a leftover may be removed name `errored` (`qbit/commit.ts`), `statemap.ts` has `error`; and
  a leftover with another job's tag makes `assertCommitOwnership` throw before the eviction is reached.
* A cancel between the last poll and packaging abandons the job, torrent and all, as in `engine_cancel_between_phases`.
* `getDownloadedPaths` takes the job's directory when the live torrent cannot be read (`integration/qbit-gateway.ts:222-227`; `safeLiveInfo`, `:241-247`,
  swallows the error): `assertWithinJobRoot` is then asked about a directory that was not looked at. For a torrent the user put
  elsewhere the payload is looked for where it is not, which packaging reports as missing files (`pipe.elsewhere`, the exception in `KeptPayload`).
* The start's answer lost (`commit.ts:162`): the torrent runs, the job has failed without a `torrentId`, and nothing stops it.
* A change of the qBittorrent settings makes a new registry while the gateway keeps tokens of the old one: the Start of
  a draft made before it fails (`integration/qbit-gateway.ts:191`). Servers too old for `fetchMetadata` are refused, as the
  fallback's directory is never passed.
* An abort between `writeStoreZip` and the rename leaves `<name>.partial.zip` (`packager.ts:155` is outside both `try`s;
  `packager.test.ts:379`: "no partial or final zip may survive cancellation"); so does an output whose open completes
  after it was destroyed. For a torrent whose name `sanitizeBaseName` changes, the pipeline removes a file of the
  wrong name. A source truncated after its validation goes in short without an error. `liveMonitor.ts` and
  `assertPreflightAllowsStart` are used by nobody.
* "On any failed attempt that part's contribution is rolled
  back so totals never double-count retransmits" (`reports/A3_VIKING.md:108`). When the
  server refuses a part before it has read all of it, the stream of the refused
  attempt goes on and adds its chunks after the rollback (`StrayChunk`): `uploadedBytes` exceeds the file.
  No part is lost; the fraction shown is clamped.

*Server.*

* `startServer` twice (the start at boot and the wizard's button, `SetupWizard.tsx:127`): the second overwrites `#relay`; the first listener
  stays without an owner and the port is taken. A call that stopped an old relay sets `#relay` to null even if a newer one is there; a rebind
  chained behind a stop starts a stopped relay; a start that sweeps keeps the graph a folder change has dropped. The window has no button that calls `stopServer`.
* `#lastJob` is null for up to a second while another transfer runs, so changes "(idle only)" (`controller.ts:499`) can come
  under a transfer. A draft nobody starts counts as a transfer: folder, qBittorrent and Viking changes are deferred, and a deferred change
  is never applied. The record of a job whose graph was dropped stays "running" in the next graph until a restart.
* After a reset without a rebuild new pairings are made under a secret that is no longer stored and die at the restart
  (`auth-persistence.ts:4`); pending codes die with the graph; "Called once per process" (`composition.ts:98`) is not true after a folder change.
* The watcher is started only after a first successful bind (`lifecycle.ts:270`): a relay whose first start found no adapter, or failed to bind, does not recover by itself, though
  `lifecycle.ts:310` means it to.
* `getHistory` takes the *first* twenty of the cache's order, which is oldest first (`json-repository.ts:75`): after twenty
  finished jobs "Recent transfers" shows no new one, and `history[0]`, taken for the most recent (`Dashboard.tsx:51`), is the oldest.
* `index.ts:320` says to "start it manually from the dashboard"; the dashboard has no such button.

*Client and friend mode.*

* `createIntake` has no idempotency key and is given up after ten seconds while metadata may take two minutes: the draft is abandoned.
* The cleanup boxes are shown only after the confirm, when the transfer has begun with the defaults; they change nothing unless the preflight blocked.
  A toggle while the confirm is under way gets the verdict of the old selection, against the comment at `SelectionScreen.tsx:36`.
* `annotateSelection` counts only fully checked children (`treeModel.ts:149`): a folder with a partly checked child and no other is shown unchecked (the header
  comment at `:6` and `treeModel.test.ts:47` say indeterminate).
* A draft that is gone makes the intake screen poll for ever. A cancel, start or intake answered late throws the user out of another job's screen; a failed cancel
  goes home too. After History or Change Server during a transfer its screen cannot be reached. A retry shows the error again while the job re-runs when the poll reads before
  it is processed.
* `createJob` lets `InvalidTransitionError` through as 500 (`job-service.ts:9` says 409); a 401 is shown as offline; retries over HTTP answer only after the transfer.
* Friend mode calls its queue "persisted" (`direct-job-store.ts:2`), but two requests that overlap lose an update, and two writes may leave a file that is read as empty.
  A failed save of a download's end (`direct-downloads.ts:211`, outside the `try`) leaves the item "downloading" in the file, where no button
  offers it again, and the server untold (`stranded`).
  An accept or a 100 % report that is lost is never repeated (`direct-downloads.ts:109`, `:238`); a failed item has no button though the server was told
  "accepted"; kind `direct` is never produced by the routes, so its branch is dead.

*Window.*

* The probed qBittorrent URL is not saved by the wizard; an interface picked by hand never completes the Radmin step (the mock bridge sets `detected`,
  `mockServerBridge.ts:191`); `needsSetup` is "True when the wizard has never been completed" but looks at the folder, saved in step 1.
* A probe answered late completes the step for an edited address; a choice of "user hash" completes the step, and says "saved securely", before
  anything is saved. These are the exceptions named in `StepsHold`.
* Hydration with a failed read leaves a step busy for ever; a slow `getHealth` puts an old job over newer events until the next tick; a refused
  `setQbitApiKey` is not shown; a refused start leaves the wizard and a second press starts a second relay.
* A terminal snapshot followed by the tick's null before React renders skips the refresh of the history; archiving a finished job hides the active
  transfer until the next tick; without the push loop a dismissed job's banner stays.

## What is only model-checked and what is not modelled

Only model-checked: the nine liveness properties (`PipelineEnds`, `CancelEnds`, `UploadEnds`, `PackagingEnds`, `SaveReturns`, `Recovers`,
`Settles`, `Arrives`, `WindowCatchesUp`), as liveness under fairness and `ENABLED` are beyond the prover, and the type
invariants that are no theorem by name but part of an inductive invariant. Where a proof needs induction over data — sums over files,
the tree's check marks — the library's induction theorems cannot be instantiated; the proofs take a least number or a least
set of a collection of counterexamples instead, which is a first-order fact.

Simplified, at no property's cost: a commit that throws in its preflight or in creating the job's directories is no outcome of
`HandleCommit` in `ClientApp` (`JobEngine` has these steps); `WizardHydrated` leaves out answers that fail while the wizard
hydrates (the step stays busy, see above); `Tick` of `ServerWindow` is one step over the awaits of `pushTick`; and a failing
rename of `Publish` in `Packaging` finds the old final file always removed.

Not modelled: the bytes of ZIPs and HTTP bodies, headers, schemas and wording; the streams of a direct download;
the URL and magnet parser; `verifyUploadedFile` and `resolveDirectLink`; rate limits; telemetry, idempotency keys and archiving of
jobs in the engine; the probes and key setters of the controller; the settings, pairing and friends' panels, the archived
list, search and layout; settings files, IPC glue and the updater. None of them keeps
state whose order of changes matters to the properties above, except the direct
download's stream and the limiter, which are candidates for a later module. Secrets and access control are
modelled only as far as pairing needs.
