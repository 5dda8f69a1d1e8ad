----------------------------- MODULE JobHistory -----------------------------
(***************************************************************************)
(* JsonJobRepository (json-repository.ts): a cache of job records shared   *)
(* by reference, written as a whole to one history file by a chain of      *)
(* flushes.  JobEngine takes a save for one atomic step; this module shows *)
(* what the repository makes of one.  A record is its version; a caller is *)
(* an async function of the engine, a pipeline or the controller.          *)
(***************************************************************************)
EXTENDS Integers, FiniteSets

CONSTANTS
  Ids,          \* of jobs
  Callers,      \* of the repository, concurrently
  NoGen,        \* not an object
  New,          \* generation of the records created in this session
  MaxRecords,   \* the cap
  SavesPerTick, \* saves that get the same updatedAt, at most
  MaxVersion,   \* bound on saves
  MaxRestarts,  \* bound on crashes
  MayFail       \* whether a file operation may fail

ASSUME HistoryConstants ==
  /\ IsFiniteSet(Ids) /\ Ids # {}
  /\ IsFiniteSet(Callers)
  /\ MaxRecords \in Nat \ {0} /\ SavesPerTick \in Nat \ {0}
  /\ MaxVersion \in Nat \ {0} /\ MaxRestarts \in Nat
  /\ MayFail \in BOOLEAN
  /\ NoGen \notin Callers \cup {New} /\ New \notin Callers

\* A parsed file gives new objects; c is the generation of the file c parsed.
Gens == Callers \cup {New}

\* 0 is the version of a record that does not exist.
Versions == 0 .. MaxVersion
Contents == [Ids -> Versions]
Nothing == [i \in Ids |-> 0]

VARIABLES
  file,      \* the history file
  heap,      \* the versions of the record objects
  loaded,    \* #cache # null
  cache,     \* #cache: which object stands for a job
  queued,    \* flushes in #writeChain that have not begun
  flush,     \* the flush under way
  caller,    \* the callers
  version,   \* of the latest save
  restarts,
  acked,     \* history variable: what saves that returned after writing promised
  raced      \* history variable: two first loads overlapped

vars == << file, heap, loaded, cache, queued, flush, caller, version, restarts, acked, raced >>

NoFlush == [pc |-> "none", listed |-> [i \in Ids |-> NoGen], tmp |-> Nothing]

Flushes == [ pc : {"none", "sorted", "written"}, listed : [Ids -> Gens \cup {NoGen}],
             tmp : Contents ]

Idle == [pc |-> "idle", id |-> CHOOSE i \in Ids : TRUE, gen |-> New, saved |-> 0,
         behind |-> 0, got |-> Nothing]

CallerStates ==
  [ pc : {"idle", "reading", "parsing", "holding", "saving"}, id : Ids, gen : Gens,
    saved : Versions, behind : 0 .. Cardinality(Callers), got : Contents ]

TypeOK ==
  /\ file \in Contents
  /\ heap \in [Ids -> [Gens -> Versions]]
  /\ loaded \in BOOLEAN
  /\ cache \in [Ids -> Gens \cup {NoGen}]
  /\ queued \in 0 .. Cardinality(Callers)
  /\ flush \in Flushes
  /\ caller \in [Callers -> CallerStates]
  /\ version \in Versions
  /\ restarts \in 0 .. MaxRestarts
  /\ acked \in Contents
  /\ raced \in BOOLEAN

NoObjects == [i \in Ids |-> [g \in Gens |-> 0]]
NoCache   == [i \in Ids |-> NoGen]
AllIdle   == [c \in Callers |-> Idle]

\* The file an earlier process left.
Init ==
  /\ \E S \in SUBSET Ids : /\ Cardinality(S) <= MaxRecords
                           /\ file = [i \in Ids |-> IF i \in S THEN 1 ELSE 0]
  /\ heap = NoObjects /\ loaded = FALSE /\ cache = NoCache
  /\ queued = 0 /\ flush = NoFlush
  /\ caller = AllIdle
  /\ version = 1
  /\ restarts = 0
  /\ acked = file
  /\ raced = FALSE

\* A flush begins in the microtask after the save or the flush it waited for, before
\* any callback of a file operation.
Quiet == flush.pc # "none" \/ queued = 0

-----------------------------------------------------------------------------
(* ensureLoaded, loadAll, get *)

\* Mutant of OpenFile: the cache is not asked for.
OpenFileAgain(c) ==
  /\ Quiet /\ caller[c].pc = "idle"
  /\ caller' = [caller EXCEPT ![c].pc = "reading"]
  /\ raced' = (raced \/ \E d \in Callers : caller[d].pc \in {"reading", "parsing"})
  /\ UNCHANGED << file, heap, loaded, cache, queued, flush, version, restarts, acked >>

OpenFile(c) ==
  /\ Quiet /\ ~loaded /\ caller[c].pc = "idle"
  /\ caller' = [caller EXCEPT ![c].pc = "reading"]
  /\ raced' = (raced \/ \E d \in Callers : caller[d].pc \in {"reading", "parsing"})
  /\ UNCHANGED << file, heap, loaded, cache, queued, flush, version, restarts, acked >>

ReadFile(c) ==
  /\ Quiet /\ caller[c].pc = "reading"
  /\ caller' = [caller EXCEPT ![c].pc = "parsing", ![c].got = file]
  /\ UNCHANGED << file, heap, loaded, cache, queued, flush, version, restarts, acked, raced >>

\* "missing or unreadable history starts empty": what was saved is given up.
ReadFails(c) ==
  /\ MayFail /\ Quiet /\ caller[c].pc = "reading"
  /\ caller' = [caller EXCEPT ![c].pc = "parsing", ![c].got = Nothing]
  /\ acked' = Nothing
  /\ UNCHANGED << file, heap, loaded, cache, queued, flush, version, restarts, raced >>

\* The cache is replaced, whether or not another load was there first.
Install(c) ==
  /\ Quiet /\ caller[c].pc = "parsing"
  /\ heap' = [i \in Ids |-> [heap[i] EXCEPT ![c] = caller[c].got[i]]]
  /\ cache' = [i \in Ids |-> IF caller[c].got[i] # 0 THEN c ELSE NoGen]
  /\ loaded' = TRUE
  /\ caller' = [caller EXCEPT ![c] = Idle]
  /\ UNCHANGED << file, queued, flush, version, restarts, acked, raced >>

\* Mutant of Look: the reader gets a copy.
LookCopies(c, i) ==
  /\ Quiet /\ loaded /\ caller[c].pc = "idle" /\ cache[i] # NoGen
  /\ heap' = [heap EXCEPT ![i][c] = heap[i][cache[i]]]
  /\ caller' = [caller EXCEPT ![c] = [Idle EXCEPT !.pc = "holding", !.id = i, !.gen = c]]
  /\ UNCHANGED << file, loaded, cache, queued, flush, version, restarts, acked, raced >>

Look(c, i) ==
  /\ Quiet /\ loaded /\ caller[c].pc = "idle" /\ cache[i] # NoGen
  /\ caller' = [caller EXCEPT ![c] = [Idle EXCEPT !.pc = "holding", !.id = i, !.gen = cache[i]]]
  /\ UNCHANGED << file, heap, loaded, cache, queued, flush, version, restarts, acked, raced >>

\* A new job: its id was never used.
Create(c, i) ==
  /\ Quiet /\ loaded /\ caller[c].pc = "idle"
  /\ file[i] = 0 /\ acked[i] = 0 /\ \A g \in Gens : heap[i][g] = 0
  /\ \A d \in Callers : caller[d].pc = "holding" => caller[d].id # i
  /\ caller' = [caller EXCEPT ![c] = [Idle EXCEPT !.pc = "holding", !.id = i, !.gen = New]]
  /\ UNCHANGED << file, heap, loaded, cache, queued, flush, version, restarts, acked, raced >>

Release(c) ==
  /\ Quiet /\ caller[c].pc = "holding"
  /\ caller' = [caller EXCEPT ![c] = Idle]
  /\ UNCHANGED << file, heap, loaded, cache, queued, flush, version, restarts, acked, raced >>

-----------------------------------------------------------------------------
(* upsert, with the change of the record before it *)

\* The caller waits for the flush its own save adds to the chain.
Save(c) ==
  LET i == caller[c].id
      g == caller[c].gen
  IN  /\ Quiet /\ caller[c].pc = "holding" /\ version < MaxVersion
      /\ version' = version + 1
      /\ heap' = [heap EXCEPT ![i][g] = version + 1]
      /\ cache' = [cache EXCEPT ![i] = g]
      /\ queued' = queued + 1
      /\ caller' = [caller EXCEPT ![c].pc = "saving", ![c].saved = version + 1,
           ![c].behind = queued + IF flush.pc = "none" THEN 1 ELSE 2]
      /\ UNCHANGED << file, loaded, flush, restarts, acked, raced >>

-----------------------------------------------------------------------------
(* The write chain *)

\* updatedAt does not tell every two saves apart.
Tick(v) == v \div SavesPerTick

Cached == { i \in Ids : cache[i] # NoGen }
Stamp(i) == Tick(heap[i][cache[i]])

\* Mutant of Kept: the oldest are kept.
KeptOldest(K) ==
  /\ K \subseteq Cached
  /\ Cardinality(K) = MaxRecords \/ (K = Cached /\ Cardinality(K) < MaxRecords)
  /\ \A k \in K, i \in Cached \ K : Stamp(i) >= Stamp(k)

\* The newest records are kept; between equals the order of the Map decides.
Kept(K) ==
  /\ K \subseteq Cached
  /\ Cardinality(K) = MaxRecords \/ (K = Cached /\ Cardinality(K) < MaxRecords)
  /\ \A k \in K, i \in Cached \ K : Stamp(k) >= Stamp(i)

\* Sorted and cut; what is cut leaves the cache as well.
FlushBegin ==
  /\ flush.pc = "none" /\ queued > 0
  /\ \E K \in SUBSET Ids :
       /\ Kept(K)
       /\ cache' = [i \in Ids |-> IF i \in K THEN cache[i] ELSE NoGen]
  /\ flush' = [NoFlush EXCEPT !.pc = "sorted", !.listed = cache']
  /\ queued' = queued - 1
  /\ UNCHANGED << file, heap, loaded, caller, version, restarts, acked, raced >>

\* Stringified after mkdir: the versions of this moment.
FlushWrite ==
  /\ flush.pc = "sorted"
  /\ flush' = [flush EXCEPT !.pc = "written",
       !.tmp = [i \in Ids |-> IF flush.listed[i] = NoGen THEN 0 ELSE heap[i][flush.listed[i]]]]
  /\ UNCHANGED << file, heap, loaded, cache, queued, caller, version, restarts, acked, raced >>

\* Its upsert returns, those behind it come nearer.
Answered(c) == caller[c].pc = "saving" /\ caller[c].behind = 1

Ended ==
  caller' = [c \in Callers |->
    IF Answered(c) THEN [caller[c] EXCEPT !.pc = "holding", !.saved = 0, !.behind = 0]
    ELSE IF caller[c].pc = "saving" THEN [caller[c] EXCEPT !.behind = @ - 1]
    ELSE caller[c]]

FlushRename ==
  /\ flush.pc = "written"
  /\ file' = flush.tmp
  /\ flush' = NoFlush
  /\ Ended
  /\ acked' = [i \in Ids |->
       IF \E c \in Callers : Answered(c) /\ caller[c].id = i
       THEN caller[CHOOSE c \in Callers : Answered(c)].saved
       ELSE acked[i]]
  /\ UNCHANGED << heap, loaded, cache, queued, version, restarts, raced >>

\* Mutant of FlushFails: the chain is not caught, nobody is answered.
FlushFailsUncaught ==
  /\ MayFail /\ flush.pc \in {"sorted", "written"}
  /\ flush' = NoFlush
  /\ UNCHANGED << file, heap, loaded, cache, queued, caller, version, restarts, acked, raced >>

\* mkdir, writeFile or rename rejects; the chain swallows it.
FlushFails ==
  /\ MayFail /\ flush.pc \in {"sorted", "written"}
  /\ flush' = NoFlush
  /\ Ended
  /\ UNCHANGED << file, heap, loaded, cache, queued, version, restarts, acked, raced >>

\* The process ends between any two steps; a file replaced by rename is whole.
Restart ==
  /\ restarts < MaxRestarts
  /\ restarts' = restarts + 1
  /\ heap' = NoObjects /\ loaded' = FALSE /\ cache' = NoCache
  /\ queued' = 0 /\ flush' = NoFlush
  /\ caller' = AllIdle
  /\ UNCHANGED << file, version, acked, raced >>

-----------------------------------------------------------------------------

Call(c) ==
  \/ OpenFile(c) \/ ReadFile(c) \/ ReadFails(c) \/ Install(c) \/ Release(c) \/ Save(c)
  \/ \E i \in Ids : Look(c, i) \/ Create(c, i)

FlushStep == FlushBegin \/ FlushWrite \/ FlushRename \/ FlushFails

Next == FlushStep \/ Restart \/ \E c \in Callers : Call(c)

Spec == Init /\ [][Next]_vars

\* Operations on the local disk end, one way or the other.
Fairness == WF_vars(FlushStep)

FairSpec == Spec /\ Fairness

-----------------------------------------------------------------------------
(* Properties *)

\* A save that returned after a flush that succeeded survives any restart at which the
\* file can be read, unless it is full of records no older ("capped at the last N jobs by
\* updatedAt").
AckedDurable ==
  ~raced => \A i \in Ids :
    \/ file[i] >= acked[i]
    \/ /\ file[i] = 0
       /\ Cardinality({ k \in Ids : file[k] # 0 /\ Tick(file[k]) >= Tick(acked[i]) }) >= MaxRecords

Refs(i) ==
  ({cache[i], flush.listed[i]} \ {NoGen})
    \cup { caller[c].gen : c \in { d \in Callers : caller[d].pc \in {"holding", "saving"}
                                                /\ caller[d].id = i } }

\* Every reader and writer of a job has the same object, as the engine and its
\* pipelines count on: a change made through one reference is seen through all.
OneObject == ~raced => \A i \in Ids : \A g, h \in Refs(i) : g = h

\* A job in the file never goes back to an earlier version, although flushes are
\* stringified late and saves overtake each other.
FileForward ==
  [][~raced' => \A i \in Ids : file[i] # 0 /\ file'[i] # 0 => file'[i] >= file[i]]_vars

\* upsert returns, whatever happens to its flush or to those before it.
SaveReturns == \A c \in Callers : caller[c].pc = "saving" ~> caller[c].pc # "saving"

=============================================================================
