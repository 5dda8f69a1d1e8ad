------------------------- MODULE QbitServiceProofs -------------------------
(* Theorems of QbitService: only selected files are downloaded, and nobody  *)
(* else's torrent is touched, for any number of jobs, files and torrents.   *)
EXTENDS QbitService, TLAPS

\* The types without the bounds.
AnyTorrent ==
  [ serial : Nat \ {0}, tags : SUBSET (Jobs \cup {INTAKE_TAG}), category : Owners,
    path : Owners, run : RunStates, meta : BOOLEAN, wanted : SUBSET Files ]

AnyPipe == [ pc : PipeStates, job : Owners, seen : Nat,
             why : {"none", "cancel", "critical", "done"}, cancelled : BOOLEAN,
             elsewhere : BOOLEAN ]

-----------------------------------------------------------------------------
(* Only selected files *)

Adopting == {"tag", "categorise", "untag", "deselect", "select", "verify", "start"}

\* A torrent in a job's directory carries that job's marks and no other's.
Placed(t) ==
  t.path \in Jobs => t.category = t.path /\ t.tags \subseteq {t.path, INTAKE_TAG}

\* One that runs wants only what the job selected; so does the one whose
\* priorities were read back.
Limited(t, pc) ==
  t.path \in Jobs /\ (t.run = "active" \/ pc = "start") => t.wanted \subseteq Selection[t.path]

\* The torrent that a commit works on is in its own job's directory, or the user's.
InPlace(t, pc, j) == pc \in Adopting => t.path \in {j, NoJob}

Fits(t, pc, j) ==
  t # NoTorrent => t \in AnyTorrent /\ Placed(t) /\ Limited(t, pc) /\ InPlace(t, pc, j)

Stopping == {"halt", "halting"}

\* A pipeline has a job, and what stops a download has a reason.
Driven ==
  /\ pipe \in AnyPipe
  /\ pipe.pc # "idle" => pipe.job \in Jobs
  /\ pipe.pc \in Stopping => pipe.why # "none"

SelectedInv ==
  /\ Driven
  /\ adds \in Nat
  /\ data \in [Owners -> SUBSET Files]
  /\ Fits(torrent, pipe.pc, pipe.job)
  /\ OnlySelected

\* A torrent fits every place of the pipeline that asks no more of it.
LEMMA FitsOn ==
  ASSUME NEW t, NEW p, NEW q, NEW j, NEW k, Fits(t, p, j),
         q = "start" => p = "start", q \in Adopting => p \in Adopting /\ k = j
  PROVE  Fits(t, q, k)
BY DEF Fits, Limited, InPlace

\* So does none, as long as nobody needs it.
LEMMA FitsIdle ==
  ASSUME NEW t, NEW p, NEW j, Fits(t, p, j)
  PROVE  Fits(t, "idle", NoJob)
BY FitsOn DEF Adopting

\* A step that neither adds data nor makes a torrent that does not fit.
LEMMA Keeps ==
  ASSUME SelectedInv, Driven', adds' \in Nat,
         data' \in [Owners -> SUBSET Files], \A o \in Owners : data'[o] \subseteq data[o],
         Fits(torrent', pipe'.pc, pipe'.job)
  PROVE  SelectedInv'
BY DEF SelectedInv, OnlySelected, Owners

\* A step of the pipeline within its job.
LEMMA GoesOn ==
  ASSUME SelectedInv, pipe.pc # "idle", NEW pc \in PipeStates, adds' \in Nat, data' = data,
         \/ pipe' = [pipe EXCEPT !.pc = pc]
         \/ pipe' = [pipe EXCEPT !.pc = pc, !.seen = torrent.serial]
         \/ pipe' \in AnyPipe /\ pipe'.pc = pc /\ pipe'.job = pipe.job,
         pc \in Stopping => pipe'.why # "none", Fits(torrent', pc, pipe.job)
  PROVE  SelectedInv'
<1>1. torrent.serial \in Nat BY DEF SelectedInv, Fits, AnyTorrent, NoTorrent
<1>2. pipe' \in AnyPipe /\ pipe'.pc = pc /\ pipe'.job = pipe.job
  BY <1>1 DEF SelectedInv, Driven, AnyPipe
<1>3. Driven' BY <1>2 DEF SelectedInv, Driven
<1>4. data' \in [Owners -> SUBSET Files] /\ \A o \in Owners : data'[o] \subseteq data[o]
  BY DEF SelectedInv
<1> QED BY <1>2, <1>3, <1>4, Keeps

\* The end of a pipeline.
LEMMA Finishes ==
  ASSUME SelectedInv, pipe' = IdlePipe, adds' \in Nat,
         data' \in [Owners -> SUBSET Files], \A o \in Owners : data'[o] \subseteq data[o],
         Fits(torrent', "idle", NoJob)
  PROVE  SelectedInv'
<1>1. Driven' BY DEF Driven, IdlePipe, AnyPipe, PipeStates, Owners, Stopping
<1>2. pipe'.pc = "idle" /\ pipe'.job = NoJob BY DEF IdlePipe
<1> QED BY <1>1, <1>2, Keeps

\* A pipeline that ends and leaves qBittorrent alone.
LEMMA Fails ==
  ASSUME SelectedInv, pipe' = IdlePipe, UNCHANGED Server
  PROVE  SelectedInv'
<1>1. Fits(torrent', "idle", NoJob) BY FitsIdle DEF SelectedInv, Server
<1>2. /\ adds' \in Nat /\ data' \in [Owners -> SUBSET Files]
      /\ \A o \in Owners : data'[o] \subseteq data[o]
  BY DEF SelectedInv, Server
<1> QED BY <1>1, <1>2, Finishes

\* A call whose torrent fits where it leads.
LEMMA Calls ==
  ASSUME SelectedInv, pipe.pc # "idle", NEW t, NEW pc \in PipeStates \ Stopping,
         CallTo(t, pc), Fits(t, pc, pipe.job)
  PROVE  SelectedInv'
<1>1. adds' \in Nat /\ data' = data /\ data' \in [Owners -> SUBSET Files]
      /\ \A o \in Owners : data'[o] \subseteq data[o]
  BY DEF CallTo, SelectedInv
<1>2. CASE torrent' = t /\ Goto(pc)
  BY <1>1, <1>2, GoesOn DEF Goto
<1>3. CASE torrent' \in {t, torrent} /\ Throw
  <2>1. Fits(torrent', "idle", NoJob) BY <1>3, FitsIdle DEF SelectedInv
  <2> QED BY <1>1, <1>3, <2>1, Finishes DEF Throw, EndAs
<1> QED BY <1>2, <1>3 DEF CallTo, Outcomes


\* A call that nobody looks at, or its refusal.
LEMMA QuietlyFits ==
  ASSUME SelectedInv, NEW t, NEW pc, NEW j, Quietly(t), Fits(t, pc, j), Fits(torrent, pc, j)
  PROVE  Fits(torrent', pc, j)
BY DEF Quietly

-----------------------------------------------------------------------------
(* What the calls make of a torrent *)

LEMMA FitsNone == ASSUME NEW p, NEW j PROVE Fits(NoTorrent, p, j)
BY DEF Fits

LEMMA FreshFits ==
  ASSUME SelectedInv, QbitConstants, NEW j \in Jobs
  PROVE  Fits(FreshStopped(j), "metadata", j)
<1>1. FreshStopped(j) \in AnyTorrent
  BY DEF SelectedInv, FreshStopped, AnyTorrent, Owners, RunStates
<1> QED BY <1>1 DEF Fits, Placed, Limited, InPlace, FreshStopped, Adopting

LEMMA TaggedFits ==
  ASSUME QbitConstants, NEW t, NEW j \in Jobs, Fits(t, "tag", j)
  PROVE  Fits(Tagged(t, j), "categorise", j)
<1>1. CASE t = NoTorrent BY <1>1, FitsNone DEF Tagged
<1>2. CASE t # NoTorrent
  <2>1. t \in AnyTorrent /\ t.path \in {j, NoJob} BY <1>2 DEF Fits, InPlace, Adopting
  <2> DEFINE u == Tagged(t, j)
  <2>2. /\ u.tags = t.tags \cup {j} /\ u.path = t.path /\ u.category = t.category
        /\ u.run = t.run /\ u.wanted = t.wanted /\ u \in AnyTorrent
    BY <1>2, <2>1 DEF Tagged, AnyTorrent
  <2> HIDE DEF u
  <2>3. Placed(u) BY <1>2, <2>1, <2>2 DEF Fits, Placed, QbitConstants
  <2>4. Limited(u, "categorise") /\ InPlace(u, "categorise", j)
    BY <1>2, <2>1, <2>2 DEF Fits, Limited, InPlace
  <2> QED BY <2>2, <2>3, <2>4 DEF Fits, u
<1> QED BY <1>1, <1>2

LEMMA CategorisedFits ==
  ASSUME QbitConstants, NEW t, NEW j \in Jobs, Fits(t, "categorise", j)
  PROVE  Fits(Categorised(t, j), "untag", j)
<1>1. CASE t = NoTorrent BY <1>1, FitsNone DEF Categorised
<1>2. CASE t # NoTorrent
  <2>1. t \in AnyTorrent /\ t.path \in {j, NoJob} BY <1>2 DEF Fits, InPlace, Adopting
  <2> DEFINE u == Categorised(t, j)
  <2>2. /\ u.tags = t.tags /\ u.path = t.path /\ u.category = j
        /\ u.run = t.run /\ u.wanted = t.wanted /\ u \in AnyTorrent
    BY <1>2, <2>1 DEF Categorised, AnyTorrent, Owners
  <2> HIDE DEF u
  <2>3. Placed(u) BY <1>2, <2>1, <2>2 DEF Fits, Placed, QbitConstants
  <2>4. Limited(u, "untag") /\ InPlace(u, "untag", j)
    BY <1>2, <2>1, <2>2 DEF Fits, Limited, InPlace
  <2> QED BY <2>2, <2>3, <2>4 DEF Fits, u
<1> QED BY <1>1, <1>2

LEMMA UntaggedFits ==
  ASSUME NEW t, NEW j, Fits(t, "untag", j)
  PROVE  Fits(Untagged(t), "deselect", j)
<1>1. CASE t = NoTorrent BY <1>1, FitsNone DEF Untagged
<1>2. CASE t # NoTorrent
  <2>1. t \in AnyTorrent /\ t.path \in {j, NoJob} BY <1>2 DEF Fits, InPlace, Adopting
  <2> DEFINE u == Untagged(t)
  <2>2. /\ u.tags = t.tags \ {INTAKE_TAG} /\ u.path = t.path /\ u.category = t.category
        /\ u.run = t.run /\ u.wanted = t.wanted /\ u \in AnyTorrent
    BY <1>2, <2>1 DEF Untagged, AnyTorrent
  <2> HIDE DEF u
  <2>3. Placed(u) BY <1>2, <2>2 DEF Fits, Placed
  <2>4. Limited(u, "deselect") /\ InPlace(u, "deselect", j)
    BY <1>2, <2>1, <2>2 DEF Fits, Limited, InPlace
  <2> QED BY <2>2, <2>3, <2>4 DEF Fits, u
<1> QED BY <1>1, <1>2

\* Priorities that rise only for files which the job selected.
LEMMA PrioritisedFits ==
  ASSUME NEW t, t # NoTorrent, NEW p \in {"deselect", "select"}, NEW q \in {"select", "verify"},
         NEW j, Fits(t, p, j), NEW up \in BOOLEAN, NEW set \in SUBSET Files,
         up => j \in Jobs /\ j # NoJob /\ NoJob \notin Jobs /\ set \subseteq Selection[j]
  PROVE  Fits(Prioritised(t, set, up), q, j)
<1>1. t \in AnyTorrent /\ t.path \in {j, NoJob} BY DEF Fits, InPlace, Adopting
<1> DEFINE u == Prioritised(t, set, up)
<1>2. /\ u.tags = t.tags /\ u.path = t.path /\ u.category = t.category /\ u.run = t.run
      /\ u.wanted = IF up THEN t.wanted \cup set ELSE t.wanted \ set
  BY <1>1 DEF Prioritised, AnyTorrent
<1>3. u \in AnyTorrent BY <1>1 DEF Prioritised, AnyTorrent
<1> HIDE DEF u
<1>4. Placed(u) BY <1>2 DEF Fits, Placed
<1>5. Limited(u, q)
  <2> SUFFICES ASSUME t.path \in Jobs, t.run = "active" PROVE u.wanted \subseteq Selection[t.path]
    BY <1>2 DEF Limited
  <2>1. t.wanted \subseteq Selection[t.path] BY DEF Fits, Limited
  <2>2. up => t.path = j BY <1>1
  <2> QED BY <1>2, <2>1, <2>2
<1>6. InPlace(u, q, j) BY <1>1, <1>2 DEF InPlace
<1> QED BY <1>3, <1>4, <1>5, <1>6 DEF Fits, u

LEMMA StartedFits ==
  ASSUME NEW t, NEW j, Fits(t, "start", j)
  PROVE  Fits(Started(t), "check", j)
<1>1. CASE t = NoTorrent \/ t.run # "stopped"
  BY <1>1, FitsOn DEF Started, Adopting
<1>2. CASE t # NoTorrent /\ t.run = "stopped"
  <2>1. t \in AnyTorrent BY <1>2 DEF Fits
  <2> DEFINE u == Started(t)
  <2>2. /\ u.tags = t.tags /\ u.path = t.path /\ u.category = t.category
        /\ u.wanted = t.wanted /\ u \in AnyTorrent
    BY <1>2, <2>1 DEF Started, AnyTorrent, RunStates
  <2> HIDE DEF u
  <2>3. Placed(u) /\ Limited(u, "check") /\ InPlace(u, "check", j)
    BY <1>2, <2>2 DEF Fits, Placed, Limited, InPlace, Adopting
  <2> QED BY <2>2, <2>3 DEF Fits, u
<1> QED BY <1>1, <1>2

\* A change of the state, but not to "active".
LEMMA CalmedFits ==
  ASSUME NEW t, t # NoTorrent, NEW r \in RunStates, r # "active", NEW p, NEW j, Fits(t, p, j)
  PROVE  Fits([t EXCEPT !.run = r], p, j)
<1>1. t \in AnyTorrent BY DEF Fits
<1> DEFINE u == [t EXCEPT !.run = r]
<1>2. /\ u.tags = t.tags /\ u.path = t.path /\ u.category = t.category /\ u.run = r
      /\ u.wanted = t.wanted /\ u \in AnyTorrent
  BY <1>1 DEF AnyTorrent
<1> HIDE DEF u
<1>3. Placed(u) /\ Limited(u, p) /\ InPlace(u, p, j)
  BY <1>2 DEF Fits, Placed, Limited, InPlace
<1> QED BY <1>2, <1>3 DEF Fits, u

LEMMA StoppedFits ==
  ASSUME NEW t, NEW p, NEW j, Fits(t, p, j)
  PROVE  Fits(Stopped(t), p, j)
BY CalmedFits DEF Stopped, RunStates

-----------------------------------------------------------------------------
(* The commit *)

\* Where the pipeline is, its job is one.
LEMMA HasJob ==
  ASSUME SelectedInv, pipe.pc # "idle", QbitConstants
  PROVE  J \in Jobs /\ J # NoJob /\ Selection[J] \subseteq Files /\ NoJob \notin Jobs
BY DEF SelectedInv, Driven, J, QbitConstants

LEMMA ReadFailsKeeps == ASSUME SelectedInv, ReadFails PROVE SelectedInv'
BY Fails DEF ReadFails, Throw, EndAs

\* A step that only moves the pipeline on, to where the torrent fits as well.
LEMMA Walks ==
  ASSUME SelectedInv, pipe.pc # "idle", NEW pc \in PipeStates \ Stopping, UNCHANGED Server,
         Goto(pc) \/ Look(pc), Fits(torrent, pc, pipe.job)
  PROVE  SelectedInv'
<1>1. adds' \in Nat /\ data' = data /\ Fits(torrent', pc, pipe.job)
  BY DEF Server, SelectedInv
<1> QED BY <1>1, GoesOn DEF Goto, Look

LEMMA AdoptableFits ==
  ASSUME SelectedInv, QbitConstants, Exists, Adoptable(torrent, J), pipe.pc # "idle"
  PROVE  Fits(torrent, "tag", pipe.job)
<1>1. torrent \in AnyTorrent /\ Placed(torrent) /\ Limited(torrent, pipe.pc)
  BY DEF SelectedInv, Fits, Exists
<1>2. torrent.path \in {J, NoJob}
  <2> SUFFICES ASSUME torrent.path \in Jobs PROVE torrent.path = J BY <1>1 DEF AnyTorrent, Owners
  <2>1. torrent.path \in Marks(torrent) BY <1>1 DEF Placed, Marks, QbitConstants
  <2> QED BY <2>1 DEF Adoptable, Foreign
<1> QED BY <1>1, <1>2 DEF Fits, Limited, InPlace, J

LEMMA SelectLookup == ASSUME SelectedInv, QbitConstants, Lookup PROVE SelectedInv'
<1>1. pipe.pc = "lookup" BY DEF Lookup, At
<1>2. CASE ReadFails BY <1>2, ReadFailsKeeps
<1>3. CASE UNCHANGED Server /\ Look("add")
  BY <1>1, <1>3, FitsOn, Walks DEF SelectedInv, Adopting, PipeStates, Stopping
<1>4. CASE UNCHANGED Server /\ Exists /\ Adoptable(torrent, J) /\ Look("tag")
  BY <1>1, <1>4, AdoptableFits, Walks DEF PipeStates, Stopping
<1>5. CASE UNCHANGED Server /\ Look("evict")
  BY <1>1, <1>5, FitsOn, Walks DEF SelectedInv, Adopting, PipeStates, Stopping
<1>6. CASE UNCHANGED Server /\ Throw
  BY <1>6, Fails DEF Throw, EndAs
<1> QED BY <1>2, <1>3, <1>4, <1>5, <1>6 DEF Lookup

LEMMA SelectAdd == ASSUME SelectedInv, QbitConstants, AddFresh PROVE SelectedInv'
<1>1. pipe.pc = "add" /\ J \in Jobs BY HasJob DEF AddFresh, At
<1>2. adds' \in Nat /\ data' = data BY DEF AddFresh, SelectedInv
<1>3. Fits(FreshStopped(J), "metadata", pipe.job) BY <1>1, FreshFits DEF J
<1>4. CASE torrent' = FreshStopped(J) /\ Goto("metadata")
  BY <1>1, <1>2, <1>3, <1>4, GoesOn DEF Goto, PipeStates, Stopping
<1>5. CASE torrent' \in {FreshStopped(J), torrent} /\ Throw
  <2>1. Fits(torrent', "idle", NoJob) BY <1>3, <1>5, FitsIdle DEF SelectedInv
  <2> QED BY <1>2, <1>5, <2>1, Finishes DEF Throw, EndAs, SelectedInv
<1> QED BY <1>4, <1>5 DEF AddFresh

LEMMA SelectMetadata == ASSUME SelectedInv, Metadata PROVE SelectedInv'
<1>1. pipe.pc = "metadata" /\ UNCHANGED Server BY DEF Metadata, At
<1>2. CASE Goto("recheck") BY <1>1, <1>2, FitsOn, Walks DEF SelectedInv, Adopting, PipeStates, Stopping
<1>3. CASE Throw BY <1>1, <1>3, Fails DEF Throw, EndAs
<1> QED BY <1>2, <1>3 DEF Metadata

LEMMA SelectRecheck == ASSUME SelectedInv, QbitConstants, Recheck PROVE SelectedInv'
<1>1. pipe.pc = "recheck" BY DEF Recheck, At
<1>2. CASE ReadFails BY <1>2, ReadFailsKeeps
<1>3. CASE UNCHANGED Server /\ Exists /\ Adoptable(torrent, J) /\ Look("tag")
  BY <1>1, <1>3, AdoptableFits, Walks DEF PipeStates, Stopping
<1>4. CASE UNCHANGED Server /\ Throw BY <1>4, Fails DEF Throw, EndAs
<1> QED BY <1>2, <1>3, <1>4 DEF Recheck

\* "Ok" whether the priorities were applied or not.
LEMMA SelectPriorities ==
  ASSUME SelectedInv, QbitConstants, NEW q \in {"select", "verify"}, NEW up \in BOOLEAN,
         pipe.pc = (IF q = "select" THEN "deselect" ELSE "select"),
         NEW set \in SUBSET Files, up => set \subseteq Selection[J], SetPriorities(set, up, q)
  PROVE  SelectedInv'
<1>1. J \in Jobs /\ J # NoJob /\ NoJob \notin Jobs /\ pipe.pc # "idle" BY HasJob
<1>2. Fits(torrent, q, pipe.job) BY FitsOn DEF SelectedInv, Adopting
<1>3. Exists => Fits(Prioritised(torrent, set, up), q, pipe.job)
  <2>1. Fits(torrent, pipe.pc, pipe.job) /\ pipe.pc \in {"deselect", "select"} BY DEF SelectedInv
  <2> QED BY <1>1, <2>1, PrioritisedFits DEF J, Exists
<1>4. CASE Exists /\ \E applied \in BOOLEAN :
             CallTo(IF applied THEN Prioritised(torrent, set, up) ELSE torrent, q)
  <2>1. PICK t \in {Prioritised(torrent, set, up), torrent} : CallTo(t, q) BY <1>4
  <2>2. Fits(t, q, pipe.job) BY <1>2, <1>3, <1>4, <2>1
  <2>3. q \in PipeStates \ Stopping BY DEF PipeStates, Stopping
  <2> QED BY <1>1, <2>1, <2>2, <2>3, Calls
<1>5. CASE Throw /\ UNCHANGED Server BY <1>5, Fails DEF Throw, EndAs
<1> QED BY <1>4, <1>5 DEF SetPriorities

LEMMA SelectVerify == ASSUME SelectedInv, QbitConstants, Verify PROVE SelectedInv'
<1>1. pipe.pc = "verify" BY DEF Verify, At
<1>2. CASE ReadFails BY <1>2, ReadFailsKeeps
<1>3. CASE UNCHANGED Server /\ PrioritiesApplied /\ Goto("start")
  <2>1. Fits(torrent, "start", pipe.job)
    BY <1>1, <1>3, HasJob DEF SelectedInv, Fits, Limited, InPlace, PrioritiesApplied, J, Adopting
  <2> QED BY <1>1, <1>3, <2>1, Walks DEF PipeStates, Stopping
<1>4. CASE UNCHANGED Server /\ Throw BY <1>4, Fails DEF Throw, EndAs
<1> QED BY <1>2, <1>3, <1>4 DEF Verify

LEMMA SelectCheck == ASSUME SelectedInv, QbitConstants, Check PROVE SelectedInv'
<1>1. pipe.pc = "check" BY DEF Check, At
<1>2. CASE ReadFails BY <1>2, ReadFailsKeeps
<1>3. ASSUME NEW pc \in {"poll", "contain"}, UNCHANGED Server, Look(pc) \/ Goto(pc) PROVE SelectedInv'
  <2>1. Fits(torrent, pc, pipe.job) BY <1>1, FitsOn DEF SelectedInv, Adopting
  <2> QED BY <1>1, <1>3, <2>1, Walks DEF PipeStates, Stopping
<1>4. CASE UNCHANGED Server /\ Throw BY <1>4, Fails DEF Throw, EndAs
<1>5. ReadFails \/ (UNCHANGED Server /\ (Look("poll") \/ Goto("contain") \/ Throw)) BY DEF Check
<1> QED BY <1>2, <1>3, <1>4, <1>5

\* Every step of a commit.
LEMMA SelectCommit == ASSUME SelectedInv, QbitConstants, CommitStep PROVE SelectedInv'
<1> USE HasJob
<1>1. CASE Inspected \/ AddRefused
  <2>1. ASSUME NEW pc \in {"lookup", "recheck"}, pipe.pc # "idle", UNCHANGED Server, Goto(pc)
        PROVE  SelectedInv'
    <3>1. Fits(torrent, pc, pipe.job) BY FitsOn DEF SelectedInv, Adopting
    <3> QED BY <2>1, <3>1, Walks DEF PipeStates, Stopping
  <2> QED BY <1>1, <2>1 DEF Inspected, AddRefused, At
<1>2. CASE Uninspected \/ UnknownIntake
  BY <1>2, Fails DEF Uninspected, UnknownIntake, Throw, EndAs
<1>3. CASE Evict
  BY <1>3, FitsNone, Calls DEF Evict, At, PipeStates, Stopping
<1>4. CASE AddTags
  <2>1. pipe.pc = "tag" BY <1>4 DEF AddTags, At
  <2>2. Fits(Tagged(torrent, J), "categorise", pipe.job) BY <2>1, TaggedFits DEF SelectedInv, J
  <2> QED BY <1>4, <2>1, <2>2, Calls DEF AddTags, PipeStates, Stopping
<1>5. CASE SetCategory
  <2>1. pipe.pc = "categorise" BY <1>5 DEF SetCategory, At
  <2>2. Fits(Categorised(torrent, J), "untag", pipe.job) BY <2>1, CategorisedFits DEF SelectedInv, J
  <2> QED BY <1>5, <2>1, <2>2, Calls DEF SetCategory, PipeStates, Stopping
<1>6. CASE DropIntakeTag
  <2>1. pipe.pc = "untag" BY <1>6 DEF DropIntakeTag, At
  <2>2. Fits(torrent, "deselect", pipe.job) BY <2>1, FitsOn DEF SelectedInv, Adopting
  <2>3. Fits(Untagged(torrent), "deselect", pipe.job) BY <2>1, UntaggedFits DEF SelectedInv
  <2>4. Fits(torrent', "deselect", pipe.job) BY <1>6, <2>2, <2>3, QuietlyFits DEF DropIntakeTag
  <2>5. adds' \in Nat /\ data' = data BY <1>6 DEF DropIntakeTag, SelectedInv
  <2> QED BY <1>6, <2>1, <2>4, <2>5, GoesOn DEF DropIntakeTag, Goto, PipeStates, Stopping
<1>7. CASE Deselect
  <2>1. Files \ Selection[J] \in SUBSET Files OBVIOUS
  <2> QED BY <1>7, <2>1, SelectPriorities DEF Deselect, At
<1>8. CASE Select
  <2>1. pipe.pc = "select" /\ Selection[J] \in SUBSET Files BY <1>8 DEF Select, At
  <2> QED BY <1>8, <2>1, SelectPriorities DEF Select
<1>9. CASE Start
  <2>1. pipe.pc = "start" BY <1>9 DEF Start, At
  <2>2. Fits(Started(torrent), "check", pipe.job) BY <2>1, StartedFits DEF SelectedInv
  <2> QED BY <1>9, <2>1, <2>2, Calls DEF Start, PipeStates, Stopping
<1>10. CASE Contain
  <2>1. Fits(torrent', "idle", NoJob)
    BY <1>10, FitsIdle, StoppedFits, QuietlyFits DEF Contain, StopQuietly, SelectedInv
  <2>2. adds' \in Nat /\ data' = data /\ pipe' = IdlePipe
    BY <1>10 DEF Contain, SelectedInv, Throw, EndAs
  <2> QED BY <2>1, <2>2, Finishes DEF SelectedInv
<1> QED BY <1>1, <1>2, <1>3, <1>4, <1>5, <1>6, <1>7, <1>8, <1>9, <1>10, SelectLookup, SelectAdd,
           SelectMetadata, SelectRecheck, SelectVerify, SelectCheck DEF CommitStep

-----------------------------------------------------------------------------
(* The download, the deletions, the others *)

\* A poll looks, and decides where the pipeline goes on: it changes nothing else.
Watching == {"poll", "files", "paths", "save", "halt"}

LEMMA PollMoves ==
  ASSUME pipe \in AnyPipe, PollStep
  PROVE  /\ UNCHANGED << torrent, adds, data, jobs, discard, leaked, raced >>
         /\ pipe.pc \in Watching \ {"halt"}
         /\ \/ Throw
            \/ /\ job' = job /\ pipe' \in AnyPipe /\ pipe'.pc \in Watching
               /\ pipe'.job = pipe.job /\ pipe'.seen = pipe.seen
               /\ pipe'.pc = "halt" => pipe'.why # "none"
<1>1. UNCHANGED << torrent, adds, data, jobs, discard, leaked, raced >>
  BY DEF PollStep, Poll, PollGivesUp, PollCancelled, PollFiles, DownloadDone, PathsOutside, PollSave,
         Server, Registry, Local
<1>2. pipe.pc \in Watching \ {"halt"}
  BY DEF PollStep, Poll, PollGivesUp, PollCancelled, PollFiles, DownloadDone, PathsOutside, PollSave,
         At, Watching
<1>3. CASE Throw BY <1>1, <1>2, <1>3
<1>4. CASE job' = job /\ \E pc \in {"files", "poll"} : Goto(pc)
  BY <1>1, <1>2, <1>4 DEF Goto, AnyPipe, PipeStates, Watching
<1>5. CASE job' = job /\ \E w \in {"cancel", "critical"} : pipe' = [pipe EXCEPT !.pc = "halt", !.why = w]
  BY <1>1, <1>2, <1>5 DEF AnyPipe, PipeStates, Watching
<1>6. CASE job' = job /\ pipe.why = "done" /\ Goto("halt")
  BY <1>1, <1>2, <1>6 DEF Goto, AnyPipe, PipeStates, Watching
<1>7. CASE job' = job /\ \E pc \in {"paths", "poll"}, b \in BOOLEAN :
                           pipe' = [pipe EXCEPT !.pc = pc, !.elsewhere = b]
  BY <1>1, <1>2, <1>7 DEF AnyPipe, PipeStates, Watching
<1>8. CASE job' = job /\ \E w \in {"none", "done"} : pipe' = [pipe EXCEPT !.pc = "save", !.why = w]
  BY <1>1, <1>2, <1>8 DEF AnyPipe, PipeStates, Watching
<1>9. CASE Poll BY <1>4, <1>9 DEF Poll
<1>10. CASE PollGivesUp BY <1>3, <1>10 DEF PollGivesUp
<1>11. CASE PollCancelled BY <1>5, <1>11 DEF PollCancelled
<1>12. CASE PollFiles BY <1>7, <1>8, <1>12 DEF PollFiles
<1>13. CASE DownloadDone BY <1>8, <1>13 DEF DownloadDone
<1>14. CASE PathsOutside BY <1>3, <1>7, <1>14 DEF PathsOutside
<1>15. CASE PollSave
  <2>1. (pipe.why = "done" /\ Goto("halt")) \/ Goto("poll")
        \/ \E w \in {"cancel", "critical"} : pipe' = [pipe EXCEPT !.pc = "halt", !.why = w]
    BY <1>15 DEF PollSave
  <2> QED BY <1>4, <1>5, <1>6, <1>15, <2>1 DEF PollSave
<1> QED BY <1>9, <1>10, <1>11, <1>12, <1>13, <1>14, <1>15 DEF PollStep

LEMMA SelectPoll == ASSUME SelectedInv, QbitConstants, PollStep PROVE SelectedInv'
<1>1. pipe \in AnyPipe BY DEF SelectedInv, Driven
<1>2. UNCHANGED Server /\ pipe.pc \in Watching BY <1>1, PollMoves DEF Server
<1>3. CASE Throw BY <1>2, <1>3, Fails DEF Throw, EndAs
<1>4. CASE ~Throw
  <2>1. /\ pipe' \in AnyPipe /\ pipe'.pc \in Watching /\ pipe'.job = pipe.job
        /\ pipe'.pc = "halt" => pipe'.why # "none"
    BY <1>1, <1>4, PollMoves
  <2>2. Fits(torrent', pipe'.pc, pipe.job)
    BY <1>2, <2>1, FitsOn DEF SelectedInv, Server, Adopting, Watching
  <2>3. pipe.pc # "idle" /\ pipe'.pc \in PipeStates BY <1>2, <2>1 DEF Watching, PipeStates
  <2>4. adds' \in Nat /\ data' = data BY <1>2 DEF SelectedInv, Server
  <2>5. pipe'.pc \in Stopping => pipe'.why # "none" BY <2>1 DEF Stopping, Watching
  <2> QED BY <2>1, <2>2, <2>3, <2>4, <2>5, GoesOn
<1> QED BY <1>3, <1>4

\* Where a stop leads, the torrent being stopped or not.
LEMMA SelectAfterHalt ==
  ASSUME SelectedInv, pipe.pc \in {"halt", "halting"}, AfterHalt, UNCHANGED << adds, data >>,
         Fits(torrent', pipe.pc, pipe.job)
  PROVE  SelectedInv'
<1>1. pipe.why \in {"cancel", "critical", "done"} BY DEF SelectedInv, Driven, AnyPipe, Stopping
<1>2. CASE \E pc \in {"prove", "kept"} : Goto(pc)
  <2>1. PICK pc \in {"prove", "kept"} : Goto(pc) BY <1>2
  <2>2. Fits(torrent', pc, pipe.job) BY FitsOn DEF Adopting
  <2> QED BY <2>1, <2>2, GoesOn DEF Goto, PipeStates, Stopping, SelectedInv
<1>3. CASE Throw \/ Abandon
  <2>1. Fits(torrent', "idle", NoJob) BY FitsIdle
  <2> QED BY <1>3, <2>1, Finishes DEF Throw, EndAs, Abandon, SelectedInv
<1>4. (\E pc \in {"prove", "kept"} : Goto(pc)) \/ Throw \/ Abandon
  BY <1>1, Zenon DEF AfterHalt
<1> QED BY <1>2, <1>3, <1>4

LEMMA SelectHalt == ASSUME SelectedInv, Halt PROVE SelectedInv'
<1>1. pipe.pc = "halt" /\ UNCHANGED Server BY DEF Halt, At
<1>2. CASE AfterHalt
  BY <1>1, <1>2, SelectAfterHalt DEF SelectedInv, Server
<1>3. CASE Look("halting")
  <2>1. Fits(torrent', "halting", pipe.job) BY <1>1, FitsOn DEF SelectedInv, Adopting, Server
  <2>2. pipe'.why # "none" BY <1>1, <1>3 DEF SelectedInv, Driven, AnyPipe, Stopping, Look
  <2> QED BY <1>1, <1>3, <2>1, <2>2, GoesOn DEF Look, PipeStates, SelectedInv, Server
<1> QED BY <1>2, <1>3 DEF Halt

\* The end of a deletion, which may take the torrent and its data.
LEMMA SelectPurge ==
  ASSUME SelectedInv, NEW deleted, PurgeOver(deleted), torrent' \in {torrent, NoTorrent}, adds' = adds,
         data' \in [Owners -> SUBSET Files], \A o \in Owners : data'[o] \subseteq data[o]
  PROVE  SelectedInv'
<1>1. Fits(torrent', "idle", NoJob) BY FitsIdle, FitsNone DEF SelectedInv
<1>2. pipe' = IdlePipe BY DEF PurgeOver, EndAs
<1> QED BY <1>1, <1>2, Finishes DEF SelectedInv

LEMMA DeletionShrinks ==
  ASSUME SelectedInv, NEW files, data' \in {data, DeletedData(files)}
  PROVE  data' \in [Owners -> SUBSET Files] /\ \A o \in Owners : data'[o] \subseteq data[o]
BY DEF SelectedInv, DeletedData

LEMMA SelectErase == ASSUME SelectedInv, Erase PROVE SelectedInv'
<1>1. PICK deleted, files \in BOOLEAN :
        /\ torrent' \in {torrent, NoTorrent} /\ data' \in {data, DeletedData(files)}
        /\ adds' = adds /\ PurgeOver(deleted)
  BY DEF Erase
<1> QED BY <1>1, SelectPurge, DeletionShrinks

LEMMA SelectDrive == ASSUME SelectedInv, QbitConstants, DriveStep PROVE SelectedInv'
<1>3. CASE Halting
  <2>1. pipe.pc = "halting" BY <1>3 DEF Halting, At
  <2>2. Fits(torrent', "halting", pipe.job)
    BY <1>3, <2>1, StoppedFits, QuietlyFits DEF Halting, StopQuietly, SelectedInv
  <2> QED BY <1>3, <2>1, <2>2, SelectAfterHalt DEF Halting
<1>4. CASE Kept
  <2>1. pipe.pc = "kept" /\ UNCHANGED Server BY <1>4 DEF Kept, At
  <2>2. CASE pipe' = IdlePipe BY <2>1, <2>2, Fails
  <2>3. CASE Goto("prove")
    BY <2>1, <2>3, FitsOn, Walks DEF SelectedInv, Adopting, PipeStates, Stopping
  <2> QED BY <1>4, <2>2, <2>3 DEF Kept, EndAs, Abandon
<1>5. CASE Prove
  <2>1. pipe.pc \in {"prove", "guard"} /\ UNCHANGED Server BY <1>5 DEF Prove
  <2>2. CASE \E r \in {"guard", "erase"} : Look(r)
    BY <2>1, <2>2, FitsOn, Walks DEF SelectedInv, Adopting, PipeStates, Stopping
  <2>3. CASE pipe' = IdlePipe BY <2>1, <2>3, Fails
  <2> QED BY <1>5, <2>2, <2>3 DEF Prove, PurgeOver, EndAs
<1> QED BY <1>3, <1>4, <1>5, SelectPoll, SelectHalt, SelectErase DEF DriveStep

\* What qBittorrent does by itself: only a torrent that runs downloads, what it wants.
LEMMA SelectQbit == ASSUME SelectedInv, QbitConstants, QbitStep PROVE SelectedInv'
<1> DEFINE p == pipe.pc
<1>1. torrent \in AnyTorrent /\ Fits(torrent, p, J) /\ Exists /\ p \in PipeStates
  BY DEF QbitStep, SelectedInv, Fits, Exists, J, Driven, AnyPipe
<1>2. Driven' /\ adds' \in Nat /\ pipe' = pipe BY DEF QbitStep, SelectedInv, Driven
<1>3. CASE torrent' = [torrent EXCEPT !.meta = TRUE] /\ data' = data
  <2>1. /\ torrent'.tags = torrent.tags /\ torrent'.path = torrent.path
        /\ torrent'.category = torrent.category /\ torrent'.run = torrent.run
        /\ torrent'.wanted = torrent.wanted /\ torrent' \in AnyTorrent
    BY <1>1, <1>3 DEF AnyTorrent
  <2>2. Fits(torrent', p, J) BY <1>1, <2>1 DEF Fits, Exists, Placed, Limited, InPlace
  <2> QED BY <1>2, <1>3, <2>2, Keeps DEF SelectedInv, J
<1>4. CASE torrent' = [torrent EXCEPT !.run = "error"] /\ data' = data
  <2>1. Fits(torrent', p, J) BY <1>1, <1>4, CalmedFits DEF Exists, RunStates
  <2> QED BY <1>2, <1>4, <2>1, Keeps DEF SelectedInv, J
<1>5. CASE /\ torrent.run = "active" /\ torrent' = torrent
           /\ \E f \in torrent.wanted \ data[torrent.path] :
                data' = [data EXCEPT ![torrent.path] = @ \cup {f}]
  <2>1. PICK f \in torrent.wanted : data' = [data EXCEPT ![torrent.path] = @ \cup {f}] BY <1>5
  <2>2. torrent.path \in Owners /\ f \in Files BY <1>1, <2>1 DEF AnyTorrent
  <2>3. torrent.path \in Jobs => f \in Selection[torrent.path]
    BY <1>1, <1>5, <2>1 DEF Fits, Limited, Exists
  <2>4. data' \in [Owners -> SUBSET Files] /\ OnlySelected'
    BY <2>1, <2>2, <2>3 DEF SelectedInv, OnlySelected, Owners
  <2> QED BY <1>2, <1>5, <2>4 DEF SelectedInv
<1> QED BY <1>3, <1>4, <1>5 DEF QbitStep

LEMMA SelectUser ==
  ASSUME SelectedInv, QbitConstants, UserAdds \/ UserRemoves \/ UserTags
  PROVE  SelectedInv'
<1>1. Driven' /\ pipe' = pipe /\ data' = data
  BY DEF UserAdds, UserRemoves, UserTags, SelectedInv, Driven
<1>2. adds' \in Nat BY DEF UserAdds, UserRemoves, UserTags, SelectedInv
<1> DEFINE u == torrent'
<1>3. CASE UserAdds
  <2>1. /\ u = [ serial |-> adds + 1, tags |-> {}, category |-> NoJob, path |-> NoJob,
                 run |-> "active", meta |-> FALSE, wanted |-> Files ]
        /\ adds \in Nat /\ NoJob \notin Jobs
    BY <1>3 DEF UserAdds, QbitConstants, SelectedInv
  <2>2. u \in AnyTorrent /\ u.path = NoJob BY <2>1 DEF AnyTorrent, Owners, RunStates
  <2> HIDE DEF u
  <2>3. Fits(u, pipe.pc, pipe.job) BY <2>1, <2>2 DEF Fits, Placed, Limited, InPlace
  <2> QED BY <1>1, <1>2, <2>3, Keeps DEF SelectedInv, u
<1>4. CASE UserRemoves
  BY <1>1, <1>2, <1>4, FitsNone, Keeps DEF UserRemoves, SelectedInv
<1>5. CASE UserTags
  <2>1. torrent \in AnyTorrent /\ Fits(torrent, pipe.pc, pipe.job) /\ torrent # NoTorrent
    BY <1>5 DEF UserTags, Exists, SelectedInv, Fits
  <2>2. /\ u.tags = torrent.tags \cup {INTAKE_TAG} /\ u.path = torrent.path
        /\ u.category = torrent.category /\ u.run = torrent.run /\ u.wanted = torrent.wanted
        /\ u \in AnyTorrent
    BY <1>5, <2>1 DEF UserTags, AnyTorrent
  <2> HIDE DEF u
  <2>3. Fits(u, pipe.pc, pipe.job) BY <2>1, <2>2 DEF Fits, Placed, Limited, InPlace
  <2> QED BY <1>1, <1>2, <2>3, Keeps DEF SelectedInv, u
<1> QED BY <1>3, <1>4, <1>5

LEMMA SelectInit == ASSUME Init, QbitConstants PROVE SelectedInv
<1>1. Driven BY DEF Init, Driven, IdlePipe, AnyPipe, PipeStates, Owners, Stopping
<1>2. Fits(torrent, pipe.pc, pipe.job) BY FitsNone DEF Init
<1> QED BY <1>1, <1>2 DEF Init, SelectedInv, OnlySelected, Owners, QbitConstants

LEMMA SelectStep == ASSUME SelectedInv, QbitConstants, [Next]_vars PROVE SelectedInv'
<1>1. CASE CommitStep BY <1>1, SelectCommit
<1>2. CASE DriveStep BY <1>2, SelectDrive
<1>3. CASE UNCHANGED << Server, pipe >>
  BY <1>3 DEF SelectedInv, Server, Driven, OnlySelected
<1>4. CASE \E j \in Jobs : Begin(j)
  <2>1. PICK j \in Jobs : Begin(j) BY <1>4
  <2>2. UNCHANGED Server /\ pipe' = [IdlePipe EXCEPT !.pc = ResolveIntake, !.job = j] BY <2>1 DEF Begin
  <2>3. /\ pipe' = [ pc |-> ResolveIntake, job |-> j, seen |-> 0, why |-> "none", cancelled |-> FALSE,
                     elsewhere |-> FALSE ]
        /\ ResolveIntake \in {"lookup", "inspect"}
    BY <2>2 DEF IdlePipe, ResolveIntake
  <2>4. Driven' BY <2>3 DEF Driven, AnyPipe, PipeStates, Owners, Stopping
  <2>5. Fits(torrent', pipe'.pc, pipe'.job) BY <2>2, <2>3, FitsOn DEF SelectedInv, Server, Adopting
  <2> QED BY <2>2, <2>4, <2>5, Keeps DEF SelectedInv, Server
<1>5. CASE \E j \in Jobs : DiscardErase(j) \/ DiscardEnd(j)
  <2>1. PICK j \in Jobs : DiscardErase(j) \/ DiscardEnd(j) BY <1>5
  <2>2. Driven' /\ adds' \in Nat /\ pipe' = pipe /\ torrent' \in {torrent, NoTorrent}
    BY <2>1 DEF DiscardErase, DiscardEnd, SelectedInv, Driven
  <2>3. Fits(torrent', pipe'.pc, pipe'.job) BY <2>2, FitsNone DEF SelectedInv
  <2>4. data' \in [Owners -> SUBSET Files] /\ \A o \in Owners : data'[o] \subseteq data[o]
    <3>1. CASE DiscardErase(j)
      <4>1. data' \in {data, DeletedData(TRUE)} BY <3>1 DEF DiscardErase
      <4> QED BY <4>1 DEF SelectedInv, DeletedData
    <3>2. CASE DiscardEnd(j) BY <3>2 DEF DiscardEnd, SelectedInv
    <3> QED BY <2>1, <3>1, <3>2
  <2> QED BY <2>2, <2>3, <2>4, Keeps
<1>6. CASE Cancel
  <2>1. pipe' = [pipe EXCEPT !.cancelled = TRUE] /\ UNCHANGED Server BY <1>6 DEF Cancel
  <2>2. Driven' /\ pipe'.pc = pipe.pc /\ pipe'.job = pipe.job
    BY <2>1 DEF SelectedInv, Driven, AnyPipe
  <2> QED BY <2>1, <2>2 DEF SelectedInv, Server, OnlySelected
<1>7. CASE Restart BY <1>7, Fails DEF Restart
<1>8. CASE UserAdds \/ UserRemoves \/ UserTags BY <1>8, SelectUser
<1>9. CASE QbitStep BY <1>9, SelectQbit
<1>10. CASE SwapService BY <1>3, <1>10 DEF SwapService
<1>11. CASE \E j \in Jobs : FetchMetadata(j) \/ DiscardBegin(j) \/ DiscardProve(j)
  BY <1>3, <1>11 DEF FetchMetadata, DiscardBegin, DiscardProve
<1>12. CASE UNCHANGED vars BY <1>3, <1>12 DEF vars, Server
<1> QED BY <1>1, <1>2, <1>4, <1>5, <1>6, <1>7, <1>8, <1>9, <1>10, <1>11, <1>12 DEF Next, DiscardStep

\* However commits, downloads, deletions and a user interleave, and whatever call of
\* theirs fails, a job's directory holds nothing but the files that were selected.
THEOREM Selected == Spec => []OnlySelected
<1>1. Init => SelectedInv BY QbitConstants, SelectInit
<1>2. SelectedInv /\ [Next]_vars => SelectedInv' BY QbitConstants, SelectStep
<1>3. SelectedInv => OnlySelected BY DEF SelectedInv
<1> QED BY <1>1, <1>2, <1>3, PTL DEF Spec

-----------------------------------------------------------------------------
(* Nobody else's torrent: what goes on while a pipeline or a discard does *)

AnyDiscard == [ pc : {"idle", "prove", "guard", "erase", "rmdir"}, seen : Nat ]

Transferring == PipeStates \ {"idle", "prove", "guard", "erase"}

\* No discard of a job while its transfer goes on, so the registry keeps it.
LifeInv ==
  /\ job \in [Jobs -> JobStates] /\ discard \in [Jobs -> AnyDiscard] /\ Driven
  /\ pipe.pc \in Transferring => job[pipe.job] = "downloading"
  /\ \A j \in Jobs : discard[j].pc # "idle" => Terminal(j)
  /\ pipe.pc \in Watching => pipe.job \in jobs

\* A step of the pipeline within its job.
LEMMA LifeGoes ==
  ASSUME LifeInv, Driven', pipe'.job = pipe.job, pipe'.pc \in Transferring => pipe.pc \in Transferring,
         pipe'.pc \in Watching => pipe.job \in jobs', UNCHANGED << job, discard >>
  PROVE  LifeInv'
BY DEF LifeInv, Terminal

\* Its end: nothing reopens a job that has ended.
LEMMA LifeEnds ==
  ASSUME LifeInv, pipe' = IdlePipe, discard' = discard,
         \/ job' = job
         \/ \E s \in {"failed", "complete", "cancelled"} : job' = [job EXCEPT ![J] = s],
         QbitConstants
  PROVE  LifeInv'
<1>1. Driven' /\ pipe'.pc = "idle"
  BY DEF Driven, IdlePipe, AnyPipe, PipeStates, Owners, Stopping
<1>2. job' \in [Jobs -> JobStates] BY DEF LifeInv, JobStates
<1>3. \A j \in Jobs : Terminal(j) => Terminal(j)' BY DEF LifeInv, Terminal
<1>4. discard' \in [Jobs -> AnyDiscard] /\ \A j \in Jobs : discard[j].pc # "idle" => Terminal(j)
  BY DEF LifeInv
<1> QED BY <1>1, <1>2, <1>3, <1>4 DEF LifeInv, Transferring, Watching

\* Steps that move the pipeline on, or end it in failure.
LEMMA LifeWalks ==
  ASSUME LifeInv, Driven', NEW pc \in PipeStates, Goto(pc) \/ Look(pc),
         pc \in Transferring => pipe.pc \in Transferring,
         pc \in Watching => pipe.job \in jobs', UNCHANGED << job, discard >>
  PROVE  LifeInv'
<1>1. pipe'.pc = pc /\ pipe'.job = pipe.job BY DEF Goto, Look, LifeInv, Driven, AnyPipe
<1> QED BY <1>1, LifeGoes

LEMMA LifeThrows ==
  ASSUME LifeInv, QbitConstants, Throw, UNCHANGED discard PROVE LifeInv'
<1>1. pipe' = IdlePipe /\ \E s \in {"failed", "complete", "cancelled"} : job' = [job EXCEPT ![J] = s]
  BY DEF Throw, EndAs
<1> QED BY <1>1, LifeEnds

\* Every step of a commit goes on within the transfer, or throws.
LEMMA LifeCommit ==
  ASSUME LifeInv, Driven', QbitConstants, CommitStep
  PROVE  LifeInv'
<1>1. discard' = discard /\ pipe.pc \in Transferring
  BY DEF CommitStep, Inspected, Uninspected, UnknownIntake, Lookup, Evict, AddRefused, AddFresh,
         Metadata, Recheck, AddTags, SetCategory, DropIntakeTag, Deselect, Select, Verify, Start,
         Check, Contain, CallTo, SetPriorities, ReadFails, Local, At, Transferring, PipeStates
<1>2. ASSUME Throw PROVE LifeInv' BY <1>1, <1>2, LifeThrows
<1>3. ASSUME NEW pc \in PipeStates \ Watching, Goto(pc) \/ Look(pc), job' = job PROVE LifeInv'
  BY <1>1, <1>3, LifeWalks
<1>4. ASSUME NEW t, NEW pc \in PipeStates \ Watching, CallTo(t, pc) PROVE LifeInv'
  BY <1>2, <1>3, <1>4 DEF CallTo
<1>5. CASE Throw BY <1>2, <1>5
<1>6. CASE Evict \/ AddTags \/ SetCategory \/ Start
  <2>1. PICK t \in {NoTorrent, Tagged(torrent, J), Categorised(torrent, J), Started(torrent)},
             pc \in {"add", "categorise", "untag", "check"} : CallTo(t, pc)
    BY <1>6 DEF Evict, AddTags, SetCategory, Start
  <2> QED BY <1>4, <2>1 DEF PipeStates, Watching
<1>7. CASE Deselect \/ Select
  <2>1. PICK set \in {Files \ Selection[J], Selection[J]}, up \in BOOLEAN, pc \in {"select", "verify"} :
          SetPriorities(set, up, pc)
    BY <1>7 DEF Deselect, Select
  <2>2. CASE Throw BY <1>2, <2>2
  <2>3. CASE \E t : CallTo(t, pc) BY <1>4, <2>3 DEF PipeStates, Watching
  <2> QED BY <2>1, <2>2, <2>3 DEF SetPriorities
<1>8. CASE Check
  <2>1. CASE Look("poll") /\ jobs' = jobs \cup {J} /\ job' = job
    BY <1>1, <2>1, LifeWalks DEF J, PipeStates, Watching
  <2>2. CASE Goto("contain") /\ job' = job BY <1>3, <2>2 DEF PipeStates, Watching
  <2> QED BY <1>2, <1>8, <2>1, <2>2 DEF Check, ReadFails
<1>9. CASE \E pc \in {"lookup", "add", "tag", "evict", "recheck", "metadata", "deselect", "start"} :
              (Goto(pc) \/ Look(pc)) /\ job' = job
  BY <1>3, <1>9 DEF PipeStates, Watching
<1>10. CASE Lookup \/ Recheck \/ Metadata \/ Verify \/ AddFresh
  BY <1>5, <1>9, <1>10 DEF Lookup, Recheck, Metadata, Verify, AddFresh, ReadFails
<1>11. CASE Inspected \/ AddRefused \/ DropIntakeTag
  BY <1>9, <1>11 DEF Inspected, AddRefused, DropIntakeTag
<1>12. CASE Uninspected \/ UnknownIntake \/ Contain
  BY <1>5, <1>12 DEF Uninspected, UnknownIntake, Contain
<1> QED BY <1>6, <1>7, <1>8, <1>10, <1>11, <1>12 DEF CommitStep

LEMMA LifeAfterHalt ==
  ASSUME LifeInv, Driven', QbitConstants, pipe.pc \in Stopping, AfterHalt, UNCHANGED discard
  PROVE  LifeInv'
<1>1. pipe.why \in {"cancel", "critical", "done"} BY DEF LifeInv, Driven, AnyPipe, Stopping
<1>2. CASE \E pc \in {"prove", "kept"} : Goto(pc) /\ job' = job
  BY <1>2, LifeWalks DEF Stopping, Transferring, PipeStates, Watching
<1>3. CASE Throw BY <1>3, LifeThrows
<1>4. CASE Abandon BY <1>4, LifeEnds DEF Abandon
<1>5. (\E pc \in {"prove", "kept"} : Goto(pc) /\ job' = job) \/ Throw \/ Abandon
  BY <1>1, Zenon DEF AfterHalt
<1> QED BY <1>2, <1>3, <1>4, <1>5

LEMMA LifePurge ==
  ASSUME LifeInv, QbitConstants, NEW deleted, PurgeOver(deleted), UNCHANGED discard
  PROVE  LifeInv'
<1>1. pipe' = IdlePipe BY DEF PurgeOver, EndAs
<1>2. CASE pipe.why = "cancel"
  <2>1. job' = [job EXCEPT ![J] = "cancelled"] BY <1>2 DEF PurgeOver, EndAs
  <2> QED BY <1>1, <2>1, LifeEnds
<1>3. CASE pipe.why # "cancel"
  <2>1. job' = [job EXCEPT ![J] = job[J]] BY <1>3 DEF PurgeOver, EndAs
  <2>2. job' = job BY <2>1 DEF LifeInv
  <2> QED BY <1>1, <2>2, LifeEnds
<1> QED BY <1>2, <1>3

LEMMA LifeDrive ==
  ASSUME LifeInv, Driven', QbitConstants, DriveStep
  PROVE  LifeInv'
<1>1. discard' = discard /\ pipe \in AnyPipe
  <2>1. pipe \in AnyPipe BY DEF LifeInv, Driven
  <2> QED BY <2>1, PollMoves DEF DriveStep, Halt, Halting, Kept, Prove, Erase, Local
<1>2. CASE PollStep
  <2>1. CASE Throw BY <1>1, <2>1, LifeThrows
  <2>2. CASE ~Throw
    <3>1. /\ pipe.pc \in Watching /\ pipe'.job = pipe.job
          /\ UNCHANGED << job, jobs, discard >>
      BY <1>1, <1>2, <2>2, PollMoves
    <3>2. pipe.pc \in Transferring BY <3>1 DEF Watching, Transferring, PipeStates
    <3>3. pipe.job \in jobs' BY <3>1 DEF LifeInv
    <3> QED BY <3>1, <3>2, <3>3, LifeGoes
  <2> QED BY <2>1, <2>2
<1>4. CASE Halt \/ Halting
  <2>1. pipe.pc \in Stopping BY <1>4 DEF Halt, Halting, At, Stopping
  <2>2. CASE AfterHalt BY <1>1, <2>1, <2>2, LifeAfterHalt
  <2>3. CASE Look("halting") /\ job' = job
    BY <1>1, <2>1, <2>3, LifeWalks DEF Stopping, Transferring, PipeStates, Watching
  <2> QED BY <1>4, <2>2, <2>3 DEF Halt, Halting
<1>5. CASE Kept
  <2>1. CASE \E s \in {"failed", "complete", "cancelled"} : EndAs(s) BY <1>1, <2>1, LifeEnds DEF EndAs
  <2>2. CASE Goto("prove") /\ job' = [job EXCEPT ![J] = "complete"]
    <3>1. pipe'.pc = "prove" BY <1>1, <2>2 DEF Goto, AnyPipe
    <3>2. job' \in [Jobs -> JobStates] /\ \A j \in Jobs : Terminal(j) => Terminal(j)'
      BY <2>2 DEF LifeInv, JobStates, Terminal
    <3> QED BY <1>1, <3>1, <3>2 DEF LifeInv, Transferring, Watching
  <2>3. CASE Abandon BY <1>1, <2>3, LifeEnds DEF Abandon
  <2> QED BY <1>5, <2>1, <2>2, <2>3 DEF Kept
<1>6. CASE Prove
  <2>1. CASE \E r \in {"guard", "erase"} : Look(r) /\ job' = job
    BY <1>1, <2>1, LifeWalks DEF Transferring, PipeStates, Watching
  <2>2. CASE \E deleted : PurgeOver(deleted) BY <1>1, <2>2, LifePurge
  <2> QED BY <1>6, <2>1, <2>2 DEF Prove
<1>7. CASE Erase BY <1>1, <1>7, LifePurge DEF Erase
<1> QED BY <1>2, <1>4, <1>5, <1>6, <1>7 DEF DriveStep

\* A discard is of a job that has ended, so never of the one that transfers.
LEMMA LifeDiscard ==
  ASSUME LifeInv, Driven', QbitConstants, NEW j \in Jobs, DiscardStep(j), torrent.serial \in Nat
  PROVE  LifeInv'
<1>1. job' = job /\ pipe' = pipe
  BY DEF DiscardStep, DiscardBegin, DiscardProve, DiscardErase, DiscardEnd
<1>2. Terminal(j)
  BY DEF DiscardStep, DiscardBegin, DiscardProve, DiscardErase, DiscardEnd, LifeInv
<1>3. /\ discard' \in [Jobs -> AnyDiscard]
      /\ \A k \in Jobs \ {j} : discard'[k] = discard[k]
  <2>1. PICK d \in AnyDiscard : discard' = [discard EXCEPT ![j] = d]
    <3>1. discard[j] \in AnyDiscard BY DEF LifeInv
    <3>2. ASSUME NEW pc \in {"prove", "rmdir"}, discard' = [discard EXCEPT ![j].pc = pc]
          PROVE  \E d \in AnyDiscard : discard' = [discard EXCEPT ![j] = d]
      <4>1. discard' = [discard EXCEPT ![j] = [discard[j] EXCEPT !.pc = pc]] BY <3>2
      <4>2. [discard[j] EXCEPT !.pc = pc] \in AnyDiscard BY <3>1 DEF AnyDiscard
      <4> QED BY <4>1, <4>2
    <3>3. CASE DiscardBegin(j) \/ DiscardErase(j)
      BY <3>2, <3>3 DEF DiscardBegin, DiscardErase
    <3>4. CASE DiscardProve(j)
      <4>1. PICK pc \in {"guard", "erase", "rmdir"} :
              discard' = [discard EXCEPT ![j] = [pc |-> pc, seen |-> torrent.serial]]
        BY <3>4 DEF DiscardProve
      <4>2. [pc |-> pc, seen |-> torrent.serial] \in AnyDiscard BY DEF AnyDiscard
      <4> QED BY <4>1, <4>2
    <3>5. CASE DiscardEnd(j) BY <3>5 DEF DiscardEnd, IdleDiscard, AnyDiscard
    <3> QED BY <3>3, <3>4, <3>5 DEF DiscardStep
  <2> QED BY <2>1 DEF LifeInv
<1>4. jobs \ {j} \subseteq jobs'
  BY DEF DiscardStep, DiscardBegin, DiscardProve, DiscardErase, DiscardEnd, Registry
<1>5. pipe.pc \in Transferring => pipe.job # j BY <1>2 DEF LifeInv, Terminal
<1> QED BY <1>1, <1>2, <1>3, <1>4, <1>5 DEF LifeInv, Terminal, Transferring, PipeStates, Watching

LEMMA LifeStep ==
  ASSUME LifeInv, Driven', QbitConstants, [Next]_vars, torrent.serial \in Nat
  PROVE  LifeInv'
<1>1. CASE CommitStep BY <1>1, LifeCommit
<1>2. CASE DriveStep BY <1>2, LifeDrive
<1>3. CASE \E j \in Jobs : DiscardStep(j) BY <1>3, LifeDiscard
<1>4. CASE UNCHANGED << job, discard, jobs, pipe >>
  BY <1>4 DEF LifeInv, Terminal
<1>5. CASE \E j \in Jobs : FetchMetadata(j) \/ Begin(j)
  <2>1. PICK j \in Jobs : FetchMetadata(j) \/ Begin(j) BY <1>5
  <2>2. PICK s \in {"draft", "downloading"} : job' = [job EXCEPT ![j] = s]
    BY <2>1 DEF FetchMetadata, Begin
  <2>3. ~Terminal(j) /\ job[j] # "downloading" /\ discard' = discard /\ jobs' = jobs
    BY <2>1 DEF FetchMetadata, Begin, Terminal, Local, Registry
  <2>4. /\ job' \in [Jobs -> JobStates] /\ discard' \in [Jobs -> AnyDiscard]
        /\ \A k \in Jobs : Terminal(k) => Terminal(k)'
    BY <2>2, <2>3 DEF LifeInv, JobStates, Terminal
  <2>5. CASE FetchMetadata(j)
    BY <2>2, <2>3, <2>4, <2>5 DEF LifeInv, FetchMetadata, Driven, Transferring, Watching
  <2>6. CASE Begin(j)
    <3>1. pipe' = [IdlePipe EXCEPT !.pc = ResolveIntake, !.job = j] /\ job' = [job EXCEPT ![j] = "downloading"]
      BY <2>6 DEF Begin
    <3>2. pipe'.pc \in {"lookup", "inspect"} /\ pipe'.job = j BY <3>1 DEF IdlePipe, ResolveIntake
    <3> QED BY <2>3, <2>4, <3>1, <3>2 DEF LifeInv, Watching
  <2> QED BY <2>1, <2>5, <2>6
<1>6. CASE Cancel
  BY <1>6, LifeGoes DEF Cancel, LifeInv, Driven, AnyPipe, Local, Registry
<1>7. CASE SwapService
  BY <1>7 DEF SwapService, LifeInv, At, Local, Terminal, Transferring, Watching
<1>8. CASE Restart
  <2>1. /\ job' = [j \in Jobs |-> IF job[j] = "downloading" THEN "failed" ELSE job[j]]
        /\ pipe' = IdlePipe /\ discard' = [j \in Jobs |-> IdleDiscard]
    BY <1>8 DEF Restart
  <2>2. job' \in [Jobs -> JobStates] BY <2>1 DEF LifeInv, JobStates
  <2>3. discard' \in [Jobs -> AnyDiscard] /\ \A j \in Jobs : discard'[j].pc = "idle"
    BY <2>1 DEF AnyDiscard, IdleDiscard
  <2> QED BY <2>1, <2>2, <2>3 DEF LifeInv, IdlePipe, Transferring, Watching
<1>9. CASE UserAdds \/ UserRemoves \/ UserTags \/ QbitStep
  BY <1>4, <1>9 DEF UserAdds, UserRemoves, UserTags, QbitStep, Local, Registry
<1>10. CASE UNCHANGED vars BY <1>4, <1>10 DEF vars
<1> QED BY <1>1, <1>2, <1>3, <1>5, <1>6, <1>7, <1>8, <1>9, <1>10 DEF Next

-----------------------------------------------------------------------------
(* Nobody else's torrent: what a guard saw keeps its mark *)

HasMark(t) == \E k \in Jobs : k \in Marks(t)

Vouching ==
  {"categorise", "untag", "deselect", "select", "verify", "start", "check", "contain", "halting", "erase"}

\* The torrent that the last guard let pass has a mark, from the tagging on a job's.
Vouched(t, pc, seen) ==
  t # NoTorrent /\ t.serial = seen =>
    (pc \in {"evict", "tag"} => Marks(t) # {}) /\ (pc \in Vouching => HasMark(t))

\* No serial number is given twice.
Numbered ==
  /\ adds \in Nat /\ torrent.serial <= adds /\ pipe.seen <= adds
  /\ \A j \in Jobs : discard[j].seen <= adds

MarkInv ==
  /\ Numbered
  /\ Vouched(torrent, pipe.pc, pipe.seen)
  /\ \A j \in Jobs : discard[j].pc = "erase" => Vouched(torrent, "erase", discard[j].seen)

OwnInv == SelectedInv /\ LifeInv /\ MarkInv

\* What can take a torrent's place: none, a new one, or itself with a job's mark kept.
Heir(u) ==
  \/ u = NoTorrent
  \/ u.serial = adds + 1 /\ adds' = adds + 1
  \/ torrent # NoTorrent /\ u.serial = torrent.serial /\ (HasMark(torrent) => HasMark(u))

LEMMA Types ==
  ASSUME OwnInv
  PROVE  /\ torrent = NoTorrent \/ torrent \in AnyTorrent
         /\ torrent.serial \in Nat /\ adds \in Nat /\ pipe \in AnyPipe /\ pipe.seen \in Nat
         /\ discard \in [Jobs -> AnyDiscard] /\ \A j \in Jobs : discard[j].seen \in Nat
<1>1. torrent = NoTorrent \/ torrent \in AnyTorrent BY DEF OwnInv, SelectedInv, Fits
<1>2. torrent.serial \in Nat BY <1>1 DEF AnyTorrent, NoTorrent
<1>3. adds \in Nat /\ pipe \in AnyPipe /\ discard \in [Jobs -> AnyDiscard]
  BY DEF OwnInv, SelectedInv, Driven, LifeInv
<1>4. pipe.seen \in Nat /\ \A j \in Jobs : discard[j].seen \in Nat
  BY <1>3 DEF AnyPipe, AnyDiscard
<1> QED BY <1>1, <1>2, <1>3, <1>4

\* A new torrent is none that a guard saw.
LEMMA Inherits ==
  ASSUME OwnInv, Heir(torrent'), adds' \in {adds, adds + 1}
  PROVE  /\ adds' \in Nat /\ torrent'.serial <= adds' /\ pipe.seen <= adds' /\ torrent.serial <= adds'
         /\ \A j \in Jobs : discard[j].seen <= adds'
         /\ \A j \in Jobs : discard[j].pc = "erase" => Vouched(torrent', "erase", discard[j].seen)
<1>1. /\ adds \in Nat /\ torrent.serial <= adds /\ torrent.serial \in Nat
      /\ \A j \in Jobs : discard[j].seen <= adds /\ discard[j].seen \in Nat
      /\ pipe.seen <= adds /\ pipe.seen \in Nat
  BY Types DEF OwnInv, MarkInv, Numbered
<1>2. NoTorrent.serial = 0 BY DEF NoTorrent
<1>3. torrent'.serial <= adds' BY <1>1, <1>2 DEF Heir
<1>4. ASSUME NEW j \in Jobs, discard[j].pc = "erase" PROVE Vouched(torrent', "erase", discard[j].seen)
  <2>1. Vouched(torrent, "erase", discard[j].seen) BY <1>4 DEF OwnInv, MarkInv
  <2>2. adds + 1 # discard[j].seen BY <1>1
  <2> QED BY <2>1, <2>2 DEF Vouched, Heir, Vouching
<1> QED BY <1>1, <1>3, <1>4

\* A step of the pipeline.
LEMMA MarkMoves ==
  ASSUME OwnInv, Heir(torrent'), adds' \in {adds, adds + 1}, discard' = discard,
         pipe'.seen \in {pipe.seen, torrent.serial, 0}, Vouched(torrent', pipe'.pc, pipe'.seen)
  PROVE  MarkInv'
<1>1. pipe'.seen <= adds' BY Inherits, Types
<1> QED BY <1>1, Inherits DEF MarkInv, Numbered

\* A call of the commit, whatever became of it.
LEMMA MarkCalls ==
  ASSUME OwnInv, NEW t, Heir(t), NEW pc, pc \notin {"evict", "tag"},
         t # NoTorrent /\ t.serial = pipe.seen => HasMark(t), CallTo(t, pc)
  PROVE  MarkInv'
<1>1. Heir(torrent) BY DEF Heir
<1>2. torrent' \in {torrent, t} /\ adds' = adds /\ discard' = discard
  BY DEF CallTo, Local
<1>3. Heir(torrent') BY <1>1, <1>2
<1>4. CASE torrent' = t /\ Goto(pc)
  <2>1. pipe'.pc = pc /\ pipe'.seen = pipe.seen BY <1>4, Types DEF Goto, AnyPipe
  <2>2. Vouched(torrent', pipe'.pc, pipe'.seen) BY <1>4, <2>1 DEF Vouched
  <2> QED BY <1>2, <1>3, <2>1, <2>2, MarkMoves
<1>5. CASE Throw
  <2>1. pipe'.pc = "idle" /\ pipe'.seen = 0 BY <1>5 DEF Throw, EndAs, IdlePipe
  <2>2. Vouched(torrent', pipe'.pc, pipe'.seen) BY <2>1 DEF Vouched, Vouching
  <2> QED BY <1>2, <1>3, <2>1, <2>2, MarkMoves
<1> QED BY <1>4, <1>5 DEF CallTo, Outcomes

\* A step that only leads the pipeline elsewhere, or ends it.
LEMMA MarkWalks ==
  ASSUME OwnInv, torrent' = torrent, adds' = adds, discard' = discard, NEW pc,
         \/ pipe' = [pipe EXCEPT !.pc = pc]
         \/ pipe' = [pipe EXCEPT !.pc = pc, !.seen = torrent.serial]
         \/ \E w : \/ pipe' = [pipe EXCEPT !.pc = pc, !.why = w]
                   \/ pipe' = [pipe EXCEPT !.pc = pc, !.why = w, !.seen = torrent.serial],
         pc \in {"evict", "tag"} => Marks(torrent) # {},
         pc \in Vouching => HasMark(torrent) \/ (Goto(pc) /\ pipe.pc \in Vouching)
  PROVE  MarkInv'
<1>1. pipe'.pc = pc /\ pipe'.seen \in {pipe.seen, torrent.serial} BY Types DEF AnyPipe
<1>2. Heir(torrent') BY DEF Heir
<1>3. Vouched(torrent', pipe'.pc, pipe'.seen)
  <2>1. CASE HasMark(torrent) \/ pc \notin Vouching BY <1>1, <2>1 DEF Vouched
  <2>2. CASE Goto(pc) /\ pipe.pc \in Vouching
    <3>1. pipe'.seen = pipe.seen BY <2>2, Types DEF Goto, AnyPipe
    <3> QED BY <1>1, <2>2, <3>1 DEF Vouched, OwnInv, MarkInv
  <2> QED BY <2>1, <2>2
<1> QED BY <1>1, <1>2, <1>3, MarkMoves

LEMMA MarkGoes ==
  ASSUME OwnInv, pipe.pc \in Vouching, UNCHANGED << torrent, adds, discard >>,
         NEW pc, pc \notin {"evict", "tag"}, Goto(pc)
  PROVE  MarkInv'
<1>1. pipe' = [pipe EXCEPT !.pc = pc] BY DEF Goto
<1> QED BY <1>1, MarkWalks

LEMMA MarkEnds ==
  ASSUME OwnInv, Heir(torrent'), adds' \in {adds, adds + 1}, discard' = discard, pipe' = IdlePipe
  PROVE  MarkInv'
<1>1. pipe'.pc = "idle" /\ pipe'.seen = 0 BY DEF IdlePipe
<1>2. Vouched(torrent', pipe'.pc, pipe'.seen) BY <1>1 DEF Vouched, Vouching
<1> QED BY <1>1, <1>2, MarkMoves

-----------------------------------------------------------------------------
(* What the calls leave of the marks *)

LEMMA TaggedMarks ==
  ASSUME OwnInv, NEW j \in Jobs
  PROVE  Heir(Tagged(torrent, j)) /\ (Tagged(torrent, j) # NoTorrent => HasMark(Tagged(torrent, j)))
<1>1. CASE torrent = NoTorrent BY <1>1 DEF Heir, Tagged
<1>2. CASE torrent # NoTorrent
  <2>1. torrent \in AnyTorrent BY <1>2, Types
  <2> DEFINE u == Tagged(torrent, j)
  <2>2. u.tags = torrent.tags \cup {j} /\ u.serial = torrent.serial
    BY <1>2, <2>1 DEF Tagged, AnyTorrent
  <2> HIDE DEF u
  <2>3. HasMark(u) BY <2>2 DEF HasMark, Marks
  <2> QED BY <1>2, <2>2, <2>3 DEF Heir, u
<1> QED BY <1>1, <1>2

LEMMA CategorisedMarks ==
  ASSUME OwnInv, QbitConstants, NEW j \in Jobs
  PROVE  /\ Heir(Categorised(torrent, j))
         /\ Categorised(torrent, j) # NoTorrent => HasMark(Categorised(torrent, j))
<1>1. CASE torrent = NoTorrent BY <1>1 DEF Heir, Categorised
<1>2. CASE torrent # NoTorrent
  <2>1. torrent \in AnyTorrent BY <1>2, Types
  <2> DEFINE u == Categorised(torrent, j)
  <2>2. u.category = j /\ u.serial = torrent.serial
    BY <1>2, <2>1 DEF Categorised, AnyTorrent
  <2> HIDE DEF u
  <2>3. HasMark(u) BY <2>2 DEF HasMark, Marks, QbitConstants
  <2> QED BY <1>2, <2>2, <2>3 DEF Heir, u
<1> QED BY <1>1, <1>2

\* The intake's tag is no job's.
LEMMA UntaggedMarks ==
  ASSUME OwnInv, QbitConstants
  PROVE  /\ Heir(Untagged(torrent))
         /\ HasMark(torrent) => Untagged(torrent) = NoTorrent \/ HasMark(Untagged(torrent))
<1>1. CASE torrent = NoTorrent BY <1>1 DEF Heir, Untagged
<1>2. CASE torrent # NoTorrent
  <2>1. torrent \in AnyTorrent BY <1>2, Types
  <2> DEFINE u == Untagged(torrent)
  <2>2. u.tags = torrent.tags \ {INTAKE_TAG} /\ u.serial = torrent.serial /\ u.category = torrent.category
    BY <1>2, <2>1 DEF Untagged, AnyTorrent
  <2> HIDE DEF u
  <2>3. HasMark(torrent) => HasMark(u) BY <2>2 DEF HasMark, Marks, QbitConstants
  <2> QED BY <1>2, <2>2, <2>3 DEF Heir, u
<1> QED BY <1>1, <1>2

\* The other calls leave the marks as they are.
SameMarks(u) ==
  u = torrent \/ (torrent # NoTorrent /\ u.serial = torrent.serial /\ Marks(u) = Marks(torrent))

LEMMA OtherCalls ==
  ASSUME OwnInv
  PROVE  /\ SameMarks(Started(torrent)) /\ SameMarks(Stopped(torrent))
         /\ torrent # NoTorrent =>
              /\ \A set, up : SameMarks(Prioritised(torrent, set, up))
              /\ \A r : SameMarks([torrent EXCEPT !.run = r])
              /\ SameMarks([torrent EXCEPT !.meta = TRUE])
<1>1. CASE torrent = NoTorrent BY <1>1 DEF Started, Stopped, SameMarks
<1>2. CASE torrent # NoTorrent
  <2>1. torrent \in AnyTorrent BY <1>2, Types
  <2>2. ASSUME NEW r PROVE SameMarks([torrent EXCEPT !.run = r])
    <3> DEFINE u == [torrent EXCEPT !.run = r]
    <3>1. u.serial = torrent.serial /\ u.tags = torrent.tags /\ u.category = torrent.category
      BY <2>1 DEF AnyTorrent
    <3> HIDE DEF u
    <3>2. SameMarks(u) BY <1>2, <3>1 DEF SameMarks, Marks
    <3> QED BY <3>2 DEF u
  <2>3. ASSUME NEW set, NEW up PROVE SameMarks(Prioritised(torrent, set, up))
    <3> DEFINE u == Prioritised(torrent, set, up)
    <3>1. u.serial = torrent.serial /\ u.tags = torrent.tags /\ u.category = torrent.category
      BY <2>1 DEF AnyTorrent, Prioritised
    <3> HIDE DEF u
    <3>2. SameMarks(u) BY <1>2, <3>1 DEF SameMarks, Marks
    <3> QED BY <3>2 DEF u
  <2>4. SameMarks([torrent EXCEPT !.meta = TRUE])
    <3> DEFINE u == [torrent EXCEPT !.meta = TRUE]
    <3>1. u.serial = torrent.serial /\ u.tags = torrent.tags /\ u.category = torrent.category
      BY <2>1 DEF AnyTorrent
    <3> HIDE DEF u
    <3>2. SameMarks(u) BY <1>2, <3>1 DEF SameMarks, Marks
    <3> QED BY <3>2 DEF u
  <2>5. SameMarks(Started(torrent)) /\ SameMarks(Stopped(torrent))
    BY <2>2 DEF Started, Stopped, SameMarks
  <2> QED BY <2>2, <2>3, <2>4, <2>5
<1> QED BY <1>1, <1>2

LEMMA SameMarksHeir ==
  ASSUME OwnInv, NEW u, SameMarks(u)
  PROVE  /\ Heir(u) /\ (HasMark(torrent) => HasMark(u))
         /\ \A pc, seen : Vouched(torrent, pc, seen) => Vouched(u, pc, seen)
BY DEF SameMarks, Heir, HasMark, Vouched

-----------------------------------------------------------------------------
(* Every step keeps what the guards saw *)

LEMMA SeenMarked ==
  ASSUME OwnInv, pipe.pc \in Vouching, torrent # NoTorrent, torrent.serial = pipe.seen
  PROVE  HasMark(torrent)
BY DEF OwnInv, MarkInv, Vouched

LEMMA MarkThrows ==
  ASSUME OwnInv, Throw, UNCHANGED << torrent, adds, discard >> PROVE MarkInv'
<1>1. Heir(torrent') BY DEF Heir
<1> QED BY <1>1, MarkEnds DEF Throw, EndAs

LEMMA MarkPriorities ==
  ASSUME OwnInv, pipe.pc \in Vouching, NEW pc \in {"select", "verify"}, NEW set, NEW up,
         SetPriorities(set, up, pc)
  PROVE  MarkInv'
<1>1. CASE Exists /\ \E applied \in BOOLEAN :
             CallTo(IF applied THEN Prioritised(torrent, set, up) ELSE torrent, pc)
  <2>1. PICK t \in {Prioritised(torrent, set, up), torrent} : CallTo(t, pc) BY <1>1
  <2>2. SameMarks(t) BY <1>1, <2>1, OtherCalls DEF SameMarks, Exists
  <2>3. Heir(t) /\ (HasMark(torrent) => HasMark(t)) BY <2>2, SameMarksHeir
  <2>4. t # NoTorrent /\ t.serial = pipe.seen => HasMark(t)
    BY <2>2, <2>3, SeenMarked DEF SameMarks
  <2> QED BY <2>1, <2>3, <2>4, MarkCalls
<1>2. CASE Throw /\ UNCHANGED << Server, Local >>
  BY <1>2, MarkThrows DEF Server, Local
<1> QED BY <1>1, <1>2 DEF SetPriorities

LEMMA MarkCommit ==
  ASSUME OwnInv, QbitConstants, CommitStep
  PROVE  MarkInv'
<1>1. pipe.pc # "idle"
  BY DEF CommitStep, Inspected, Uninspected, UnknownIntake, Lookup, Evict, AddRefused, AddFresh,
         Metadata, Recheck, AddTags, SetCategory, DropIntakeTag, Deselect, Select, Verify, Start,
         Check, Contain, At
<1>2. J \in Jobs BY <1>1, HasJob DEF OwnInv
<1> DEFINE Quiet == UNCHANGED << torrent, adds, discard >>
<1>3. CASE Quiet /\ Throw BY <1>3, MarkThrows
<1>4. ASSUME NEW pc, Quiet, Goto(pc) \/ Look(pc), pc \notin Vouching \cup {"evict", "tag"}
      PROVE  MarkInv'
  BY <1>4, MarkWalks DEF Goto, Look
<1>5. CASE Quiet /\ Look("tag") /\ Adoptable(torrent, J)
  <2>1. Marks(torrent) # {} BY <1>5 DEF Adoptable, Claimable
  <2> QED BY <1>5, <2>1, MarkWalks DEF Look, Vouching
<1>6. CASE Lookup
  <2>1. Quiet BY <1>6 DEF Lookup, ReadFails, Server, Local
  <2>2. CASE Look("evict") /\ Evictable(torrent, J)
    <3>1. Marks(torrent) # {} BY <2>2 DEF Evictable, Claimable
    <3> QED BY <2>1, <2>2, <3>1, MarkWalks DEF Look, Vouching
  <2>3. CASE Look("add") BY <1>4, <2>1, <2>3 DEF Vouching
  <2>4. \/ Throw \/ Look("add") \/ (Look("tag") /\ Adoptable(torrent, J))
        \/ (Look("evict") /\ Evictable(torrent, J))
    BY <1>6 DEF Lookup, ReadFails
  <2> QED BY <1>3, <1>5, <2>1, <2>2, <2>3, <2>4
<1>7. CASE Recheck
  <2>1. Quiet BY <1>7 DEF Recheck, ReadFails, Server, Local
  <2>2. Throw \/ (Look("tag") /\ Adoptable(torrent, J)) BY <1>7 DEF Recheck, ReadFails
  <2> QED BY <1>3, <1>5, <2>1, <2>2
<1>8. CASE Inspected \/ AddRefused \/ Uninspected \/ UnknownIntake \/ Metadata
  <2>1. Quiet BY <1>8 DEF Inspected, AddRefused, Uninspected, UnknownIntake, Metadata, Server, Local
  <2>2. Throw \/ \E pc \in {"lookup", "recheck"} : Goto(pc)
    BY <1>8 DEF Inspected, AddRefused, Uninspected, UnknownIntake, Metadata
  <2>3. {"lookup", "recheck"} \cap (Vouching \cup {"evict", "tag"}) = {} BY DEF Vouching
  <2> QED BY <1>3, <1>4, <2>1, <2>2, <2>3
<1>9. CASE Evict
  <2>1. Heir(NoTorrent) BY DEF Heir
  <2> QED BY <1>9, <2>1, MarkCalls DEF Evict
<1>10. CASE AddFresh
  <2>1. discard' = discard /\ torrent' \in {torrent, FreshStopped(J)} /\ adds' \in {adds, adds + 1}
    BY <1>10 DEF AddFresh, Local
  <2>2. Heir(torrent')
    <3>1. FreshStopped(J).serial = adds + 1 BY DEF FreshStopped
    <3>2. torrent' = torrent \/ (torrent' = FreshStopped(J) /\ adds' = adds + 1)
      BY <1>10 DEF AddFresh
    <3> QED BY <3>1, <3>2 DEF Heir
  <2>3. CASE Goto("metadata")
    <3>1. pipe'.pc = "metadata" /\ pipe'.seen = pipe.seen BY <2>3, Types DEF Goto, AnyPipe
    <3>2. Vouched(torrent', pipe'.pc, pipe'.seen) BY <3>1 DEF Vouched, Vouching
    <3> QED BY <2>1, <2>2, <3>1, <3>2, MarkMoves
  <2>4. CASE Throw BY <2>1, <2>2, <2>4, MarkEnds DEF Throw, EndAs
  <2> QED BY <1>10, <2>3, <2>4 DEF AddFresh
<1>11. CASE AddTags
  BY <1>2, <1>11, TaggedMarks, MarkCalls DEF AddTags
<1>12. CASE SetCategory
  BY <1>2, <1>12, CategorisedMarks, MarkCalls DEF SetCategory
<1>13. CASE DropIntakeTag
  <2>1. pipe.pc = "untag" /\ Goto("deselect") /\ adds' = adds /\ discard' = discard
    BY <1>13 DEF DropIntakeTag, At, Local
  <2>2. torrent' \in {torrent, Untagged(torrent)} BY <1>13 DEF DropIntakeTag, Quietly
  <2>3. Heir(torrent') /\ (HasMark(torrent) => torrent' = NoTorrent \/ HasMark(torrent'))
    BY <2>2, UntaggedMarks DEF Heir
  <2>4. pipe'.pc = "deselect" /\ pipe'.seen = pipe.seen BY <2>1, Types DEF Goto, AnyPipe
  <2>5. Vouched(torrent', pipe'.pc, pipe'.seen)
    <3>1. ASSUME torrent' # NoTorrent, torrent'.serial = pipe.seen PROVE HasMark(torrent')
      <4>1. torrent # NoTorrent /\ torrent.serial = pipe.seen
        <5>1. adds + 1 # pipe.seen BY Types DEF OwnInv, MarkInv, Numbered
        <5> QED BY <2>1, <2>3, <3>1, <5>1 DEF Heir
      <4> QED BY <2>1, <2>3, <3>1, <4>1, SeenMarked DEF Vouching
    <3> QED BY <2>4, <3>1 DEF Vouched
  <2> QED BY <2>1, <2>3, <2>4, <2>5, MarkMoves
<1>14. CASE Deselect \/ Select
  <2>1. pipe.pc \in Vouching BY <1>14 DEF Deselect, Select, At, Vouching
  <2> QED BY <1>14, <2>1, MarkPriorities DEF Deselect, Select
<1>15. CASE Verify
  <2>1. Quiet /\ pipe.pc \in Vouching BY <1>15 DEF Verify, ReadFails, Server, Local, At, Vouching
  <2>2. CASE Goto("start") BY <2>1, <2>2, MarkGoes
  <2> QED BY <1>3, <1>15, <2>1, <2>2 DEF Verify, ReadFails
<1>16. CASE Start
  <2>1. pipe.pc \in Vouching BY <1>16 DEF Start, At, Vouching
  <2> DEFINE t == Started(torrent)
  <2>2. SameMarks(t) BY OtherCalls
  <2>3. CallTo(t, "check") BY <1>16 DEF Start
  <2> HIDE DEF t
  <2>4. Heir(t) /\ (HasMark(torrent) => HasMark(t)) BY <2>2, SameMarksHeir
  <2>5. t # NoTorrent /\ t.serial = pipe.seen => HasMark(t)
    BY <2>1, <2>2, <2>4, SeenMarked DEF SameMarks
  <2> QED BY <2>3, <2>4, <2>5, MarkCalls
<1>17. CASE Check
  <2>1. Quiet /\ pipe.pc \in Vouching BY <1>17 DEF Check, ReadFails, Server, Local, At, Vouching
  <2>2. CASE Goto("contain") BY <2>1, <2>2, MarkGoes
  <2>3. CASE Look("poll") BY <1>4, <2>1, <2>3 DEF Vouching
  <2>4. Throw \/ Goto("contain") \/ Look("poll") BY <1>17 DEF Check, ReadFails
  <2> QED BY <1>3, <2>1, <2>2, <2>3, <2>4
<1>18. CASE Contain
  <2>1. torrent' \in {torrent, Stopped(torrent)} BY <1>18 DEF Contain, StopQuietly, Quietly
  <2>2. Heir(torrent') BY <2>1, OtherCalls, SameMarksHeir DEF SameMarks
  <2> QED BY <1>18, <2>2, MarkEnds DEF Contain, Local, Throw, EndAs
<1> QED BY <1>6, <1>7, <1>8, <1>9, <1>10, <1>11, <1>12, <1>13, <1>14, <1>15, <1>16, <1>17, <1>18 DEF CommitStep

\* To where the pipeline claims nothing of the torrent.
LEMMA MarkRests ==
  ASSUME OwnInv, Heir(torrent'), UNCHANGED << adds, discard >>,
         NEW pc, pc \notin Vouching \cup {"evict", "tag"}, Goto(pc) \/ Look(pc) \/ pipe' = IdlePipe
  PROVE  MarkInv'
<1>1. CASE Goto(pc) \/ Look(pc)
  <2>1. pipe'.pc = pc /\ pipe'.seen \in {pipe.seen, torrent.serial}
    BY <1>1, Types DEF Goto, Look, AnyPipe
  <2>2. Vouched(torrent', pipe'.pc, pipe'.seen) BY <2>1 DEF Vouched
  <2> QED BY <2>1, <2>2, MarkMoves
<1>2. CASE pipe' = IdlePipe BY <1>2, MarkEnds
<1> QED BY <1>1, <1>2

LEMMA MarkDrive ==
  ASSUME OwnInv, QbitConstants, DriveStep
  PROVE  MarkInv'
<1>1. /\ UNCHANGED << adds, discard >> /\ pipe.pc # "idle"
      /\ torrent' \in {torrent, NoTorrent, Stopped(torrent)}
  BY PollMoves, Types DEF DriveStep, Halt, Halting, Kept, Prove, Erase, Local, Server, StopQuietly, Quietly,
         At, Watching
<1>2. Heir(torrent') BY <1>1, OtherCalls, SameMarksHeir DEF SameMarks, Heir
<1>3. J \in Jobs BY <1>1, HasJob DEF OwnInv
<1>4. ASSUME NEW pc \in {"prove", "kept", "guard", "poll"}, Goto(pc) \/ Look(pc) PROVE MarkInv'
  BY <1>1, <1>2, <1>4, MarkRests DEF Vouching
<1>5. CASE pipe' = IdlePipe BY <1>1, <1>2, <1>5, MarkEnds
<1>6. CASE PollStep
  <2>1. CASE Throw BY <1>5, <2>1 DEF Throw, EndAs
  <2>2. CASE ~Throw
    <3>1. pipe'.pc \in Watching /\ pipe'.seen = pipe.seen BY <1>6, <2>2, PollMoves, Types
    <3>2. Vouched(torrent', pipe'.pc, pipe'.seen) BY <3>1 DEF Vouched, Vouching, Watching
    <3> QED BY <1>1, <1>2, <3>1, <3>2, MarkMoves
  <2> QED BY <2>1, <2>2
<1>8. ASSUME AfterHalt, pipe.pc \in Stopping PROVE MarkInv'
  <2>1. pipe.why \in {"cancel", "critical", "done"} BY <1>8 DEF OwnInv, SelectedInv, Driven, AnyPipe
  <2>2. (\E pc \in {"prove", "kept"} : Goto(pc)) \/ Throw \/ Abandon
    BY <1>8, <2>1, Zenon DEF AfterHalt
  <2> QED BY <1>4, <1>5, <2>2 DEF Throw, EndAs, Abandon
<1>9. CASE Halt
  <2>1. pipe.pc = "halt" /\ torrent' = torrent BY <1>9 DEF Halt, At, Server
  <2>2. CASE AfterHalt BY <1>8, <2>1, <2>2 DEF Stopping
  <2>3. CASE Look("halting") /\ ~(J \in jobs /\ Exists /\ ~Owned(torrent, J))
    <3>1. J \in jobs BY <2>1 DEF OwnInv, LifeInv, J, Watching
    <3>2. torrent # NoTorrent => HasMark(torrent) BY <1>3, <2>3, <3>1 DEF Exists, Owned, HasMark
    <3>3. pipe'.pc = "halting" /\ pipe'.seen = torrent.serial BY <2>3, Types DEF Look, AnyPipe
    <3>4. Vouched(torrent', pipe'.pc, pipe'.seen) BY <2>1, <3>2, <3>3 DEF Vouched
    <3> QED BY <1>1, <1>2, <3>3, <3>4, MarkMoves
  <2> QED BY <1>9, <2>2, <2>3 DEF Halt
<1>10. CASE Kept BY <1>4, <1>5, <1>10 DEF Kept, EndAs, Abandon
<1>11. CASE Prove
  <2>1. torrent' = torrent BY <1>11 DEF Prove, Server
  <2>2. CASE Look("erase") /\ Proof(J, pipe.pc) = "erase"
    <3>1. Exists /\ Owned(torrent, J) BY <2>2 DEF Proof
    <3>2. HasMark(torrent) BY <1>3, <3>1 DEF Owned, HasMark
    <3>3. pipe'.pc = "erase" /\ pipe'.seen = torrent.serial BY <2>2, Types DEF Look, AnyPipe
    <3>4. Vouched(torrent', pipe'.pc, pipe'.seen) BY <2>1, <3>2, <3>3 DEF Vouched
    <3> QED BY <1>1, <1>2, <3>3, <3>4, MarkMoves
  <2> QED BY <1>4, <1>5, <1>11, <2>2 DEF Prove, PurgeOver, EndAs
<1>12. CASE Erase BY <1>5, <1>12 DEF Erase, PurgeOver, EndAs
<1>13. CASE Halting BY <1>8, <1>13 DEF Halting, At, Stopping
<1> QED BY <1>6, <1>9, <1>10, <1>11, <1>12, <1>13 DEF DriveStep

\* A discard deletes only what it proved to be its job's.
LEMMA MarkDiscard ==
  ASSUME OwnInv, NEW j \in Jobs, DiscardStep(j)
  PROVE  MarkInv'
<1>1. pipe' = pipe /\ adds' = adds /\ torrent' \in {torrent, NoTorrent}
  BY DEF DiscardStep, DiscardBegin, DiscardProve, DiscardErase, DiscardEnd, Server
<1>2. Heir(torrent') BY <1>1 DEF Heir
<1>3. PICK d : /\ discard' = [discard EXCEPT ![j] = d]
               /\ d.seen \in {0, discard[j].seen, torrent.serial}
               /\ d.pc = "erase" => torrent' = torrent /\ Owned(torrent, j)
  <2>1. discard[j] \in AnyDiscard BY Types
  <2>2. CASE DiscardBegin(j) \/ DiscardErase(j)
    <3>1. PICK pc \in {"prove", "rmdir"} : discard' = [discard EXCEPT ![j].pc = pc]
      BY <2>2 DEF DiscardBegin, DiscardErase
    <3> DEFINE e == [discard[j] EXCEPT !.pc = pc]
    <3>2. discard' = [discard EXCEPT ![j] = e] BY <3>1
    <3>3. e.pc = pc /\ e.seen = discard[j].seen BY <2>1 DEF AnyDiscard
    <3> HIDE DEF e
    <3> QED BY <3>2, <3>3
  <2>3. CASE DiscardProve(j)
    <3>1. PICK r \in {Proof(j, discard[j].pc)} \cup {"refused"} :
            discard' = [discard EXCEPT ![j] =
              [pc |-> IF r \in {"guard", "erase"} THEN r ELSE "rmdir", seen |-> torrent.serial]]
      BY <2>3 DEF DiscardProve
    <3>2. torrent' = torrent /\ (Proof(j, discard[j].pc) = "erase" => Owned(torrent, j))
      BY <2>3 DEF DiscardProve, Server, Proof
    <3> DEFINE e == [pc |-> IF r \in {"guard", "erase"} THEN r ELSE "rmdir", seen |-> torrent.serial]
    <3>3. e.seen = torrent.serial /\ (e.pc = "erase" => r = "erase") OBVIOUS
    <3> HIDE DEF e
    <3> QED BY <3>1, <3>2, <3>3 DEF e
  <2>4. CASE DiscardEnd(j)
    <3>1. discard' = [discard EXCEPT ![j] = IdleDiscard] BY <2>4 DEF DiscardEnd
    <3>2. IdleDiscard.pc = "idle" /\ IdleDiscard.seen = 0 BY DEF IdleDiscard
    <3> QED BY <3>1, <3>2
  <2> QED BY <2>2, <2>3, <2>4 DEF DiscardStep
<1>4. /\ \A k \in Jobs \ {j} : discard'[k] = discard[k]
      /\ discard'[j] = d
  BY <1>3, Types
<1>5. d.seen <= adds BY <1>3, Types DEF OwnInv, MarkInv, Numbered
<1>6. d.pc = "erase" => Vouched(torrent', "erase", d.seen)
  BY <1>3 DEF Vouched, Owned, HasMark
<1>7. Vouched(torrent', pipe.pc, pipe.seen) BY <1>1 DEF OwnInv, MarkInv, Vouched
<1>8. \A k \in Jobs : /\ discard'[k].seen <= adds'
                      /\ discard'[k].pc = "erase" => Vouched(torrent', "erase", discard'[k].seen)
  BY <1>1, <1>2, <1>4, <1>5, <1>6, Inherits
<1>9. adds' \in Nat /\ torrent'.serial <= adds' /\ pipe.seen <= adds' BY <1>1, <1>2, Inherits
<1> QED BY <1>1, <1>7, <1>8, <1>9 DEF MarkInv, Numbered

LEMMA MarkStep ==
  ASSUME OwnInv, QbitConstants, [Next]_vars
  PROVE  MarkInv'
<1>1. CASE CommitStep BY <1>1, MarkCommit
<1>2. CASE DriveStep BY <1>2, MarkDrive
<1>3. CASE \E j \in Jobs : DiscardStep(j) BY <1>3, MarkDiscard
<1>4. ASSUME UNCHANGED << adds, discard >>, Heir(torrent'), pipe'.pc = pipe.pc, pipe'.seen = pipe.seen,
             Vouched(torrent, pipe.pc, pipe.seen) => Vouched(torrent', pipe.pc, pipe.seen)
      PROVE  MarkInv'
  BY <1>4, MarkMoves DEF OwnInv, MarkInv
<1>5. CASE UNCHANGED << torrent, adds, discard, pipe >> BY <1>4, <1>5 DEF Heir
<1>6. CASE \E j \in Jobs : Begin(j)
  <2>1. PICK j \in Jobs : Begin(j) BY <1>6
  <2>2. pipe'.pc \in {"lookup", "inspect"} /\ pipe'.seen = 0
    BY <2>1 DEF Begin, IdlePipe, ResolveIntake
  <2>3. Vouched(torrent', pipe'.pc, pipe'.seen) BY <2>2 DEF Vouched, Vouching
  <2>4. Heir(torrent') /\ adds' = adds /\ discard' = discard BY <2>1 DEF Begin, Server, Local, Heir
  <2> QED BY <2>2, <2>3, <2>4, MarkMoves
<1>7. CASE Cancel
  <2>1. pipe'.pc = pipe.pc /\ pipe'.seen = pipe.seen BY <1>7, Types DEF Cancel, AnyPipe
  <2> QED BY <1>4, <1>7, <2>1 DEF Cancel, Server, Local, Heir
<1>8. CASE Restart
  <2>1. pipe' = IdlePipe /\ discard' = [j \in Jobs |-> IdleDiscard] /\ UNCHANGED << torrent, adds >>
    BY <1>8 DEF Restart, Server
  <2>2. adds \in Nat /\ torrent.serial <= adds BY DEF OwnInv, MarkInv, Numbered
  <2> QED BY <2>1, <2>2 DEF MarkInv, Numbered, Vouched, Vouching, IdlePipe, IdleDiscard
<1>9. CASE UserAdds
  <2>1. torrent'.serial = adds + 1 /\ adds' = adds + 1 /\ pipe' = pipe /\ discard' = discard
    BY <1>9 DEF UserAdds, Local
  <2>2. Heir(torrent') BY <2>1 DEF Heir
  <2>3. pipe.seen # adds + 1 BY Types DEF OwnInv, MarkInv, Numbered
  <2>4. Vouched(torrent', pipe'.pc, pipe'.seen) BY <2>1, <2>3 DEF Vouched
  <2> QED BY <2>1, <2>2, <2>4, MarkMoves
<1>10. CASE UserRemoves
  BY <1>4, <1>10 DEF UserRemoves, Local, Heir, Vouched
<1>11. CASE UserTags
  <2>1. torrent \in AnyTorrent /\ torrent' = [torrent EXCEPT !.tags = @ \cup {INTAKE_TAG}]
    BY <1>11, Types DEF UserTags, Exists
  <2>2. /\ torrent'.serial = torrent.serial /\ torrent'.category = torrent.category
        /\ torrent'.tags = torrent.tags \cup {INTAKE_TAG}
    BY <2>1 DEF AnyTorrent
  <2>3. Marks(torrent) \subseteq Marks(torrent') BY <2>2 DEF Marks
  <2>4. torrent # NoTorrent BY <1>11 DEF UserTags, Exists
  <2>5. Heir(torrent') BY <2>2, <2>3, <2>4 DEF Heir, HasMark
  <2>6. Vouched(torrent, pipe.pc, pipe.seen) => Vouched(torrent', pipe.pc, pipe.seen)
    BY <2>2, <2>3, <2>4 DEF Vouched, HasMark
  <2> QED BY <1>4, <1>11, <2>5, <2>6 DEF UserTags, Local
<1>12. CASE QbitStep
  <2>1. SameMarks(torrent')
    <3>1. CASE torrent' = torrent BY <3>1 DEF SameMarks
    <3>2. CASE torrent' = [torrent EXCEPT !.meta = TRUE]
      BY <1>12, <3>2, OtherCalls DEF QbitStep, Exists
    <3>3. CASE torrent' = [torrent EXCEPT !.run = "error"]
      BY <1>12, <3>3, OtherCalls DEF QbitStep, Exists
    <3> QED BY <1>12, <3>1, <3>2, <3>3 DEF QbitStep
  <2> QED BY <1>4, <1>12, <2>1, SameMarksHeir DEF QbitStep, Local
<1>13. CASE SwapService \/ \E j \in Jobs : FetchMetadata(j)
  BY <1>5, <1>13 DEF SwapService, FetchMetadata, Server, Local
<1>14. CASE UNCHANGED vars BY <1>5, <1>14 DEF vars
<1> QED BY <1>1, <1>2, <1>3, <1>6, <1>7, <1>8, <1>9, <1>10, <1>11, <1>12, <1>13, <1>14 DEF Next

-----------------------------------------------------------------------------
(* No step touches a torrent without a mark *)

Untouched ==
  Exists /\ Marks(torrent) = {} /\ torrent' # torrent /\ << pipe, discard >>' # << pipe, discard >>
    => raced'

\* The guard that precedes a call has seen a marked torrent, or another than this.
LEMMA TouchesOther ==
  ASSUME OwnInv, pipe.pc \in Vouching \cup {"evict", "tag"}, Exists, Marks(torrent) = {}
  PROVE  torrent.serial # pipe.seen
BY DEF OwnInv, MarkInv, Vouched, HasMark, Exists

LEMMA TouchRaces ==
  ASSUME OwnInv, pipe.pc \in Vouching \cup {"evict", "tag"},
         torrent' # torrent => Touches(torrent', pipe.seen)
  PROVE  Untouched
BY TouchesOther DEF Untouched, Touches

LEMMA UntouchedCalls ==
  ASSUME OwnInv, pipe.pc \in Vouching \cup {"evict", "tag"}, NEW t, NEW pc, CallTo(t, pc)
  PROVE  Untouched
<1>1. torrent' # torrent => Touches(torrent', pipe.seen) BY DEF CallTo, Touches
<1> QED BY <1>1, TouchRaces

LEMMA UntouchedStep ==
  ASSUME OwnInv, [Next]_vars
  PROVE  Untouched
<1>1. CASE torrent' = torrent \/ ~Exists \/ UNCHANGED << pipe, discard >>
  BY <1>1 DEF Untouched
<1>2. CASE Evict \/ AddTags \/ SetCategory \/ Start
  <2>1. pipe.pc \in Vouching \cup {"evict", "tag"}
    BY <1>2 DEF Evict, AddTags, SetCategory, Start, At, Vouching
  <2>2. \E t, pc : CallTo(t, pc) BY <1>2 DEF Evict, AddTags, SetCategory, Start
  <2> QED BY <2>1, <2>2, UntouchedCalls
<1>3. CASE Deselect \/ Select
  <2>1. pipe.pc \in Vouching BY <1>3 DEF Deselect, Select, At, Vouching
  <2>2. torrent' = torrent \/ \E t, pc : CallTo(t, pc)
    BY <1>3 DEF Deselect, Select, SetPriorities, Server
  <2> QED BY <1>1, <2>1, <2>2, UntouchedCalls
<1>4. CASE DropIntakeTag \/ Contain \/ Halting
  <2>1. pipe.pc \in Vouching BY <1>4 DEF DropIntakeTag, Contain, Halting, At, Vouching
  <2>2. Touches(torrent', pipe.seen)
    BY <1>4 DEF DropIntakeTag, Contain, Halting, StopQuietly, Quietly
  <2> QED BY <2>1, <2>2, TouchRaces
<1>5. CASE Erase
  <2>1. pipe.pc \in Vouching BY <1>5 DEF Erase, At, Vouching
  <2>2. torrent' # torrent => Touches(torrent', pipe.seen) BY <1>5 DEF Erase, Touches
  <2> QED BY <2>1, <2>2, TouchRaces
<1>6. CASE \E j \in Jobs : DiscardErase(j)
  <2>1. PICK j \in Jobs : DiscardErase(j) BY <1>6
  <2>2. Vouched(torrent, "erase", discard[j].seen)
    BY <2>1 DEF DiscardErase, OwnInv, MarkInv
  <2>3. Exists /\ torrent.serial = discard[j].seen => Marks(torrent) # {}
    BY <2>2 DEF Vouched, Vouching, HasMark, Exists
  <2>4. torrent' # torrent => raced' = (raced \/ (torrent' # torrent /\ torrent.serial # discard[j].seen))
    BY <2>1 DEF DiscardErase, Touches
  <2> QED BY <2>3, <2>4 DEF Untouched
<1>7. \/ torrent' = torrent \/ ~Exists \/ UNCHANGED << pipe, discard >>
      \/ Evict \/ AddTags \/ SetCategory \/ Start \/ Deselect \/ Select
      \/ DropIntakeTag \/ Contain \/ Halting \/ Erase \/ \E j \in Jobs : DiscardErase(j)
  <2>1. CASE CommitStep
    BY <2>1 DEF CommitStep, Inspected, Uninspected, UnknownIntake, Lookup, AddRefused, AddFresh, Metadata,
                Recheck, Verify, Check, ReadFails, Server
  <2>2. CASE DriveStep
    BY <2>2, PollMoves, Types DEF DriveStep, Halt, Kept, Prove, Server
  <2>3. CASE \E j \in Jobs : FetchMetadata(j) \/ Begin(j) \/ DiscardStep(j)
    BY <2>3 DEF FetchMetadata, Begin, DiscardStep, DiscardBegin, DiscardProve, DiscardEnd, Server
  <2>4. CASE Cancel \/ SwapService \/ Restart
    BY <2>4 DEF Cancel, SwapService, Restart, Server
  <2>5. CASE UserAdds \/ UserRemoves \/ UserTags \/ QbitStep
    BY <2>5 DEF UserAdds, UserRemoves, UserTags, QbitStep, Local
  <2>6. CASE UNCHANGED vars BY <2>6 DEF vars
  <2> QED BY <2>1, <2>2, <2>3, <2>4, <2>5, <2>6 DEF Next
<1> QED BY <1>1, <1>2, <1>3, <1>4, <1>5, <1>6, <1>7

LEMMA OwnInit == ASSUME Init, QbitConstants PROVE OwnInv
<1>1. SelectedInv BY SelectInit
<1>2. LifeInv
  BY <1>1 DEF SelectedInv, LifeInv, Init, IdlePipe, IdleDiscard, AnyDiscard, JobStates, Transferring,
                   Watching
<1>3. MarkInv
  BY DEF MarkInv, Numbered, Vouched, Vouching, Init, IdlePipe, IdleDiscard, NoTorrent
<1> QED BY <1>1, <1>2, <1>3 DEF OwnInv

LEMMA OwnStep == ASSUME OwnInv, QbitConstants, [Next]_vars PROVE OwnInv'
<1>1. SelectedInv' BY SelectStep DEF OwnInv
<1>2. LifeInv' BY <1>1, LifeStep, Types DEF OwnInv, SelectedInv
<1>3. MarkInv' BY MarkStep
<1> QED BY <1>1, <1>2, <1>3 DEF OwnInv

\* Between any guard and the call after it, whatever a user and the discards do there: a
\* torrent that carries no mark of a job or of the intake is neither changed nor deleted,
\* unless it took the place of the one that the guard had looked at.
THEOREM OthersUntouched == Spec => ForeignUntouched
<1>1. Init => OwnInv BY QbitConstants, OwnInit
<1>2. OwnInv /\ [Next]_vars => OwnInv' BY QbitConstants, OwnStep
<1>3. OwnInv /\ [Next]_vars => [Untouched]_vars BY UntouchedStep
<1> QED BY <1>1, <1>2, <1>3, PTL DEF Spec, ForeignUntouched, Untouched

-----------------------------------------------------------------------------
(* Deletions: what a cancel leaves behind, and that a finished download keeps *)
(* its files.                                                                 *)

-----------------------------------------------------------------------------
(* A torrent keeps its place, and gets marks of the transferring job only *)

JobMarks(t) == {k \in Jobs : t # NoTorrent /\ k \in Marks(t)}

Marking == IF pipe.pc \in Transferring THEN {J} ELSE {}

\* What a step can make of the torrent.
Succeeds(u) ==
  \/ u = NoTorrent
  \/ u.serial = adds + 1 /\ JobMarks(u) \subseteq Marking
  \/ /\ torrent # NoTorrent /\ u.serial = torrent.serial /\ u.path = torrent.path
     /\ JobMarks(u) \subseteq JobMarks(torrent) \cup Marking

LEMMA SameSucceeds == Succeeds(torrent)
BY DEF Succeeds

\* A change of the run state, of the file list or of the priorities.
LEMMA PlainSucceeds ==
  ASSUME torrent # NoTorrent, NEW u, u.serial = torrent.serial, u.path = torrent.path,
         u.tags = torrent.tags, u.category = torrent.category
  PROVE  Succeeds(u)
BY DEF Succeeds, JobMarks, Marks

LEMMA CallsSucceed ==
  ASSUME OwnInv, QbitConstants
  PROVE  /\ Succeeds(Started(torrent)) /\ Succeeds(Stopped(torrent)) /\ Succeeds(Untagged(torrent))
         /\ pipe.pc \in Transferring =>
              Succeeds(Tagged(torrent, J)) /\ Succeeds(Categorised(torrent, J))
         /\ torrent # NoTorrent =>
              /\ \A set, up : Succeeds(Prioritised(torrent, set, up))
              /\ Succeeds([torrent EXCEPT !.run = "error"]) /\ Succeeds([torrent EXCEPT !.meta = TRUE])
              /\ Succeeds([torrent EXCEPT !.tags = @ \cup {INTAKE_TAG}])
<1>1. CASE torrent = NoTorrent
  BY <1>1 DEF Succeeds, Started, Stopped, Untagged, Tagged, Categorised
<1>2. CASE torrent # NoTorrent
  <2>1. torrent \in AnyTorrent BY <1>2, Types
  <2>2. ASSUME NEW r PROVE Succeeds([torrent EXCEPT !.run = r])
    <3> DEFINE u == [torrent EXCEPT !.run = r]
    <3>1. /\ u.serial = torrent.serial /\ u.path = torrent.path
          /\ u.tags = torrent.tags /\ u.category = torrent.category
      BY <2>1 DEF AnyTorrent
    <3> HIDE DEF u
    <3>2. Succeeds(u) BY <1>2, <3>1, PlainSucceeds
    <3> QED BY <3>2 DEF u
  <2>3. Succeeds(Started(torrent)) /\ Succeeds(Stopped(torrent))
    BY <2>2, SameSucceeds DEF Started, Stopped
  <2>4. ASSUME NEW set, NEW up PROVE Succeeds(Prioritised(torrent, set, up))
    <3> DEFINE u == Prioritised(torrent, set, up)
    <3>1. /\ u.serial = torrent.serial /\ u.path = torrent.path
          /\ u.tags = torrent.tags /\ u.category = torrent.category
      BY <2>1 DEF AnyTorrent, Prioritised
    <3> HIDE DEF u
    <3>2. Succeeds(u) BY <1>2, <3>1, PlainSucceeds
    <3> QED BY <3>2 DEF u
  <2>5. Succeeds([torrent EXCEPT !.meta = TRUE])
    <3> DEFINE u == [torrent EXCEPT !.meta = TRUE]
    <3>1. /\ u.serial = torrent.serial /\ u.path = torrent.path
          /\ u.tags = torrent.tags /\ u.category = torrent.category
      BY <2>1 DEF AnyTorrent
    <3> HIDE DEF u
    <3>2. Succeeds(u) BY <1>2, <3>1, PlainSucceeds
    <3> QED BY <3>2 DEF u
  <2>6. ASSUME NEW tags, tags \cap Jobs \subseteq torrent.tags \cup Marking
        PROVE  Succeeds([torrent EXCEPT !.tags = tags])
    <3> DEFINE u == [torrent EXCEPT !.tags = tags]
    <3>1. /\ u.serial = torrent.serial /\ u.path = torrent.path
          /\ u.tags = tags /\ u.category = torrent.category
      BY <2>1 DEF AnyTorrent
    <3> HIDE DEF u
    <3>2. JobMarks(u) \subseteq JobMarks(torrent) \cup Marking
      BY <1>2, <2>6, <3>1 DEF JobMarks, Marks
    <3>3. Succeeds(u) BY <1>2, <3>1, <3>2 DEF Succeeds
    <3> QED BY <3>3 DEF u
  <2>7. Succeeds([torrent EXCEPT !.tags = @ \cup {INTAKE_TAG}])
    <3>1. (torrent.tags \cup {INTAKE_TAG}) \cap Jobs \subseteq torrent.tags BY DEF QbitConstants
    <3> QED BY <2>6, <3>1
  <2>8. Succeeds(Untagged(torrent)) BY <1>2, <2>6 DEF Untagged
  <2>9. ASSUME pipe.pc \in Transferring PROVE Succeeds(Tagged(torrent, J)) /\ Succeeds(Categorised(torrent, J))
    <3>1. Succeeds(Tagged(torrent, J))
      <4>1. (torrent.tags \cup {J}) \cap Jobs \subseteq torrent.tags \cup Marking BY <2>9 DEF Marking
      <4> QED BY <1>2, <2>6, <4>1 DEF Tagged
    <3>2. Succeeds(Categorised(torrent, J))
      <4> DEFINE u == Categorised(torrent, J)
      <4>1. /\ u.serial = torrent.serial /\ u.path = torrent.path
            /\ u.tags = torrent.tags /\ u.category = J
        BY <1>2, <2>1 DEF AnyTorrent, Categorised
      <4> HIDE DEF u
      <4>2. JobMarks(u) \subseteq JobMarks(torrent) \cup Marking
        BY <1>2, <2>9, <4>1 DEF JobMarks, Marks, Marking
      <4>3. Succeeds(u) BY <1>2, <4>1, <4>2 DEF Succeeds
      <4> QED BY <4>3 DEF u
    <3> QED BY <3>1, <3>2
  <2> QED BY <2>2, <2>3, <2>4, <2>5, <2>7, <2>8, <2>9
<1> QED BY <1>1, <1>2

LEMMA Succession ==
  ASSUME OwnInv, QbitConstants, [Next]_vars
  PROVE  Succeeds(torrent')
<1>1. CASE torrent' \in {torrent, NoTorrent, Started(torrent), Stopped(torrent), Untagged(torrent)}
  BY <1>1, CallsSucceed, SameSucceeds DEF Succeeds
<1>2. ASSUME NEW t, NEW pc, Succeeds(t), CallTo(t, pc) PROVE Succeeds(torrent')
  BY <1>2, SameSucceeds DEF CallTo
<1>3. CASE AddTags \/ SetCategory
  <2>1. pipe.pc \in Transferring BY <1>3 DEF AddTags, SetCategory, At, Transferring, PipeStates
  <2> QED BY <1>2, <1>3, <2>1, CallsSucceed DEF AddTags, SetCategory
<1>4. CASE Deselect \/ Select
  <2>1. CASE torrent' = torrent BY <1>1, <2>1
  <2>2. CASE Exists /\ \E set, up, pc : CallTo(Prioritised(torrent, set, up), pc)
    BY <1>2, <2>2, CallsSucceed DEF Exists
  <2>3. CASE \E pc : CallTo(torrent, pc) BY <2>1, <2>3 DEF CallTo
  <2> QED BY <1>4, <2>1, <2>2, <2>3 DEF Deselect, Select, SetPriorities, Server
<1>5. CASE AddFresh
  <2>1. pipe.pc \in Transferring BY <1>5 DEF AddFresh, At, Transferring, PipeStates
  <2>2. Succeeds(FreshStopped(J))
    BY <2>1 DEF Succeeds, FreshStopped, JobMarks, Marks, Marking
  <2> QED BY <1>1, <1>5, <2>2 DEF AddFresh
<1>6. CASE UserAdds
  <2>1. torrent'.serial = adds + 1 /\ torrent'.tags = {} /\ torrent'.category = NoJob
    BY <1>6 DEF UserAdds
  <2>2. JobMarks(torrent') = {} BY <2>1 DEF JobMarks, Marks
  <2> QED BY <2>1, <2>2 DEF Succeeds
<1>7. CASE UserTags BY <1>7, CallsSucceed DEF UserTags, Exists
<1>8. CASE QbitStep
  <2>1. torrent' \in {torrent, [torrent EXCEPT !.meta = TRUE], [torrent EXCEPT !.run = "error"]}
    BY <1>8 DEF QbitStep
  <2> QED BY <1>8, <2>1, CallsSucceed, SameSucceeds DEF QbitStep, Exists
<1>9. CASE Evict \/ Start
  BY <1>1, <1>9 DEF Evict, Start, CallTo
<1>10. CASE CommitStep /\ ~(AddTags \/ SetCategory \/ Deselect \/ Select \/ AddFresh \/ Evict \/ Start)
  <2>1. torrent' \in {torrent, Stopped(torrent), Untagged(torrent)}
    BY <1>10 DEF CommitStep, Inspected, Uninspected, UnknownIntake, Lookup, AddRefused, Metadata,
                 Recheck, DropIntakeTag, Verify, Check, Contain, StopQuietly, Quietly, ReadFails, Server
  <2> QED BY <1>1, <2>1
<1>11. CASE DriveStep
  <2>1. torrent' \in {torrent, Stopped(torrent), NoTorrent}
    BY <1>11, PollMoves, Types DEF DriveStep, Halt, Halting, Kept, Prove, Erase, StopQuietly, Quietly, Server
  <2> QED BY <1>1, <2>1
<1>12. CASE \E j \in Jobs : FetchMetadata(j) \/ Begin(j) \/ DiscardStep(j)
  <2>1. torrent' \in {torrent, NoTorrent}
    BY <1>12 DEF FetchMetadata, Begin, DiscardStep, DiscardBegin, DiscardProve, DiscardErase, DiscardEnd, Server
  <2> QED BY <1>1, <2>1
<1>13. CASE Cancel \/ SwapService \/ Restart \/ UserRemoves \/ UNCHANGED vars
  BY <1>1, <1>13 DEF Cancel, SwapService, Restart, UserRemoves, Server, vars
<1> QED BY <1>3, <1>4, <1>5, <1>6, <1>7, <1>8, <1>9, <1>10, <1>11, <1>12, <1>13 DEF Next

-----------------------------------------------------------------------------
(* A cancelled job leaves no torrent behind *)

\* A job that a step cancels has lost its torrent in that step, or is said to leak.
Cleaned ==
  \A j \in Jobs : job'[j] = "cancelled" /\ job[j] # "cancelled" =>
    j \in leaked' \/ torrent' = NoTorrent

LEMMA PurgeCleans ==
  ASSUME OwnInv, NEW deleted \in BOOLEAN, PurgeOver(deleted), deleted => torrent' = NoTorrent
  PROVE  leaked \subseteq leaked' /\ Cleaned
<1>1. leaked \subseteq leaked' BY DEF PurgeOver
<1>2. ASSUME NEW j \in Jobs, job'[j] = "cancelled", job[j] # "cancelled"
      PROVE  j \in leaked' \/ torrent' = NoTorrent
  <2>1. job \in [Jobs -> JobStates] BY DEF OwnInv, LifeInv
  <2>2. job' = [job EXCEPT ![J] = IF pipe.why = "cancel" THEN "cancelled" ELSE job[J]]
    BY DEF PurgeOver, EndAs
  <2>3. pipe.why = "cancel" /\ j = J BY <1>2, <2>1, <2>2
  <2> QED BY <2>3 DEF PurgeOver
<1> QED BY <1>1, <1>2 DEF Cleaned

\* Most steps leave the set of cancelled jobs as it is.
LEMMA OthersCancelNone ==
  ASSUME OwnInv, leaked' = leaked,
         \/ job' = job
         \/ \E j, s : s # "cancelled" /\ job' = [job EXCEPT ![j] = s]
  PROVE  leaked \subseteq leaked' /\ Cleaned
BY DEF OwnInv, LifeInv, Cleaned

LEMMA CancelledClean ==
  ASSUME OwnInv, QbitConstants, [Next]_vars
  PROVE  leaked \subseteq leaked' /\ Cleaned
<1>1. ASSUME NEW t, NEW pc, CallTo(t, pc) PROVE leaked \subseteq leaked' /\ Cleaned
  BY <1>1, OthersCancelNone DEF CallTo, Throw, EndAs, Local
<1>2. CASE UNCHANGED << job, leaked >> BY <1>2, OthersCancelNone
<1>3. CASE leaked' = leaked /\ Throw BY <1>3, OthersCancelNone DEF Throw, EndAs
<1>4. CASE CommitStep
  <2>1. CASE Evict \/ AddTags \/ SetCategory \/ Start
    BY <1>1, <2>1 DEF Evict, AddTags, SetCategory, Start
  <2>2. CASE Deselect \/ Select
    <3>1. (\E t, pc : CallTo(t, pc)) \/ (leaked' = leaked /\ Throw)
      BY <2>2 DEF Deselect, Select, SetPriorities, Local
    <3> QED BY <1>1, <1>3, <3>1
  <2>3. CASE ~(Evict \/ AddTags \/ SetCategory \/ Start \/ Deselect \/ Select)
    <3>1. leaked' = leaked
      BY <1>4, <2>3 DEF CommitStep, Inspected, Uninspected, UnknownIntake, Lookup, AddRefused, AddFresh,
             Metadata, Recheck, DropIntakeTag, Verify, Check, Contain, ReadFails, Local
    <3>2. job' = job \/ Throw
      BY <1>4, <2>3 DEF CommitStep, Inspected, Uninspected, UnknownIntake, Lookup, AddRefused, AddFresh,
             Metadata, Recheck, DropIntakeTag, Verify, Check, Contain, ReadFails
    <3> QED BY <1>2, <1>3, <3>1, <3>2
  <2> QED BY <2>1, <2>2, <2>3
<1>5. CASE Halt \/ Halting
  <2>1. pipe.why \in {"cancel", "critical", "done"}
    BY <1>5 DEF OwnInv, SelectedInv, Driven, AnyPipe, Stopping, Halt, Halting, At
  <2>2. AfterHalt => job' = job \/ Throw BY <2>1, Zenon DEF AfterHalt, Abandon
  <2>3. leaked' = leaked /\ (AfterHalt \/ job' = job) BY <1>5 DEF Halt, Halting, Local
  <2> QED BY <1>2, <1>3, <2>2, <2>3
<1>6. CASE PollStep
  <2>1. leaked' = leaked /\ (job' = job \/ Throw) BY <1>6, PollMoves, Types
  <2> QED BY <1>2, <1>3, <2>1
<1>7. CASE Kept
  <2>1. CASE leaked' = leaked /\ \E s \in {"failed", "complete"} : job' = [job EXCEPT ![J] = s]
    BY <2>1, OthersCancelNone
  <2>2. CASE job' = [job EXCEPT ![J] = "cancelled"] /\ leaked' = leaked \cup {J}
    <3>1. job \in [Jobs -> JobStates] BY DEF OwnInv, LifeInv
    <3>2. \A j \in Jobs : j # J => job'[j] = job[j] BY <2>2, <3>1
    <3> QED BY <2>2, <3>2 DEF Cleaned
  <2>3. CASE UNCHANGED << job, leaked >> BY <1>2, <2>3
  <2> QED BY <1>7, <2>1, <2>2, <2>3 DEF Kept, EndAs, Abandon
<1>8. CASE Prove
  <2>1. CASE UNCHANGED << job, leaked >> BY <1>2, <2>1
  <2>2. CASE PurgeOver(FALSE) BY <2>2, PurgeCleans
  <2>3. CASE PurgeOver(Proof(J, pipe.pc) = "gone")
    <3>1. Proof(J, pipe.pc) = "gone" => torrent = NoTorrent BY DEF Proof, Exists
    <3>2. torrent' = torrent BY <1>8 DEF Prove, Server
    <3> QED BY <2>3, <3>1, <3>2, PurgeCleans
  <2> QED BY <1>8, <2>1, <2>2, <2>3 DEF Prove
<1>9. CASE Erase
  <2>1. PICK o \in Outcomes : PurgeOver(o = "ok") /\ (o # "refused" => torrent' = NoTorrent)
    BY <1>9 DEF Erase
  <2> QED BY <2>1, PurgeCleans
<1>10. CASE \E j \in Jobs : FetchMetadata(j) \/ Begin(j)
  <2>1. leaked' = leaked /\ \E j \in Jobs, s \in {"draft", "downloading"} : job' = [job EXCEPT ![j] = s]
    BY <1>10 DEF FetchMetadata, Begin, History, Local
  <2> QED BY <2>1, OthersCancelNone
<1>11. CASE Restart
  <2>1. leaked' = leaked /\ job' = [j \in Jobs |-> IF job[j] = "downloading" THEN "failed" ELSE job[j]]
    BY <1>11 DEF Restart, History
  <2> QED BY <2>1 DEF Cleaned
<1>12. CASE \E j \in Jobs : DiscardStep(j)
  BY <1>2, <1>12 DEF DiscardStep, DiscardBegin, DiscardProve, DiscardErase, DiscardEnd, History
<1>13. CASE Cancel \/ SwapService \/ UserAdds \/ UserRemoves \/ UserTags \/ QbitStep \/ UNCHANGED vars
  BY <1>2, <1>13 DEF Cancel, SwapService, UserAdds, UserRemoves, UserTags, QbitStep, Local, vars
<1> QED BY <1>4, <1>5, <1>6, <1>7, <1>8, <1>9, <1>10, <1>11, <1>12, <1>13 DEF Next, DriveStep

LEMMA CancelStep ==
  ASSUME OwnInv, QbitConstants, CancelRemoves, [Next]_vars
  PROVE  CancelRemoves'
<1> SUFFICES ASSUME NEW j \in Jobs, job'[j] = "cancelled", j \notin leaked', torrent' # NoTorrent
             PROVE  j \notin Marks(torrent')
  BY DEF CancelRemoves, Exists
<1>1. job[j] = "cancelled" /\ j \notin leaked BY CancelledClean DEF Cleaned
<1>2. j \notin JobMarks(torrent) BY <1>1 DEF CancelRemoves, Exists, JobMarks
<1>3. j \notin Marking BY <1>1 DEF Marking, OwnInv, LifeInv, J
<1>4. j \notin JobMarks(torrent') BY <1>2, <1>3, Succession DEF Succeeds
<1> QED BY <1>4 DEF JobMarks

\* Once a job counts as cancelled, no torrent with its tag or category is in qBittorrent,
\* and no step of another job brings one back, unless the deletion failed.
THEOREM CancelCleans == Spec => []CancelRemoves
<1>1. Init => OwnInv /\ CancelRemoves
  BY QbitConstants, OwnInit DEF Init, CancelRemoves
<1>2. (OwnInv /\ CancelRemoves) /\ [Next]_vars => (OwnInv /\ CancelRemoves)'
  BY QbitConstants, OwnStep, CancelStep
<1> QED BY <1>1, <1>2, PTL DEF Spec

-----------------------------------------------------------------------------
(* A finished download keeps its files *)

\* A download that was seen complete is on its way to packaging, or there.
Finished ==
  \/ pipe.pc \in {"paths", "kept"}
  \/ pipe.pc \in Stopping \cup {"save"} /\ pipe.why = "done"

PayloadInv ==
  /\ Finished => raced \/ pipe.elsewhere \/ Selection[J] \subseteq data[J]
  /\ \A j \in Jobs : discard[j].pc = "erase" /\ torrent # NoTorrent /\ torrent.serial = discard[j].seen =>
       torrent.path = j

\* A torrent that a discard proved to be its job's stays in the job's directory.
LEMMA ProvedInPlace ==
  ASSUME OwnInv, PayloadInv, QbitConstants, [Next]_vars, NEW j \in Jobs,
         discard'[j].pc = "erase", torrent' # NoTorrent, torrent'.serial = discard'[j].seen
  PROVE  torrent'.path = j
<1>1. discard[j].seen <= adds /\ torrent.serial <= adds /\ adds \in Nat
      /\ discard[j].seen \in Nat /\ torrent.serial \in Nat
  BY Types DEF OwnInv, MarkInv, Numbered
<1>2. CASE discard'[j] = discard[j]
  <2>1. adds + 1 # discard[j].seen BY <1>1
  <2> QED BY <1>2, <2>1, Succession DEF Succeeds, PayloadInv
<1>3. CASE DiscardProve(j)
  <2>1. torrent' = torrent BY <1>3 DEF DiscardProve, Server
  <2>2. PICK r \in {Proof(j, discard[j].pc), "refused"} :
          discard' = [discard EXCEPT ![j] =
            [pc |-> IF r \in {"guard", "erase"} THEN r ELSE "rmdir", seen |-> torrent.serial]]
    BY <1>3 DEF DiscardProve
  <2>3. discard'[j].pc = IF r \in {"guard", "erase"} THEN r ELSE "rmdir" BY <2>2, Types
  <2>4. Proof(j, discard[j].pc) = "erase" BY <2>2, <2>3
  <2> QED BY <2>1, <2>4 DEF Proof, Owned
<1>4. discard'[j] = discard[j] \/ DiscardProve(j)
  <2>1. CASE \E k \in Jobs : DiscardStep(k)
    <3>1. PICK k \in Jobs : DiscardStep(k) BY <2>1
    <3>2. CASE k # j
      BY <3>1, <3>2, Types DEF DiscardStep, DiscardBegin, DiscardProve, DiscardErase, DiscardEnd
    <3>3. CASE k = j /\ (DiscardBegin(j) \/ DiscardErase(j))
      <4>1. PICK pc \in {"prove", "rmdir"} : discard' = [discard EXCEPT ![j].pc = pc]
        BY <3>3 DEF DiscardBegin, DiscardErase
      <4>2. discard'[j].pc = pc BY <4>1, Types DEF AnyDiscard
      <4> QED BY <4>2
    <3>4. CASE k = j /\ DiscardEnd(j)
      <4>1. discard'[j].pc = "idle" BY <3>4, Types DEF DiscardEnd, IdleDiscard
      <4> QED BY <4>1
    <3> QED BY <3>1, <3>2, <3>3, <3>4 DEF DiscardStep
  <2>2. CASE Restart
    <3>1. discard'[j].pc = "idle" BY <2>2 DEF Restart, IdleDiscard
    <3> QED BY <3>1
  <2>3. CASE CommitStep
    <3>1. discard' = discard
      BY <2>3 DEF CommitStep, Inspected, Uninspected, UnknownIntake, Lookup, Evict, AddRefused, AddFresh,
             Metadata, Recheck, AddTags, SetCategory, DropIntakeTag, Deselect, Select, Verify, Start,
             Check, Contain, CallTo, SetPriorities, ReadFails, Local
    <3> QED BY <3>1
  <2>4. CASE DriveStep
    <3>1. discard' = discard
      BY <2>4, PollMoves, Types DEF DriveStep, Halt, Halting, Kept, Prove, Erase, Local
    <3> QED BY <3>1
  <2>5. CASE (\E k \in Jobs : FetchMetadata(k) \/ Begin(k)) \/ Cancel \/ SwapService
             \/ UserAdds \/ UserRemoves \/ UserTags \/ QbitStep \/ UNCHANGED vars
    <3>1. discard' = discard
      BY <2>5 DEF FetchMetadata, Begin, Cancel, SwapService, UserAdds, UserRemoves, UserTags, QbitStep, Local, vars
    <3> QED BY <3>1
  <2> QED BY <2>1, <2>2, <2>3, <2>4, <2>5 DEF Next
<1> QED BY <1>2, <1>3, <1>4

\* While a job transfers, its files go only in a race.
LEMMA FilesStay ==
  ASSUME OwnInv, PayloadInv, QbitConstants, [Next]_vars, pipe.pc \in Transferring
  PROVE  (raced => raced') /\ (raced' \/ data[J] \subseteq data'[J])
<1>1. J \in Jobs /\ J \in Owners /\ job[J] = "downloading"
  BY HasJob DEF Transferring, OwnInv, LifeInv, J, Owners
<1>2. data \in [Owners -> SUBSET Files] BY DEF OwnInv, SelectedInv
<1>3. ASSUME NEW seen, NEW u, Touches(u, seen) PROVE raced => raced' BY <1>3 DEF Touches
<1>4. CASE raced' = raced /\ data' = data BY <1>4
<1>5. CASE \E j \in Jobs : DiscardErase(j)
  <2>1. PICK j \in Jobs : DiscardErase(j) BY <1>5
  <2>2. J # j BY <1>1, <2>1 DEF DiscardErase, OwnInv, LifeInv, Terminal
  <2>3. data' = data \/ data' = DeletedData(TRUE) BY <2>1 DEF DiscardErase
  <2>4. CASE data' = data BY <1>3, <2>1, <2>4 DEF DiscardErase
  <2>5. CASE torrent # NoTorrent /\ data' = DeletedData(TRUE) /\ data' # data
    <3>1. Touches(NoTorrent, discard[j].seen) BY <2>1, <2>5 DEF DiscardErase
    <3>2. CASE torrent.serial # discard[j].seen BY <2>5, <3>1, <3>2 DEF Touches
    <3>3. CASE torrent.serial = discard[j].seen
      <4>1. torrent.path = j BY <2>1, <2>5, <3>3 DEF PayloadInv, DiscardErase
      <4>2. data' = [data EXCEPT ![j] = {}] BY <2>5, <4>1 DEF DeletedData
      <4>3. data'[J] = data[J] BY <1>1, <1>2, <2>2, <4>2
      <4> QED BY <1>3, <3>1, <4>3
    <3> QED BY <3>2, <3>3
  <2> QED BY <2>3, <2>4, <2>5 DEF DeletedData, Exists
<1>6. CASE \E j \in Jobs : DiscardEnd(j)
  <2>1. PICK j \in Jobs : DiscardEnd(j) BY <1>6
  <2>2. J # j BY <1>1, <2>1 DEF DiscardEnd, OwnInv, LifeInv, Terminal
  <2>3. data' = [data EXCEPT ![j] = {}] /\ raced' = raced BY <2>1 DEF DiscardEnd, History
  <2> QED BY <1>1, <1>2, <2>2, <2>3
<1>7. CASE QbitStep
  <2>1. CASE data' = data BY <1>4, <1>7, <2>1 DEF QbitStep
  <2>2. CASE \E f : data' = [data EXCEPT ![torrent.path] = @ \cup {f}]
    <3>1. data[J] \subseteq data'[J] BY <1>1, <1>2, <2>2
    <3> QED BY <1>7, <3>1 DEF QbitStep
  <2> QED BY <1>7, <2>1, <2>2 DEF QbitStep
<1>8. CASE CommitStep
  <2>1. ASSUME NEW t, NEW pc, CallTo(t, pc) PROVE data' = data /\ (raced => raced')
    BY <2>1 DEF CallTo, Touches
  <2>2. data' = data
    BY <1>8, <2>1 DEF CommitStep, Inspected, Uninspected, UnknownIntake, Lookup, Evict, AddRefused, AddFresh,
           Metadata, Recheck, AddTags, SetCategory, DropIntakeTag, Deselect, Select, Verify, Start,
           Check, Contain, SetPriorities, ReadFails, Server
  <2>3. raced => raced'
    BY <1>8, <2>1 DEF CommitStep, Inspected, Uninspected, UnknownIntake, Lookup, Evict, AddRefused, AddFresh,
           Metadata, Recheck, AddTags, SetCategory, DropIntakeTag, Deselect, Select, Verify, Start,
           Check, Contain, SetPriorities, ReadFails, StopQuietly, Quietly, Touches
  <2> QED BY <2>2, <2>3
<1>9. CASE DriveStep
  <2>1. ~Prove /\ ~Erase BY DEF Prove, Erase, At, Transferring
  <2>2. CASE Halting
    <3>1. data' = data /\ \E u : Touches(u, pipe.seen) BY <2>2 DEF Halting, StopQuietly, Quietly
    <3> QED BY <1>3, <3>1
  <2>3. CASE ~Halting
    <3>1. data' = data /\ raced' = raced
      BY <1>9, <2>1, <2>3, PollMoves, Types DEF DriveStep, Halt, Kept, Server
    <3> QED BY <1>4, <3>1
  <2> QED BY <2>2, <2>3
<1>10. CASE (\E k \in Jobs : FetchMetadata(k) \/ Begin(k) \/ DiscardBegin(k) \/ DiscardProve(k))
            \/ Cancel \/ SwapService \/ Restart \/ UserAdds \/ UserRemoves \/ UserTags \/ UNCHANGED vars
  <2>1. raced' = raced /\ data' = data
    BY <1>10 DEF FetchMetadata, Begin, DiscardBegin, DiscardProve, Cancel, SwapService, Restart, UserAdds,
           UserRemoves, UserTags, Server, History, vars
  <2> QED BY <1>4, <2>1
<1> QED BY <1>5, <1>6, <1>7, <1>8, <1>9, <1>10 DEF Next, DiscardStep

\* Who finishes was finished before, or is being seen complete.
LEMMA BecomesFinished ==
  ASSUME OwnInv, QbitConstants, [Next]_vars, Finished'
  PROVE  /\ J' = J /\ pipe.pc \in Transferring
         /\ \/ Finished /\ pipe'.elsewhere = pipe.elsewhere
            \/ SelectedComplete /\ pipe'.elsewhere = (torrent.path # J)
<1>1. pipe \in AnyPipe BY Types
<1>2. pipe' # IdlePipe BY DEF Finished, IdlePipe, Stopping
<1>3. CASE pipe' = pipe BY <1>3 DEF Finished, J, Transferring, PipeStates, Stopping
<1>4. CASE CommitStep
  <2>1. \E pc \in PipeStates \ {"kept", "halt", "halting", "paths", "save"} : Goto(pc) \/ Look(pc)
    <3>1. ASSUME NEW t, NEW pc, CallTo(t, pc) PROVE Goto(pc) \/ pipe' = IdlePipe
      BY <3>1 DEF CallTo, Throw, EndAs
    <3>2. \E pc \in {"lookup", "add", "tag", "evict", "recheck", "metadata", "categorise", "untag", "deselect",
                     "select", "verify", "start", "check", "contain", "poll"} : Goto(pc) \/ Look(pc)
      BY <1>2, <1>4, <3>1 DEF CommitStep, Inspected, Uninspected, UnknownIntake, Lookup, Evict, AddRefused,
             AddFresh, Metadata, Recheck, AddTags, SetCategory, DropIntakeTag, Deselect, Select, Verify,
             Start, Check, Contain, SetPriorities, ReadFails, Throw, EndAs
    <3> QED BY <3>2 DEF PipeStates
  <2>2. PICK pc \in PipeStates \ {"kept", "halt", "halting", "paths", "save"} : pipe'.pc = pc
    BY <1>1, <2>1 DEF Goto, Look, AnyPipe
  <2> QED BY <2>2 DEF Finished, Stopping
<1>5. CASE PollFiles
  <2>1. pipe.pc \in Transferring BY <1>5 DEF PollFiles, At, Transferring, PipeStates
  <2>2. CASE SelectedComplete /\ pipe' = [pipe EXCEPT !.pc = "paths", !.elsewhere = torrent.path # J]
    BY <1>1, <2>1, <2>2 DEF AnyPipe, J
  <2>3. CASE pipe' = [pipe EXCEPT !.pc = "save", !.why = "none"]
    BY <1>1, <2>3 DEF AnyPipe, Finished, Stopping
  <2> QED BY <1>5, <2>2, <2>3 DEF PollFiles
<1>6. CASE DownloadDone
  <2>1. pipe.pc = "paths" /\ pipe.pc \in Transferring BY <1>6 DEF DownloadDone, At, Transferring, PipeStates
  <2>2. pipe' = [pipe EXCEPT !.pc = "save", !.why = "done"] BY <1>6 DEF DownloadDone
  <2> QED BY <1>1, <2>1, <2>2 DEF AnyPipe, Finished, J
<1>13. CASE PollSave
  <2>1. pipe.pc = "save" /\ pipe.pc \in Transferring BY <1>13 DEF PollSave, At, Transferring, PipeStates
  <2>2. CASE Goto(IF pipe.why = "done" THEN "halt" ELSE "poll")
    BY <1>1, <2>1, <2>2 DEF Goto, AnyPipe, Finished, Stopping, J
  <2>3. CASE \E w \in {"cancel", "critical"} : pipe' = [pipe EXCEPT !.pc = "halt", !.why = w]
    BY <1>1, <2>3 DEF AnyPipe, Finished, Stopping
  <2> QED BY <1>13, <2>2, <2>3 DEF PollSave
<1>14. CASE Poll \/ PollGivesUp \/ PollCancelled \/ PathsOutside
  <2>1. \/ Goto("files") \/ pipe' = [pipe EXCEPT !.pc = "halt", !.why = "cancel"]
        \/ pipe' = [pipe EXCEPT !.pc = "poll", !.elsewhere = FALSE]
    BY <1>2, <1>14 DEF Poll, PollGivesUp, PollCancelled, PathsOutside, Throw, EndAs
  <2> QED BY <1>1, <2>1 DEF Goto, AnyPipe, Finished, Stopping
<1>7. CASE Halt \/ Halting
  <2>1. pipe.pc \in Stopping /\ pipe.why \in {"cancel", "critical", "done"}
    BY <1>7 DEF OwnInv, SelectedInv, Driven, AnyPipe, Stopping, Halt, Halting, At
  <2>2. pipe.pc \in Transferring BY <2>1 DEF Stopping, Transferring, PipeStates
  <2>3. CASE Look("halting")
    <3>1. pipe'.why = pipe.why /\ pipe'.job = pipe.job /\ pipe'.pc = "halting"
          /\ pipe'.elsewhere = pipe.elsewhere
      BY <1>1, <2>3 DEF Look, AnyPipe
    <3> QED BY <2>1, <2>2, <3>1 DEF Finished, J
  <2>4. CASE AfterHalt
    <3>1. pipe.why = "cancel" => Goto("prove") BY <2>4 DEF AfterHalt
    <3>2. pipe.why = "critical" => Throw BY <2>4 DEF AfterHalt
    <3>3. pipe.why = "done" => Goto("kept") BY <1>2, <2>4 DEF AfterHalt, Abandon
    <3>4. pipe.why # "cancel"
      <4>1. Goto("prove") => pipe'.pc = "prove" BY <1>1 DEF Goto, AnyPipe
      <4> QED BY <3>1, <4>1 DEF Finished, Stopping
    <3>5. pipe.why # "critical" BY <1>2, <3>2 DEF Throw, EndAs
    <3>6. pipe'.job = pipe.job /\ pipe'.elsewhere = pipe.elsewhere
      BY <1>1, <2>1, <3>3, <3>4, <3>5 DEF Goto, AnyPipe
    <3> QED BY <2>1, <2>2, <3>4, <3>5, <3>6 DEF Finished, J
  <2> QED BY <1>7, <2>3, <2>4 DEF Halt, Halting
<1>8. CASE Kept \/ Prove
  <2>1. \E pc \in {"prove", "guard", "erase"} : Goto(pc) \/ Look(pc)
    BY <1>2, <1>8 DEF Kept, Prove, PurgeOver, EndAs, Abandon
  <2> QED BY <1>1, <2>1 DEF Goto, Look, AnyPipe, Finished, Stopping
<1>9. CASE Erase \/ Restart
  BY <1>2, <1>9 DEF Erase, Restart, PurgeOver, EndAs
<1>10. CASE \E j \in Jobs : Begin(j)
  <2>1. pipe'.pc \in {"lookup", "inspect"} BY <1>10 DEF Begin, IdlePipe, ResolveIntake
  <2> QED BY <2>1 DEF Finished, Stopping
<1>11. CASE Cancel
  <2>1. pipe'.pc = pipe.pc /\ pipe'.why = pipe.why /\ pipe'.job = pipe.job
        /\ pipe'.elsewhere = pipe.elsewhere
    BY <1>1, <1>11 DEF Cancel, AnyPipe
  <2> QED BY <2>1 DEF Finished, J, Transferring, PipeStates, Stopping
<1>12. CASE (\E j \in Jobs : FetchMetadata(j) \/ DiscardStep(j)) \/ SwapService
            \/ UserAdds \/ UserRemoves \/ UserTags \/ QbitStep \/ UNCHANGED vars
  BY <1>3, <1>12 DEF FetchMetadata, DiscardStep, DiscardBegin, DiscardProve, DiscardErase, DiscardEnd, SwapService,
       UserAdds, UserRemoves, UserTags, QbitStep, vars
<1> QED BY <1>4, <1>5, <1>6, <1>7, <1>8, <1>9, <1>10, <1>11, <1>12, <1>13, <1>14
      DEF Next, DriveStep, PollStep

LEMMA PayloadStep ==
  ASSUME OwnInv, PayloadInv, QbitConstants, [Next]_vars
  PROVE  PayloadInv'
<1>1. ASSUME Finished', ~pipe'.elsewhere PROVE raced' \/ Selection[J]' \subseteq (data[J])'
  <2>1. /\ J' = J /\ pipe.pc \in Transferring
        /\ \/ Finished /\ ~pipe.elsewhere
           \/ SelectedComplete /\ torrent.path = J
    BY <1>1, BecomesFinished
  <2>2. raced \/ Selection[J] \subseteq data[J] BY <2>1 DEF PayloadInv, SelectedComplete
  <2> QED BY <2>1, <2>2, FilesStay
<1>2. \A j \in Jobs : discard'[j].pc = "erase" /\ torrent' # NoTorrent /\ torrent'.serial = discard'[j].seen =>
        torrent'.path = j
  BY ProvedInPlace
<1> QED BY <1>1, <1>2 DEF PayloadInv

\* What is handed to packaging is there: no commit, cancel or discard of another job of the
\* same torrent takes the files of a job whose download was seen complete, short of a race.
THEOREM PayloadStays == Spec => []KeptPayload
<1>1. Init => OwnInv /\ PayloadInv
  <2>1. ASSUME Init PROVE PayloadInv
    <3>1. ~Finished BY <2>1 DEF Init, Finished, Stopping, IdlePipe
    <3>2. torrent = NoTorrent BY <2>1 DEF Init
    <3> QED BY <3>1, <3>2 DEF PayloadInv
  <2> QED BY <2>1, QbitConstants, OwnInit
<1>2. (OwnInv /\ PayloadInv) /\ [Next]_vars => (OwnInv /\ PayloadInv)'
  BY QbitConstants, OwnStep, PayloadStep
<1>3. PayloadInv => KeptPayload BY DEF PayloadInv, Finished, KeptPayload, At
<1> QED BY <1>1, <1>2, <1>3, PTL DEF Spec

=============================================================================
