----------------------------- MODULE Packaging -----------------------------
(* The packaging phase of one job: the gate and the retries of the pipeline *)
(* (jobs/pipeline.ts), the packager (package/packager.ts) and the streams   *)
(* of the ZIP writer (package/zipWriter.ts), on a disk that others use too. *)
(* Every callback of a stream is a step, so an abort, an error and the end  *)
(* of the output come in any order.  A cancel before the ZIP is begun and   *)
(* what follows the phase are JobEngine's.                                  *)
EXTENDS StoragePolicy, FiniteSets, FiniteSetsExt

CONSTANTS
  Files,       \* the selected files, two or more
  Size,        \* Size[f]: what the metadata says of f
  Capacity,    \* bound: the bytes of the volume
  MaxFaults    \* bound: how often a call of the system fails, a source is
               \* damaged, or somebody else takes or frees space

ASSUME PackagingAssumption ==
  IsFiniteSet(Files) /\ Files # {} /\ Size \in [Files -> Nat] /\ Capacity \in Nat

VARIABLES
  pc,        \* where the pipeline and its packager are
  aborted,   \* #zipAbort, which is set together with #cancelRequested
  src,       \* src[f]: the downloaded file as it is on the disk
  checked,   \* validateSources: the files it has found whole
  out,       \* the output stream
  streams,   \* streams[f]: the source stream of an entry
  settled,   \* whether settle() was called, and with what
  partial,   \* <name>.partial.zip
  final,     \* <name>.zip
  free,      \* what the volume has left
  faults,    \* how much of MaxFaults is used
  renamed,   \* sanitizeBaseName changes the name of the torrent
  cut,       \* ghost: files that were shortened after they were found whole
  others,    \* ghost: somebody took space after the fresh check
  escaped,   \* ghost: an abort or a late open left the partial file behind
  stuck      \* ghost: a removal failed for good

job_vars == <<pc, aborted, checked>>
stream_vars == <<out, streams, settled>>
disk_vars == <<src, partial, final, free>>
ghosts == <<cut, others, escaped, stuck>>
vars == <<job_vars, stream_vars, disk_vars, ghosts, faults, renamed>>

\* A file that is not there, and one without an entry and a directory of them.
Absent == [there |-> FALSE, ended |-> FALSE, has |-> [f \in Files |-> "none"]]

Empty == [Absent EXCEPT !.there = TRUE]

Steps == {"validate", "probe", "write", "wrote", "publish", "clean", "thrown", "returned"}

Total(bytes, files) == MapThenSumSet(LAMBDA f : bytes[f], files)

Selected == Total(Size, Files)

\* What the entry of a file takes, and a ZIP with its entries.
Entry == [f \in Files |-> Size[f] + ZipPerFile]

Taken(zip) ==
  IF zip.there
  THEN Total(Entry, {f \in Files : zip.has[f] # "none"}) + (IF zip.ended THEN ZipFixed ELSE 0)
  ELSE 0

TypeOK ==
  /\ pc \in Steps \union {"downloaded", "no_space", "packed", "failed", "cancelled"}
  /\ aborted \in BOOLEAN /\ src \in [Files -> {"whole", "short", "gone"}]
  /\ checked \subseteq Files /\ cut \subseteq Files
  /\ out \in {"none", "opening", "open", "closed"}
  /\ streams \in [Files -> {"none", "opening", "open", "done"}]
  /\ settled \in {"no", "ok", "error"}
  /\ {partial, final} \subseteq [there : BOOLEAN, ended : BOOLEAN, has : [Files -> {"none", "short", "whole"}]]
  /\ free \in 0..Capacity

Init ==
  /\ pc = "downloaded" /\ aborted = FALSE /\ checked = {}
  /\ out = "none" /\ streams = [f \in Files |-> "none"] /\ settled = "no"
  /\ src = [f \in Files |-> "whole"] /\ partial = Absent /\ final = Absent
  /\ free \in 0..Capacity /\ faults = 0 /\ renamed \in BOOLEAN
  /\ cut = {} /\ others = FALSE /\ escaped = FALSE /\ stuck = FALSE

Fault == faults < MaxFaults /\ faults' = faults + 1 /\ UNCHANGED renamed

NoFault == UNCHANGED <<faults, renamed>>

------------------------------------------------------------------------------
(* The pipeline.                                                            *)

\* #runPackaging to the first await of the packager.
BeginZip == pc' = "validate" /\ aborted' = FALSE /\ checked' = {} /\ cut' = {}

\* #gatePackagingOnStorage.  A volume that cannot be read does not block.
Gate ==
  /\ pc = "downloaded"
  /\ \/ PackagingAllowed(free, Selected, Cardinality(Files)) /\ BeginZip /\ NoFault
     \/ Fault /\ BeginZip
     \/ /\ ~PackagingAllowed(free, Selected, Cardinality(Files)) /\ NoFault
        /\ pc' = "no_space" /\ UNCHANGED <<aborted, checked, cut>>
  /\ UNCHANGED <<stream_vars, disk_vars, others, escaped, stuck>>

RetryStorageCheck ==
  /\ pc = "no_space"
  /\ pc' = "downloaded"
  /\ UNCHANGED <<aborted, checked, stream_vars, disk_vars, ghosts, faults, renamed>>

\* A source that is missing keeps the job failed; a shorter one is found by
\* the packager.
RetryPackaging ==
  /\ pc = "failed" /\ out \in {"none", "closed"}
  /\ \A f \in Files : src[f] # "gone"
  /\ BeginZip
  /\ UNCHANGED <<stream_vars, disk_vars, others, escaped, stuck, faults, renamed>>

\* cancel() of a job in the state packaging.  The listener of the writer hears
\* of it as long as the streams have not settled.
Cancel ==
  /\ pc \in Steps /\ ~aborted
  /\ aborted' = TRUE
  /\ IF pc = "write" /\ settled = "no" THEN settled' = "error" ELSE UNCHANGED settled
  /\ UNCHANGED <<pc, checked, out, streams, disk_vars, ghosts, faults, renamed>>

\* #removePartialZip takes the name the pipeline gave to the ZIP, which is not
\* its name when the packager had to change it.
Removed == IF renamed THEN final ELSE Absent

Ended ==
  CASE aborted                    -> "cancelled"
    [] ~aborted /\ pc = "returned" -> "packed"
    [] OTHER                      -> "failed"

\* What #runPackaging does with the end of createZip.
EndZip ==
  /\ pc \in {"returned", "thrown"}
  /\ pc' = Ended
  /\ IF Ended = "packed"
     THEN UNCHANGED <<final, free, stuck>> /\ NoFault
     ELSE \/ /\ final' = Removed
             /\ free' = free + Taken(final) - Taken(Removed)
             /\ UNCHANGED stuck /\ NoFault
          \/ /\ Fault /\ stuck' = TRUE /\ UNCHANGED <<final, free>>
  /\ UNCHANGED <<aborted, checked, stream_vars, src, partial, cut, others, escaped>>

------------------------------------------------------------------------------
(* The packager.                                                            *)

\* validateSources, one file after the other, and the look at the signal after
\* the last.
Validate(f) ==
  /\ pc = "validate" /\ f \notin checked
  /\ IF src[f] = "whole"
     THEN /\ checked' = checked \union {f}
          /\ pc' = CASE checked' # Files -> "validate"
                     [] checked' = Files /\ aborted -> "thrown"
                     [] OTHER -> "probe"
     ELSE pc' = "thrown" /\ UNCHANGED checked
  /\ NoFault
  /\ UNCHANGED <<aborted, stream_vars, disk_vars, ghosts>>

\* The fresh check, the directory, and the streams: every source is opened at
\* once.
Probe ==
  /\ pc = "probe"
  /\ \/ /\ PackagingAllowed(free, Selected, Cardinality(Files)) /\ ~aborted
        /\ pc' = "write" /\ others' = FALSE
        /\ out' = "opening" /\ streams' = [f \in Files |-> "opening"] /\ settled' = "no"
        /\ NoFault
     \/ /\ ~PackagingAllowed(free, Selected, Cardinality(Files)) \/ aborted
        /\ pc' = "thrown" /\ NoFault /\ UNCHANGED <<stream_vars, others>>
     \/ pc' = "thrown" /\ Fault /\ UNCHANGED <<stream_vars, others>>
  /\ UNCHANGED <<aborted, checked, disk_vars, cut, escaped, stuck>>

Writing == pc = "write" /\ settled = "no"

SettleWith(error) == settled' = error

\* The output is opened, which makes the file; it may be destroyed by then, and
\* its partial file removed.
OutputOpens ==
  /\ out = "opening"
  /\ \/ /\ partial' = Empty /\ free' = free + Taken(partial)
        /\ out' = IF Writing THEN "open" ELSE "closed"
        /\ escaped' = (escaped \/ pc \notin {"write", "clean"})
        /\ UNCHANGED settled /\ NoFault
     \/ /\ Fault /\ out' = "closed"
        /\ IF Writing THEN SettleWith("error") ELSE UNCHANGED settled
        /\ UNCHANGED <<partial, free, escaped>>
  /\ UNCHANGED <<job_vars, streams, src, final, cut, others, stuck>>

\* Mutant: nobody listens to the errors of a source.
SourceErrorLost(f) ==
  /\ Writing /\ streams[f] = "opening" /\ src[f] # "gone"
  /\ streams' = [streams EXCEPT ![f] = "open"]
  /\ UNCHANGED <<job_vars, out, settled, disk_vars, ghosts, faults, renamed>>

\* A source is opened, or is gone by now.
SourceOpens(f) ==
  /\ Writing /\ streams[f] = "opening"
  /\ IF src[f] = "gone"
     THEN SettleWith("error") /\ UNCHANGED streams
     ELSE streams' = [streams EXCEPT ![f] = "open"] /\ UNCHANGED settled
  /\ UNCHANGED <<job_vars, out, disk_vars, ghosts, faults, renamed>>

\* The archive takes the entries one at a time.  A source that ends early is no
\* error; a full disk is one of the output.
Append(f) ==
  /\ Writing /\ out = "open" /\ streams[f] = "open"
  /\ IF free >= Entry[f]
     THEN /\ partial' = [partial EXCEPT !.has[f] = IF src[f] = "short" THEN "short" ELSE "whole"]
          /\ free' = free - Entry[f]
          /\ streams' = [streams EXCEPT ![f] = "done"]
          /\ UNCHANGED settled
     ELSE SettleWith("error") /\ UNCHANGED <<partial, free, streams>>
  /\ UNCHANGED <<job_vars, out, src, final, ghosts, faults, renamed>>

StreamFails ==
  /\ Writing /\ Fault
  /\ SettleWith("error")
  /\ UNCHANGED <<job_vars, out, streams, disk_vars, ghosts>>

\* finalize, which writes the directory of the ZIP, and the close of the output.
OutputCloses ==
  /\ Writing /\ out = "open" /\ \A f \in Files : streams[f] = "done"
  /\ IF free >= ZipFixed
     THEN /\ SettleWith("ok") /\ out' = "closed"
          /\ partial' = [partial EXCEPT !.ended = TRUE] /\ free' = free - ZipFixed
     ELSE SettleWith("error") /\ UNCHANGED <<out, partial, free>>
  /\ UNCHANGED <<job_vars, streams, src, final, ghosts, faults, renamed>>

\* After the streams have settled: destroyAll, or the sync and the stat.
WriterEnds ==
  /\ pc = "write" /\ settled # "no"
  /\ out' = IF out = "open" THEN "closed" ELSE out
  /\ \/ settled = "ok" /\ pc' = "wrote" /\ NoFault
     \/ settled = "ok" /\ pc' = "clean" /\ Fault
     \/ settled = "error" /\ pc' = "clean" /\ NoFault
  /\ UNCHANGED <<aborted, checked, streams, settled, disk_vars, ghosts>>

\* assertNotAborted between the write and the rename is outside of both try
\* blocks.
LookAgain ==
  /\ pc = "wrote"
  /\ pc' = IF aborted THEN "thrown" ELSE "publish"
  /\ escaped' = (escaped \/ aborted)
  /\ UNCHANGED <<aborted, checked, stream_vars, disk_vars, cut, others, stuck, faults, renamed>>

\* Mutant: a rename that fails is reported without removing the partial file.
PublishWithoutCleaning ==
  /\ pc = "publish"
  /\ \/ /\ final' = partial /\ partial' = Absent /\ free' = free + Taken(final)
        /\ pc' = "returned" /\ NoFault
     \/ /\ final' = Absent /\ free' = free + Taken(final)
        /\ pc' = "thrown" /\ Fault /\ UNCHANGED partial
  /\ UNCHANGED <<aborted, checked, stream_vars, src, ghosts>>

\* The rename over the removed old file.
Publish ==
  /\ pc = "publish"
  /\ \/ /\ final' = partial /\ partial' = Absent /\ free' = free + Taken(final)
        /\ pc' = "returned" /\ NoFault
     \/ /\ final' = Absent /\ free' = free + Taken(final)
        /\ pc' = "clean" /\ Fault /\ UNCHANGED partial
  /\ UNCHANGED <<aborted, checked, stream_vars, src, ghosts>>

\* removePartialBestEffort, ten times at the most.
Clean ==
  /\ pc = "clean"
  /\ pc' = "thrown"
  /\ \/ partial' = Absent /\ free' = free + Taken(partial) /\ UNCHANGED stuck /\ NoFault
     \/ Fault /\ stuck' = TRUE /\ UNCHANGED <<partial, free>>
  /\ UNCHANGED <<aborted, checked, stream_vars, src, final, cut, others, escaped>>

------------------------------------------------------------------------------
(* Others.                                                                  *)

\* A downloaded file is shortened or removed by another program.
Damage(f) ==
  /\ Fault
  /\ \E s \in {"short", "gone"} : s # src[f] /\ src' = [src EXCEPT ![f] = s]
  /\ cut' = IF f \in checked THEN cut \union {f} ELSE cut
  /\ UNCHANGED <<job_vars, stream_vars, partial, final, free, others, escaped, stuck>>

\* Somebody else takes or frees space.
Elsewhere ==
  /\ Fault
  /\ free' \in (0..(Capacity - Taken(partial) - Taken(final))) \ {free}
  /\ others' = (others \/ free' < free)
  /\ UNCHANGED <<job_vars, stream_vars, src, partial, final, cut, escaped, stuck>>

Packager ==
  \/ Probe \/ OutputOpens \/ StreamFails \/ OutputCloses \/ WriterEnds
  \/ LookAgain \/ Publish \/ Clean
  \/ \E f \in Files : Validate(f) \/ SourceOpens(f) \/ Append(f)

Next ==
  \/ Gate \/ RetryStorageCheck \/ RetryPackaging \/ Cancel \/ EndZip
  \/ Packager
  \/ Elsewhere
  \/ \E f \in Files : Damage(f)

Spec == Init /\ [][Next]_vars

\* The calls and streams of the system come to an end.
FairSpec == Spec /\ WF_vars(EndZip) /\ WF_vars(Packager)

------------------------------------------------------------------------------
(* Properties.                                                              *)

PackedWhole ==
  pc = "packed" =>
    /\ final.there /\ \A f \in Files : final.has[f] = "whole" \/ f \in cut
    /\ ~partial.there \/ escaped \/ stuck

ReserveLeft ==
  pc = "packed" => others \/ free >= ComputeSafetyReserve(Selected)

\* What a packaging that succeeds leaves: the ZIP with every selected file as it
\* was validated (a file shortened after that goes in short, and only then),
\* no partial file beside it, and the safety reserve of the volume, unless
\* somebody else took space since the fresh check.
PackedSafely == PackedWhole /\ ReserveLeft

\* A packaging that failed or was cancelled leaves no partial and no final ZIP,
\* however an abort, a failing stream, a full disk and the end of the output
\* race, except where a removal failed for good, where the abort came between
\* the write and the rename or the output was opened after its removal, and
\* where the torrent's name is not the name of its ZIP.
NothingSurvives ==
  pc \in {"failed", "cancelled"} =>
    /\ partial.there => escaped \/ stuck
    /\ final.there => renamed \/ stuck

\* The packager always comes to an end, whichever of its streams fails first,
\* and a cancel it was sent in time is the outcome.
PackagingEnds ==
  /\ pc \in Steps ~> pc \in {"packed", "failed", "cancelled"}
  /\ pc \in Steps /\ aborted ~> pc = "cancelled"
=============================================================================
