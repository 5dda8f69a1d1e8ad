---------------------------- MODULE VikingUpload ----------------------------
(***************************************************************************)
(* One VikingClient.uploadFile (viking-client.ts): a multipart session is  *)
(* created, a pool of workers sends the parts, the upload is completed.    *)
(* A step is the code between two awaits: an answer, a failure, a chunk    *)
(* handed to the socket, the end of a back-off, an abort.                  *)
(***************************************************************************)
EXTENDS Integers, FiniteSetsExt

CONSTANTS
  Size,         \* of the file, in chunks of the read stream
  PartSize,     \* as the server says, in chunks
  Concurrency,  \* workers at most
  MaxAttempts,  \* of one API call or of one part
  EarlyAnswers  \* whether the server may refuse a part before it has read it all

ASSUME UploadConstants ==
  /\ Size \in Nat \ {0}
  /\ PartSize \in Nat \ {0}
  /\ Concurrency \in Nat \ {0}
  /\ MaxAttempts \in Nat \ {0}
  /\ EarlyAnswers \in BOOLEAN

-----------------------------------------------------------------------------
(* computeParts: the loop that steps through the file by PartSize *)

PartStart(i)  == i * PartSize
Parts         == { i \in 0 .. Size - 1 : PartStart(i) < Size }
PartEnd(i)    == IF PartStart(i) + PartSize <= Size THEN PartStart(i) + PartSize - 1 ELSE Size - 1
PartLength(i) == PartEnd(i) - PartStart(i) + 1

\* As many workers as there are parts, at most Concurrency.
Workers == { w \in 1 .. Concurrency : w - 1 \in Parts }

-----------------------------------------------------------------------------

VARIABLES
  phase,      \* what uploadFile awaits, or how it ended
  call,       \* the API call of the phase: [pc, attempt]
  aborted,    \* the AbortSignal
  nextIndex,  \* the next part nobody has taken
  worker,     \* the pool
  results,    \* parts acknowledged with an ETag
  uploaded,   \* state.uploadedBytes
  stray,      \* chunks that streams of refused attempts still hand to the socket
  published   \* parts the server put together, {} before it did

vars == << phase, call, aborted, nextIndex, worker, results, uploaded, stray, published >>

Idle == [pc |-> "unborn", part |-> 0, attempt |-> 0, written |-> 0]

Calls == [ pc : {"flying", "sleeping"}, attempt : 1 .. MaxAttempts ]
FirstTry == [pc |-> "flying", attempt |-> 1]

TypeOK ==
  /\ phase \in {"session", "parts", "complete", "done", "failed"}
  /\ call \in Calls
  /\ aborted \in BOOLEAN
  /\ nextIndex \in Nat
  /\ worker \in [Workers -> [ pc : {"unborn", "sending", "sleeping", "returned", "failed"},
                              part : Parts, attempt : 0 .. MaxAttempts, written : 0 .. PartSize ]]
  /\ results \subseteq Parts
  /\ uploaded \in Nat
  /\ stray \in Nat
  /\ published \subseteq Parts

Init ==
  /\ phase = "session"
  /\ call = FirstTry
  /\ aborted = FALSE
  /\ nextIndex = 0
  /\ worker = [w \in Workers |-> Idle]
  /\ results = {}
  /\ uploaded = 0
  /\ stray = 0
  /\ published = {}

pool   == << nextIndex, worker, results >>
counts == << uploaded, stray >>

\* The signal of the caller; it destroys every request in flight.
Abort ==
  /\ ~aborted
  /\ phase \notin {"done", "failed"}
  /\ aborted' = TRUE
  /\ UNCHANGED << phase, call, pool, counts, published >>

-----------------------------------------------------------------------------
(* postFormWithRetry: get-upload-url and complete-upload *)

Calling == phase \in {"session", "complete"}

\* A transient failure with attempts left is slept over, any other ends the upload.
\* The server may have done what it was asked before its answer was lost.
CallFails ==
  /\ Calling /\ call.pc = "flying"
  /\ \/ /\ call.attempt < MaxAttempts /\ ~aborted
        /\ call' = [call EXCEPT !.pc = "sleeping"]
        /\ UNCHANGED phase
     \/ phase' = "failed" /\ UNCHANGED call
  /\ \/ phase = "complete" /\ published' = results
     \/ UNCHANGED published
  /\ UNCHANGED << aborted, pool, counts >>

\* sleepWithAbort resolves.
CallAgain ==
  /\ Calling /\ call.pc = "sleeping" /\ ~aborted
  /\ call' = [pc |-> "flying", attempt |-> call.attempt + 1]
  /\ UNCHANGED << phase, aborted, pool, counts, published >>

\* sleepWithAbort rejects.
CallAborted ==
  /\ Calling /\ call.pc = "sleeping" /\ aborted
  /\ phase' = "failed"
  /\ UNCHANGED << call, aborted, pool, counts, published >>

\* The workers are created and each takes a part before anything else happens.  A
\* session whose URLs do not match the byte ranges is refused.
SessionCreated ==
  /\ phase = "session" /\ call.pc = "flying" /\ ~aborted
  /\ \/ /\ phase' = "parts"
        /\ \E n \in 1 .. Concurrency : Workers = 1 .. n /\ nextIndex' = n
        /\ worker' = [w \in Workers |->
             [pc |-> "sending", part |-> w - 1, attempt |-> 1, written |-> 0]]
     \/ phase' = "failed" /\ UNCHANGED << nextIndex, worker >>
  /\ UNCHANGED << call, aborted, results, counts, published >>

Completed ==
  /\ phase = "complete" /\ call.pc = "flying" /\ ~aborted
  /\ published' = results
  /\ phase' = "done"
  /\ UNCHANGED << call, aborted, pool, counts >>

-----------------------------------------------------------------------------
(* uploadOnePart and the worker pool *)

Part(w) == worker[w].part

\* Mutant of AfterParts: Promise.allSettled.
AfterPartsSettled(ws) ==
  IF phase = "parts" /\ \A w \in Workers : ws[w].pc \in {"returned", "failed"}
  THEN "complete"
  ELSE phase

\* Promise.all over the workers: the first rejection ends the upload, its siblings go on.
AfterParts(ws) ==
  IF phase # "parts" THEN phase
  ELSE IF \E w \in Workers : ws[w].pc = "failed" THEN "failed"
  ELSE IF \A w \in Workers : ws[w].pc = "returned" THEN "complete"
  ELSE "parts"

\* Mutant of Take: the index after its own, not the shared one.
TakeOwnNext(w) ==
  [worker EXCEPT ![w] =
     IF @.part + 1 \in Parts
     THEN [pc |-> "sending", part |-> @.part + 1, attempt |-> 1, written |-> 0]
     ELSE [@ EXCEPT !.pc = "returned"]]

\* The worker's loop: the next part, if there is one.  Its look at the signal finds
\* nothing new, since an abort fails the request whose answer it would come from.
Take(w) ==
  [worker EXCEPT ![w] =
     IF nextIndex \in Parts
     THEN [pc |-> "sending", part |-> nextIndex, attempt |-> 1, written |-> 0]
     ELSE [@ EXCEPT !.pc = "returned"]]

ChunkSent(w) ==
  /\ worker[w].pc = "sending" /\ ~aborted
  /\ worker[w].written < PartLength(Part(w))
  /\ worker' = [worker EXCEPT ![w].written = @ + 1]
  /\ uploaded' = uploaded + 1
  /\ UNCHANGED << phase, call, aborted, nextIndex, results, stray, published >>

\* A 2xx answer with an ETag.
PartDone(w) ==
  /\ worker[w].pc = "sending" /\ ~aborted
  /\ worker[w].written = PartLength(Part(w))
  /\ results' = results \cup {Part(w)}
  /\ worker' = Take(w)
  /\ nextIndex' = nextIndex + 1
  /\ phase' = AfterParts(worker')
  /\ call' = IF phase' = "complete" THEN FirstTry ELSE call
  /\ UNCHANGED << aborted, counts, published >>

\* An answer that refuses the part (stray: the stream it was sent from goes on until
\* the part is through), a reset, a stall: what was counted is taken back.
Rollback(w, answered) ==
  /\ uploaded' = uploaded - worker[w].written
  /\ stray' = stray + IF answered THEN PartLength(Part(w)) - worker[w].written ELSE 0

PartFails(w) ==
  /\ worker[w].pc = "sending"
  /\ \E answered \in BOOLEAN :
       /\ answered => EarlyAnswers /\ ~aborted
       /\ Rollback(w, answered)
  /\ \E pc \in {"sleeping", "failed"} :
       /\ pc = "sleeping" => worker[w].attempt < MaxAttempts /\ ~aborted
       /\ worker' = [worker EXCEPT ![w].pc = pc, ![w].written = 0]
  /\ phase' = AfterParts(worker')
  /\ UNCHANGED << call, aborted, nextIndex, results, published >>

\* Mutant of PartAgain: the attempt is not counted.
PartAgainUncounted(w) ==
  /\ worker[w].pc = "sleeping" /\ ~aborted
  /\ worker' = [worker EXCEPT ![w].pc = "sending"]
  /\ UNCHANGED << phase, call, aborted, nextIndex, results, counts, published >>

\* Mutant of PartAgain: the sleep is not told of the abort.
PartAgainDeaf(w) ==
  /\ worker[w].pc = "sleeping"
  /\ worker' = [worker EXCEPT ![w].pc = "sending", ![w].attempt = @ + 1]
  /\ UNCHANGED << phase, call, aborted, nextIndex, results, counts, published >>

PartAgain(w) ==
  /\ worker[w].pc = "sleeping" /\ ~aborted
  /\ worker' = [worker EXCEPT ![w].pc = "sending", ![w].attempt = @ + 1]
  /\ UNCHANGED << phase, call, aborted, nextIndex, results, counts, published >>

PartAborted(w) ==
  /\ worker[w].pc = "sleeping" /\ aborted
  /\ worker' = [worker EXCEPT ![w].pc = "failed"]
  /\ phase' = AfterParts(worker')
  /\ UNCHANGED << call, aborted, nextIndex, results, counts, published >>

\* The stream of a refused attempt is still piped: its chunks are counted too.
StrayChunk ==
  /\ stray > 0
  /\ stray' = stray - 1
  /\ uploaded' = uploaded + 1
  /\ UNCHANGED << phase, call, aborted, pool, published >>

\* The socket of a refused attempt closes, which destroys its stream.
StrayCut ==
  /\ stray > 0
  /\ \E left \in 0 .. stray - 1 : stray' = left
  /\ UNCHANGED << phase, call, aborted, pool, uploaded, published >>

-----------------------------------------------------------------------------

CallStep == CallFails \/ CallAgain \/ CallAborted \/ SessionCreated \/ Completed

WorkerStep(w) ==
  ChunkSent(w) \/ PartDone(w) \/ PartFails(w) \/ PartAgain(w) \/ PartAborted(w)

Next ==
  \/ Abort
  \/ CallStep
  \/ \E w \in Workers : WorkerStep(w)
  \/ StrayChunk \/ StrayCut

Spec == Init /\ [][Next]_vars

\* Every request carries a stall timeout and every sleep a timer, so each call and
\* each worker goes on; nothing is assumed of what the server answers.
Fairness == WF_vars(CallStep) /\ \A w \in Workers : WF_vars(WorkerStep(w))

FairSpec == Spec /\ Fairness

-----------------------------------------------------------------------------
(* Properties *)

Live(w) == worker[w].pc \in {"sending", "sleeping"}

\* complete-upload is sent only with the ETags of every part, although results has the
\* right length from the start: nothing partial is ever published.
PublishedWhole ==
  /\ phase \in {"complete", "done"} => results = Parts
  /\ published # {} => published = Parts

\* The workers share nextIndex and never send a part twice, in parallel or one after
\* the other ("never double-count retransmits" rests on it).
PartSentOnce ==
  \A w \in Workers : Live(w) =>
    /\ Part(w) \notin results
    /\ \A v \in Workers \ {w} : Live(v) => Part(v) # Part(w)

\* "cancellation destroys in-flight requests, stops scheduling new parts": once aborted
\* nothing new is sent, neither a part nor a call.
NothingAfterAbort ==
  [][aborted =>
       /\ \A w \in Workers :
            worker'[w].pc = "sending" => worker'[w] = worker[w]
       /\ call'.pc = "flying" => call' = call]_vars

\* An upload ends, aborted or not, and so do the workers its end left behind.
UploadEnds ==
  <>(phase \in {"done", "failed"} /\ \A w \in Workers : ~Live(w))
=============================================================================
