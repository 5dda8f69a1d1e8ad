------------------------- MODULE VikingUploadProofs -------------------------
(* The part pool of VikingUpload: no part is sent twice, an upload is completed *)
(* with all of its parts only, and an abort lets nothing new out.               *)
EXTENDS VikingUpload, TLAPS

States == {"unborn", "sending", "sleeping", "returned", "failed"}

WorkersOK ==
  worker \in [Workers -> [pc : States, part : Parts, attempt : Nat, written : Nat]]

CallOK == call \in [pc : {"flying", "sleeping"}, attempt : Nat]

PoolOK ==
  /\ phase \in {"session", "parts", "complete", "done", "failed"}
  /\ nextIndex \in Nat
  /\ WorkersOK
  /\ results \subseteq Parts

\* Before the session there is no pool, after it no worker is unborn.
Born ==
  \/ /\ phase \in {"session", "failed"}
     /\ nextIndex = 0 /\ results = {}
     /\ \A w \in Workers : worker[w].pc = "unborn"
  \/ /\ phase # "session"
     /\ \A w \in Workers : worker[w].pc # "unborn"

\* nextIndex lies beyond every part that was taken.
Taken ==
  /\ \A i \in results : i < nextIndex
  /\ \A w \in Workers : Live(w) => Part(w) < nextIndex

\* A part below nextIndex is acknowledged, under way, or the one a worker failed with.
Held(i) == \E w \in Workers : worker[w].pc \in {"sending", "sleeping", "failed"} /\ Part(w) = i

NoneDropped == \A i \in Parts : i < nextIndex => i \in results \/ Held(i)

\* A worker returns when there is nothing left to take.
ReturnsLast == \A w \in Workers : worker[w].pc = "returned" => nextIndex \notin Parts

PoolInv == PoolOK /\ Born /\ Taken /\ NoneDropped /\ ReturnsLast /\ PartSentOnce /\ PublishedWhole

-----------------------------------------------------------------------------
(* Parts and workers *)

LEMMA FirstPart == 0 \in Parts
BY UploadConstants DEF Parts, PartStart

\* The parts are an initial segment of the naturals.
LEMMA Downward ==
  ASSUME NEW j \in Parts, NEW i \in 0 .. j
  PROVE  i \in Parts
<1>1. i \in Nat /\ j \in Nat /\ i <= j /\ j \in 0 .. Size - 1 /\ j * PartSize < Size
  BY DEF Parts, PartStart
<1>2. PartSize \in Nat /\ Size \in Nat
  BY UploadConstants
<1>3. i * PartSize <= j * PartSize
  BY <1>1, <1>2
<1>4. i * PartSize \in Nat /\ j * PartSize \in Nat
  BY <1>1, <1>2
<1> QED
  BY <1>1, <1>2, <1>3, <1>4 DEF Parts, PartStart

LEMMA SomeWorker == 1 \in Workers
BY UploadConstants, FirstPart DEF Workers

LEMMA WorkerParts == \A w \in Workers : w \in Nat /\ w - 1 \in Parts
BY DEF Workers

LEMMA PartsAreNat == Parts \subseteq Nat
BY UploadConstants DEF Parts

-----------------------------------------------------------------------------
(* When the pool is done every part is acknowledged *)

LEMMA AllAcknowledged ==
  ASSUME PoolOK, NoneDropped, ReturnsLast, \A w \in Workers : worker[w].pc = "returned"
  PROVE  results = Parts
<1>1. nextIndex \notin Parts
  BY SomeWorker DEF ReturnsLast
<1>2. ASSUME NEW i \in Parts
      PROVE  i \in results
  <2>1. i \in Nat
    BY PartsAreNat
  <2>2. i < nextIndex
    BY <1>1, <2>1, Downward DEF PoolOK
  <2> QED
    BY <2>2 DEF NoneDropped, Held
<1> QED
  BY <1>2 DEF PoolOK

LEMMA AllAcknowledgedNext ==
  PoolOK' /\ NoneDropped' /\ ReturnsLast' /\ (\A w \in Workers : worker'[w].pc = "returned")
    => results' = Parts
<1> HAVE PoolOK' /\ NoneDropped' /\ ReturnsLast' /\ (\A w \in Workers : worker'[w].pc = "returned")
<1>1. nextIndex' \notin Parts
  BY SomeWorker DEF ReturnsLast
<1>2. ASSUME NEW i \in Parts
      PROVE  i \in results'
  BY <1>1, PartsAreNat, Downward DEF PoolOK, NoneDropped, Held
<1> QED
  BY <1>2 DEF PoolOK

-----------------------------------------------------------------------------
(* A worker that goes on with its part, or fails with it *)

LEMMA KeepsPart ==
  ASSUME PoolInv, WorkersOK', NEW w \in Workers, Live(w),
         worker'[w].pc \in {"sending", "sleeping", "failed"}, Part(w)' = Part(w),
         \A v \in Workers \ {w} : worker'[v] = worker[v],
         UNCHANGED << nextIndex, results, published >>,
         phase' = phase \/ phase' = AfterParts(worker')
  PROVE  PoolInv'
<1> USE DEF PoolInv
<1>1. phase' \in {phase, "failed"}
  BY DEF AfterParts
<1>2. PoolOK'
  BY <1>1 DEF PoolOK
<1>3. Born'
  BY <1>1 DEF Born, Live
<1>4. \A v \in Workers : Part(v)' = Part(v) /\ (Live(v)' => Live(v))
  BY DEF Part, Live
<1>5. Taken'
  BY <1>4 DEF Taken
<1>6. NoneDropped'
  <2>1. \A i : Held(i) => Held(i)'
    BY DEF Held, Part
  <2> QED
    BY <2>1 DEF NoneDropped
<1>7. ReturnsLast'
  BY DEF ReturnsLast
<1>8. PartSentOnce'
  BY <1>4 DEF PartSentOnce
<1>9. PublishedWhole'
  BY <1>1 DEF PublishedWhole
<1> QED
  BY <1>2, <1>3, <1>5, <1>6, <1>7, <1>8, <1>9

(* A worker whose part is acknowledged takes the next one, or returns *)

LEMMA TakesNext ==
  ASSUME PoolInv, NEW w \in Workers, PartDone(w)
  PROVE  PoolInv'
<1> USE DEF PoolInv
<1>1. /\ Live(w) /\ ~aborted
      /\ results' = results \cup {Part(w)}
      /\ nextIndex' = nextIndex + 1
      /\ worker' = Take(w)
      /\ phase' = AfterParts(worker')
      /\ published' = published
  BY DEF PartDone, Live
<1>2. /\ nextIndex \in Nat /\ Part(w) \in Parts /\ Part(w) < nextIndex
      /\ results \subseteq Parts /\ Parts \subseteq Nat
  BY <1>1, PartsAreNat DEF PoolOK, WorkersOK, Part, Taken
<1>3. nextIndex' \in Nat /\ results' \subseteq Parts
  <2>1. nextIndex' \in Nat
    BY <1>1, <1>2
  <2>2. results' \subseteq Parts
    BY <1>1, <1>2, Zenon
  <2> QED
    BY <2>1, <2>2
<1>4. phase' \in {phase, "failed", "complete", "parts"}
  BY <1>1 DEF AfterParts
<1>5. \A v \in Workers \ {w} : worker'[v] = worker[v]
  BY <1>1 DEF Take, PoolOK, WorkersOK
<1>6. CASE nextIndex \in Parts
  <2>1. worker'[w] = [pc |-> "sending", part |-> nextIndex, attempt |-> 1, written |-> 0]
    BY <1>1, <1>6 DEF Take, PoolOK, WorkersOK
  <2>2. WorkersOK'
    BY <1>1, <1>6 DEF Take, PoolOK, WorkersOK, States
  <2>3. phase' \in {phase, "failed"}
    BY <1>1, <2>1 DEF AfterParts
  <2>4. PoolOK'
    BY <1>3, <1>4, <2>2 DEF PoolOK
  <2>5. Born'
    BY <1>1, <1>5, <2>1, <2>3 DEF Born, Live
  <2>6. \A v \in Workers \ {w} : Part(v)' = Part(v) /\ (Live(v)' <=> Live(v))
    BY <1>5 DEF Part, Live
  <2>7. Part(w)' = nextIndex
    BY <2>1 DEF Part
  <2>8. \A v \in Workers : Part(v) \in Nat
    BY <1>2 DEF PoolOK, WorkersOK, Part
  <2>9. Taken'
    BY <1>1, <1>2, <2>6, <2>7, <2>8 DEF Taken
  <2>10. NoneDropped'
    <3>1. SUFFICES ASSUME NEW i \in Parts, i < nextIndex + 1, i \notin results, i # Part(w)
                   PROVE  Held(i)'
      BY <1>1 DEF NoneDropped
    <3>2. CASE i = nextIndex
      BY <2>1, <3>2 DEF Held, Part
    <3>3. CASE i # nextIndex
      <4>1. Held(i)
        BY <1>2, <3>1, <3>3 DEF NoneDropped
      <4>2. PICK v \in Workers : worker[v].pc \in {"sending", "sleeping", "failed"} /\ Part(v) = i
        BY <4>1 DEF Held
      <4>3. v # w
        BY <3>1, <4>2
      <4> QED
        BY <1>5, <4>2, <4>3 DEF Held, Part
    <3> QED
      BY <3>2, <3>3
  <2>11. ReturnsLast'
    BY <1>2, <1>5, <1>6, <2>1 DEF ReturnsLast
  <2>12. PartSentOnce'
    BY <1>1, <1>2, <2>6, <2>7, <2>8 DEF PartSentOnce, Taken
  <2>13. PublishedWhole'
    BY <1>1, <1>2, <2>3 DEF PublishedWhole
  <2> QED
    BY <2>4, <2>5, <2>9, <2>10, <2>11, <2>12, <2>13
<1>7. CASE nextIndex \notin Parts
  <2>1. worker'[w] = [worker[w] EXCEPT !.pc = "returned"]
    BY <1>1, <1>7 DEF Take, PoolOK, WorkersOK
  <2>2. WorkersOK'
    BY <1>1, <1>7 DEF Take, PoolOK, WorkersOK, States
  <2>3. PoolOK'
    BY <1>3, <1>4, <2>2 DEF PoolOK
  <2>4. worker'[w].pc = "returned" /\ ~Live(w)'
    BY <1>1, <2>1 DEF PoolOK, WorkersOK, Live
  <2>5. Born'
    BY <1>1, <1>5, <2>4 DEF Born, Live, AfterParts
  <2>6. \A v \in Workers \ {w} : Part(v)' = Part(v) /\ (Live(v)' <=> Live(v))
    BY <1>5 DEF Part, Live
  <2>7. \A v \in Workers : Part(v) \in Nat
    BY <1>2 DEF PoolOK, WorkersOK, Part
  <2>8. Taken'
    BY <1>1, <1>2, <2>4, <2>6, <2>7 DEF Taken
  <2>9. \A i \in Parts : i < nextIndex
    BY <1>2, <1>7, Downward
  <2>10. nextIndex + 1 \notin Parts
    BY <1>2, <2>9
  <2>11. NoneDropped'
    <3>1. SUFFICES ASSUME NEW i \in Parts, i \notin results, i # Part(w)
                   PROVE  Held(i)'
      BY <1>1 DEF NoneDropped
    <3>2. PICK v \in Workers : worker[v].pc \in {"sending", "sleeping", "failed"} /\ Part(v) = i
      BY <2>9, <3>1 DEF NoneDropped, Held
    <3>3. v # w
      BY <3>1, <3>2
    <3> QED
      BY <1>5, <3>2, <3>3 DEF Held, Part
  <2>12. ReturnsLast'
    BY <1>1, <2>10 DEF ReturnsLast
  <2>13. PartSentOnce'
    BY <1>1, <2>4, <2>6 DEF PartSentOnce
  <2>14. PublishedWhole'
    <3>1. phase' = "complete" /\ phase = "parts" => results' = Parts
      <4>1. SUFFICES ASSUME phase' = "complete", phase = "parts"
                     PROVE  results' = Parts
        OBVIOUS
      <4>2. \A v \in Workers : worker'[v].pc = "returned"
        BY <1>1, <4>1 DEF AfterParts
      <4> QED
        BY <2>3, <2>11, <2>12, <4>2, AllAcknowledgedNext
    <3> QED
      BY <1>1, <1>2, <3>1 DEF PublishedWhole, AfterParts
  <2> QED
    BY <2>3, <2>5, <2>8, <2>11, <2>12, <2>13, <2>14
<1> QED
  BY <1>6, <1>7

-----------------------------------------------------------------------------
(* The session and its workers *)

LEMMA PoolStarts ==
  ASSUME PoolInv, SessionCreated
  PROVE  PoolInv'
<1> USE DEF PoolInv
<1>1. /\ phase = "session" /\ UNCHANGED << results, published >>
      /\ \A w \in Workers : worker[w].pc = "unborn"
      /\ nextIndex = 0 /\ results = {}
  BY DEF SessionCreated, counts, Born
<1>2. CASE phase' = "failed" /\ UNCHANGED << nextIndex, worker >>
  BY <1>1, <1>2 DEF PoolOK, WorkersOK, Born, Taken, NoneDropped, Held, ReturnsLast,
     PartSentOnce, PublishedWhole, Live, Part
<1>3. CASE /\ phase' = "parts"
           /\ \E n \in 1 .. Concurrency : Workers = 1 .. n /\ nextIndex' = n
           /\ worker' = [w \in Workers |->
                [pc |-> "sending", part |-> w - 1, attempt |-> 1, written |-> 0]]
  <2>1. PICK n \in 1 .. Concurrency : Workers = 1 .. n /\ nextIndex' = n
    BY <1>3
  <2>2. \A w \in Workers : worker'[w] =
           [pc |-> "sending", part |-> w - 1, attempt |-> 1, written |-> 0]
    BY <1>3
  <2>3. n \in Nat
    BY UploadConstants
  <2>4. PoolOK'
    <3>1. WorkersOK'
      BY <1>3, WorkerParts DEF WorkersOK, States
    <3> QED
      BY <1>1, <1>3, <2>1, <2>3, <3>1 DEF PoolOK
  <2>5. \A w \in Workers : Live(w)' /\ Part(w)' = w - 1
    <3>1. SUFFICES ASSUME NEW w \in Workers PROVE Live(w)' /\ Part(w)' = w - 1
      OBVIOUS
    <3>2. w \in Nat /\ worker'[w] = [pc |-> "sending", part |-> w - 1, attempt |-> 1, written |-> 0]
      BY <2>2, WorkerParts, Zenon
    <3>3. worker'[w].pc = "sending"
      BY <3>2
    <3>4. worker'[w].part = w - 1
      <4>1. \A i \in Int : [pc |-> "sending", part |-> i, attempt |-> 1, written |-> 0].part = i
        OBVIOUS
      <4> QED
        BY <3>2, <4>1
    <3> QED
      BY <3>3, <3>4 DEF Live, Part
  <2>6. NoneDropped'
    <3>1. SUFFICES ASSUME NEW i \in Parts, i < n
                   PROVE  Held(i)'
      BY <2>1 DEF NoneDropped
    <3>2. i + 1 \in Workers /\ (i + 1) - 1 = i
      BY <2>1, <2>3, <3>1, PartsAreNat
    <3> QED
      BY <2>5, <3>2 DEF Held, Live
  <2>7. PartSentOnce'
    BY <1>1, <2>5, WorkerParts DEF PartSentOnce
  <2> QED
    BY <1>1, <1>3, <2>1, <2>2, <2>3, <2>4, <2>5, <2>6, <2>7
    DEF Born, Taken, ReturnsLast, PublishedWhole
<1> QED
  BY <1>2, <1>3 DEF SessionCreated

-----------------------------------------------------------------------------
(* Steps that leave the pool alone *)

LEMMA LeavesPool ==
  ASSUME PoolInv, UNCHANGED pool,
         phase' \in {phase, "failed"} \/ (phase = "complete" /\ phase' = "done"),
         published' = published \/ (phase = "complete" /\ published' = results)
  PROVE  PoolInv'
<1> USE DEF PoolInv, pool
<1>1. PoolOK' /\ Born' /\ Taken'
  BY DEF PoolOK, WorkersOK, Born, Taken, Live, Part
<1>2. NoneDropped' /\ ReturnsLast' /\ PartSentOnce'
  BY DEF NoneDropped, Held, ReturnsLast, PartSentOnce, Live, Part
<1>3. PublishedWhole'
  BY DEF PublishedWhole
<1> QED
  BY <1>1, <1>2, <1>3

LEMMA PoolInvInit == Init => PoolInv
<1> HAVE Init
<1>1. PoolOK
  BY FirstPart, PartsAreNat DEF Init, PoolOK, WorkersOK, Idle, States
<1>2. Born /\ Taken /\ ReturnsLast /\ PartSentOnce /\ PublishedWhole
  BY DEF Init, Born, Taken, ReturnsLast, PartSentOnce, PublishedWhole, Live, Idle
<1>3. NoneDropped
  BY PartsAreNat DEF Init, NoneDropped
<1> QED
  BY <1>1, <1>2, <1>3 DEF PoolInv

LEMMA WorkerStepKeeps ==
  ASSUME PoolInv, NEW w \in Workers, WorkerStep(w)
  PROVE  PoolInv'
<1>1. WorkersOK
  BY DEF PoolInv, PoolOK
<1>2. worker[w].attempt \in Nat /\ worker[w].written \in Nat
  BY <1>1 DEF WorkersOK
<1>3. CASE ChunkSent(w)
  <2>1. worker' = [worker EXCEPT ![w].written = worker[w].written + 1]
    BY <1>3 DEF ChunkSent
  <2>2. WorkersOK'
    BY <1>1, <1>2, <2>1 DEF WorkersOK
  <2>3. worker'[w].pc = "sending" /\ Live(w)
    BY <1>1, <1>3, <2>1 DEF WorkersOK, ChunkSent, Live
  <2>4. Part(w)' = Part(w) /\ \A v \in Workers \ {w} : worker'[v] = worker[v]
    BY <1>1, <2>1 DEF WorkersOK, Part
  <2> QED
    BY <1>3, <2>2, <2>3, <2>4, KeepsPart DEF ChunkSent
<1>4. CASE PartDone(w)
  BY <1>4, TakesNext
<1>5. CASE PartFails(w)
  <2>1. PICK pc \in {"sleeping", "failed"} :
          worker' = [worker EXCEPT ![w].pc = pc, ![w].written = 0]
    BY <1>5 DEF PartFails
  <2>2. WorkersOK'
    BY <1>1, <2>1 DEF WorkersOK, States
  <2>3. worker'[w].pc \in {"sleeping", "failed"} /\ Live(w)
    BY <1>1, <1>5, <2>1 DEF WorkersOK, PartFails, Live
  <2>4. Part(w)' = Part(w) /\ \A v \in Workers \ {w} : worker'[v] = worker[v]
    BY <1>1, <2>1 DEF WorkersOK, Part
  <2> QED
    BY <1>5, <2>2, <2>3, <2>4, KeepsPart DEF PartFails
<1>6. CASE PartAgain(w)
  <2>1. worker' = [worker EXCEPT ![w].pc = "sending", ![w].attempt = worker[w].attempt + 1]
    BY <1>6 DEF PartAgain
  <2>2. WorkersOK'
    BY <1>1, <1>2, <2>1 DEF WorkersOK, States
  <2>3. worker'[w].pc = "sending" /\ Live(w)
    BY <1>1, <1>6, <2>1 DEF WorkersOK, PartAgain, Live
  <2>4. Part(w)' = Part(w) /\ \A v \in Workers \ {w} : worker'[v] = worker[v]
    BY <1>1, <2>1 DEF WorkersOK, Part
  <2> QED
    BY <1>6, <2>2, <2>3, <2>4, KeepsPart DEF PartAgain
<1>7. CASE PartAborted(w)
  <2>1. worker' = [worker EXCEPT ![w].pc = "failed"]
    BY <1>7 DEF PartAborted
  <2>2. WorkersOK'
    BY <1>1, <2>1 DEF WorkersOK, States
  <2>3. worker'[w].pc = "failed" /\ Live(w)
    BY <1>1, <1>7, <2>1 DEF WorkersOK, PartAborted, Live
  <2>4. Part(w)' = Part(w) /\ \A v \in Workers \ {w} : worker'[v] = worker[v]
    BY <1>1, <2>1 DEF WorkersOK, Part
  <2> QED
    BY <1>7, <2>2, <2>3, <2>4, KeepsPart DEF PartAborted
<1> QED
  BY <1>3, <1>4, <1>5, <1>6, <1>7 DEF WorkerStep

LEMMA PoolInvNext == PoolInv /\ [Next]_vars => PoolInv'
<1> SUFFICES ASSUME PoolInv, [Next]_vars PROVE PoolInv'
  OBVIOUS
<1>1. CASE Abort
  BY <1>1, LeavesPool DEF Abort
<1>2. CASE CallFails
  BY <1>2, LeavesPool DEF CallFails, Calling
<1>3. CASE CallAgain \/ CallAborted
  BY <1>3, LeavesPool DEF CallAgain, CallAborted
<1>4. CASE SessionCreated
  BY <1>4, PoolStarts
<1>5. CASE Completed
  BY <1>5, LeavesPool DEF Completed
<1>6. CASE \E w \in Workers : WorkerStep(w)
  BY <1>6, WorkerStepKeeps
<1>7. CASE StrayChunk \/ StrayCut
  BY <1>7, LeavesPool DEF StrayChunk, StrayCut
<1>8. CASE UNCHANGED vars
  BY <1>8, LeavesPool DEF vars, pool
<1> QED
  BY <1>1, <1>2, <1>3, <1>4, <1>5, <1>6, <1>7, <1>8 DEF Next, CallStep

-----------------------------------------------------------------------------
(* Theorems *)

\* The workers of any pool share the parts of any file: none is sent while it is under
\* way elsewhere or after it was acknowledged.
THEOREM OnceEach == Spec => []PartSentOnce
<1>1. PoolInv => PartSentOnce
  BY DEF PoolInv
<1> QED
  BY <1>1, PoolInvInit, PoolInvNext, PTL DEF Spec

\* Whatever fails, complete-upload is asked for with all parts or not at all.
THEOREM Whole == Spec => []PublishedWhole
<1>1. PoolInv => PublishedWhole
  BY DEF PoolInv
<1> QED
  BY <1>1, PoolInvInit, PoolInvNext, PTL DEF Spec

\* An abort is heard everywhere: by every worker, in every back-off, between the calls.
THEOREM AbortHeard == Spec => NothingAfterAbort
<1> DEFINE Typed == WorkersOK /\ CallOK
           Silent == aborted =>
             /\ \A w \in Workers : worker'[w].pc = "sending" => worker'[w] = worker[w]
             /\ call'.pc = "flying" => call' = call
<1>1. Init => CallOK
  BY DEF Init, CallOK, FirstTry
<1>2. CallOK /\ [Next]_vars => CallOK'
  <2>1. SUFFICES ASSUME CallOK, [Next]_vars
                 PROVE  CallOK'
    OBVIOUS
  <2>2. call.attempt \in Nat /\ FirstTry \in [pc : {"flying", "sleeping"}, attempt : Nat]
    BY <2>1 DEF CallOK, FirstTry
  <2>3. CASE CallStep
    <3>1. CASE CallAgain
      BY <2>2, <3>1 DEF CallAgain, CallOK
    <3>2. CASE CallFails
      BY <2>1, <3>2 DEF CallFails, CallOK
    <3>3. CASE CallAborted \/ SessionCreated \/ Completed
      BY <2>1, <3>3 DEF CallAborted, SessionCreated, Completed, CallOK
    <3> QED
      BY <2>3, <3>1, <3>2, <3>3 DEF CallStep
  <2>4. ASSUME NEW w \in Workers, WorkerStep(w)
        PROVE  call' \in {call, FirstTry}
    BY <2>4 DEF WorkerStep, ChunkSent, PartDone, PartFails, PartAgain, PartAborted
  <2>5. CASE Abort \/ StrayChunk \/ StrayCut \/ UNCHANGED vars
    BY <2>1, <2>5 DEF Abort, StrayChunk, StrayCut, vars, CallOK
  <2> QED
    BY <2>1, <2>2, <2>3, <2>4, <2>5 DEF Next, CallOK
<1>3. PoolInv => WorkersOK
  BY DEF PoolInv, PoolOK
<1>4. Typed /\ [Next]_vars => [Silent]_vars
  <2>1. SUFFICES ASSUME Typed, Next, aborted
                 PROVE  Silent
    OBVIOUS
  <2>2. CASE CallStep
    BY <2>1, <2>2 DEF CallStep, CallFails, CallAgain, CallAborted, SessionCreated, Completed,
       CallOK, pool
  <2>3. ASSUME NEW w \in Workers, WorkerStep(w)
        PROVE  Silent
    <3>1. PartFails(w) \/ PartAborted(w)
      BY <2>1, <2>3 DEF WorkerStep, ChunkSent, PartDone, PartAgain
    <3>2. call' = call
      BY <3>1 DEF PartFails, PartAborted
    <3>3. \A v \in Workers \ {w} : worker'[v] = worker[v]
      BY <2>1, <3>1 DEF PartFails, PartAborted, WorkersOK
    <3>4. worker'[w].pc \in {"sleeping", "failed"}
      BY <2>1, <3>1 DEF PartFails, PartAborted, WorkersOK
    <3> QED
      BY <3>2, <3>3, <3>4
  <2>4. CASE Abort \/ StrayChunk \/ StrayCut
    BY <2>4 DEF Abort, StrayChunk, StrayCut, pool
  <2> QED
    BY <2>1, <2>2, <2>3, <2>4 DEF Next
<1>5. Spec => [][Silent]_vars
  BY <1>1, <1>2, <1>3, <1>4, PoolInvInit, PoolInvNext, PTL DEF Spec
<1> QED
  BY <1>5 DEF NothingAfterAbort

=============================================================================
