-------------------------- MODULE JobHistoryProofs --------------------------
(* Unless two first loads overlap, there is one object per job, the history    *)
(* file never goes back, and a save that was answered stays in it.             *)
EXTENDS JobHistory, FiniteSetTheorems, TLAPS

Objects == Gens \cup {NoGen}

MemoryOK ==
  /\ heap \in [Ids -> [Gens -> Nat]]
  /\ cache \in [Ids -> Objects]
  /\ loaded \in BOOLEAN /\ raced \in BOOLEAN
  /\ queued \in Nat
  /\ version \in Nat

FlushOK ==
  flush \in [pc : {"none", "sorted", "written"}, listed : [Ids -> Objects], tmp : [Ids -> Nat]]

CallersOK ==
  caller \in [Callers -> [ pc : {"idle", "reading", "parsing", "holding", "saving"}, id : Ids,
                           gen : Gens, saved : Nat, behind : Int, got : [Ids -> Nat] ]]

FileOK == file \in [Ids -> Nat]

TypedOK == MemoryOK /\ FlushOK /\ CallersOK /\ FileOK

Loading(c) == caller[c].pc \in {"reading", "parsing"}
Refers(c)  == caller[c].pc \in {"holding", "saving"}

\* Before the first load there is nothing in memory.
EmptyBefore ==
  ~loaded => /\ \A i \in Ids : cache[i] = NoGen
             /\ \A c \in Callers : ~Refers(c)
             /\ queued = 0 /\ flush.pc = "none"

\* One caller loads, and what it read is what the file still has, or nothing.
OneLoad ==
  /\ \A c \in Callers : Loading(c) => ~loaded
  /\ \A c, d \in Callers : Loading(c) /\ Loading(d) => c = d
  /\ \A c \in Callers : caller[c].pc = "parsing" => caller[c].got \in {file, Nothing}

IsRef(i, g) ==
  /\ g # NoGen
  /\ \/ g = cache[i] \/ g = flush.listed[i]
     \/ \E c \in Callers : Refers(c) /\ caller[c].id = i /\ caller[c].gen = g

Agree == \A i \in Ids : \A g, h \in Gens : IsRef(i, g) /\ IsRef(i, h) => g = h

\* An object that is referred to is as new as the file, and nothing is newer than the
\* latest save.
Ahead ==
  /\ \A i \in Ids : file[i] <= version /\ \A g \in Gens : heap[i][g] <= version
  /\ \A i \in Ids : \A g \in Gens : IsRef(i, g) => heap[i][g] >= file[i]

\* Only an object that somebody just created may not have been saved.
SavedOnce ==
  /\ \A i \in Ids : /\ cache[i] # NoGen => heap[i][cache[i]] # 0
                    /\ flush.listed[i] # NoGen => heap[i][flush.listed[i]] # 0
  /\ \A c \in Callers : caller[c].pc = "saving" => heap[caller[c].id][caller[c].gen] # 0

\* What is about to replace the file.
TmpAhead ==
  /\ flush.pc = "none" => \A i \in Ids : flush.listed[i] = NoGen
  /\ flush.pc = "written" => \A i \in Ids :
       IF flush.listed[i] = NoGen THEN flush.tmp[i] = 0
       ELSE flush.tmp[i] >= file[i] /\ flush.tmp[i] <= heap[i][flush.listed[i]]

Sound == OneLoad /\ Agree /\ Ahead /\ SavedOnce /\ TmpAhead

HInv == TypedOK /\ EmptyBefore /\ (~raced => Sound)

-----------------------------------------------------------------------------
(* References come from references *)

LEMMA RefsKept ==
  ASSUME TypedOK, Agree, Ahead, UNCHANGED << heap, file, version >>,
         \A i \in Ids : \A g \in Gens : IsRef(i, g)' => IsRef(i, g)
  PROVE  Agree' /\ Ahead'
BY DEF Agree, Ahead

LEMMA RefsByCallers ==
  ASSUME UNCHANGED << cache, flush >>,
         \A d \in Callers : Refers(d)' => /\ Refers(d)
                                         /\ caller'[d].id = caller[d].id
                                         /\ caller'[d].gen = caller[d].gen
  PROVE  \A i \in Ids : \A g \in Gens : IsRef(i, g)' => IsRef(i, g)
BY DEF IsRef

-----------------------------------------------------------------------------
(* The beginning, and a new process *)

LEMMA IdleOK ==
  /\ Idle \in [ pc : {"idle", "reading", "parsing", "holding", "saving"}, id : Ids, gen : Gens,
               saved : Nat, behind : Int, got : [Ids -> Nat] ]
  /\ Idle.pc = "idle"
  /\ NoFlush \in [pc : {"none", "sorted", "written"}, listed : [Ids -> Objects], tmp : [Ids -> Nat]]
  /\ NoFlush.pc = "none" /\ \A i \in Ids : NoFlush.listed[i] = NoGen
<1>1. (CHOOSE i \in Ids : TRUE) \in Ids
  BY HistoryConstants
<1> QED
  BY <1>1 DEF Idle, NoFlush, Nothing, Gens, Objects

LEMMA BlankMemory ==
  ASSUME heap = NoObjects, loaded = FALSE, cache = NoCache, queued = 0, flush = NoFlush,
         caller = AllIdle, raced \in BOOLEAN, version \in Nat,
         FileOK, \A i \in Ids : file[i] <= version
  PROVE  HInv
<1>1. TypedOK
  BY IdleOK DEF TypedOK, MemoryOK, FlushOK, CallersOK, NoObjects, NoCache, AllIdle, Objects, Gens
<1>2. \A c \in Callers : caller[c].pc = "idle"
  BY IdleOK DEF AllIdle
<1>3. EmptyBefore
  BY <1>2, IdleOK DEF EmptyBefore, NoCache, Refers
<1>4. OneLoad /\ Agree
  BY <1>2, IdleOK DEF OneLoad, Agree, IsRef, Loading, Refers, NoCache
<1>5. Ahead /\ SavedOnce
  BY <1>2, IdleOK DEF Ahead, SavedOnce, IsRef, Refers, NoCache, NoObjects
<1>6. TmpAhead
  BY IdleOK DEF TmpAhead
<1> QED
  BY <1>1, <1>3, <1>4, <1>5, <1>6 DEF HInv, Sound

LEMMA HInvInit == Init => HInv
<1> HAVE Init
<1>1. \A i \in Ids : file[i] \in {0, 1}
  BY DEF Init
<1>2. FileOK /\ \A i \in Ids : file[i] <= version
  BY <1>1 DEF Init, FileOK
<1> QED
  BY <1>2, BlankMemory DEF Init

\* A restart: the same, one step later.
LEMMA RestartKeeps ==
  ASSUME HInv, Restart
  PROVE  HInv'
<1> USE DEF HInv, Restart
<1>1. TypedOK'
  BY IdleOK DEF TypedOK, MemoryOK, FlushOK, CallersOK, FileOK, NoObjects, NoCache, AllIdle,
     Objects, Gens
<1>2. \A c \in Callers : caller'[c].pc = "idle"
  BY IdleOK DEF AllIdle
<1>3. EmptyBefore'
  BY <1>2, IdleOK DEF EmptyBefore, NoCache, Refers
<1>4. OneLoad' /\ Agree'
  BY <1>2, IdleOK DEF OneLoad, Agree, IsRef, Loading, Refers, NoCache
<1>5. ~raced => Ahead' /\ SavedOnce'
  BY <1>2, IdleOK DEF Ahead, SavedOnce, IsRef, Refers, NoCache, NoObjects, Sound, TypedOK, MemoryOK
<1>6. TmpAhead'
  BY IdleOK DEF TmpAhead
<1> QED
  BY <1>1, <1>3, <1>4, <1>5, <1>6 DEF Sound

-----------------------------------------------------------------------------
(* Loads *)

LEMMA OpenFileKeeps ==
  ASSUME HInv, NEW c \in Callers, OpenFile(c)
  PROVE  HInv'
<1> USE DEF HInv
<1>1. caller' = [caller EXCEPT ![c] = [caller[c] EXCEPT !.pc = "reading"]]
  BY DEF OpenFile
<1>2. CallersOK'
  BY <1>1 DEF TypedOK, CallersOK
<1>3. TypedOK'
  BY <1>2 DEF TypedOK, MemoryOK, FlushOK, FileOK, OpenFile
<1>4. \A d \in Callers : /\ Refers(d)' <=> Refers(d)
                         /\ caller'[d].id = caller[d].id /\ caller'[d].gen = caller[d].gen
                         /\ caller'[d].got = caller[d].got
                         /\ Loading(d)' <=> (Loading(d) \/ d = c)
                         /\ caller'[d].pc = "parsing" => caller[d].pc = "parsing"
                         /\ caller'[d].pc = "saving" => caller[d].pc = "saving"
  BY <1>1 DEF TypedOK, CallersOK, Refers, Loading, OpenFile
<1>5. EmptyBefore'
  BY <1>4 DEF EmptyBefore, OpenFile
<1>6. ASSUME ~raced'
      PROVE  Sound'
  <2>1. ~raced /\ Sound /\ \A d \in Callers : ~Loading(d)
    BY <1>6 DEF OpenFile, Loading
  <2>2. OneLoad'
    BY <1>4, <2>1 DEF Sound, OneLoad, OpenFile
  <2>3. Agree' /\ Ahead'
    BY <1>4, <2>1, RefsByCallers, RefsKept DEF Sound, OpenFile
  <2>4. SavedOnce'
    BY <1>4, <2>1 DEF Sound, SavedOnce, OpenFile
  <2>5. TmpAhead'
    BY <2>1 DEF Sound, TmpAhead, OpenFile
  <2> QED
    BY <2>2, <2>3, <2>4, <2>5 DEF Sound
<1> QED
  BY <1>3, <1>5, <1>6

LEMMA ReadFileKeeps ==
  ASSUME HInv, NEW c \in Callers, ReadFile(c) \/ ReadFails(c)
  PROVE  HInv'
<1> USE DEF HInv
<1>1. PICK text \in {file, Nothing} :
        caller' = [caller EXCEPT ![c] = [caller[c] EXCEPT !.pc = "parsing", !.got = text]]
  BY DEF ReadFile, ReadFails
<1>2. text \in [Ids -> Nat]
  BY <1>1 DEF TypedOK, FileOK, Nothing
<1>3. CallersOK'
  BY <1>1, <1>2 DEF TypedOK, CallersOK
<1>4. /\ UNCHANGED << file, heap, loaded, cache, queued, flush, version, raced >>
      /\ caller[c].pc = "reading"
  BY DEF ReadFile, ReadFails
<1>5. TypedOK'
  BY <1>3, <1>4 DEF TypedOK, MemoryOK, FlushOK, FileOK
<1>6. \A d \in Callers : /\ Refers(d)' <=> Refers(d)
                         /\ caller'[d].id = caller[d].id /\ caller'[d].gen = caller[d].gen
                         /\ Loading(d)' <=> Loading(d)
                         /\ caller'[d].pc = "parsing" =>
                              \/ caller'[d].got \in {file, Nothing}
                              \/ caller[d].pc = "parsing" /\ caller'[d].got = caller[d].got
                         /\ caller'[d].pc = "saving" => caller[d].pc = "saving"
  BY <1>1, <1>4 DEF TypedOK, CallersOK, Refers, Loading
<1>7. EmptyBefore'
  BY <1>4, <1>6 DEF EmptyBefore
<1>8. ASSUME ~raced'
      PROVE  Sound'
  <2>1. Sound
    BY <1>4, <1>8
  <2>2. OneLoad'
    BY <1>4, <1>6, <2>1 DEF Sound, OneLoad
  <2>3. Agree' /\ Ahead'
    BY <1>4, <1>6, <2>1, RefsByCallers, RefsKept DEF Sound
  <2>4. SavedOnce'
    BY <1>4, <1>6, <2>1 DEF Sound, SavedOnce
  <2>5. TmpAhead'
    BY <1>4, <2>1 DEF Sound, TmpAhead
  <2> QED
    BY <2>2, <2>3, <2>4, <2>5 DEF Sound
<1> QED
  BY <1>5, <1>7, <1>8

LEMMA InstallKeeps ==
  ASSUME HInv, NEW c \in Callers, Install(c)
  PROVE  HInv'
<1> USE DEF HInv
<1>1. /\ heap' = [i \in Ids |-> [heap[i] EXCEPT ![c] = caller[c].got[i]]]
      /\ cache' = [i \in Ids |-> IF caller[c].got[i] # 0 THEN c ELSE NoGen]
      /\ loaded' = TRUE
      /\ caller' = [caller EXCEPT ![c] = Idle]
      /\ UNCHANGED << file, queued, flush, version, raced >>
      /\ caller[c].pc = "parsing"
  BY DEF Install
<1>2. CallersOK'
  BY <1>1, IdleOK DEF TypedOK, CallersOK
<1>3. caller[c].got \in [Ids -> Nat] /\ c \in Gens /\ c # NoGen
  BY HistoryConstants DEF TypedOK, CallersOK, Gens
<1>4. MemoryOK'
  BY <1>1, <1>3 DEF TypedOK, MemoryOK, Objects
<1>5. TypedOK'
  BY <1>1, <1>2, <1>4 DEF TypedOK, FlushOK, FileOK
<1>6. EmptyBefore'
  BY <1>1 DEF EmptyBefore
<1>7. ASSUME ~raced
      PROVE  Sound'
  <2>1. Sound /\ ~loaded /\ \A i \in Ids : caller[c].got[i] \in {file[i], 0}
    BY <1>1, <1>7 DEF Sound, OneLoad, Loading, Nothing
  <2>2. \A d \in Callers : ~Refers(d)' /\ ~Loading(d)'
    BY <1>1, <2>1, IdleOK DEF EmptyBefore, Refers, Sound, OneLoad, Loading, TypedOK, CallersOK
  <2>3. flush'.pc = "none" /\ \A i \in Ids : flush'.listed[i] = NoGen
    BY <1>1, <2>1 DEF EmptyBefore, Sound, TmpAhead
  <2>4. OneLoad' /\ TmpAhead'
    BY <2>2, <2>3 DEF OneLoad, TmpAhead, Loading
  <2>5. \A i \in Ids : heap'[i] = [heap[i] EXCEPT ![c] = caller[c].got[i]]
    BY <1>1
  <2>6. \A i \in Ids : \A g \in Gens : heap'[i][g] = IF g = c THEN caller[c].got[i] ELSE heap[i][g]
    <3>1. SUFFICES ASSUME NEW i \in Ids, NEW g \in Gens
                   PROVE  heap'[i][g] = IF g = c THEN caller[c].got[i] ELSE heap[i][g]
      OBVIOUS
    <3>2. heap[i] \in [Gens -> Nat]
      BY DEF TypedOK, MemoryOK
    <3> QED
      BY <2>5, <3>2
  <2>7. \A i \in Ids : cache'[i] # NoGen => cache'[i] = c /\ caller[c].got[i] = file[i] /\ file[i] # 0
    BY <1>1, <2>1
  <2>8. \A i \in Ids : \A g \in Gens : IsRef(i, g)' => g = c /\ cache'[i] # NoGen
    BY <2>2, <2>3, <2>7 DEF IsRef
  <2>9. Agree'
    BY <2>8 DEF Agree
  <2>10. Ahead'
    <3>1. \A i \in Ids : file[i] \in Nat /\ file[i] <= version /\ \A g \in Gens : heap[i][g] <= version
      BY <2>1 DEF Sound, Ahead, TypedOK, FileOK
    <3>2. \A i \in Ids : caller[c].got[i] <= version
      BY <2>1, <3>1 DEF TypedOK, MemoryOK
    <3>3. \A i \in Ids : file'[i] <= version' /\ \A g \in Gens : heap'[i][g] <= version'
      BY <1>1, <2>6, <3>1, <3>2
    <3>4. ASSUME NEW i \in Ids, NEW g \in Gens, IsRef(i, g)'
          PROVE  heap'[i][g] >= file'[i]
      <4>1. heap'[i][g] = file[i]
        BY <2>6, <2>7, <2>8, <3>4
      <4> QED
        BY <1>1, <3>1, <4>1
    <3> QED
      BY <3>3, <3>4 DEF Ahead
  <2>11. SavedOnce'
    BY <1>3, <2>2, <2>3, <2>6, <2>7 DEF SavedOnce, Refers
  <2> QED
    BY <2>4, <2>9, <2>10, <2>11 DEF Sound
<1> QED
  BY <1>1, <1>5, <1>6, <1>7

-----------------------------------------------------------------------------
(* Readers and writers *)

LEMMA LookKeeps ==
  ASSUME HInv, NEW c \in Callers, NEW i \in Ids, Look(c, i)
  PROVE  HInv'
<1> USE DEF HInv
<1>1. /\ caller' = [caller EXCEPT ![c] = [Idle EXCEPT !.pc = "holding", !.id = i, !.gen = cache[i]]]
      /\ loaded /\ cache[i] \in Gens
      /\ UNCHANGED << file, heap, loaded, cache, queued, flush, version, raced >>
  BY DEF Look, TypedOK, MemoryOK, Objects
<1>2. CallersOK'
  BY <1>1, IdleOK DEF TypedOK, CallersOK
<1>3. TypedOK'
  BY <1>1, <1>2 DEF TypedOK, MemoryOK, FlushOK, FileOK
<1>4. /\ caller'[c].pc = "holding" /\ caller'[c].id = i /\ caller'[c].gen = cache[i]
      /\ \A d \in Callers \ {c} : caller'[d] = caller[d]
  BY <1>1, IdleOK DEF TypedOK, CallersOK
<1>5. EmptyBefore'
  BY <1>1 DEF EmptyBefore
<1>6. ASSUME ~raced
      PROVE  Sound'
  <2>1. OneLoad'
    BY <1>1, <1>4, <1>6 DEF Sound, OneLoad, Loading
  <2>2. \A k \in Ids : \A g \in Gens : IsRef(k, g)' => IsRef(k, g)
    BY <1>1, <1>4 DEF IsRef, Refers
  <2>3. Agree' /\ Ahead'
    BY <1>1, <1>6, <2>2, RefsKept DEF Sound
  <2>4. SavedOnce' /\ TmpAhead'
    BY <1>1, <1>4, <1>6 DEF Sound, SavedOnce, TmpAhead
  <2> QED
    BY <2>1, <2>3, <2>4 DEF Sound
<1> QED
  BY <1>1, <1>3, <1>5, <1>6

LEMMA CreateKeeps ==
  ASSUME HInv, NEW c \in Callers, NEW i \in Ids, Create(c, i)
  PROVE  HInv'
<1> USE DEF HInv
<1>1. /\ caller' = [caller EXCEPT ![c] = [Idle EXCEPT !.pc = "holding", !.id = i, !.gen = New]]
      /\ loaded /\ New \in Gens
      /\ file[i] = 0 /\ \A g \in Gens : heap[i][g] = 0
      /\ \A d \in Callers : caller[d].pc = "holding" => caller[d].id # i
      /\ UNCHANGED << file, heap, loaded, cache, queued, flush, version, raced >>
  BY DEF Create, Gens
<1>2. CallersOK'
  BY <1>1, IdleOK DEF TypedOK, CallersOK
<1>3. TypedOK'
  BY <1>1, <1>2 DEF TypedOK, MemoryOK, FlushOK, FileOK
<1>4. /\ caller'[c].pc = "holding" /\ caller'[c].id = i /\ caller'[c].gen = New
      /\ \A d \in Callers \ {c} : caller'[d] = caller[d]
  BY <1>1, IdleOK DEF TypedOK, CallersOK
<1>5. EmptyBefore'
  BY <1>1 DEF EmptyBefore
<1>6. ASSUME ~raced
      PROVE  Sound'
  <2>1. OneLoad'
    BY <1>1, <1>4, <1>6 DEF Sound, OneLoad, Loading
  <2>2. \A g \in Gens : ~IsRef(i, g)
    <3>1. cache[i] = NoGen /\ flush.listed[i] = NoGen
      BY <1>1, <1>6 DEF Sound, SavedOnce, TypedOK, MemoryOK, FlushOK, Objects
    <3>2. \A d \in Callers : caller[d].pc = "saving" => caller[d].id # i
      BY <1>1, <1>6 DEF Sound, SavedOnce, TypedOK, CallersOK
    <3> QED
      BY <1>1, <3>1, <3>2 DEF IsRef, Refers
  <2>3. \A k \in Ids : \A g \in Gens : IsRef(k, g)' => IsRef(k, g) \/ (k = i /\ g = New)
    BY <1>1, <1>4 DEF IsRef, Refers
  <2>4. Agree'
    BY <1>6, <2>2, <2>3 DEF Sound, Agree
  <2>5. Ahead'
    BY <1>1, <1>6, <2>2, <2>3 DEF Sound, Ahead
  <2>6. SavedOnce' /\ TmpAhead'
    BY <1>1, <1>4, <1>6 DEF Sound, SavedOnce, TmpAhead
  <2> QED
    BY <2>1, <2>4, <2>5, <2>6 DEF Sound
<1> QED
  BY <1>1, <1>3, <1>5, <1>6

LEMMA ReleaseKeeps ==
  ASSUME HInv, NEW c \in Callers, Release(c)
  PROVE  HInv'
<1> USE DEF HInv
<1>1. /\ caller' = [caller EXCEPT ![c] = Idle]
      /\ UNCHANGED << file, heap, loaded, cache, queued, flush, version, raced >>
  BY DEF Release
<1>2. CallersOK'
  BY <1>1, IdleOK DEF TypedOK, CallersOK
<1>3. TypedOK'
  BY <1>1, <1>2 DEF TypedOK, MemoryOK, FlushOK, FileOK
<1>4. caller'[c].pc = "idle" /\ \A d \in Callers \ {c} : caller'[d] = caller[d]
  BY <1>1, IdleOK DEF TypedOK, CallersOK
<1>5. EmptyBefore'
  BY <1>1, <1>4 DEF EmptyBefore, Refers
<1>6. ASSUME ~raced
      PROVE  Sound'
  <2>1. OneLoad'
    BY <1>1, <1>4, <1>6 DEF Sound, OneLoad, Loading
  <2>2. Agree' /\ Ahead'
    BY <1>1, <1>4, <1>6, RefsByCallers, RefsKept DEF Sound, Refers
  <2>3. SavedOnce' /\ TmpAhead'
    BY <1>1, <1>4, <1>6 DEF Sound, SavedOnce, TmpAhead
  <2> QED
    BY <2>1, <2>2, <2>3 DEF Sound
<1> QED
  BY <1>1, <1>3, <1>5, <1>6

LEMMA SaveKeeps ==
  ASSUME HInv, NEW c \in Callers, Save(c)
  PROVE  HInv'
<1> USE DEF HInv
<1> DEFINE i == caller[c].id
           g == caller[c].gen
<1>1. /\ caller[c].pc = "holding"
      /\ version' = version + 1
      /\ heap' = [heap EXCEPT ![i][g] = version + 1]
      /\ cache' = [cache EXCEPT ![i] = g]
      /\ queued' = queued + 1
      /\ UNCHANGED << file, loaded, flush, raced >>
  BY DEF Save
<1>2. i \in Ids /\ g \in Gens /\ g # NoGen
  BY HistoryConstants DEF TypedOK, CallersOK, Gens
<1>3. queued \in Nat /\ version \in Nat
  BY DEF TypedOK, MemoryOK
<1>4. \E b \in Int : caller' = [caller EXCEPT ![c] = [caller[c] EXCEPT !.pc = "saving",
                                  !.saved = version + 1, !.behind = b]]
  <2>1. queued + (IF flush.pc = "none" THEN 1 ELSE 2) \in Int
    BY <1>3
  <2> QED
    BY <2>1 DEF Save
<1>5. CallersOK'
  <2>1. PICK b \in Int : caller' = [caller EXCEPT ![c] = [caller[c] EXCEPT !.pc = "saving",
                                     !.saved = version + 1, !.behind = b]]
    BY <1>4
  <2>2. version + 1 \in Nat
    BY <1>3
  <2> QED
    BY <2>1, <2>2 DEF TypedOK, CallersOK
<1>6. MemoryOK'
  BY <1>1, <1>2, <1>3 DEF TypedOK, MemoryOK, Objects
<1>7. TypedOK'
  BY <1>1, <1>5, <1>6 DEF TypedOK, FlushOK, FileOK
<1>8. /\ caller'[c].pc = "saving" /\ caller'[c].id = i /\ caller'[c].gen = g
      /\ \A d \in Callers \ {c} : caller'[d] = caller[d]
  BY <1>4 DEF TypedOK, CallersOK
<1>9. EmptyBefore' /\ loaded
  BY <1>1 DEF EmptyBefore, Refers
<1>10. ASSUME ~raced
       PROVE  Sound'
  <2>1. Sound
    BY <1>10
  <2>2. OneLoad'
    BY <1>1, <1>8, <2>1 DEF Sound, OneLoad, Loading
  <2>3. IsRef(i, g)
    BY <1>1, <1>2 DEF IsRef, Refers
  <2>4. \A k \in Ids : cache'[k] = IF k = i THEN g ELSE cache[k]
    BY <1>1, <1>2 DEF TypedOK, MemoryOK
  <2>5. \A k \in Ids : \A h \in Gens : IsRef(k, h)' => IsRef(k, h)
    BY <1>1, <1>8, <2>3, <2>4 DEF IsRef, Refers
  <2>6. Agree'
    BY <2>1, <2>5 DEF Sound, Agree
  <2>7. \A k \in Ids : \A h \in Gens :
           heap'[k][h] = IF k = i /\ h = g THEN version + 1 ELSE heap[k][h]
    BY <1>1, <1>2 DEF TypedOK, MemoryOK
  <2>8. \A k \in Ids : file[k] \in Nat /\ \A h \in Gens : heap[k][h] \in Nat
    BY DEF TypedOK, MemoryOK, FileOK
  <2>9. Ahead'
    <3>1. \A k \in Ids : file[k] <= version + 1 /\ \A h \in Gens : heap'[k][h] <= version + 1
      BY <1>3, <2>1, <2>7, <2>8 DEF Sound, Ahead
    <3>2. \A k \in Ids : \A h \in Gens : IsRef(k, h)' => heap'[k][h] >= file[k]
      BY <1>3, <2>1, <2>5, <2>7, <2>8, <3>1 DEF Sound, Ahead
    <3> QED
      BY <1>1, <3>1, <3>2 DEF Ahead
  <2>10. \A k \in Ids : \A h \in Gens : heap[k][h] # 0 => heap'[k][h] # 0
    BY <1>3, <2>7
  <2>11. SavedOnce'
    <3>1. \A k \in Ids : cache'[k] # NoGen => heap'[k][cache'[k]] # 0
      BY <1>2, <1>3, <2>1, <2>4, <2>7, <2>10 DEF Sound, SavedOnce, TypedOK, MemoryOK, Objects
    <3>2. \A k \in Ids : flush.listed[k] # NoGen => heap'[k][flush.listed[k]] # 0
      BY <2>1, <2>10 DEF Sound, SavedOnce, TypedOK, FlushOK, Objects
    <3>3. \A d \in Callers : caller'[d].pc = "saving" => heap'[caller'[d].id][caller'[d].gen] # 0
      <4>1. heap'[i][g] # 0
        BY <1>2, <1>3, <2>7
      <4>2. ASSUME NEW d \in Callers \ {c}, caller[d].pc = "saving"
            PROVE  heap'[caller[d].id][caller[d].gen] # 0
        BY <2>1, <2>10, <4>2 DEF Sound, SavedOnce, TypedOK, CallersOK
      <4> QED
        BY <1>8, <4>1, <4>2
    <3> QED
      BY <1>1, <3>1, <3>2, <3>3 DEF SavedOnce
  <2>12. TmpAhead'
    <3>1. \A k \in Ids : flush.listed[k] # NoGen => heap'[k][flush.listed[k]] >= heap[k][flush.listed[k]]
      BY <1>3, <2>1, <2>7, <2>8 DEF Sound, Ahead, TypedOK, FlushOK, Objects
    <3>2. ASSUME NEW k \in Ids, flush.listed[k] # NoGen, flush.tmp[k] <= heap[k][flush.listed[k]]
          PROVE  flush.tmp[k] <= heap'[k][flush.listed[k]]
      <4>1. flush.listed[k] \in Gens /\ flush.tmp[k] \in Nat
        BY <3>2 DEF TypedOK, FlushOK, Objects
      <4>2. heap[k][flush.listed[k]] \in Nat /\ heap'[k][flush.listed[k]] \in Nat
        BY <1>3, <2>7, <2>8, <4>1
      <4> QED
        BY <3>1, <3>2, <4>1, <4>2
    <3> QED
      BY <1>1, <2>1, <3>2 DEF Sound, TmpAhead
  <2> QED
    BY <2>2, <2>6, <2>9, <2>11, <2>12 DEF Sound
<1> QED
  BY <1>1, <1>7, <1>9, <1>10

-----------------------------------------------------------------------------
(* Flushes *)

LEMMA FlushBeginKeeps ==
  ASSUME HInv, FlushBegin
  PROVE  HInv'
<1> USE DEF HInv
<1>1. /\ flush.pc = "none" /\ queued > 0
      /\ flush' = [NoFlush EXCEPT !.pc = "sorted", !.listed = cache']
      /\ queued' = queued - 1
      /\ UNCHANGED << file, heap, loaded, caller, version, raced >>
  BY DEF FlushBegin
<1>2. PICK K \in SUBSET Ids : cache' = [i \in Ids |-> IF i \in K THEN cache[i] ELSE NoGen]
  BY DEF FlushBegin
<1>3. cache' \in [Ids -> Objects] /\ \A i \in Ids : cache'[i] \in {cache[i], NoGen}
  BY <1>2 DEF TypedOK, MemoryOK, Objects
<1>4. TypedOK'
  <2>1. queued' \in Nat
    BY <1>1 DEF TypedOK, MemoryOK
  <2>2. MemoryOK'
    BY <1>1, <1>3, <2>1 DEF TypedOK, MemoryOK
  <2>3. FlushOK'
    BY <1>1, <1>3, IdleOK DEF FlushOK
  <2>4. CallersOK' /\ FileOK'
    BY <1>1 DEF TypedOK, CallersOK, FileOK
  <2> QED
    BY <2>2, <2>3, <2>4 DEF TypedOK
<1>5. flush'.pc = "sorted" /\ flush'.listed = cache'
  BY <1>1, IdleOK
<1>6. EmptyBefore'
  BY <1>1, <1>3 DEF EmptyBefore, TypedOK, MemoryOK
<1>7. ASSUME ~raced
      PROVE  Sound'
  <2>1. OneLoad'
    BY <1>1, <1>7 DEF Sound, OneLoad, Loading
  <2>2. \A i \in Ids : \A g \in Gens : IsRef(i, g)' => IsRef(i, g)
    BY <1>1, <1>3, <1>5 DEF IsRef, Refers
  <2>3. Agree' /\ Ahead'
    BY <1>1, <1>7, <2>2, RefsKept DEF Sound
  <2>4. SavedOnce'
    BY <1>1, <1>3, <1>5, <1>7 DEF Sound, SavedOnce
  <2>5. TmpAhead'
    BY <1>5 DEF TmpAhead
  <2> QED
    BY <2>1, <2>3, <2>4, <2>5 DEF Sound
<1> QED
  BY <1>1, <1>4, <1>6, <1>7

LEMMA FlushWriteKeeps ==
  ASSUME HInv, FlushWrite
  PROVE  HInv'
<1> USE DEF HInv
<1> DEFINE text == [i \in Ids |-> IF flush.listed[i] = NoGen THEN 0 ELSE heap[i][flush.listed[i]]]
<1>1. /\ flush.pc = "sorted"
      /\ flush' = [flush EXCEPT !.pc = "written", !.tmp = text]
      /\ UNCHANGED << file, heap, loaded, cache, queued, caller, version, raced >>
  BY DEF FlushWrite
<1>2. text \in [Ids -> Nat]
  BY DEF TypedOK, MemoryOK, FlushOK, Objects
<1>3. /\ FlushOK' /\ flush'.pc = "written"
      /\ flush'.listed = flush.listed /\ flush'.tmp = text
  BY <1>1, <1>2 DEF TypedOK, FlushOK
<1>4. TypedOK'
  BY <1>1, <1>3 DEF TypedOK, MemoryOK, CallersOK, FileOK
<1>5. EmptyBefore'
  BY <1>1 DEF EmptyBefore
<1>6. ASSUME ~raced
      PROVE  Sound'
  <2>1. OneLoad'
    BY <1>1, <1>6 DEF Sound, OneLoad, Loading
  <2>2. \A i \in Ids : \A g \in Gens : IsRef(i, g)' => IsRef(i, g)
    BY <1>1, <1>3 DEF IsRef, Refers
  <2>3. Agree' /\ Ahead'
    BY <1>1, <1>6, <2>2, RefsKept DEF Sound
  <2>4. SavedOnce'
    BY <1>1, <1>3, <1>6 DEF Sound, SavedOnce
  <2>5. ASSUME NEW i \in Ids, flush.listed[i] # NoGen
        PROVE  text[i] >= file[i] /\ text[i] <= heap[i][flush.listed[i]]
    <3>1. flush.listed[i] \in Gens /\ IsRef(i, flush.listed[i])
      BY <2>5 DEF TypedOK, FlushOK, Objects, IsRef
    <3>2. text[i] = heap[i][flush.listed[i]] /\ text[i] \in Nat
      BY <1>2, <2>5
    <3> QED
      BY <1>6, <3>1, <3>2 DEF Sound, Ahead
  <2>6. TmpAhead'
    BY <1>1, <1>3, <2>5 DEF TmpAhead
  <2> QED
    BY <2>1, <2>3, <2>4, <2>6 DEF Sound
<1> QED
  BY <1>1, <1>4, <1>5, <1>6

\* The answers a flush gives when it ends change no reference.
LEMMA EndedKeeps ==
  ASSUME CallersOK, Ended
  PROVE  /\ CallersOK'
         /\ \A c \in Callers : /\ caller'[c].id = caller[c].id /\ caller'[c].gen = caller[c].gen
                               /\ caller'[c].got = caller[c].got
                               /\ Refers(c)' <=> Refers(c)
                               /\ Loading(c)' <=> Loading(c)
                               /\ caller'[c].pc = "parsing" => caller[c].pc = "parsing"
                               /\ caller'[c].pc = "saving" => caller[c].pc = "saving"
<1>1. \A c \in Callers :
        \/ caller'[c] = [caller[c] EXCEPT !.pc = "holding", !.saved = 0, !.behind = 0] /\ caller[c].pc = "saving"
        \/ caller'[c] = [caller[c] EXCEPT !.behind = caller[c].behind - 1]
        \/ caller'[c] = caller[c]
  BY DEF Ended, Answered
<1>2. \A c \in Callers : caller[c].behind - 1 \in Int
  BY DEF CallersOK
<1>3. \A c \in Callers : caller'[c] \in
        [ pc : {"idle", "reading", "parsing", "holding", "saving"}, id : Ids, gen : Gens,
          saved : Nat, behind : Int, got : [Ids -> Nat] ]
  <2> TAKE c \in Callers
  <2>1. caller[c] \in
        [ pc : {"idle", "reading", "parsing", "holding", "saving"}, id : Ids, gen : Gens,
          saved : Nat, behind : Int, got : [Ids -> Nat] ]
    BY DEF CallersOK
  <2>2. CASE caller'[c] = [caller[c] EXCEPT !.pc = "holding", !.saved = 0, !.behind = 0]
    <3>1. caller'[c] = [pc |-> "holding", id |-> caller[c].id, gen |-> caller[c].gen,
                        saved |-> 0, behind |-> 0, got |-> caller[c].got]
      BY <2>1, <2>2
    <3>2. caller[c].id \in Ids /\ caller[c].gen \in Gens /\ caller[c].got \in [Ids -> Nat]
      BY <2>1
    <3> QED
      BY <3>1, <3>2
  <2>3. CASE caller'[c] = [caller[c] EXCEPT !.behind = caller[c].behind - 1]
    BY <1>2, <2>1, <2>3
  <2>4. CASE caller'[c] = caller[c]
    BY <2>1, <2>4
  <2> QED
    BY <1>1, <2>2, <2>3, <2>4
<1>4. CallersOK'
  BY <1>3 DEF Ended, CallersOK
<1> QED
  BY <1>1, <1>4 DEF CallersOK, Refers, Loading

LEMMA FlushEndKeeps ==
  ASSUME HInv, FlushRename \/ FlushFails
  PROVE  HInv'
<1> USE DEF HInv
<1>1. /\ flush.pc # "none" /\ flush' = NoFlush
      /\ Ended
      /\ UNCHANGED << heap, loaded, cache, queued, version, raced >>
      /\ file' = file \/ (flush.pc = "written" /\ file' = flush.tmp)
  BY DEF FlushRename, FlushFails
<1>2. CallersOK'
  BY <1>1, EndedKeeps DEF TypedOK
<1>3. TypedOK'
  BY <1>1, <1>2, IdleOK DEF TypedOK, MemoryOK, FlushOK, FileOK
<1>4. loaded
  BY <1>1 DEF EmptyBefore
<1>5. EmptyBefore'
  BY <1>1, <1>4 DEF EmptyBefore
<1>6. ASSUME ~raced
      PROVE  Sound'
  <2>1. OneLoad'
    <3>1. \A c \in Callers : /\ ~Loading(c)
                             /\ Loading(c)' <=> Loading(c)
                             /\ caller'[c].pc = "parsing" => caller[c].pc = "parsing"
      BY <1>1, <1>4, <1>6, EndedKeeps DEF Sound, OneLoad, TypedOK
    <3>2. \A c \in Callers : ~Loading(c)' /\ caller'[c].pc # "parsing"
      BY <3>1 DEF Loading
    <3> QED
      BY <3>2 DEF OneLoad
  <2>2. \A i \in Ids : \A g \in Gens : IsRef(i, g)' => IsRef(i, g)
    BY <1>1, IdleOK, EndedKeeps DEF IsRef, TypedOK
  <2>3. Agree'
    BY <1>6, <2>2 DEF Sound, Agree
  <2>4. Ahead'
    <3>1. CASE file' = file
      BY <1>1, <1>6, <2>2, <3>1 DEF Sound, Ahead
    <3>2. CASE flush.pc = "written" /\ file' = flush.tmp
      <4>1. ASSUME NEW i \in Ids
            PROVE  file'[i] <= version /\ \A g \in Gens : IsRef(i, g) => heap[i][g] >= file'[i]
        <5>1. CASE flush.listed[i] = NoGen
          BY <1>6, <3>2, <5>1 DEF Sound, TmpAhead, TypedOK, MemoryOK
        <5>2. CASE flush.listed[i] # NoGen
          <6>1. flush.listed[i] \in Gens /\ IsRef(i, flush.listed[i]) /\ file'[i] \in Nat
            BY <3>2, <5>2 DEF TypedOK, FlushOK, Objects, IsRef
          <6>2. file'[i] <= heap[i][flush.listed[i]]
            BY <1>6, <3>2, <5>2 DEF Sound, TmpAhead
          <6>3. heap[i][flush.listed[i]] <= version /\ heap[i][flush.listed[i]] \in Nat /\ version \in Nat
            BY <1>6, <6>1 DEF Sound, Ahead, TypedOK, MemoryOK
          <6>4. \A g \in Gens : IsRef(i, g) => g = flush.listed[i]
            BY <1>6, <6>1 DEF Sound, Agree
          <6> QED
            BY <6>1, <6>2, <6>3, <6>4
        <5> QED
          BY <5>1, <5>2
      <4> QED
        BY <1>1, <1>6, <2>2, <4>1 DEF Sound, Ahead
    <3> QED
      BY <1>1, <3>1, <3>2
  <2>5. SavedOnce' /\ TmpAhead'
    BY <1>1, <1>6, IdleOK, EndedKeeps DEF Sound, SavedOnce, TmpAhead, TypedOK
  <2> QED
    BY <2>1, <2>3, <2>4, <2>5 DEF Sound
<1> QED
  BY <1>1, <1>3, <1>5, <1>6

-----------------------------------------------------------------------------
(* Theorems *)

LEMMA HInvNext == HInv /\ [Next]_vars => HInv'
<1> SUFFICES ASSUME HInv, [Next]_vars PROVE HInv'
  OBVIOUS
<1>1. CASE FlushStep
  BY <1>1, FlushBeginKeeps, FlushWriteKeeps, FlushEndKeeps DEF FlushStep
<1>2. CASE Restart
  BY <1>2, RestartKeeps
<1>3. ASSUME NEW c \in Callers, Call(c)
      PROVE  HInv'
  BY <1>3, OpenFileKeeps, ReadFileKeeps, InstallKeeps, ReleaseKeeps, SaveKeeps, LookKeeps,
     CreateKeeps DEF Call
<1>4. CASE UNCHANGED vars
  BY <1>4 DEF vars, HInv, TypedOK, MemoryOK, FlushOK, CallersOK, FileOK, EmptyBefore, Sound,
     OneLoad, Agree, Ahead, SavedOnce, TmpAhead, IsRef, Refers, Loading
<1> QED
  BY <1>1, <1>2, <1>3, <1>4 DEF Next

\* All readers, writers and flushes share one object per job, whatever the number of
\* callers, as long as the first load is not overlapped by another.
THEOREM Shared == Spec => []OneObject
<1>1. HInv => OneObject
  <2>1. SUFFICES ASSUME HInv, ~raced, NEW i \in Ids, NEW g \in Refs(i), NEW h \in Refs(i)
                 PROVE  g = h
    BY DEF OneObject
  <2>2. TypedOK /\ Agree
    BY <2>1 DEF HInv, Sound
  <2>3. \A k \in Refs(i) : IsRef(i, k) /\ k \in Gens
    BY <2>1, <2>2, HistoryConstants DEF Refs, IsRef, Refers, TypedOK, MemoryOK, FlushOK, CallersOK,
       Objects, Gens
  <2> QED
    BY <2>2, <2>3 DEF Agree
<1> QED
  BY <1>1, HInvInit, HInvNext, PTL DEF Spec

\* The history file never takes a job back to an earlier version.
THEOREM Forward == Spec => FileForward
<1>1. HInv /\ [Next]_vars =>
        [~raced' => \A i \in Ids : file[i] # 0 /\ file'[i] # 0 => file'[i] >= file[i]]_vars
  <2>1. SUFFICES ASSUME HInv, Next, ~raced', NEW i \in Ids, file'[i] # 0
                 PROVE  file'[i] >= file[i]
    OBVIOUS
  <2>2. file[i] \in Nat
    BY <2>1 DEF HInv, TypedOK, FileOK
  <2>3. CASE FlushRename
    BY <2>1, <2>3 DEF HInv, Sound, TmpAhead, FlushRename
  <2>4. CASE file' = file
    BY <2>2, <2>4
  <2> QED
    BY <2>1, <2>3, <2>4 DEF Next, FlushStep, FlushBegin, FlushWrite, FlushFails, Restart, Call,
       OpenFile, ReadFile, ReadFails, Install, Release, Save, Look, Create
<1>2. Spec => [][~raced' => \A i \in Ids : file[i] # 0 /\ file'[i] # 0 => file'[i] >= file[i]]_vars
  BY <1>1, HInvInit, HInvNext, PTL DEF Spec
<1> QED
  BY <1>2 DEF FileForward

-----------------------------------------------------------------------------
(* What a save that has been answered promised *)

LEMMA TickGrows ==
  ASSUME NEW a \in Nat, NEW b \in Nat, a <= b
  PROVE  Tick(a) <= Tick(b) /\ Tick(a) \in Nat /\ Tick(b) \in Nat
<1> DEFINE S == SavesPerTick
<1>1. S \in Nat /\ S > 0
  BY HistoryConstants
<1>2. ASSUME NEW n \in Nat
      PROVE  n \div S \in Nat /\ S * (n \div S) <= n /\ n < S * (n \div S) + S
  BY <1>1, <1>2
<1> DEFINE p == a \div S
           q == b \div S
<1>3. p \in Nat /\ q \in Nat /\ S * p <= a /\ b < S * q + S
  BY <1>2
<1> HIDE DEF S, p, q
<1>4. p <= q
  <2> SUFFICES ASSUME p >= q + 1 PROVE FALSE
    BY <1>3
  <2>1. S * p >= S * (q + 1)
    BY <1>1, <1>3
  <2>2. S * (q + 1) = S * q + S
    BY <1>1, <1>3
  <2>3. S * p \in Nat /\ S * q \in Nat
    BY <1>1, <1>3
  <2> HIDE DEF S
  <2> QED
    BY <1>1, <1>3, <2>1, <2>2, <2>3
<1> QED
  BY <1>3, <1>4 DEF Tick, S, p, q

Rivals(f, v) == { k \in Ids : f[k] # 0 /\ Tick(f[k]) >= Tick(v) }

\* The records f have version v of the job i, or are full of others no older.
Cover(f, i, v) == f[i] >= v \/ (f[i] = 0 /\ Cardinality(Rivals(f, v)) >= MaxRecords)

LEMMA CoverGrows ==
  ASSUME NEW f \in [Ids -> Nat], NEW g \in [Ids -> Nat], NEW i \in Ids, NEW v \in Nat, Cover(f, i, v),
         \A k \in Ids : f[k] # 0 => g[k] >= f[k],
         f[i] = 0 => g[i] = 0 \/ g[i] >= v
  PROVE  Cover(g, i, v)
<1>1. CASE f[i] # 0
  BY <1>1 DEF Cover
<1>2. CASE f[i] = 0 /\ (f[i] >= v \/ g[i] >= v)
  BY <1>2 DEF Cover
<1>3. CASE f[i] = 0 /\ g[i] = 0 /\ Cardinality(Rivals(f, v)) >= MaxRecords
  <2>1. ASSUME NEW k \in Rivals(f, v)
        PROVE  k \in Rivals(g, v)
    <3>1. k \in Ids /\ f[k] # 0 /\ Tick(f[k]) >= Tick(v) /\ f[k] <= g[k] /\ g[k] # 0
      BY <2>1 DEF Rivals
    <3>2. Tick(f[k]) <= Tick(g[k]) /\ Tick(f[k]) \in Nat /\ Tick(g[k]) \in Nat /\ Tick(v) \in Nat
      BY <3>1, TickGrows
    <3> QED
      BY <3>1, <3>2 DEF Rivals
  <2>2. Rivals(f, v) \subseteq Rivals(g, v) /\ Rivals(g, v) \subseteq Ids
    BY <2>1 DEF Rivals
  <2>3. IsFiniteSet(Rivals(g, v))
    BY <2>2, HistoryConstants, FS_Subset
  <2>4. /\ Cardinality(Rivals(f, v)) <= Cardinality(Rivals(g, v))
        /\ Cardinality(Rivals(f, v)) \in Nat /\ Cardinality(Rivals(g, v)) \in Nat
    BY <2>2, <2>3, FS_Subset, FS_CardinalityType
  <2>5. MaxRecords \in Nat
    BY HistoryConstants
  <2> QED
    BY <1>3, <2>4, <2>5 DEF Cover
<1> QED
  BY <1>1, <1>2, <1>3 DEF Cover

\* What a flush cuts off is replaced by records no older.
LEMMA CoverCut ==
  ASSUME NEW f \in [Ids -> Nat], NEW K \in SUBSET { k \in Ids : f[k] # 0 },
         Cardinality(K) = MaxRecords \/ K = { k \in Ids : f[k] # 0 },
         \A k \in K, i \in Ids : f[i] # 0 /\ i \notin K => Tick(f[k]) >= Tick(f[i]),
         NEW i \in Ids, NEW v \in Nat, Cover(f, i, v)
  PROVE  Cover([k \in Ids |-> IF k \in K THEN f[k] ELSE 0], i, v)
<1> DEFINE g == [k \in Ids |-> IF k \in K THEN f[k] ELSE 0]
<1>1. g \in [Ids -> Nat] /\ \A k \in Ids : g[k] = IF k \in K THEN f[k] ELSE 0
  OBVIOUS
<1> HIDE DEF g
<1>2. CASE K = { k \in Ids : f[k] # 0 }
  <2>1. \A k \in Ids : g[k] = f[k]
    BY <1>1, <1>2
  <2> QED
    BY <1>1, <2>1, CoverGrows DEF g
<1>3. CASE i \in K
  <2>1. f[i] # 0 /\ f[i] >= v
    BY <1>3 DEF Cover
  <2> QED
    BY <1>1, <1>3, <2>1 DEF Cover, g
<1>4. CASE i \notin K /\ Cardinality(K) = MaxRecords
  <2>1. g[i] = 0
    BY <1>1, <1>4
  <2>2. \A n \in Ids : Tick(f[n]) \in Nat /\ Tick(v) \in Nat
    BY TickGrows
  <2>3. IsFiniteSet(Rivals(g, v)) /\ Rivals(g, v) \subseteq Ids
    BY HistoryConstants, FS_Subset DEF Rivals
  <2>4. MaxRecords \in Nat
    BY HistoryConstants
  <2>5. CASE \A k \in K : Tick(f[k]) >= Tick(v)
    <3>1. K \subseteq Rivals(g, v)
      BY <1>1, <2>5 DEF Rivals
    <3>2. Cardinality(K) <= Cardinality(Rivals(g, v))
      BY <2>3, <3>1, FS_Subset
    <3> QED
      BY <1>4, <2>1, <3>2 DEF Cover, g
  <2>6. CASE \E k \in K : ~(Tick(f[k]) >= Tick(v))
    <3>1. PICK k \in K : ~(Tick(f[k]) >= Tick(v))
      BY <2>6
    <3>2. \A n \in Ids : f[n] # 0 /\ Tick(f[n]) >= Tick(v) => n \in K
      BY <2>2, <3>1
    <3>3. CASE f[i] >= v
      <4>1. f[i] # 0 => Tick(f[i]) >= Tick(v)
        BY <3>3, TickGrows
      <4>2. v = 0
        BY <1>4, <3>2, <3>3, <4>1
      <4> QED
        BY <2>1, <4>2 DEF Cover, g
    <3>4. CASE Cardinality(Rivals(f, v)) >= MaxRecords
      <4>1. Rivals(g, v) = Rivals(f, v)
        BY <1>1, <3>2 DEF Rivals
      <4> QED
        BY <2>1, <3>4, <4>1 DEF Cover, g
    <3> QED
      BY <3>3, <3>4 DEF Cover
  <2> QED
    BY <2>5, <2>6
<1> QED
  BY <1>2, <1>3, <1>4

\* The versions the objects in a table have.
Held(hp, ref) == [i \in Ids |-> IF ref[i] = NoGen THEN 0 ELSE hp[i][ref[i]]]

Promised(f, ack) == \A i \in Ids : Cover(f, i, ack[i])

\* The saves that wait for n flushes at most.
Awaited(f, cs, n) ==
  \A c \in Callers : cs[c].pc = "saving" /\ cs[c].behind <= n => Cover(f, cs[c].id, cs[c].saved)

Busy(fl) == IF fl.pc = "none" THEN 0 ELSE 1

\* Each save waits for a flush of its own, and is no newer than the latest.
Queue ==
  /\ \A c \in Callers : caller[c].pc = "saving" =>
       caller[c].behind \in 1 .. queued + Busy(flush) /\ caller[c].saved <= version
  /\ \A c, d \in Callers :
       caller[c].pc = "saving" /\ caller[d].pc = "saving" /\ caller[c].behind = caller[d].behind => c = d
  /\ acked \in [Ids -> Nat] /\ \A i \in Ids : acked[i] <= version

\* The file has what was promised; so have memory, a flush under way and a load, each
\* of which may become the file; memory has the saves that wait, and the flush
\* those it will answer.
Durable ==
  /\ Promised(file, acked)
  /\ loaded => /\ Promised(Held(heap, cache), acked)
               /\ Awaited(Held(heap, cache), caller, queued + Busy(flush))
  /\ flush.pc = "sorted" => /\ Promised(Held(heap, flush.listed), acked)
                            /\ Awaited(Held(heap, flush.listed), caller, 1)
  /\ flush.pc = "written" => Promised(flush.tmp, acked) /\ Awaited(flush.tmp, caller, 1)
  /\ \A c \in Callers : caller[c].pc = "parsing" => Promised(caller[c].got, acked)

AInv == Queue /\ (~raced => Durable)

LEMMA HeldTyped ==
  ASSUME NEW hp \in [Ids -> [Gens -> Nat]], NEW ref \in [Ids -> Objects]
  PROVE  Held(hp, ref) \in [Ids -> Nat]
BY DEF Held, Objects

\* A step of a caller that neither saves, nor loads, nor gives anything up.
LEMMA Calm ==
  ASSUME HInv, AInv, UNCHANGED << file, heap, loaded, cache, queued, flush, version, acked >>,
         raced => raced',
         \A c \in Callers : caller'[c].pc = "saving" => caller'[c] = caller[c],
         \A c \in Callers : caller'[c].pc = "parsing" => caller'[c] = caller[c] \/ caller'[c].got = file
  PROVE  AInv'
<1>1. Queue'
  BY DEF AInv, Queue
<1>2. ASSUME ~raced'
      PROVE  Durable'
  <2>1. Durable
    BY <1>2 DEF AInv
  <2>2. loaded' => /\ Promised(Held(heap', cache'), acked')
                   /\ Awaited(Held(heap', cache'), caller', queued' + Busy(flush'))
    BY <2>1 DEF Durable, Awaited
  <2>3. flush'.pc = "sorted" => /\ Promised(Held(heap', flush'.listed), acked')
                                /\ Awaited(Held(heap', flush'.listed), caller', 1)
    BY <2>1 DEF Durable, Awaited
  <2>4. flush'.pc = "written" => Promised(flush'.tmp, acked') /\ Awaited(flush'.tmp, caller', 1)
    BY <2>1 DEF Durable, Awaited
  <2>5. \A c \in Callers : caller'[c].pc = "parsing" => Promised(caller'[c].got, acked')
    BY <2>1 DEF Durable
  <2> QED
    BY <2>1, <2>2, <2>3, <2>4, <2>5 DEF Durable
<1> QED
  BY <1>1, <1>2 DEF AInv

LEMMA CallKept ==
  ASSUME HInv, AInv, NEW c \in Callers,
         OpenFile(c) \/ ReadFile(c) \/ Release(c) \/ \E i \in Ids : Look(c, i) \/ Create(c, i)
  PROVE  AInv'
<1>1. PICK v : caller' = [caller EXCEPT ![c] = v] /\ v.pc # "saving" /\ (v.pc = "parsing" => v.got = file)
  <2>1. CASE OpenFile(c)
    <3> DEFINE v == [caller[c] EXCEPT !.pc = "reading"]
    <3>1. v.pc = "reading"
      BY DEF HInv, TypedOK, CallersOK
    <3> HIDE DEF v
    <3> QED
      BY <2>1, <3>1 DEF OpenFile, v
  <2>2. CASE ReadFile(c)
    <3> DEFINE v == [caller[c] EXCEPT !.pc = "parsing", !.got = file]
    <3>1. v.pc = "parsing" /\ v.got = file
      BY DEF HInv, TypedOK, CallersOK
    <3>2. caller' = [caller EXCEPT ![c] = v]
      BY <2>2 DEF ReadFile
    <3> HIDE DEF v
    <3> QED
      BY <3>1, <3>2
  <2>3. CASE Release(c)
    BY <2>3, IdleOK DEF Release
  <2>4. ASSUME NEW i \in Ids, Look(c, i) \/ Create(c, i)
        PROVE  \E v : caller' = [caller EXCEPT ![c] = v] /\ v.pc = "holding"
    <3>1. PICK g : caller' = [caller EXCEPT ![c] = [Idle EXCEPT !.pc = "holding", !.id = i, !.gen = g]]
      BY <2>4 DEF Look, Create
    <3> DEFINE v == [Idle EXCEPT !.pc = "holding", !.id = i, !.gen = g]
    <3>2. v.pc = "holding"
      BY DEF Idle
    <3> HIDE DEF v
    <3> QED
      BY <3>1, <3>2 DEF v
  <2> QED
    BY <2>1, <2>2, <2>3, <2>4
<1>2. \A d \in Callers : caller'[d] = IF d = c THEN v ELSE caller[d]
  BY <1>1 DEF HInv, TypedOK, CallersOK
<1>3. UNCHANGED << file, heap, loaded, cache, queued, flush, version, acked >> /\ (raced => raced')
  <2>1. CASE raced' = raced
    BY <2>1 DEF OpenFile, ReadFile, Release, Look, Create
  <2>2. CASE OpenFile(c)
    BY <2>2, Zenon DEF OpenFile
  <2> QED
    BY <2>1, <2>2 DEF OpenFile, ReadFile, Release, Look, Create
<1> QED
  BY <1>1, <1>2, <1>3, Calm

\* Nothing is promised any more.
LEMMA ReadFailsKept ==
  ASSUME HInv, AInv, NEW c \in Callers, ReadFails(c)
  PROVE  AInv'
<1>1. /\ caller' = [caller EXCEPT ![c] = [caller[c] EXCEPT !.pc = "parsing", !.got = Nothing]]
      /\ acked' = Nothing /\ caller[c].pc = "reading"
      /\ UNCHANGED << file, heap, loaded, cache, queued, flush, version, raced >>
  BY DEF ReadFails
<1>2. \A d \in Callers : caller'[d].pc = "saving" => caller'[d] = caller[d]
  BY <1>1 DEF HInv, TypedOK, CallersOK
<1>3. version \in Nat
  BY DEF HInv, TypedOK, MemoryOK
<1>4. Queue'
  BY <1>1, <1>2, <1>3 DEF AInv, Queue, Nothing
<1>5. ASSUME ~raced'
      PROVE  Durable'
  <2>1. ~loaded /\ \A d \in Callers : caller[d].pc = "parsing" => d = c
    BY <1>1, <1>5 DEF HInv, Sound, OneLoad, Loading
  <2>2. flush.pc = "none"
    BY <2>1 DEF HInv, EmptyBefore
  <2>3. Promised(file, acked')
    BY <1>1 DEF Promised, Cover, Nothing, HInv, TypedOK, FileOK
  <2>4. \A d \in Callers : caller'[d].pc = "parsing" => caller'[d].got = Nothing
    BY <1>1, <2>1 DEF HInv, TypedOK, CallersOK
  <2>5. Promised(Nothing, acked')
    BY <1>1 DEF Promised, Cover, Nothing
  <2> QED
    BY <1>1, <2>1, <2>2, <2>3, <2>4, <2>5 DEF Durable
<1> QED
  BY <1>4, <1>5 DEF AInv

\* The first load: memory has what was read.
LEMMA InstallKept ==
  ASSUME HInv, AInv, NEW c \in Callers, Install(c)
  PROVE  AInv'
<1>1. /\ heap' = [i \in Ids |-> [heap[i] EXCEPT ![c] = caller[c].got[i]]]
      /\ cache' = [i \in Ids |-> IF caller[c].got[i] # 0 THEN c ELSE NoGen]
      /\ caller' = [caller EXCEPT ![c] = Idle]
      /\ caller[c].pc = "parsing"
      /\ UNCHANGED << file, queued, flush, version, raced, acked >>
  BY DEF Install
<1>2. \A d \in Callers : caller'[d].pc # "idle" => d # c /\ caller'[d] = caller[d]
  BY <1>1, IdleOK DEF HInv, TypedOK, CallersOK
<1>3. Queue'
  BY <1>1, <1>2 DEF AInv, Queue
<1>4. ASSUME ~raced'
      PROVE  Durable'
  <2>1. Durable /\ ~loaded /\ \A d \in Callers : caller[d].pc = "parsing" => d = c
    BY <1>1, <1>4 DEF AInv, HInv, Sound, OneLoad, Loading
  <2>2. flush.pc = "none" /\ \A d \in Callers : caller[d].pc # "saving"
    BY <2>1 DEF HInv, EmptyBefore, Refers
  <2>3. caller[c].got \in [Ids -> Nat] /\ c \in Gens /\ c # NoGen
    BY HistoryConstants DEF HInv, TypedOK, CallersOK, Gens
  <2>4. \A i \in Ids : heap'[i][c] = caller[c].got[i]
    BY <1>1, <2>3 DEF HInv, TypedOK, MemoryOK
  <2>5. \A i \in Ids : Held(heap', cache')[i] = caller[c].got[i]
    BY <1>1, <2>3, <2>4 DEF Held
  <2>6. Held(heap', cache') = caller[c].got
    BY <2>3, <2>5 DEF Held
  <2>7. Promised(caller[c].got, acked)
    BY <1>1, <2>1 DEF Durable
  <2> QED
    BY <1>1, <1>2, <2>1, <2>2, <2>6, <2>7 DEF Durable, Awaited
<1> QED
  BY <1>3, <1>4 DEF AInv

LEMMA SaveKept ==
  ASSUME HInv, AInv, NEW c \in Callers, Save(c)
  PROVE  AInv'
<1> DEFINE i == caller[c].id
           g == caller[c].gen
           b == queued + IF flush.pc = "none" THEN 1 ELSE 2
           v == [caller[c] EXCEPT !.pc = "saving", !.saved = version + 1, !.behind = b]
<1>1. /\ caller[c].pc = "holding"
      /\ version' = version + 1 /\ queued' = queued + 1
      /\ heap' = [heap EXCEPT ![i][g] = version + 1]
      /\ cache' = [cache EXCEPT ![i] = g]
      /\ caller' = [caller EXCEPT ![c] = v]
      /\ UNCHANGED << file, loaded, flush, acked, raced >>
  BY DEF Save
<1>2. i \in Ids /\ g \in Gens /\ g # NoGen /\ queued \in Nat /\ version \in Nat
      /\ heap \in [Ids -> [Gens -> Nat]] /\ cache \in [Ids -> Objects]
  BY HistoryConstants DEF HInv, TypedOK, CallersOK, MemoryOK, Gens
<1>3. v.pc = "saving" /\ v.id = i /\ v.saved = version + 1 /\ v.behind = b
  BY DEF HInv, TypedOK, CallersOK
<1>4. b \in Nat /\ b = queued' + Busy(flush') /\ b > queued + Busy(flush) /\ b >= 1
      /\ (flush.pc # "none" => b >= 2)
  BY <1>1, <1>2 DEF Busy
<1> HIDE DEF v, b
<1>5. \A d \in Callers : caller'[d] = IF d = c THEN v ELSE caller[d]
  BY <1>1 DEF HInv, TypedOK, CallersOK
<1>6. Queue'
  <2>1. \A d \in Callers : caller[d].pc = "saving" =>
          /\ caller[d].behind \in 1 .. queued + Busy(flush) /\ caller[d].saved <= version
          /\ caller[d].saved \in Nat
    BY DEF AInv, Queue, HInv, TypedOK, CallersOK
  <2>2. Busy(flush) \in Nat /\ b \in 1 .. queued' + Busy(flush')
    BY <1>4 DEF Busy
  <2>3. ASSUME NEW d \in Callers, caller'[d].pc = "saving"
        PROVE  caller'[d].behind \in 1 .. queued' + Busy(flush') /\ caller'[d].saved <= version'
    BY <1>1, <1>2, <1>3, <1>4, <1>5, <2>1, <2>2, <2>3
  <2>4. \A d \in Callers : d # c /\ caller'[d].pc = "saving" => caller'[d].behind # b
    BY <1>2, <1>4, <1>5, <2>1, <2>2
  <2>5. acked' \in [Ids -> Nat] /\ \A k \in Ids : acked'[k] <= version'
    BY <1>1, <1>2 DEF AInv, Queue
  <2>6. \A d, e \in Callers :
          caller'[d].pc = "saving" /\ caller'[e].pc = "saving" /\ caller'[d].behind = caller'[e].behind => d = e
    BY <1>3, <1>5, <2>4 DEF AInv, Queue
  <2> QED
    BY <2>3, <2>5, <2>6 DEF Queue
<1>7. ASSUME ~raced'
      PROVE  Durable'
  <2>1. Durable /\ loaded /\ \A d \in Callers : caller[d].pc # "parsing"
    BY <1>1, <1>7 DEF AInv, HInv, EmptyBefore, Refers, Sound, OneLoad, Loading
  <2>2. \A k \in Ids : \A h \in Gens :
          /\ heap'[k][h] = (IF k = i /\ h = g THEN version + 1 ELSE heap[k][h])
          /\ heap[k][h] \in Nat /\ heap[k][h] <= version
    BY <1>1, <1>2, <1>7 DEF HInv, Sound, Ahead
  <2>3. heap' \in [Ids -> [Gens -> Nat]] /\ cache' \in [Ids -> Objects] /\ flush.listed \in [Ids -> Objects]
    BY <1>1, <1>2 DEF HInv, TypedOK, FlushOK, Objects
  <2>4. \A k \in Ids : \A h \in Gens : heap'[k][h] >= heap[k][h]
    BY <1>2, <2>2
  <2> DEFINE f == Held(heap, cache)
             n == Held(heap', cache')
             l == Held(heap, flush.listed)
             m == Held(heap', flush.listed)
  <2>5. f \in [Ids -> Nat] /\ n \in [Ids -> Nat] /\ l \in [Ids -> Nat] /\ m \in [Ids -> Nat]
    BY <1>2, <2>3, HeldTyped
  <2>6. \A k \in Ids : /\ f[k] = (IF cache[k] = NoGen THEN 0 ELSE heap[k][cache[k]])
                       /\ n[k] = (IF cache'[k] = NoGen THEN 0 ELSE heap'[k][cache'[k]])
                       /\ l[k] = (IF flush.listed[k] = NoGen THEN 0 ELSE heap[k][flush.listed[k]])
                       /\ m[k] = (IF flush.listed[k] = NoGen THEN 0 ELSE heap'[k][flush.listed[k]])
    BY DEF Held
  <2>7. \A k \in Ids : cache'[k] = IF k = i THEN g ELSE cache[k]
    BY <1>1, <1>2
  <2>8. n[i] = version + 1 /\ \A k \in Ids : k # i => n[k] = f[k]
    BY <1>2, <2>2, <2>6, <2>7 DEF Objects
  <2>9. f[i] <= version
    BY <1>2, <2>2, <2>6 DEF Objects
  <2>10. \A k \in Ids : (f[k] # 0 => n[k] >= f[k]) /\ (l[k] # 0 => m[k] >= l[k])
    BY <1>2, <2>3, <2>4, <2>5, <2>6, <2>8, <2>9 DEF Objects
  <2>11. \A k \in Ids : l[k] = 0 => m[k] = 0
    BY <1>7, <1>1, <2>6 DEF HInv, Sound, SavedOnce
  <2> HIDE DEF f, n, l, m
  <2>12. ASSUME NEW k \in Ids, NEW u \in Nat, u <= version, Cover(f, k, u)
         PROVE  Cover(n, k, u)
    <3>1. f[k] = 0 => n[k] = 0 \/ n[k] >= u
      BY <1>2, <2>8, <2>12
    <3> QED
      BY <2>5, <2>10, <2>12, <3>1, CoverGrows
  <2>13. ASSUME NEW k \in Ids, NEW u \in Nat, Cover(l, k, u)
         PROVE  Cover(m, k, u)
    BY <2>5, <2>10, <2>11, <2>13, CoverGrows
  <2>14. \A d \in Callers : caller[d].pc = "saving" =>
           /\ caller[d].id \in Ids /\ caller[d].saved \in Nat /\ caller[d].saved <= version
           /\ caller[d].behind <= queued + Busy(flush)
    BY DEF AInv, Queue, HInv, TypedOK, CallersOK
  <2>15. \A k \in Ids : acked[k] \in Nat /\ acked[k] <= version
    BY DEF AInv, Queue
  <2>16. Promised(n, acked')
    BY <1>1, <2>1, <2>12, <2>15 DEF Durable, Promised, f
  <2>17. Cover(n, i, version + 1)
    BY <1>2, <2>8 DEF Cover
  <2>18. ASSUME NEW d \in Callers, caller'[d].pc = "saving"
         PROVE  Cover(n, caller'[d].id, caller'[d].saved)
    <3>1. CASE d = c
      BY <1>3, <1>5, <2>17, <3>1
    <3>2. CASE d # c
      <4>1. caller'[d] = caller[d] /\ Cover(f, caller[d].id, caller[d].saved)
        BY <1>5, <2>1, <2>14, <2>18, <3>2 DEF Durable, Awaited, f
      <4> QED
        BY <2>12, <2>14, <2>18, <4>1
    <3> QED
      BY <3>1, <3>2
  <2>19. Awaited(n, caller', queued' + Busy(flush'))
    BY <2>18 DEF Awaited
  <2>20. \A d \in Callers : flush.pc # "none" /\ caller'[d].pc = "saving" /\ caller'[d].behind <= 1
           => caller'[d] = caller[d]
    BY <1>3, <1>4, <1>5
  <2>21. flush.pc = "sorted" => Promised(m, acked') /\ Awaited(m, caller', 1)
    BY <1>1, <2>1, <2>13, <2>14, <2>15, <2>20 DEF Durable, Promised, Awaited, l
  <2>22. flush.pc = "written" => Promised(flush.tmp, acked') /\ Awaited(flush.tmp, caller', 1)
    BY <1>1, <2>1, <2>20 DEF Durable, Promised, Awaited
  <2>23. \A d \in Callers : caller'[d].pc # "parsing"
    BY <1>3, <1>5, <2>1
  <2> QED
    BY <1>1, <2>1, <2>16, <2>19, <2>21, <2>22, <2>23 DEF Durable, n, m
<1> QED
  BY <1>6, <1>7 DEF AInv

LEMMA FlushBeginKept ==
  ASSUME HInv, AInv, FlushBegin
  PROVE  AInv'
<1>1. PICK K \in SUBSET Ids : Kept(K) /\ cache' = [i \in Ids |-> IF i \in K THEN cache[i] ELSE NoGen]
  BY DEF FlushBegin
<1>2. /\ flush.pc = "none" /\ queued > 0 /\ queued' = queued - 1
      /\ flush' = [NoFlush EXCEPT !.pc = "sorted", !.listed = cache']
      /\ UNCHANGED << file, heap, loaded, caller, version, acked, raced >>
  BY DEF FlushBegin
<1>3. flush'.pc = "sorted" /\ flush'.listed = cache'
  BY <1>2 DEF NoFlush
<1>4. queued \in Nat /\ heap \in [Ids -> [Gens -> Nat]] /\ cache \in [Ids -> Objects]
  BY DEF HInv, TypedOK, MemoryOK
<1>5. queued' + Busy(flush') = queued + Busy(flush)
  BY <1>2, <1>3, <1>4 DEF Busy
<1>6. Queue'
  BY <1>2, <1>5 DEF AInv, Queue
<1>7. ASSUME ~raced'
      PROVE  Durable'
  <2>1. Durable /\ loaded
    BY <1>2, <1>4, <1>7 DEF AInv, HInv, EmptyBefore
  <2> DEFINE f == Held(heap, cache)
             n == Held(heap, cache')
  <2>2. f \in [Ids -> Nat] /\ \A k \in Ids : f[k] = IF cache[k] = NoGen THEN 0 ELSE heap[k][cache[k]]
    BY <1>4, HeldTyped DEF Held
  <2>3. \A k \in Ids : f[k] # 0 <=> cache[k] # NoGen
    BY <1>2, <1>7, <2>2 DEF HInv, Sound, SavedOnce
  <2>4. Cached = { k \in Ids : f[k] # 0 }
    BY <2>3 DEF Cached
  <2>5. \A k \in Cached : Stamp(k) = Tick(f[k])
    BY <2>2 DEF Cached, Stamp
  <2>6. n = [k \in Ids |-> IF k \in K THEN f[k] ELSE 0]
    BY <1>1, <2>2 DEF Held
  <2> HIDE DEF f, n
  <2>7. /\ K \in SUBSET { k \in Ids : f[k] # 0 }
        /\ Cardinality(K) = MaxRecords \/ K = { k \in Ids : f[k] # 0 }
        /\ \A k \in K, i \in Ids : f[i] # 0 /\ i \notin K => Tick(f[k]) >= Tick(f[i])
    BY <1>1, <2>4, <2>5 DEF Kept
  <2>8. \A k \in Ids, v \in Nat : Cover(f, k, v) => Cover(n, k, v)
    BY <2>2, <2>6, <2>7, CoverCut
  <2>9. \A d \in Callers : caller[d].id \in Ids /\ caller[d].saved \in Nat
    BY DEF HInv, TypedOK, CallersOK
  <2>10. \A k \in Ids : acked[k] \in Nat
    BY DEF AInv, Queue
  <2>11. Promised(n, acked) /\ Awaited(n, caller, queued + Busy(flush))
    BY <2>1, <2>8, <2>9, <2>10 DEF Durable, Promised, Awaited, f
  <2>12. 1 <= queued + Busy(flush)
    BY <1>2, <1>4 DEF Busy
  <2>13. \A d \in Callers : caller[d].pc = "saving" => caller[d].behind <= queued + Busy(flush)
    BY DEF AInv, Queue
  <2>14. Awaited(n, caller, 1)
    BY <2>11, <2>13 DEF Awaited
  <2>15. heap' = heap /\ acked' = acked /\ caller' = caller /\ file' = file /\ loaded' = loaded
    BY <1>2
  <2> QED
    BY <1>3, <1>5, <2>1, <2>11, <2>14, <2>15 DEF Durable, n
<1> QED
  BY <1>6, <1>7 DEF AInv

LEMMA FlushWriteKept ==
  ASSUME HInv, AInv, FlushWrite
  PROVE  AInv'
<1>1. /\ flush.pc = "sorted"
      /\ flush' = [flush EXCEPT !.pc = "written", !.tmp = Held(heap, flush.listed)]
      /\ UNCHANGED << file, heap, loaded, cache, queued, caller, version, acked, raced >>
  BY DEF FlushWrite, Held
<1>2. flush'.pc = "written" /\ flush'.tmp = Held(heap, flush.listed)
  BY <1>1 DEF HInv, TypedOK, FlushOK
<1>3. Busy(flush') = Busy(flush)
  BY <1>1, <1>2 DEF Busy
<1>4. Queue'
  BY <1>1, <1>3 DEF AInv, Queue
<1>5. ~raced' => Durable'
  BY <1>1, <1>2, <1>3 DEF AInv, Durable
<1> QED
  BY <1>4, <1>5 DEF AInv

\* A flush ends: one save at most is answered, and the others are one nearer.
LEMMA EndedQueue ==
  ASSUME HInv, AInv, flush.pc # "none", flush' = NoFlush, Ended, queued' = queued, version' = version
  PROVE  /\ \A c \in Callers : caller'[c].pc = "saving" =>
              /\ caller[c].pc = "saving" /\ caller'[c].id = caller[c].id /\ caller'[c].saved = caller[c].saved
              /\ caller'[c].behind \in 1 .. queued' + Busy(flush') /\ caller'[c].saved <= version'
         /\ \A c, d \in Callers :
              caller'[c].pc = "saving" /\ caller'[d].pc = "saving" /\ caller'[c].behind = caller'[d].behind
                => c = d
         /\ \A c, d \in Callers : Answered(c) /\ Answered(d) => c = d
<1>1. Busy(flush) = 1 /\ Busy(flush') = 0 /\ queued \in Nat
  BY IdleOK DEF Busy, HInv, TypedOK, MemoryOK
<1>2. ASSUME NEW c \in Callers, caller'[c].pc = "saving"
      PROVE  /\ caller[c].pc = "saving" /\ caller'[c].id = caller[c].id /\ caller'[c].saved = caller[c].saved
             /\ caller'[c].behind = caller[c].behind - 1 /\ caller[c].behind # 1
  <2>1. caller[c] \in [ pc : {"idle", "reading", "parsing", "holding", "saving"}, id : Ids,
                        gen : Gens, saved : Nat, behind : Int, got : [Ids -> Nat] ]
    BY DEF HInv, TypedOK, CallersOK
  <2>2. ~Answered(c)
    BY <1>2, <2>1 DEF Ended
  <2>3. caller[c].pc = "saving"
    BY <1>2, <2>2 DEF Ended
  <2>4. caller'[c] = [caller[c] EXCEPT !.behind = @ - 1]
    BY <2>2, <2>3 DEF Ended
  <2> QED
    BY <2>1, <2>2, <2>3, <2>4 DEF Answered
<1>3. \A c \in Callers : caller[c].pc = "saving" =>
        caller[c].behind \in 1 .. queued + 1 /\ caller[c].saved <= version
  BY <1>1 DEF AInv, Queue
<1>4. \A c \in Callers : caller'[c].pc = "saving" => caller'[c].behind \in 1 .. queued
  BY <1>1, <1>2, <1>3
<1>5. \A c, d \in Callers :
        caller[c].pc = "saving" /\ caller[d].pc = "saving" /\ caller[c].behind = caller[d].behind => c = d
  BY DEF AInv, Queue
<1>6. \A c, d \in Callers :
        caller'[c].pc = "saving" /\ caller'[d].pc = "saving" /\ caller'[c].behind = caller'[d].behind => c = d
  BY <1>2, <1>3, <1>5
<1>7. \A c, d \in Callers : Answered(c) /\ Answered(d) => c = d
  BY <1>5 DEF Answered
<1> QED
  BY <1>1, <1>2, <1>3, <1>4, <1>6, <1>7

\* The flush that was renamed promises what the save it answers wrote.
LEMMA FlushRenameKept ==
  ASSUME HInv, AInv, FlushRename
  PROVE  AInv'
<1>1. /\ flush.pc = "written" /\ file' = flush.tmp /\ flush' = NoFlush /\ Ended
      /\ UNCHANGED << heap, loaded, cache, queued, version, raced >>
      /\ acked' = [i \in Ids |-> IF \E c \in Callers : Answered(c) /\ caller[c].id = i
                                 THEN caller[CHOOSE c \in Callers : Answered(c)].saved
                                 ELSE acked[i]]
  BY DEF FlushRename
<1>2. /\ \A c \in Callers : caller'[c].pc = "saving" =>
           /\ caller[c].pc = "saving" /\ caller'[c].id = caller[c].id /\ caller'[c].saved = caller[c].saved
           /\ caller'[c].behind \in 1 .. queued' + Busy(flush') /\ caller'[c].saved <= version'
      /\ \A c, d \in Callers :
           caller'[c].pc = "saving" /\ caller'[d].pc = "saving" /\ caller'[c].behind = caller'[d].behind
             => c = d
      /\ \A c, d \in Callers : Answered(c) /\ Answered(d) => c = d
  BY <1>1, EndedQueue
<1>3. \A c \in Callers : caller[c].id \in Ids /\ caller[c].saved \in Nat
  BY DEF HInv, TypedOK, CallersOK
<1>4. \A c \in Callers : Answered(c) => /\ caller[c].pc = "saving" /\ caller[c].behind <= 1
                                        /\ caller[c].saved <= version
                                        /\ caller[c].behind <= queued + Busy(flush)
  BY DEF Answered, AInv, Queue
<1>5. ASSUME NEW i \in Ids
      PROVE  \/ \E c \in Callers : Answered(c) /\ caller[c].id = i /\ acked'[i] = caller[c].saved
             \/ acked'[i] = acked[i]
  <2>1. CASE \E c \in Callers : Answered(c) /\ caller[c].id = i
    <3>1. PICK c \in Callers : Answered(c) /\ caller[c].id = i
      BY <2>1
    <3>2. (CHOOSE d \in Callers : Answered(d)) = c
      BY <1>2, <3>1
    <3> QED
      BY <1>1, <2>1, <3>1, <3>2
  <2>2. CASE ~ \E c \in Callers : Answered(c) /\ caller[c].id = i
    BY <1>1, <2>2
  <2> QED
    BY <2>1, <2>2
<1>6. \A i \in Ids : acked'[i] \in Nat /\ acked'[i] <= version'
  BY <1>1, <1>3, <1>4, <1>5 DEF AInv, Queue
<1>7. acked' \in [Ids -> Nat]
  <2>1. acked' = [i \in Ids |-> acked'[i]]
    BY <1>1
  <2> QED
    BY <1>6, <2>1
<1>8. Queue'
  BY <1>2, <1>6, <1>7 DEF Queue
<1>9. ASSUME ~raced'
      PROVE  Durable'
  <2>1. Durable /\ loaded /\ \A c \in Callers : caller[c].pc # "parsing"
    BY <1>1, <1>9 DEF AInv, HInv, EmptyBefore, Sound, OneLoad, Loading
  <2>2. ASSUME NEW f, Promised(f, acked),
               \A c \in Callers : Answered(c) => Cover(f, caller[c].id, caller[c].saved)
        PROVE  Promised(f, acked')
    BY <1>5, <2>2 DEF Promised
  <2>3. \A c \in Callers : Answered(c) =>
          /\ Cover(flush.tmp, caller[c].id, caller[c].saved)
          /\ Cover(Held(heap, cache), caller[c].id, caller[c].saved)
    BY <1>1, <1>4, <2>1 DEF Durable, Awaited
  <2>4. Promised(flush.tmp, acked')
    BY <1>1, <2>1, <2>2, <2>3 DEF Durable
  <2>5. Promised(Held(heap, cache), acked')
    BY <2>1, <2>2, <2>3 DEF Durable
  <2>6. \A c \in Callers : caller[c].pc = "saving" => caller[c].behind <= queued + Busy(flush)
    BY DEF AInv, Queue
  <2>7. \A c \in Callers : caller[c].pc = "saving" =>
          Cover(Held(heap, cache), caller[c].id, caller[c].saved)
    BY <2>1, <2>6 DEF Durable, Awaited
  <2>8. Awaited(Held(heap, cache), caller', queued' + Busy(flush'))
    BY <1>2, <2>7 DEF Awaited
  <2>9. \A c \in Callers : caller'[c].pc # "parsing"
    BY <1>1, <2>1, EndedKeeps DEF HInv, TypedOK
  <2>10. flush'.pc = "none"
    BY <1>1, IdleOK
  <2> QED
    BY <1>1, <2>4, <2>5, <2>8, <2>9, <2>10 DEF Durable
<1> QED
  BY <1>8, <1>9 DEF AInv

\* A flush that failed promises nothing.
LEMMA FlushFailsKept ==
  ASSUME HInv, AInv, FlushFails
  PROVE  AInv'
<1>1. /\ flush.pc # "none" /\ flush' = NoFlush /\ Ended
      /\ UNCHANGED << file, heap, loaded, cache, queued, version, acked, raced >>
  BY DEF FlushFails
<1>2. /\ \A c \in Callers : caller'[c].pc = "saving" =>
           /\ caller[c].pc = "saving" /\ caller'[c].id = caller[c].id /\ caller'[c].saved = caller[c].saved
           /\ caller'[c].behind \in 1 .. queued' + Busy(flush') /\ caller'[c].saved <= version'
      /\ \A c, d \in Callers :
           caller'[c].pc = "saving" /\ caller'[d].pc = "saving" /\ caller'[c].behind = caller'[d].behind
             => c = d
  BY <1>1, EndedQueue
<1>3. Queue'
  BY <1>1, <1>2 DEF AInv, Queue
<1>4. ASSUME ~raced'
      PROVE  Durable'
  <2>1. Durable /\ loaded /\ \A c \in Callers : caller[c].pc # "parsing"
    BY <1>1, <1>4 DEF AInv, HInv, EmptyBefore, Sound, OneLoad, Loading
  <2>2. \A c \in Callers : caller[c].pc = "saving" => caller[c].behind <= queued + Busy(flush)
    BY DEF AInv, Queue
  <2>3. \A c \in Callers : caller[c].pc = "saving" =>
          Cover(Held(heap, cache), caller[c].id, caller[c].saved)
    BY <2>1, <2>2 DEF Durable, Awaited
  <2>4. Awaited(Held(heap, cache), caller', queued' + Busy(flush'))
    BY <1>2, <2>3 DEF Awaited
  <2>5. \A c \in Callers : caller'[c].pc # "parsing"
    BY <1>1, <2>1, EndedKeeps DEF HInv, TypedOK
  <2>6. flush'.pc = "none"
    BY <1>1, IdleOK
  <2> QED
    BY <1>1, <2>1, <2>4, <2>5, <2>6 DEF Durable
<1> QED
  BY <1>3, <1>4 DEF AInv

LEMMA RestartKept ==
  ASSUME HInv, AInv, Restart
  PROVE  AInv'
<1>1. \A c \in Callers : caller'[c].pc = "idle"
  BY IdleOK DEF Restart, AllIdle
<1>2. /\ loaded' = FALSE /\ flush'.pc = "none"
      /\ UNCHANGED << file, version, acked, raced >>
  BY IdleOK DEF Restart
<1>3. Queue'
  BY <1>1, <1>2 DEF AInv, Queue
<1>4. ~raced' => Durable'
  BY <1>1, <1>2 DEF AInv, Durable
<1> QED
  BY <1>3, <1>4 DEF AInv

LEMMA AInvInit == Init => AInv
<1> HAVE Init
<1>1. \A c \in Callers : caller[c].pc = "idle"
  BY IdleOK DEF Init, AllIdle
<1>2. file \in [Ids -> Nat] /\ acked = file /\ \A i \in Ids : file[i] <= version
  BY DEF Init
<1>3. Queue
  BY <1>1, <1>2 DEF Queue
<1>4. Promised(file, acked)
  BY <1>2 DEF Promised, Cover
<1>5. loaded = FALSE /\ flush.pc = "none"
  BY IdleOK DEF Init
<1>6. Durable
  BY <1>1, <1>4, <1>5 DEF Durable
<1> QED
  BY <1>3, <1>6 DEF AInv

LEMMA AInvNext == HInv /\ AInv /\ [Next]_vars => AInv'
<1> SUFFICES ASSUME HInv, AInv, [Next]_vars PROVE AInv'
  OBVIOUS
<1>1. CASE FlushStep
  BY <1>1, FlushBeginKept, FlushWriteKept, FlushRenameKept, FlushFailsKept DEF FlushStep
<1>2. CASE Restart
  BY <1>2, RestartKept
<1>3. ASSUME NEW c \in Callers, Call(c)
      PROVE  AInv'
  BY <1>3, CallKept, ReadFailsKept, InstallKept, SaveKept DEF Call
<1>4. CASE UNCHANGED vars
  BY <1>4, Calm DEF vars
<1> QED
  BY <1>1, <1>2, <1>3, <1>4 DEF Next

\* A save that was answered after its flush was renamed is in the file for good, or cut
\* off it by the cap for records no older, whatever is saved, fails or restarts later.
THEOREM Acknowledged == Spec => []AckedDurable
<1>1. AInv => AckedDurable
  BY DEF AInv, Durable, Promised, Cover, Rivals, AckedDurable
<1> QED
  BY <1>1, HInvInit, HInvNext, AInvInit, AInvNext, PTL DEF Spec
=============================================================================
