-------------------------- MODULE ClientAppProofs --------------------------
(* Theorems about ClientApp and SelectionTree, for every torrent, any number of *)
(* intakes, calls, presses and faults.                                          *)
EXTENDS ClientApp, FiniteSetTheorems, TLAPS

-----------------------------------------------------------------------------
(* The tree *)

\* Induction, without a predicate as a parameter: a set of numbers has a least one.
LEMMA LeastNumber ==
  ASSUME NEW T \in SUBSET Nat, T # {}
  PROVE  \E n \in T : \A m \in T : n <= m
<1>1. IsWellFoundedOn(OpToRel(<, Nat), Nat)
  BY NatLessThanWellFounded
<1>2. PICK n \in T : \A m \in T : ~ (<<m, n>> \in OpToRel(<, Nat))
  BY <1>1, WFMin, Zenon
<1>3. \A m \in T : ~(m < n)
  BY <1>2 DEF OpToRel
<1> QED BY <1>3

\* The same for the subsets of a finite set.
LEMMA LeastSubset ==
  ASSUME NEW S, IsFiniteSet(S), NEW T \in SUBSET (SUBSET S), T # {}
  PROVE  \E U \in T : \A V \in T : V \subseteq U => V = U
<1>1. T \subseteq FiniteSubsetsOf(S)
  BY FS_FiniteSubsetsOfFinite
<1>2. PICK U \in T : \A V \in T : ~ (<<V, U>> \in StrictSubsetOrdering(S))
  BY <1>1, WFMin, FS_StrictSubsetOrderingWellFounded, Zenon
<1>3. \A V \in T : V \subseteq U => V = U
  BY <1>2 DEF StrictSubsetOrdering
<1> QED BY <1>3

LEMMA PrefixIs ==
  ASSUME NEW s \in Seq(STRING), NEW t \in Seq(STRING)
  PROVE  IsPrefix(s, t) <=> Len(s) <= Len(t) /\ \A i \in 1..Len(s) : s[i] = t[i]
BY DEF IsPrefix

LEMMA NodeIs ==
  ASSUME NEW n \in Nodes
  PROVE  /\ n \in Seq(STRING) /\ Len(n) \in Nat \ {0}
         /\ DescendantIndexes(n) # {}
<1>1. PICK f \in Files : \E k \in 1..Len(Path[f]) : n = SubSeq(Path[f], 1, k)
  BY DEF Nodes
<1> PICK k \in 1..Len(Path[f]) : n = SubSeq(Path[f], 1, k)
  BY <1>1
<1>2. Path[f] \in Seq(STRING)
  BY PathAssumption
<1>3. n \in Seq(STRING) /\ Len(n) = k /\ \A i \in 1..k : n[i] = Path[f][i]
  BY <1>1, <1>2
<1>4. Len(n) <= Len(Path[f]) /\ \A i \in 1..Len(n) : n[i] = Path[f][i]
  BY <1>2, <1>3
<1>5. IsPrefix(n, Path[f])
  BY <1>2, <1>3, <1>4, PrefixIs
<1> QED BY <1>3, <1>5 DEF DescendantIndexes

LEMMA Below ==
  ASSUME NEW n \in Nodes, IsFolder(n)
  PROVE  /\ Children(n) # {}
         /\ DescendantIndexes(n) = UNION {DescendantIndexes(c) : c \in Children(n)}
<1> USE NodeIs
<1>1. ASSUME NEW f \in DescendantIndexes(n)
      PROVE  \E c \in Children(n) : f \in DescendantIndexes(c)
  <2>1. Path[f] \in Seq(STRING) /\ f \in Files /\ IsPrefix(n, Path[f]) /\ Path[f] # n
    BY PathAssumption DEF DescendantIndexes, IsFolder
  <2>2. Len(n) <= Len(Path[f]) /\ \A i \in 1..Len(n) : n[i] = Path[f][i]
    BY <2>1, PrefixIs
  <2>3. Len(n) + 1 \in 1..Len(Path[f])
    BY <2>1, <2>2
  <2> DEFINE c == SubSeq(Path[f], 1, Len(n) + 1)
  <2>4. c \in Seq(STRING) /\ Len(c) = Len(n) + 1 /\ \A i \in 1..(Len(n) + 1) : c[i] = Path[f][i]
    BY <2>1, <2>3
  <2>5. c \in Nodes
    BY <2>1, <2>3 DEF Nodes
  <2> HIDE DEF c
  <2>6. IsPrefix(n, c) /\ IsPrefix(c, Path[f])
    BY <2>1, <2>2, <2>3, <2>4, PrefixIs
  <2> QED BY <2>1, <2>4, <2>5, <2>6 DEF Children, DescendantIndexes
<1>2. ASSUME NEW c \in Children(n), NEW f \in DescendantIndexes(c)
      PROVE  f \in DescendantIndexes(n)
  <2>1. c \in Nodes /\ IsPrefix(n, c) /\ f \in Files /\ IsPrefix(c, Path[f]) /\ Path[f] \in Seq(STRING)
    BY PathAssumption DEF Children, DescendantIndexes
  <2>2. IsPrefix(n, Path[f])
    BY <2>1, PrefixIs
  <2> QED BY <2>1, <2>2 DEF DescendantIndexes
<1> QED BY <1>1, <1>2

\* The longest path.
LEMMA Depth == \E d \in Nat : \A f \in Files : Len(Path[f]) <= d
<1> DEFINE Bounded(F) == \E d \in Nat : \A f \in F : Len(Path[f]) <= d
           T == {F \in SUBSET Files : ~Bounded(F)}
<1>1. SUFFICES ASSUME T # {} PROVE FALSE
  OBVIOUS
<1>2. PICK F \in T : \A G \in T : G \subseteq F => G = F
  <2>1. T \in SUBSET (SUBSET Files)
    OBVIOUS
  <2> HIDE DEF T
  <2> QED BY <1>1, <2>1, LeastSubset, FilesAssumption
<1>3. F # {}
  BY <1>2
<1>4. PICK f \in F : TRUE
  BY <1>3
<1>5. F \ {f} \notin T
  BY <1>2, <1>4
<1>6. PICK d \in Nat : \A g \in F \ {f} : Len(Path[g]) <= d
  BY <1>5, <1>2
<1>7. Len(Path[f]) \in Nat /\ \A g \in F : Len(Path[g]) \in Nat
  BY PathAssumption, <1>2, <1>4
<1>8. \A g \in F : Len(Path[g]) <= d + Len(Path[f])
  BY <1>6, <1>7
<1> QED BY <1>2, <1>7, <1>8

State(state, selected) ==
  [n \in Nodes |->
        IF ~IsFolder(n)
        THEN IF DescendantIndexes(n) \subseteq selected THEN "checked" ELSE "unchecked"
        ELSE LET checked == {c \in Children(n) : state[c] = "checked"}
             IN  CASE checked = {}          -> "unchecked"
                   [] checked = Children(n) -> "checked"
                   [] OTHER                 -> "indeterminate"]

LEMMA StateExists ==
  ASSUME NEW selected
  PROVE  CheckState(selected) = State(CheckState(selected), selected)
<1> DEFINE all(n) == DescendantIndexes(n) \subseteq selected
           g == [n \in Nodes |->
                  IF all(n) THEN "checked"
                  ELSE IF IsFolder(n) /\ \E c \in Children(n) : all(c) THEN "indeterminate" ELSE "unchecked"]
<1>1. ASSUME NEW n \in Nodes PROVE g[n] = State(g, selected)[n]
  <2>1. CASE ~IsFolder(n)
    BY <2>1 DEF State
  <2>2. CASE IsFolder(n)
    <3> DEFINE checked == {c \in Children(n) : g[c] = "checked"}
    <3>1. \A c \in Children(n) : c \in Nodes /\ (g[c] = "checked" <=> all(c))
      BY DEF Children
    <3>2. checked = Children(n) <=> all(n)
      <4>1. \A c \in Children(n) : DescendantIndexes(c) \subseteq DescendantIndexes(n)
        BY <2>2, Below
      <4>2. DescendantIndexes(n) \subseteq UNION {DescendantIndexes(c) : c \in Children(n)}
        BY <2>2, Below
      <4>3. checked \subseteq Children(n)
        OBVIOUS
      <4>4. \A c \in Children(n) : c \in checked <=> all(c)
        BY <3>1
      <4> HIDE DEF checked, g
      <4> QED BY <4>1, <4>2, <4>3, <4>4
    <3>3. checked # {} <=> \E c \in Children(n) : all(c)
      BY <3>1
    <3>4. all(n) => checked # {}
      BY <3>2, <2>2, Below
    <3>5. State(g, selected)[n] = CASE checked = {}          -> "unchecked"
                   [] checked = Children(n) -> "checked"
                   [] OTHER                 -> "indeterminate"
      BY <2>2 DEF State
    <3>6. g[n] = IF all(n) THEN "checked"
                  ELSE IF \E c \in Children(n) : all(c) THEN "indeterminate" ELSE "unchecked"
      BY <2>2
    <3> HIDE DEF checked, g, all
    <3> QED BY <3>2, <3>3, <3>4, <3>5, <3>6
  <2> QED BY <2>1, <2>2
<1>2. g = State(g, selected)
  <2>1. State(g, selected) = [n \in Nodes |-> State(g, selected)[n]]
    BY DEF State
  <2>2. g = [n \in Nodes |-> g[n]]
    OBVIOUS
  <2> HIDE DEF g
  <2> QED BY <1>1, <2>1, <2>2, Zenon
<1> HIDE DEF g
<1>3. CheckState(selected) = CHOOSE state : state = State(state, selected)
  BY DEF CheckState, State
<1> QED BY <1>2, <1>3, Zenon

LEMMA StateOf ==
  ASSUME NEW selected, NEW n \in Nodes
  PROVE  /\ ~IsFolder(n) =>
              CheckState(selected)[n] =
                IF DescendantIndexes(n) \subseteq selected THEN "checked" ELSE "unchecked"
         /\ IsFolder(n) =>
              /\ CheckState(selected)[n] = "checked" <=>
                   \A c \in Children(n) : CheckState(selected)[c] = "checked"
              /\ (\A c \in Children(n) : CheckState(selected)[c] # "checked") =>
                   CheckState(selected)[n] = "unchecked"
<1> DEFINE state == CheckState(selected)
           checked == {c \in Children(n) : state[c] = "checked"}
<1>1. state = State(state, selected)
  BY StateExists
<1>2. State(state, selected)[n] =
        IF ~IsFolder(n)
        THEN IF DescendantIndexes(n) \subseteq selected THEN "checked" ELSE "unchecked"
        ELSE CASE checked = {}          -> "unchecked"
               [] checked = Children(n) -> "checked"
               [] OTHER                 -> "indeterminate"
  BY DEF State
<1>3. IsFolder(n) => Children(n) # {}
  BY Below
<1>4. /\ checked = {} <=> \A c \in Children(n) : state[c] # "checked"
      /\ checked = Children(n) <=> \A c \in Children(n) : state[c] = "checked"
  BY Zenon
<1> HIDE DEF state, checked
<1>5. state[n] = State(state, selected)[n]
  BY <1>1
<1>6. /\ ~IsFolder(n) =>
              state[n] = IF DescendantIndexes(n) \subseteq selected THEN "checked" ELSE "unchecked"
      /\ IsFolder(n) =>
              /\ state[n] = "checked" <=> checked = Children(n)
              /\ checked = {} => state[n] = "unchecked"
  BY <1>2, <1>3, <1>5
<1> QED BY <1>4, <1>6 DEF state

LEMMA CheckedIsAll ==
  ASSUME NEW selected, NEW n \in Nodes
  PROVE  CheckState(selected)[n] = "checked" <=> DescendantIndexes(n) \subseteq selected
<1> DEFINE right(m) == CheckState(selected)[m] = "checked" <=> DescendantIndexes(m) \subseteq selected
<1>1. PICK d \in Nat : \A f \in Files : Len(Path[f]) <= d
  BY Depth
<1>2. ASSUME NEW m \in Nodes PROVE Len(m) \in Nat /\ Len(m) <= d
  <2>1. PICK f \in DescendantIndexes(m) : TRUE
    BY NodeIs
  <2>2. f \in Files /\ Path[f] \in Seq(STRING) /\ m \in Seq(STRING) /\ Len(m) <= Len(Path[f])
    BY <2>1, NodeIs, PathAssumption DEF DescendantIndexes, IsPrefix
  <2> QED BY <2>2, <1>1
<1> DEFINE T == {k \in Nat : \E m \in Nodes : k = d - Len(m) /\ ~right(m)}
<1>3. SUFFICES ASSUME ~right(n) PROVE FALSE
  OBVIOUS
<1>4. T # {}
  <2>1. d - Len(n) \in Nat
    BY <1>2
  <2> HIDE DEF right
  <2>2. d - Len(n) \in T
    BY <1>3, <2>1
  <2> HIDE DEF T
  <2> QED BY <2>2
<1>5. PICK k \in T : \A j \in T : k <= j
  <2> HIDE DEF T
  <2>1. T \in SUBSET Nat
    BY DEF T
  <2> QED BY <1>4, <2>1, LeastNumber
<1>6. PICK m \in Nodes : k = d - Len(m) /\ ~right(m)
  BY <1>5
<1>7. ASSUME NEW c \in Children(m) PROVE right(c)
  <2>1. c \in Nodes /\ Len(c) = Len(m) + 1
    BY DEF Children
  <2>2. d - Len(c) \in Nat /\ d - Len(c) < k
    BY <1>2, <1>6, <2>1
  <2> HIDE DEF right
  <2>3. ~right(c) => d - Len(c) \in T
    BY <2>1, <2>2
  <2>4. k \in Nat
    OBVIOUS
  <2> HIDE DEF T
  <2>5. d - Len(c) \in T => k <= d - Len(c)
    BY <1>5
  <2> QED BY <2>2, <2>3, <2>4, <2>5
<1>8. IsFolder(m)
  BY <1>6, StateOf
<1>9. CheckState(selected)[m] = "checked" <=> \A c \in Children(m) : DescendantIndexes(c) \subseteq selected
  BY <1>7, <1>8, StateOf, Zenon
<1>10. DescendantIndexes(m) = UNION {DescendantIndexes(c) : c \in Children(m)}
  BY <1>8, Below
<1> QED BY <1>6, <1>9, <1>10

LEMMA ToggleDecides ==
  ASSUME NEW selected, NEW n \in Nodes
  PROVE  CheckState(ToggleNode(n, selected))[n] # "indeterminate"
<1> DEFINE after == ToggleNode(n, selected)
<1>1. CASE DescendantIndexes(n) \subseteq after
  BY <1>1, CheckedIsAll
<1>2. CASE ~(DescendantIndexes(n) \subseteq after)
  <2>1. DescendantIndexes(n) \cap after = {}
    BY <1>2 DEF ToggleNode
  <2> HIDE DEF after
  <2>2. CASE ~IsFolder(n)
    BY <2>2, StateOf DEF after
  <2>3. CASE IsFolder(n)
    <3>1. ASSUME NEW c \in Children(n) PROVE ~(DescendantIndexes(c) \subseteq after)
      <4>1. c \in Nodes
        BY DEF Children
      <4>2. DescendantIndexes(c) # {} /\ DescendantIndexes(c) \subseteq DescendantIndexes(n)
        BY <2>3, <4>1, NodeIs, Below
      <4> QED BY <2>1, <4>2
    <3>2. \A c \in Children(n) : c \in Nodes
      BY DEF Children
    <3>3. \A c \in Children(n) : CheckState(after)[c] # "checked"
      BY <3>1, <3>2, CheckedIsAll
    <3>4. CheckState(after)[n] = "unchecked"
      BY <2>3, <3>3, StateOf
    <3> QED BY <3>4 DEF after
  <2> QED BY <2>2, <2>3
<1> QED BY <1>1, <1>2

-----------------------------------------------------------------------------
(* The inductive invariant *)

\* An ended job that nothing starts again, as a cancelled draft may be by the
\* commit that is at its preflight.
Over(j) == server[j].st \in Terminal /\ (server[j].st = "cancelled" => server[j].key)

\* Where a call can be, and what it knows.
CallOK(c) ==
  \/ c = NoCall
  \/ c.op = "intake" /\ IF c.at = "out" THEN c.job = NoJob
                        ELSE c.job \in Jobs /\ c.at \in {"metadata", "back", "lost"}
  \/ /\ c.op = "confirm" /\ c.job \in Jobs /\ c.at \in {"out", "preflight", "back", "lost"}
     /\ c.at = "back" /\ c.ok /\ c.pre = "ok" => server[c.job].key
  \/ c.op = "start" /\ c.job \in Jobs /\ c.at \in {"look", "out", "back"} /\ server[c.job].key
  \/ c.op = "cancel" /\ c.job \in Jobs /\ c.at \in {"out", "back"}
  \/ c.op = "retry" /\ c.job \in Jobs /\ c.at \in {"out", "back"} /\ retried

\* The record in memory and the one on disk.
RecordOK(r, d) ==
  /\ r.key => r.st \in Transferring \union Terminal
  /\ r.st = "none" => r = Blank /\ d = Blank
  /\ d.st = r.st /\ d.key = r.key /\ d.retry = r.retry
  /\ r.key => d.sel = r.sel /\ d.keep = r.keep

\* Until a call is let in beside a commit, that commit is alone.
Orderly ==
  /\ \A i, k \in Slots : calls[i].at = "preflight" /\ calls[k].at = "preflight" => i = k
  /\ \A i \in Slots : calls[i].at = "preflight" =>
       /\ active = NoJob /\ ~server[calls[i].job].key
       /\ server[calls[i].job].st \in {"awaiting_selection", "cancelled"}
  /\ \A j \in Jobs : server[j].st \in Transferring => active = j
  /\ \A j \in Jobs : server[j].retry => server[j].st = "failed"

Waiting == {i \in Slots : calls[i].op = "intake" /\ calls[i].at = "out"}

Unused == {j \in Jobs : server[j] = Blank}

\* Nobody speaks of a job before the server made it.
Known(j) == j # NoJob => j \in Jobs /\ server[j].st # "none"

AllKnown == /\ Known(screen.job) /\ Known(poll.job)
            /\ \A i \in Slots : Known(calls[i].job)

\* The call that made a job is the only one to know it until it is answered.
IntakeAlone(i) ==
  calls[i].op = "intake" /\ calls[i].job # NoJob =>
    /\ screen.job # calls[i].job /\ poll.job # calls[i].job
    /\ ~server[calls[i].job].key
    /\ \A k \in Slots \ {i} : calls[k].job # calls[i].job

\* A job that is on its way to the selection screen was not there before.
DraftNew ==
  screen.s = "intake" =>
    \A j \in {screen.job, poll.job} \ {NoJob} :
      /\ ~server[j].key
      /\ \A i \in Slots : calls[i].job = j => calls[i].op = "cancel"

\* A poll's answer, while nothing was started again.
PollOK ==
  poll # NoPoll =>
    /\ poll.job \in Jobs /\ screen.s \in {"intake", "active"}
    /\ screen.s = "intake" => poll.st \in {"reading_metadata", "awaiting_selection", "failed"}
    /\ screen.s = "active" => server[poll.job].key
    /\ poll.st \in Terminal => Over(poll.job) \/ retried \/ raced
    /\ poll.st = "complete" => server[poll.job].st = "complete" \/ raced

Chosen(c) == c.sel = form.sel /\ c.keep = form.keep

\* The selection screen: as long as the form was not changed after a commit,
\* every commit of the job and the job they have started have what it shows.
FormOK ==
  screen.s = "selection" =>
    /\ form.pre = "ok" => server[screen.job].key
    /\ ~touched =>
         /\ \A i \in Slots :
              calls[i].op = "confirm" /\ calls[i].job = screen.job /\ calls[i].at \in {"out", "preflight"} =>
                /\ Chosen(calls[i])
                /\ calls[i].at = "preflight" => Chosen(server[screen.job])
         /\ server[screen.job].key => Chosen(server[screen.job])

ScreenOK ==
  /\ screen.s \in {"active", "retryable"} => server[screen.job].key
  /\ screen.s = "complete" => server[screen.job].st = "complete" \/ raced
  /\ screen.s \in {"error", "retryable"} => Over(screen.job) \/ retried \/ raced

CInv ==
  /\ TypeOK
  /\ \A i \in Slots : CallOK(calls[i]) /\ IntakeAlone(i)
  /\ \A j \in Jobs : RecordOK(server[j], disk[j])
  /\ raced \/ Orderly
  /\ Cardinality(Waiting) <= Cardinality(Unused)
  /\ AllKnown
  /\ DraftNew /\ PollOK /\ FormOK /\ ScreenOK

-----------------------------------------------------------------------------
(* Steps of the server *)

CallRecord == [op : Ops \union {"none"}, job : Jobs \union {NoJob}, sel : SUBSET Files, keep : BOOLEAN,
               at : {"out", "metadata", "look", "preflight", "back", "lost"},
               ok : BOOLEAN, pre : {"none", "ok", "blocked"}, heard : BOOLEAN]

LEMMA Shapes ==
  ASSUME CInv
  PROVE  /\ server \in [Jobs -> Record] /\ disk \in [Jobs -> Record]
         /\ calls \in [Slots -> CallRecord]
         /\ screen.s \in {"intake", "selection", "active", "complete", "error", "retryable"} => screen.job \in Jobs
         /\ screen.s \in {"home", "aside"} => screen.job = NoJob
         /\ NoJob \notin Jobs
BY JobsAssumption DEF CInv, TypeOK, Screens, CallRecord

\* What the jobs of the server do in a step: a started job stays started, with
\* its selection, and only a commit at its preflight starts one.
Onward ==
  /\ raced => raced'
  /\ retried => retried'
  /\ \A j \in Jobs :
       /\ server[j].st # "none" => server'[j].st # "none"
       /\ server[j].key => server'[j].key
       /\ server'[j].key => /\ server'[j].sel = server[j].sel /\ server'[j].keep = server[j].keep
                            /\ server[j].key \/ \E i \in Slots : /\ calls[i].op = "confirm" /\ calls[i].job = j
                                                                /\ calls[i].at = "preflight"
       /\ server[j].st = "complete" => server'[j].st = "complete" \/ raced'
       /\ Over(j) => Over(j)' \/ raced' \/ retried'
       /\ server[j].key /\ server'[j].st = "queued" => server[j].st = "queued" \/ raced'

\* What the calls do in a step of the server: one of them may be given the job
\* it has made, a commit keeps its body and puts it on the record.
Tame ==
  /\ \A k \in Slots :
       \/ calls'[k] = NoCall
       \/ /\ calls'[k].op = calls[k].op
          /\ \/ calls'[k].job = calls[k].job
             \/ /\ calls[k].op = "intake" /\ calls'[k].job \in Jobs
                /\ server[calls'[k].job].st = "none" /\ server'[calls'[k].job].st # "none"
                /\ \A l \in Slots \ {k} : calls'[l] = calls[l]
          /\ calls[k].op = "confirm" =>
               /\ calls'[k].sel = calls[k].sel /\ calls'[k].keep = calls[k].keep
               /\ calls'[k].at \in {"out", "preflight"} => calls[k].at \in {"out", "preflight"}
               /\ calls'[k].at = "preflight" =>
                    \/ /\ calls[k].at = "preflight"
                       /\ server'[calls[k].job].sel = server[calls[k].job].sel
                       /\ server'[calls[k].job].keep = server[calls[k].job].keep
                    \/ \E i \in Slots : /\ calls[i].op = "confirm" /\ calls[i].job = calls[k].job
                                        /\ calls[i].at = "out"
                                        /\ server'[calls[k].job].sel = calls[i].sel
                                        /\ server'[calls[k].job].keep = calls[i].keep

\* The screens, which such a step does not touch, stay as real as they were.
LEMMA AppStands ==
  ASSUME CInv, Onward, Tame, UNCHANGED <<app_vars, touched>>
  PROVE  (/\ \A i \in Slots : IntakeAlone(i)
          /\ AllKnown /\ DraftNew /\ PollOK /\ FormOK /\ ScreenOK)'
<1> USE Shapes
<1>0. UNCHANGED <<screen, form, live, busy, poll, touched>>
  BY DEF app_vars
<1>1. (\A i \in Slots : IntakeAlone(i))'
  <2> SUFFICES ASSUME NEW i \in Slots, calls'[i].op = "intake", calls'[i].job # NoJob
               PROVE  /\ screen'.job # calls'[i].job /\ poll'.job # calls'[i].job
                      /\ ~server'[calls'[i].job].key
                      /\ \A k \in Slots \ {i} : calls'[k].job # calls'[i].job
    BY DEF IntakeAlone
  <2>1. calls[i].op = "intake" /\ calls'[i] # NoCall /\ calls \in [Slots -> CallRecord]
    BY DEF Tame, NoCall
  <2>2. CASE calls'[i].job = calls[i].job
    <3>1. /\ screen.job # calls[i].job /\ poll.job # calls[i].job
          /\ ~server[calls[i].job].key
          /\ \A k \in Slots \ {i} : calls[k].job # calls[i].job
      BY <2>1, <2>2 DEF CInv, IntakeAlone
    <3>2. calls[i].job \in Jobs /\ server[calls[i].job].st # "none"
      BY <2>1, <2>2 DEF CInv, AllKnown, Known
    <3>3. ~server'[calls[i].job].key
      BY <2>1, <3>1, <3>2 DEF Onward
    <3>4. \A k \in Slots \ {i} : calls'[k].job # calls[i].job
      BY <2>2, <3>1, <3>2 DEF Tame, NoCall
    <3> QED BY <1>0, <2>2, <3>1, <3>3, <3>4
  <2>3. CASE calls'[i].job # calls[i].job
    <3> DEFINE j == calls'[i].job
    <3>1. /\ j \in Jobs /\ server[j].st = "none"
          /\ \A k \in Slots \ {i} : calls'[k] = calls[k]
      BY <2>1, <2>3 DEF Tame
    <3>2. screen.job # j /\ poll.job # j /\ \A k \in Slots : calls[k].job # j
      BY <3>1 DEF CInv, AllKnown, Known
    <3>3. ~server[j].key
      BY <3>1 DEF CInv, RecordOK, Transferring, Terminal
    <3>4. ~server'[j].key
      BY <3>1, <3>2, <3>3 DEF Onward
    <3> QED BY <1>0, <3>1, <3>2, <3>4
  <2> QED BY <2>2, <2>3
<1>2. AllKnown'
  <2>1. ASSUME NEW j, Known(j) PROVE Known(j)'
    BY <2>1 DEF Known, Onward
  <2>2. ASSUME NEW i \in Slots
        PROVE  calls'[i].job # NoJob => calls'[i].job \in Jobs /\ server'[calls'[i].job].st # "none"
    BY DEF CInv, AllKnown, Known, Onward, Tame, NoCall
  <2>3. Known(screen.job) /\ Known(poll.job)
    BY DEF CInv, AllKnown
  <2>4. Known(screen.job)' /\ Known(poll.job)'
    BY <1>0, <2>3 DEF Known, Onward
  <2> QED BY <2>2, <2>4 DEF AllKnown, Known
<1>3. DraftNew'
  <2> SUFFICES ASSUME screen.s = "intake", NEW j \in {screen.job, poll.job} \ {NoJob}
               PROVE  /\ ~server'[j].key
                      /\ \A i \in Slots : calls'[i].job = j => calls'[i].op = "cancel"
    BY <1>0 DEF DraftNew
  <2>1. ~server[j].key /\ \A i \in Slots : calls[i].job = j => calls[i].op = "cancel"
    BY DEF CInv, DraftNew
  <2>2. j \in Jobs /\ server[j].st # "none"
    BY DEF CInv, AllKnown, Known
  <2>3. ~server'[j].key
    BY <2>1, <2>2 DEF Onward
  <2>4. ASSUME NEW i \in Slots, calls'[i].job = j PROVE calls'[i].op = "cancel"
    BY <2>1, <2>2, <2>4 DEF Tame, NoCall
  <2> QED BY <2>3, <2>4
<1>4. PollOK'
  <2> SUFFICES ASSUME poll # NoPoll
               PROVE  /\ poll.job \in Jobs /\ screen.s \in {"intake", "active"}
                      /\ screen.s = "intake" => poll.st \in {"reading_metadata", "awaiting_selection", "failed"}
                      /\ screen.s = "active" => server'[poll.job].key
                      /\ poll.st \in Terminal => Over(poll.job)' \/ retried' \/ raced'
                      /\ poll.st = "complete" => server'[poll.job].st = "complete" \/ raced'
    BY <1>0 DEF PollOK, Over
  <2> DEFINE p == poll.job
  <2>1. p \in Jobs
    BY DEF CInv, PollOK
  <2>2. p' = p
    BY <1>0
  <2> HIDE DEF p
  <2>3. Over(p) => \/ /\ server'[p].st \in Terminal
                        /\ server'[p].st = "cancelled" => server'[p].key
                     \/ raced' \/ retried'
    BY <2>1, <2>2 DEF Onward, Over
  <2> QED BY <2>1, <2>3, <1>0 DEF CInv, PollOK, Onward, Over, p
<1>5. FormOK'
  <2> SUFFICES ASSUME screen.s = "selection"
               PROVE  /\ form.pre = "ok" => server'[screen.job].key
                      /\ ~touched =>
                           /\ \A i \in Slots :
                                calls'[i].op = "confirm" /\ calls'[i].job = screen.job
                                  /\ calls'[i].at \in {"out", "preflight"} =>
                                  /\ calls'[i].sel = form.sel /\ calls'[i].keep = form.keep
                                  /\ calls'[i].at = "preflight" =>
                                       server'[screen.job].sel = form.sel /\ server'[screen.job].keep = form.keep
                           /\ server'[screen.job].key =>
                                server'[screen.job].sel = form.sel /\ server'[screen.job].keep = form.keep
    BY <1>0 DEF FormOK, Chosen
  <2> DEFINE j == screen.job
  <2>1. j \in Jobs
    OBVIOUS
  <2>2. form.pre = "ok" => server'[j].key
    BY <2>1 DEF CInv, FormOK, Onward
  <2>3. ASSUME ~touched, NEW i \in Slots, calls[i].op = "confirm", calls[i].job = j,
               calls[i].at \in {"out", "preflight"}
        PROVE  /\ calls[i].sel = form.sel /\ calls[i].keep = form.keep
               /\ calls[i].at = "preflight" => server[j].sel = form.sel /\ server[j].keep = form.keep
    BY <2>3 DEF CInv, FormOK, Chosen
  <2>4. ASSUME ~touched, server'[j].key
        PROVE  server'[j].sel = form.sel /\ server'[j].keep = form.keep
    <3>1. server[j].key => server[j].sel = form.sel /\ server[j].keep = form.keep
      BY <2>4 DEF CInv, FormOK, Chosen
    <3> QED BY <2>1, <2>3, <2>4, <3>1 DEF Onward
  <2>5. ASSUME ~touched, NEW i \in Slots,
               calls'[i].op = "confirm", calls'[i].job = j, calls'[i].at \in {"out", "preflight"}
        PROVE  /\ calls'[i].sel = form.sel /\ calls'[i].keep = form.keep
               /\ calls'[i].at = "preflight" => server'[j].sel = form.sel /\ server'[j].keep = form.keep
    <3>1. /\ calls[i].op = "confirm" /\ calls[i].job = j /\ calls[i].at \in {"out", "preflight"}
          /\ calls'[i].sel = calls[i].sel /\ calls'[i].keep = calls[i].keep
      BY <2>5 DEF Tame, NoCall
    <3>2. CASE calls'[i].at = "preflight"
      <4>1. \/ calls[i].at = "preflight" /\ server'[j].sel = server[j].sel /\ server'[j].keep = server[j].keep
            \/ \E k \in Slots : /\ calls[k].op = "confirm" /\ calls[k].job = j /\ calls[k].at = "out"
                                /\ server'[j].sel = calls[k].sel /\ server'[j].keep = calls[k].keep
        BY <2>5, <3>1, <3>2 DEF Tame, NoCall
      <4> HIDE DEF j
      <4> QED BY <2>3, <2>5, <3>1, <4>1
    <3> QED BY <2>3, <2>5, <3>1, <3>2
  <2> QED BY <2>2, <2>4, <2>5
<1>6. ScreenOK'
  <2> DEFINE p == screen.job
  <2>1. p' = p /\ screen' = screen
    BY <1>0
  <2>2. CASE screen.s \in {"active", "complete", "error", "retryable"}
    <3>1. p \in Jobs
      BY <2>2
    <3> HIDE DEF p
    <3>2. Over(p) => \/ server'[p].st \in Terminal /\ (server'[p].st = "cancelled" => server'[p].key)
                     \/ raced' \/ retried'
      BY <3>1, <2>1 DEF Onward, Over
    <3> QED BY <2>1, <3>1, <3>2 DEF CInv, ScreenOK, Onward, Over, p
  <2>3. CASE screen.s \notin {"active", "complete", "error", "retryable"}
    BY <2>1, <2>3 DEF ScreenOK
  <2> QED BY <2>2, <2>3
<1> QED BY <1>1, <1>2, <1>3, <1>4, <1>5, <1>6

\* What is left to show of a step of the server.
LEMMA Served ==
  ASSUME CInv, Onward, Tame, UNCHANGED <<app_vars, touched>>,
         server' \in [Jobs -> Record], disk' \in [Jobs -> Record], active' \in Jobs \union {NoJob},
         raced' \in BOOLEAN, calls' \in [Slots -> CallRecord],
         (\A i \in Slots : CallOK(calls[i]))',
         (\A j \in Jobs : RecordOK(server[j], disk[j]))',
         (raced \/ Orderly)',
         (Cardinality(Waiting) <= Cardinality(Unused))'
  PROVE  CInv' /\ Onward
<1>1. TypeOK'
  BY DEF CInv, TypeOK, app_vars, CallRecord
<1>2. (/\ \A i \in Slots : IntakeAlone(i)
       /\ AllKnown /\ DraftNew /\ PollOK /\ FormOK /\ ScreenOK)'
  BY AppStands
<1> QED BY <1>1, <1>2 DEF CInv

LEMMA FiniteSides ==
  /\ IsFiniteSet(Waiting) /\ IsFiniteSet(Unused)
  /\ Cardinality(Waiting) \in Nat /\ Cardinality(Unused) \in Nat
<1>1. Waiting \subseteq Slots /\ Unused \subseteq Jobs
  BY DEF Waiting, Unused
<1>2. IsFiniteSet(Waiting) /\ IsFiniteSet(Unused)
  BY <1>1, SlotsAssumption, JobsAssumption, FS_Subset
<1> QED BY <1>2, FS_CardinalityType

LEMMA Room ==
  ASSUME CInv, Waiting' \subseteq Waiting, Unused \subseteq Unused'
  PROVE  (Cardinality(Waiting) <= Cardinality(Unused))'
<1>1. /\ IsFiniteSet(Waiting) /\ IsFiniteSet(Unused)
      /\ Cardinality(Waiting) \in Nat /\ Cardinality(Unused) \in Nat
  BY FiniteSides
<1>2. /\ IsFiniteSet(Waiting') /\ IsFiniteSet(Unused')
      /\ Cardinality(Waiting') \in Nat /\ Cardinality(Unused') \in Nat
  <2>1. Waiting' \subseteq Slots /\ Unused' \subseteq Jobs
    BY DEF Waiting, Unused
  <2>2. IsFiniteSet(Waiting') /\ IsFiniteSet(Unused')
    BY <2>1, SlotsAssumption, JobsAssumption, FS_Subset
  <2> QED BY <2>2, FS_CardinalityType
<1>3. Cardinality(Waiting') <= Cardinality(Waiting) /\ Cardinality(Unused) <= Cardinality(Unused')
  BY <1>1, <1>2, FS_Subset
<1>4. Cardinality(Waiting) <= Cardinality(Unused)
  BY DEF CInv
<1> QED BY <1>1, <1>2, <1>3, <1>4

LEMMA CallStays ==
  ASSUME Onward, NEW k \in Slots, CallOK(calls[k]), calls'[k] = calls[k]
  PROVE  CallOK(calls[k])'
BY DEF CallOK, Onward, NoCall

LEMMA ReplyIs ==
  ASSUME calls \in [Slots -> CallRecord], NEW i \in Slots,
         NEW ok \in BOOLEAN, NEW pre \in {"none", "ok", "blocked"}, Reply(i, ok, pre)
  PROVE  /\ calls' \in [Slots -> CallRecord]
         /\ \A k \in Slots \ {i} : calls'[k] = calls[k]
         /\ \/ calls'[i] = NoCall
            \/ /\ calls'[i].op = calls[i].op /\ calls'[i].job = calls[i].job
               /\ calls'[i].sel = calls[i].sel /\ calls'[i].keep = calls[i].keep
               /\ calls'[i].at = "back" /\ calls'[i].ok = ok /\ calls'[i].pre = pre
<1>1. NoCall \in CallRecord
  BY DEF NoCall, CallRecord
<1>2. [calls[i] EXCEPT !.at = "back", !.ok = ok, !.pre = pre] \in CallRecord
  BY DEF CallRecord
<1> QED BY <1>1, <1>2 DEF Reply, CallRecord

LEMMA SaveIs ==
  ASSUME CInv, NEW j \in Jobs, NEW rec \in Record, Save(j, rec)
  PROVE  /\ server' \in [Jobs -> Record] /\ disk' \in [Jobs -> Record]
         /\ server'[j] = rec /\ disk'[j] = rec
         /\ \A k \in Jobs \ {j} : server'[k] = server[k] /\ disk'[k] = disk[k]
         /\ rec.st # "none" /\ (rec.key => rec.st \in Transferring \union Terminal) =>
              (\A k \in Jobs : RecordOK(server[k], disk[k]))'
<1>1. server \in [Jobs -> Record] /\ disk \in [Jobs -> Record]
  BY Shapes
<1>2. /\ server' \in [Jobs -> Record] /\ disk' \in [Jobs -> Record]
      /\ server'[j] = rec /\ disk'[j] = rec
      /\ \A k \in Jobs \ {j} : server'[k] = server[k] /\ disk'[k] = disk[k]
  BY <1>1 DEF Save, Put
<1>3. \A k \in Jobs : RecordOK(server[k], disk[k])
  BY DEF CInv
<1> QED BY <1>2, <1>3 DEF RecordOK

\* No intake begins to wait by an answer, and no job that is known is unused.
LEMMA RoomBySave ==
  ASSUME CInv, NEW j \in Jobs, server[j].st # "none",
         \A k \in Jobs \ {j} : server'[k] = server[k],
         NEW i \in Slots, \A k \in Slots \ {i} : calls'[k] = calls[k],
         ~(calls'[i].op = "intake" /\ calls'[i].at = "out")
  PROVE  (Cardinality(Waiting) <= Cardinality(Unused))'
<1>1. Waiting' \subseteq Waiting
  BY DEF Waiting
<1>2. Unused \subseteq Unused'
  BY DEF Unused, Blank
<1> QED BY <1>1, <1>2, Room

\* A commit that was alone stays so when no other call comes to its preflight.
LEMMA OrderlyKept ==
  ASSUME CInv, Orderly, active' \in {active, NoJob},
         \A k \in Slots : calls'[k].at = "preflight" =>
           calls[k].at = "preflight" /\ calls'[k].job = calls[k].job,
         \A j \in Jobs :
           /\ server'[j].key => server[j].key
           /\ server'[j].st \in Transferring => server[j].st \in Transferring /\ active' = active
           /\ server'[j].retry => server'[j].st = "failed"
           /\ server[j].st \in {"awaiting_selection", "cancelled"} =>
                server'[j].st \in {"awaiting_selection", "cancelled"}
  PROVE  Orderly'
<1>1. \A k \in Slots : calls[k].at = "preflight" => calls[k].job \in Jobs
  BY DEF CInv, CallOK, NoCall
<1> QED BY <1>1 DEF Orderly

-----------------------------------------------------------------------------
(* The steps of the server, one by one *)

With(r, st) == [r EXCEPT !.st = st]

LEMMA WithIs ==
  ASSUME NEW r \in Record, NEW st \in States
  PROVE  /\ With(r, st) \in Record /\ With(r, st).st = st
         /\ With(r, st).sel = r.sel /\ With(r, st).keep = r.keep
         /\ With(r, st).key = r.key /\ With(r, st).retry = r.retry
BY DEF With, Record

LEMMA MetadataKeeps ==
  ASSUME CInv, NEW i \in Slots, MetadataRead(i)
  PROVE  CInv' /\ Onward
<1> USE Shapes
<1> DEFINE j == calls[i].job
<1>1. calls[i].op = "intake" /\ calls[i].at = "metadata" /\ j \in Jobs
  BY DEF MetadataRead, CInv, CallOK, NoCall
<1>2. server[j].st # "none" /\ ~server[j].key
  BY <1>1 DEF CInv, AllKnown, Known, IntakeAlone
<1>3. /\ UNCHANGED <<active, app_vars, touched, raced>>
      /\ retried' = retried
      /\ Reply(i, TRUE, "none")
  BY DEF MetadataRead, bounds, Fault
<1>4. \/ UNCHANGED <<server, disk>>
      \/ server[j].st = "reading_metadata" /\ Save(j, With(server[j], "awaiting_selection"))
      \/ server[j].st = "reading_metadata" /\ Save(j, With(server[j], "failed"))
  BY DEF MetadataRead, With
<1>5. /\ calls' \in [Slots -> CallRecord]
      /\ \A k \in Slots \ {i} : calls'[k] = calls[k]
      /\ \/ calls'[i] = NoCall
         \/ /\ calls'[i].op = calls[i].op /\ calls'[i].job = calls[i].job
            /\ calls'[i].sel = calls[i].sel /\ calls'[i].keep = calls[i].keep
            /\ calls'[i].at = "back" /\ calls'[i].ok = TRUE /\ calls'[i].pre = "none"
  BY <1>3, ReplyIs
<1>6. /\ server' \in [Jobs -> Record] /\ disk' \in [Jobs -> Record]
      /\ \A k \in Jobs \ {j} : server'[k] = server[k]
      /\ \/ server'[j] = server[j]
         \/ /\ server[j].st = "reading_metadata" /\ server'[j].st \in {"awaiting_selection", "failed"}
            /\ server'[j].sel = server[j].sel /\ server'[j].keep = server[j].keep
            /\ server'[j].key = server[j].key /\ server'[j].retry = server[j].retry
      /\ (\A k \in Jobs : RecordOK(server[k], disk[k]))'
  <2>1. CASE UNCHANGED <<server, disk>>
    BY <2>1 DEF CInv, RecordOK
  <2>2. CASE \E st \in {"awaiting_selection", "failed"} :
               server[j].st = "reading_metadata" /\ Save(j, With(server[j], st))
    <3>1. PICK st \in {"awaiting_selection", "failed"} :
            server[j].st = "reading_metadata" /\ Save(j, With(server[j], st))
      BY <2>2
    <3>2. server[j] \in Record /\ st \in States
      BY <1>1 DEF States, Terminal
    <3> QED BY <1>1, <1>2, <3>1, <3>2, SaveIs, WithIs
  <2> QED BY <1>4, <2>1, <2>2
<1> HIDE DEF j
<1>7. Onward
  BY <1>1, <1>2, <1>3, <1>6 DEF Onward, Over, Terminal
<1>8. Tame
  <2>1. \A k \in Slots : calls[k].op = "confirm" => calls[k].job \in Jobs
    BY DEF CInv, CallOK, NoCall
  <2> QED BY <1>1, <1>5, <1>6, <2>1 DEF Tame, NoCall
<1>9. (\A k \in Slots : CallOK(calls[k]))'
  <2>1. ASSUME NEW k \in Slots \ {i} PROVE CallOK(calls[k])'
    BY <1>5, <1>7, CallStays DEF CInv
  <2>2. CallOK(calls[i])'
    BY <1>1, <1>5 DEF CallOK, j
  <2> QED BY <2>1, <2>2
<1>10. (raced \/ Orderly)'
  <2>1. ASSUME Orderly PROVE Orderly'
    <3>1. \A k \in Jobs : server'[k].retry => server'[k].st = "failed"
      BY <1>6, <2>1 DEF Orderly
    <3>2. \A k \in Jobs : server'[k].st \in Transferring => server[k].st \in Transferring
      BY <1>6 DEF Transferring
    <3> QED BY <1>3, <1>5, <1>6, <2>1, <3>1, <3>2, OrderlyKept DEF NoCall
  <2> QED BY <1>3, <2>1 DEF CInv
<1>11. (Cardinality(Waiting) <= Cardinality(Unused))'
  <2>1. ~(calls'[i].op = "intake" /\ calls'[i].at = "out")
    BY <1>5 DEF NoCall
  <2> QED BY <1>1, <1>2, <1>5, <1>6, <2>1, RoomBySave
<1>12. active' \in Jobs \union {NoJob} /\ raced' \in BOOLEAN
  BY <1>3 DEF CInv, TypeOK
<1> QED BY <1>3, <1>5, <1>6, <1>7, <1>8, <1>9, <1>10, <1>11, <1>12, Served

\* The calls but one are as they were.
LEMMA OthersStay ==
  ASSUME CInv, Onward, NEW i \in Slots, \A k \in Slots \ {i} : calls'[k] = calls[k], CallOK(calls[i])'
  PROVE  (\A k \in Slots : CallOK(calls[k]))'
<1>1. ASSUME NEW k \in Slots \ {i} PROVE CallOK(calls[k])'
  BY CallStays DEF CInv
<1> QED BY <1>1

LEMMA Addressed ==
  ASSUME CInv, NEW i \in Slots, calls[i].op \notin {"none", "intake"}
  PROVE  calls[i].job \in Jobs /\ server[calls[i].job].st # "none"
<1>1. CallOK(calls[i]) /\ Known(calls[i].job)
  BY DEF CInv, AllKnown
<1>2. calls[i].job \in Jobs
  BY <1>1 DEF CallOK, NoCall
<1> QED BY <1>1, <1>2, JobsAssumption DEF Known

LEMMA IntakeKeeps ==
  ASSUME CInv, NEW i \in Slots, HandleIntake(i)
  PROVE  CInv' /\ Onward
<1> USE Shapes
<1>1. calls[i].op = "intake" /\ calls[i].at = "out" /\ calls[i].job = NoJob /\ i \in Waiting
  BY DEF HandleIntake, CInv, CallOK, NoCall, Waiting
<1>2. /\ IsFiniteSet(Waiting) /\ IsFiniteSet(Unused)
      /\ Cardinality(Waiting) \in Nat /\ Cardinality(Unused) \in Nat
      /\ Cardinality(Waiting) <= Cardinality(Unused)
  BY FiniteSides DEF CInv
<1>3. Unused # {}
  BY <1>1, <1>2, FS_EmptySet
<1>4. PICK j : j = CHOOSE k \in Jobs : server[k] = Blank
  OBVIOUS
<1>5. j \in Jobs /\ server[j] = Blank
  BY <1>3, <1>4 DEF Unused
<1>6. /\ UNCHANGED <<active, app_vars, touched, raced>>
      /\ retried' = retried
      /\ Save(j, With(Blank, "reading_metadata"))
      /\ calls' = [calls EXCEPT ![i].at = "metadata", ![i].job = j]
  BY <1>4 DEF HandleIntake, bounds, With
<1>7. Blank \in Record /\ "reading_metadata" \in States
  BY DEF Blank, Record, States
<1>8. calls[i] \in CallRecord
  OBVIOUS
<1>9. /\ calls' \in [Slots -> CallRecord]
      /\ \A k \in Slots \ {i} : calls'[k] = calls[k]
      /\ calls'[i].op = "intake" /\ calls'[i].at = "metadata" /\ calls'[i].job = j
  BY <1>1, <1>5, <1>6, <1>8 DEF CallRecord
<1>10. With(Blank, "reading_metadata") \in Record /\ With(Blank, "reading_metadata").st = "reading_metadata"
       /\ ~With(Blank, "reading_metadata").key /\ ~With(Blank, "reading_metadata").retry
  <2>1. ~Blank.key /\ ~Blank.retry
    BY DEF Blank
  <2> QED BY <1>7, <2>1, WithIs
<1>11. /\ server' \in [Jobs -> Record] /\ disk' \in [Jobs -> Record]
       /\ \A k \in Jobs \ {j} : server'[k] = server[k]
       /\ server'[j].st = "reading_metadata" /\ ~server'[j].key /\ ~server'[j].retry
       /\ (\A k \in Jobs : RecordOK(server[k], disk[k]))'
  BY <1>5, <1>6, <1>10, SaveIs
<1>12. server[j].st = "none" /\ ~server[j].key
  BY <1>5 DEF Blank
<1>13. Onward
  BY <1>6, <1>11, <1>12 DEF Onward, Over, Terminal
<1>14. Tame
  <2>1. ASSUME NEW k \in Slots, calls[k].op = "confirm"
        PROVE  k # i /\ calls[k].job \in Jobs \ {j}
    BY <2>1, <1>1, <1>12, Addressed
  <2> QED BY <1>1, <1>5, <1>9, <1>11, <1>12, <2>1 DEF Tame
<1>15. (\A k \in Slots : CallOK(calls[k]))'
  <2>1. CallOK(calls[i])'
    BY <1>5, <1>9 DEF CallOK
  <2> QED BY <1>9, <1>13, <2>1, OthersStay
<1>16. (raced \/ Orderly)'
  <2>1. ASSUME Orderly PROVE Orderly'
    <3>1. \A k \in Jobs : server'[k].retry => server'[k].st = "failed"
      BY <1>11, <2>1 DEF Orderly
    <3>2. \A k \in Jobs : server'[k].st \in Transferring => server[k].st \in Transferring
      BY <1>11 DEF Transferring
    <3> QED BY <1>6, <1>9, <1>11, <1>12, <2>1, <3>1, <3>2, OrderlyKept
  <2> QED BY <1>6, <2>1 DEF CInv
<1>17. (Cardinality(Waiting) <= Cardinality(Unused))'
  <2>1. Waiting' = Waiting \ {i}
    BY <1>9 DEF Waiting
  <2>2. Unused' = Unused \ {j}
    BY <1>11 DEF Unused, Blank
  <2>3. j \in Unused
    BY <1>5 DEF Unused
  <2> HIDE DEF Waiting, Unused
  <2>4. Cardinality(Waiting') = Cardinality(Waiting) - 1 /\ Cardinality(Unused') = Cardinality(Unused) - 1
    BY <1>1, <1>2, <2>1, <2>2, <2>3, FS_RemoveElement
  <2> QED BY <1>2, <2>4
<1>18. active' \in Jobs \union {NoJob} /\ raced' \in BOOLEAN
  BY <1>6 DEF CInv, TypeOK
<1> QED BY <1>6, <1>9, <1>11, <1>13, <1>14, <1>15, <1>16, <1>17, <1>18, Served

\* A step of the server that leaves its records alone and ends a call, or goes on
\* with a Start.
LEMMA OnlyCalls ==
  ASSUME CInv, UNCHANGED <<server_vars, app_vars, touched, raced, retried>>,
         NEW i \in Slots, calls' \in [Slots -> CallRecord],
         \A k \in Slots \ {i} : calls'[k] = calls[k],
         \/ calls'[i] = NoCall
         \/ /\ calls'[i].op = calls[i].op /\ calls'[i].job = calls[i].job
            /\ calls'[i].sel = calls[i].sel \/ calls[i].op # "confirm"
            /\ calls'[i].keep = calls[i].keep
            /\ calls'[i].at = "back" \/ (calls'[i].at = "out" /\ calls[i].op = "start"),
         CallOK(calls[i])'
  PROVE  CInv' /\ Onward
<1> USE Shapes
<1>1. UNCHANGED <<server, disk, active>>
  BY DEF server_vars
<1>2. Onward
  BY <1>1 DEF Onward, Over, CInv, RecordOK
<1>3. Tame
  BY <1>1 DEF Tame, NoCall
<1>4. (\A k \in Slots : CallOK(calls[k]))'
  BY <1>2, OthersStay
<1>5. (raced \/ Orderly)'
  <2>1. ASSUME Orderly PROVE Orderly'
    <3>1. \A k \in Jobs : server'[k].retry => server'[k].st = "failed"
      BY <1>1, <2>1 DEF Orderly
    <3> QED BY <1>1, <2>1, <3>1, OrderlyKept DEF NoCall
  <2> QED BY <2>1 DEF CInv
<1>6. (Cardinality(Waiting) <= Cardinality(Unused))'
  <2>1. Waiting' \subseteq Waiting
    BY DEF Waiting, NoCall
  <2>2. Unused \subseteq Unused'
    BY <1>1 DEF Unused
  <2> QED BY <2>1, <2>2, Room
<1>7. (\A j \in Jobs : RecordOK(server[j], disk[j]))'
  BY <1>1 DEF CInv, RecordOK
<1>8. active' \in Jobs \union {NoJob} /\ raced' \in BOOLEAN
  BY <1>1 DEF CInv, TypeOK
<1> QED BY <1>1, <1>2, <1>3, <1>4, <1>5, <1>6, <1>7, <1>8, Served

LEMMA LookKeeps ==
  ASSUME CInv, NEW i \in Slots, HandleLook(i)
  PROVE  CInv' /\ Onward
<1> USE Shapes
<1>1. calls[i].op = "start" /\ calls[i].job \in Jobs /\ server[calls[i].job].key
  BY DEF HandleLook, CInv, CallOK, NoCall
<1>2. UNCHANGED <<server_vars, app_vars, touched, raced, retried>>
  BY DEF HandleLook, bounds
<1>3. PICK sel : sel = server[calls[i].job].sel
  OBVIOUS
<1>4. sel \in SUBSET Files
  BY <1>1, <1>3 DEF Record
<1>5. \/ Reply(i, FALSE, "none")
      \/ calls' = [calls EXCEPT ![i].at = "out", ![i].sel = sel]
  BY <1>3 DEF HandleLook
<1>6. CASE Reply(i, FALSE, "none")
  <2>1. /\ calls' \in [Slots -> CallRecord]
        /\ \A k \in Slots \ {i} : calls'[k] = calls[k]
        /\ \/ calls'[i] = NoCall
           \/ /\ calls'[i].op = calls[i].op /\ calls'[i].job = calls[i].job
              /\ calls'[i].sel = calls[i].sel /\ calls'[i].keep = calls[i].keep
              /\ calls'[i].at = "back"
    BY <1>6, ReplyIs
  <2>2. CallOK(calls[i])'
    BY <1>1, <1>2, <2>1 DEF CallOK, server_vars
  <2> QED BY <1>2, <2>1, <2>2, OnlyCalls
<1>7. CASE calls' = [calls EXCEPT ![i].at = "out", ![i].sel = sel]
  <2>0. calls[i] \in CallRecord
    OBVIOUS
  <2>1. /\ calls' \in [Slots -> CallRecord]
        /\ \A k \in Slots \ {i} : calls'[k] = calls[k]
        /\ calls'[i].op = calls[i].op /\ calls'[i].job = calls[i].job
        /\ calls'[i].keep = calls[i].keep /\ calls'[i].at = "out"
    BY <1>4, <1>7, <2>0 DEF CallRecord
  <2>2. CallOK(calls[i])'
    BY <1>1, <1>2, <2>1 DEF CallOK, server_vars
  <2> QED BY <1>1, <1>2, <2>1, <2>2, OnlyCalls
<1> QED BY <1>5, <1>6, <1>7

LEMMA ForgetKeeps ==
  ASSUME CInv, NEW i \in Slots, Forget(i)
  PROVE  CInv' /\ Onward
<1>1. NoCall \in CallRecord
  BY DEF NoCall, CallRecord
<1>2. UNCHANGED <<server_vars, app_vars, touched, raced, retried>>
  BY DEF Forget, bounds
<1>3. /\ calls' \in [Slots -> CallRecord]
      /\ \A k \in Slots \ {i} : calls'[k] = calls[k]
      /\ calls'[i] = NoCall
  BY <1>1, Shapes DEF Forget, Drop
<1>4. CallOK(calls[i])'
  BY <1>3 DEF CallOK
<1> QED BY <1>2, <1>3, <1>4, OnlyCalls

\* The rest of a step that saves a record of a job and answers the call about it.
LEMMA Answered ==
  ASSUME CInv, UNCHANGED <<app_vars, touched, raced>>, retried => retried',
         NEW i \in Slots, NEW j \in Jobs, calls[i].job = j, calls[i].op # "intake",
         server[j].st # "none",
         server' \in [Jobs -> Record], disk' \in [Jobs -> Record],
         \A k \in Jobs \ {j} : server'[k] = server[k],
         server'[j].sel = server[j].sel, server'[j].keep = server[j].keep,
         (\A k \in Jobs : RecordOK(server[k], disk[k]))',
         calls' \in [Slots -> CallRecord],
         \A k \in Slots \ {i} : calls'[k] = calls[k],
         \/ calls'[i] = NoCall
         \/ /\ calls'[i].op = calls[i].op /\ calls'[i].job = calls[i].job
            /\ calls'[i].sel = calls[i].sel /\ calls'[i].keep = calls[i].keep
            /\ calls'[i].at = "back",
         Onward, CallOK(calls[i])', (raced \/ Orderly)', active' \in Jobs \union {NoJob}
  PROVE  CInv' /\ Onward
<1> USE Shapes
<1>1. Tame
  <2>1. \A k \in Slots : calls[k].op = "confirm" => calls[k].job \in Jobs
    BY DEF CInv, CallOK, NoCall
  <2> QED BY <2>1 DEF Tame, NoCall
<1>2. (\A k \in Slots : CallOK(calls[k]))'
  BY OthersStay
<1>3. (Cardinality(Waiting) <= Cardinality(Unused))'
  <2>1. ~(calls'[i].op = "intake" /\ calls'[i].at = "out")
    BY DEF NoCall
  <2> QED BY <2>1, RoomBySave
<1>4. raced' \in BOOLEAN
  BY DEF CInv, TypeOK
<1> QED BY <1>1, <1>2, <1>3, <1>4, Served

LEMMA Committing ==
  ASSUME CInv, NEW i \in Slots, calls[i].at = "preflight"
  PROVE  calls[i].op = "confirm" /\ calls[i].job \in Jobs /\ server[calls[i].job].st # "none"
<1>1. CallOK(calls[i]) /\ Known(calls[i].job)
  BY DEF CInv, AllKnown
<1>2. calls[i].op = "confirm" /\ calls[i].job \in Jobs
  BY <1>1 DEF CallOK, NoCall
<1> QED BY <1>1, <1>2, JobsAssumption DEF Known

LEMMA BlockedKeeps ==
  ASSUME CInv, NEW i \in Slots, Blocked(i)
  PROVE  CInv' /\ Onward
<1> USE Shapes
<1>1. PICK j : j = calls[i].job
  OBVIOUS
<1>2. calls[i].op = "confirm" /\ j \in Jobs /\ server[j].st # "none"
  BY <1>1, Committing DEF Blocked
<1>3. PICK rec : rec = [server[j] EXCEPT !.pre = "blocked"]
  OBVIOUS
<1>4. /\ UNCHANGED <<active, app_vars, touched, raced>> /\ retried' = retried
      /\ Save(j, rec) /\ Reply(i, TRUE, "blocked")
  BY <1>1, <1>3 DEF Blocked, Fault
<1>5. server[j] \in Record
  BY <1>2
<1>6. /\ rec \in Record /\ rec.st = server[j].st /\ rec.sel = server[j].sel /\ rec.keep = server[j].keep
      /\ rec.key = server[j].key /\ rec.retry = server[j].retry
  BY <1>3, <1>5 DEF Record
<1>7. RecordOK(server[j], disk[j])
  BY <1>2 DEF CInv
<1>8. /\ server' \in [Jobs -> Record] /\ disk' \in [Jobs -> Record]
      /\ server'[j] = rec
      /\ \A k \in Jobs \ {j} : server'[k] = server[k]
      /\ (\A k \in Jobs : RecordOK(server[k], disk[k]))'
  BY <1>2, <1>4, <1>6, <1>7, SaveIs DEF RecordOK
<1>9. /\ calls' \in [Slots -> CallRecord]
      /\ \A k \in Slots \ {i} : calls'[k] = calls[k]
      /\ \/ calls'[i] = NoCall
         \/ /\ calls'[i].op = calls[i].op /\ calls'[i].job = calls[i].job
            /\ calls'[i].sel = calls[i].sel /\ calls'[i].keep = calls[i].keep
            /\ calls'[i].at = "back" /\ calls'[i].ok = TRUE /\ calls'[i].pre = "blocked"
  BY <1>4, ReplyIs
<1>10. Onward
  BY <1>2, <1>4, <1>6, <1>8 DEF Onward, Over
<1>11. CallOK(calls[i])'
  BY <1>1, <1>2, <1>9 DEF CallOK
<1>12. (raced \/ Orderly)'
  <2>1. ASSUME Orderly PROVE Orderly'
    <3>1. \A k \in Jobs : server'[k].retry => server'[k].st = "failed"
      BY <1>6, <1>8, <2>1 DEF Orderly
    <3> QED BY <1>2, <1>4, <1>6, <1>8, <1>9, <2>1, <3>1, OrderlyKept DEF NoCall
  <2> QED BY <1>4, <2>1 DEF CInv
<1>13. active' \in Jobs \union {NoJob}
  BY <1>4 DEF CInv, TypeOK
<1> QED BY <1>1, <1>2, <1>4, <1>6, <1>8, <1>9, <1>10, <1>11, <1>12, <1>13, Answered

LEMMA BeginKeeps ==
  ASSUME CInv, NEW i \in Slots, Begin(i)
  PROVE  CInv' /\ Onward
<1> USE Shapes
<1>1. PICK j : j = calls[i].job
  OBVIOUS
<1>2. calls[i].at = "preflight" /\ calls[i].op = "confirm" /\ j \in Jobs /\ server[j].st # "none"
  BY <1>1, Committing DEF Begin
<1>3. PICK rec : rec = [server[j] EXCEPT !.pre = "ok", !.st = "queued", !.key = TRUE]
  OBVIOUS
<1>4. /\ UNCHANGED <<app_vars, touched, raced>> /\ retried' = retried /\ active' = j
      /\ Save(j, rec) /\ Reply(i, TRUE, "ok")
  BY <1>1, <1>3 DEF Begin, bounds
<1>5. server[j] \in Record
  BY <1>2
<1>6. /\ rec \in Record /\ rec.st = "queued" /\ rec.sel = server[j].sel /\ rec.keep = server[j].keep
      /\ rec.key = TRUE /\ rec.retry = server[j].retry
  BY <1>3, <1>5 DEF Record, States, Transferring
<1>8. /\ server' \in [Jobs -> Record] /\ disk' \in [Jobs -> Record]
      /\ server'[j] = rec
      /\ \A k \in Jobs \ {j} : server'[k] = server[k]
      /\ (\A k \in Jobs : RecordOK(server[k], disk[k]))'
  BY <1>2, <1>4, <1>6, SaveIs DEF Transferring
<1>9. /\ calls' \in [Slots -> CallRecord]
      /\ \A k \in Slots \ {i} : calls'[k] = calls[k]
      /\ \/ calls'[i] = NoCall
         \/ /\ calls'[i].op = calls[i].op /\ calls'[i].job = calls[i].job
            /\ calls'[i].sel = calls[i].sel /\ calls'[i].keep = calls[i].keep
            /\ calls'[i].at = "back" /\ calls'[i].ok = TRUE /\ calls'[i].pre = "ok"
  BY <1>4, ReplyIs
<1>7. Orderly => /\ ~server[j].key /\ server[j].st \in {"awaiting_selection", "cancelled"}
                 /\ active = NoJob
                 /\ \A k \in Slots \ {i} : calls[k].at # "preflight"
  BY <1>1, <1>2 DEF Orderly
<1>10. Onward
  <2>1. Orderly \/ raced
    BY DEF CInv
  <2>2. Orderly => server[j].st # "complete" /\ ~Over(j) /\ ~server[j].key
    BY <1>7 DEF Over, Terminal
  <2>3. \A k \in Jobs \ {j} : Over(k) => Over(k)'
    BY <1>8 DEF Over
  <2> QED BY <1>1, <1>2, <1>4, <1>6, <1>8, <2>1, <2>2, <2>3 DEF Onward
<1>11. CallOK(calls[i])'
  BY <1>1, <1>2, <1>6, <1>8, <1>9 DEF CallOK
<1>12. (raced \/ Orderly)'
  <2>1. ASSUME Orderly PROVE Orderly'
    <3>1. \A k \in Slots : calls'[k].at # "preflight"
      BY <1>7, <1>9, <2>1 DEF NoCall
    <3>2. \A k \in Jobs \ {j} : server[k].st \notin Transferring
      BY <1>2, <1>7, <2>1 DEF Orderly
    <3>3. ~server[j].retry
      BY <1>2, <1>7, <2>1 DEF Orderly
    <3> QED BY <1>4, <1>6, <1>8, <2>1, <3>1, <3>2, <3>3 DEF Orderly
  <2> QED BY <1>4, <2>1 DEF CInv
<1>13. active' \in Jobs \union {NoJob}
  BY <1>2, <1>4
<1> QED BY <1>1, <1>2, <1>4, <1>6, <1>8, <1>9, <1>10, <1>11, <1>12, <1>13, Answered

LEMMA CommitKeeps ==
  ASSUME CInv, NEW i \in Slots, HandleCommit(i)
  PROVE  CInv' /\ Onward
<1> USE Shapes
<1>1. PICK j : j = calls[i].job
  OBVIOUS
<1>2. /\ calls[i].op \in {"confirm", "start"} /\ calls[i].at = "out"
      /\ j \in Jobs /\ server[j].st # "none"
  BY <1>1, Addressed DEF HandleCommit
<1>3. UNCHANGED <<disk, active, app_vars, touched>> /\ retried' = retried
  BY DEF HandleCommit, bounds
<1>4. CallOK(calls[i]) /\ RecordOK(server[j], disk[j])
  BY <1>2 DEF CInv
<1>5. calls[i].op = "start" => server[j].key
  BY <1>1, <1>4 DEF CallOK, NoCall
<1>6. server[j].st = "awaiting_selection" => ~server[j].key
  BY <1>4 DEF RecordOK, Transferring, Terminal
<1>7. \/ /\ Replayed(j) /\ Reply(i, TRUE, server[j].pre) /\ UNCHANGED <<server, raced>>
      \/ /\ ~Replayed(j) /\ Reply(i, FALSE, "none") /\ UNCHANGED <<server, raced>>
      \/ /\ ~Replayed(j) /\ ~Refused(j)
         /\ Put(j, [server[j] EXCEPT !.sel = calls[i].sel, !.keep = calls[i].keep])
         /\ calls' = [calls EXCEPT ![i].at = "preflight"]
         /\ raced' = (raced \/ \E k \in Slots \ {i} : ~Free(k) /\ calls[k].at = "preflight")
  BY <1>1 DEF HandleCommit
<1>8. ASSUME NEW ok \in BOOLEAN, NEW pre \in {"none", "ok", "blocked"}, Reply(i, ok, pre),
             UNCHANGED <<server, raced>>, ok => server[j].key
      PROVE  CInv' /\ Onward
  <2>1. /\ calls' \in [Slots -> CallRecord]
        /\ \A k \in Slots \ {i} : calls'[k] = calls[k]
        /\ \/ calls'[i] = NoCall
           \/ /\ calls'[i].op = calls[i].op /\ calls'[i].job = calls[i].job
              /\ calls'[i].sel = calls[i].sel /\ calls'[i].keep = calls[i].keep
              /\ calls'[i].at = "back" /\ calls'[i].ok = ok /\ calls'[i].pre = pre
    BY <1>8, ReplyIs
  <2>2. CallOK(calls[i])'
    BY <1>1, <1>2, <1>5, <1>8, <2>1 DEF CallOK
  <2>3. UNCHANGED <<server_vars, app_vars, touched, raced, retried>>
    BY <1>3, <1>8 DEF server_vars
  <2> QED BY <2>1, <2>2, <2>3, OnlyCalls
<1>9. CASE /\ ~Replayed(j) /\ ~Refused(j)
           /\ Put(j, [server[j] EXCEPT !.sel = calls[i].sel, !.keep = calls[i].keep])
           /\ calls' = [calls EXCEPT ![i].at = "preflight"]
           /\ raced' = (raced \/ \E k \in Slots \ {i} : ~Free(k) /\ calls[k].at = "preflight")
  <2>1. server[j].st = "awaiting_selection" /\ active = NoJob /\ ~server[j].key /\ calls[i].op = "confirm"
    BY <1>2, <1>5, <1>6, <1>9 DEF Refused
  <2>2. PICK rec : rec = [server[j] EXCEPT !.sel = calls[i].sel, !.keep = calls[i].keep]
    OBVIOUS
  <2>3. server[j] \in Record /\ calls[i] \in CallRecord
    BY <1>2
  <2>4. /\ rec \in Record /\ rec.st = server[j].st /\ rec.sel = calls[i].sel /\ rec.keep = calls[i].keep
        /\ rec.key = server[j].key /\ rec.retry = server[j].retry
    BY <2>2, <2>3 DEF Record, CallRecord
  <2>5. /\ server' \in [Jobs -> Record] /\ server'[j] = rec
        /\ \A k \in Jobs \ {j} : server'[k] = server[k]
    BY <1>2, <1>9, <2>2, <2>4 DEF Put
  <2>6. /\ calls' \in [Slots -> CallRecord]
        /\ \A k \in Slots \ {i} : calls'[k] = calls[k]
        /\ calls'[i].op = "confirm" /\ calls'[i].job = j /\ calls'[i].at = "preflight"
        /\ calls'[i].sel = calls[i].sel /\ calls'[i].keep = calls[i].keep
    BY <1>1, <1>9, <2>1, <2>3 DEF CallRecord
  <2>7. (\A k \in Jobs : RecordOK(server[k], disk[k]))'
    <3>1. \A k \in Jobs : RecordOK(server[k], disk[k])
      BY DEF CInv
    <3> QED BY <1>2, <1>3, <2>1, <2>4, <2>5, <3>1 DEF RecordOK
  <2>8. Onward
    BY <1>3, <1>9, <2>1, <2>4, <2>5 DEF Onward, Over, Terminal
  <2>9. Tame
    <3>1. ASSUME NEW k \in Slots \ {i} PROVE calls'[k] = calls[k]
      BY <2>6
    <3>2. ASSUME NEW k \in Slots \ {i}, calls[k].op = "confirm", calls'[k].at = "preflight"
          PROVE  \/ /\ calls[k].at = "preflight"
                    /\ server'[calls[k].job].sel = server[calls[k].job].sel
                    /\ server'[calls[k].job].keep = server[calls[k].job].keep
                 \/ \E l \in Slots : /\ calls[l].op = "confirm" /\ calls[l].job = calls[k].job /\ calls[l].at = "out"
                                     /\ server'[calls[k].job].sel = calls[l].sel
                                     /\ server'[calls[k].job].keep = calls[l].keep
      BY <1>1, <1>2, <2>1, <2>4, <2>5, <3>1, <3>2, Addressed
    <3>3. /\ calls[i].op = "confirm" /\ calls[i].job = j /\ calls[i].at = "out"
          /\ server'[j].sel = calls[i].sel /\ server'[j].keep = calls[i].keep
      BY <1>1, <1>2, <2>1, <2>4, <2>5
    <3> QED BY <2>6, <3>1, <3>2, <3>3 DEF Tame
  <2>10. (\A k \in Slots : CallOK(calls[k]))'
    <3>1. CallOK(calls[i])'
      BY <1>2, <2>6 DEF CallOK
    <3> QED BY <2>6, <2>8, <3>1, OthersStay
  <2>11. (raced \/ Orderly)'
    <3>1. ASSUME Orderly, \A k \in Slots \ {i} : ~(~Free(k) /\ calls[k].at = "preflight")
          PROVE  Orderly'
      <4>1. \A k \in Slots \ {i} : calls'[k].at # "preflight"
        BY <2>6, <3>1, Committing DEF Free
      <4>2. \A k \in Jobs : server'[k].st = server[k].st /\ server'[k].retry = server[k].retry
        BY <2>4, <2>5
      <4> QED BY <1>3, <2>1, <2>4, <2>5, <2>6, <3>1, <4>1, <4>2 DEF Orderly
    <3> QED BY <1>9, <3>1 DEF CInv
  <2>12. (Cardinality(Waiting) <= Cardinality(Unused))'
    BY <1>2, <2>5, <2>6, RoomBySave
  <2>13. active' \in Jobs \union {NoJob} /\ raced' \in BOOLEAN /\ disk' \in [Jobs -> Record]
    BY <1>3, <1>9 DEF CInv, TypeOK
  <2> QED BY <1>3, <2>5, <2>6, <2>7, <2>8, <2>9, <2>10, <2>11, <2>12, <2>13, Served
<1>10. server[j].pre \in {"none", "ok", "blocked"}
  BY <1>2 DEF Record
<1> QED BY <1>7, <1>8, <1>9, <1>10 DEF Replayed

LEMMA CancelKeeps ==
  ASSUME CInv, NEW i \in Slots, HandleCancel(i)
  PROVE  CInv' /\ Onward
<1> USE Shapes
<1>1. PICK j : j = calls[i].job
  OBVIOUS
<1>2. calls[i].op = "cancel" /\ j \in Jobs /\ server[j].st # "none"
  BY <1>1, Addressed DEF HandleCancel
<1>3. UNCHANGED <<app_vars, touched, raced>> /\ retried' = retried /\ Reply(i, TRUE, "none")
  BY DEF HandleCancel, bounds
<1>4. /\ calls' \in [Slots -> CallRecord]
      /\ \A k \in Slots \ {i} : calls'[k] = calls[k]
      /\ \/ calls'[i] = NoCall
         \/ /\ calls'[i].op = calls[i].op /\ calls'[i].job = calls[i].job
            /\ calls'[i].sel = calls[i].sel /\ calls'[i].keep = calls[i].keep
            /\ calls'[i].at = "back" /\ calls'[i].ok = TRUE /\ calls'[i].pre = "none"
  BY <1>3, ReplyIs
<1>5. CallOK(calls[i])'
  BY <1>1, <1>2, <1>4 DEF CallOK
<1>6. Cancel(j)
  BY <1>1 DEF HandleCancel
<1>7. CASE UNCHANGED server_vars
  BY <1>3, <1>4, <1>5, <1>7, OnlyCalls
<1>8. CASE /\ server[j].st \notin Terminal
           /\ Save(j, [server[j] EXCEPT !.st = "cancelled", !.retry = FALSE])
           /\ active' = IF active = j THEN NoJob ELSE active
  <2>1. PICK rec : rec = [server[j] EXCEPT !.st = "cancelled", !.retry = FALSE]
    OBVIOUS
  <2>2. server[j] \in Record
    BY <1>2
  <2>3. /\ rec \in Record /\ rec.st = "cancelled" /\ rec.sel = server[j].sel /\ rec.keep = server[j].keep
        /\ rec.key = server[j].key /\ rec.retry = FALSE
    BY <2>1, <2>2 DEF Record, States, Terminal
  <2>4. /\ server' \in [Jobs -> Record] /\ disk' \in [Jobs -> Record]
        /\ server'[j] = rec
        /\ \A k \in Jobs \ {j} : server'[k] = server[k]
        /\ (\A k \in Jobs : RecordOK(server[k], disk[k]))'
    BY <1>2, <1>8, <2>1, <2>3, SaveIs DEF Terminal
  <2>5. Onward
    BY <1>2, <1>3, <1>8, <2>3, <2>4 DEF Onward, Over, Terminal
  <2>6. (raced \/ Orderly)'
    <3>1. ASSUME Orderly PROVE Orderly'
      <4>1. \A k \in Jobs : server'[k].retry => server'[k].st = "failed"
        BY <2>3, <2>4, <3>1 DEF Orderly
      <4>2. \A k \in Jobs : server'[k].st \in Transferring => server[k].st \in Transferring /\ active' = active
        BY <1>8, <2>3, <2>4, <3>1 DEF Orderly, Transferring
      <4>3. active' \in {active, NoJob}
        BY <1>8
      <4>4. \A k \in Jobs : server'[k].key => server[k].key
        BY <2>3, <2>4
      <4>5. \A k \in Slots : calls'[k].at = "preflight" =>
              calls[k].at = "preflight" /\ calls'[k].job = calls[k].job
        BY <1>4 DEF NoCall
      <4>6. \A k \in Jobs : server[k].st \in {"awaiting_selection", "cancelled"} =>
              server'[k].st \in {"awaiting_selection", "cancelled"}
        BY <2>3, <2>4
      <4> QED BY <3>1, <4>1, <4>2, <4>3, <4>4, <4>5, <4>6, OrderlyKept
    <3> QED BY <1>3, <3>1 DEF CInv
  <2>7. active' \in Jobs \union {NoJob}
    BY <1>8 DEF CInv, TypeOK
  <2> QED BY <1>1, <1>2, <1>3, <1>4, <1>5, <2>3, <2>4, <2>5, <2>6, <2>7, Answered
<1> QED BY <1>6, <1>7, <1>8 DEF Cancel

LEMMA RetryKeeps ==
  ASSUME CInv, NEW i \in Slots, HandleRetry(i)
  PROVE  CInv' /\ Onward
<1> USE Shapes
<1>1. PICK j : j = calls[i].job
  OBVIOUS
<1>2. calls[i].op = "retry" /\ j \in Jobs /\ server[j].st # "none"
  BY <1>1, Addressed DEF HandleRetry
<1>3. UNCHANGED <<app_vars, touched>> /\ retried' = retried /\ Reply(i, TRUE, "none")
  BY DEF HandleRetry, bounds
<1>4. /\ calls' \in [Slots -> CallRecord]
      /\ \A k \in Slots \ {i} : calls'[k] = calls[k]
      /\ \/ calls'[i] = NoCall
         \/ /\ calls'[i].op = calls[i].op /\ calls'[i].job = calls[i].job
            /\ calls'[i].sel = calls[i].sel /\ calls'[i].keep = calls[i].keep
            /\ calls'[i].at = "back" /\ calls'[i].ok = TRUE /\ calls'[i].pre = "none"
  BY <1>3, ReplyIs
<1>5. retried
  BY <1>2 DEF CInv, CallOK, NoCall
<1>6. CallOK(calls[i])'
  BY <1>1, <1>2, <1>3, <1>4, <1>5 DEF CallOK
<1>7. CASE UNCHANGED <<server_vars, raced>>
  BY <1>3, <1>4, <1>6, <1>7, OnlyCalls
<1>8. CASE /\ server[j].retry /\ active \in {NoJob, j}
           /\ Save(j, [server[j] EXCEPT !.st = "running", !.retry = FALSE]) /\ active' = j
           /\ raced' = (raced \/ \E k \in Slots : calls[k].at = "preflight")
  <2>1. PICK rec : rec = [server[j] EXCEPT !.st = "running", !.retry = FALSE]
    OBVIOUS
  <2>2. server[j] \in Record
    BY <1>2
  <2>3. /\ rec \in Record /\ rec.st = "running" /\ rec.sel = server[j].sel /\ rec.keep = server[j].keep
        /\ rec.key = server[j].key /\ rec.retry = FALSE
    BY <2>1, <2>2 DEF Record, States, Transferring
  <2>4. /\ server' \in [Jobs -> Record] /\ disk' \in [Jobs -> Record]
        /\ server'[j] = rec
        /\ \A k \in Jobs \ {j} : server'[k] = server[k]
        /\ (\A k \in Jobs : RecordOK(server[k], disk[k]))'
    BY <1>2, <1>8, <2>1, <2>3, SaveIs DEF Transferring
  <2>5. raced => raced'
    BY <1>8
  <2>6. Onward
    <3>1. raced \/ server[j].st # "complete"
      BY <1>2, <1>8 DEF CInv, Orderly
    <3> QED BY <1>2, <1>3, <1>5, <2>3, <2>4, <2>5, <3>1 DEF Onward, Over
  <2>7. Tame
    <3>1. \A k \in Slots : calls[k].op = "confirm" => calls[k].job \in Jobs
      BY Addressed
    <3> QED BY <1>2, <1>4, <2>3, <2>4, <3>1 DEF Tame, NoCall
  <2>8. (\A k \in Slots : CallOK(calls[k]))'
    BY <1>4, <1>6, <2>6, OthersStay
  <2>9. (raced \/ Orderly)'
    <3>1. ASSUME Orderly, \A k \in Slots : calls[k].at # "preflight"
          PROVE  Orderly'
      <4>1. \A k \in Jobs : server'[k].retry => server'[k].st = "failed"
        BY <2>3, <2>4, <3>1 DEF Orderly
      <4>2. \A k \in Slots : calls'[k].at # "preflight"
        BY <1>4, <3>1 DEF NoCall
      <4>3. \A k \in Jobs : server'[k].st \in Transferring => j = k
        BY <1>2, <1>8, <2>4, <3>1 DEF Orderly
      <4> QED BY <1>8, <4>1, <4>2, <4>3 DEF Orderly
    <3> QED BY <1>8, <3>1 DEF CInv
  <2>10. (Cardinality(Waiting) <= Cardinality(Unused))'
    <3>1. ~(calls'[i].op = "intake" /\ calls'[i].at = "out")
      BY <1>2, <1>4 DEF NoCall
    <3> QED BY <1>2, <1>4, <2>4, <3>1, RoomBySave
  <2>11. active' \in Jobs \union {NoJob} /\ raced' \in BOOLEAN
    BY <1>2, <1>8 DEF CInv, TypeOK
  <2> QED BY <1>3, <1>4, <2>4, <2>6, <2>7, <2>8, <2>9, <2>10, <2>11, Served
<1> QED BY <1>1, <1>7, <1>8 DEF HandleRetry

LEMMA TransferKeeps ==
  ASSUME CInv, NEW j \in Jobs, Transfer(j)
  PROVE  CInv' /\ Onward
<1> USE Shapes
<1>1. /\ UNCHANGED <<app_vars, calls, touched, raced>> /\ retried' = retried
      /\ server[j].st \in Transferring
  BY DEF Transfer, bounds, Fault
<1>2. server[j] \in Record /\ RecordOK(server[j], disk[j])
  BY DEF CInv
<1>3. \E rec \in Record :
        /\ Save(j, rec) /\ rec.sel = server[j].sel /\ rec.keep = server[j].keep /\ rec.key = server[j].key
        /\ \/ rec.st = "running" /\ active' = active /\ rec.retry = server[j].retry
           \/ /\ rec.st \in {"complete", "failed"} /\ active' = IF active = j THEN NoJob ELSE active
              /\ rec.retry = server[j].retry \/ rec.st = "failed"
  <2>1. CASE Save(j, [server[j] EXCEPT !.st = "running"]) /\ UNCHANGED <<active, bounds>>
    <3>1. PICK rec : rec = [server[j] EXCEPT !.st = "running"]
      OBVIOUS
    <3>2. /\ rec \in Record /\ rec.st = "running" /\ rec.sel = server[j].sel /\ rec.keep = server[j].keep
          /\ rec.key = server[j].key /\ rec.retry = server[j].retry
      BY <1>2, <3>1 DEF Record, States, Transferring
    <3>3. Save(j, rec) /\ active' = active
      BY <2>1, <3>1
    <3> QED BY <3>2, <3>3
  <2>2. CASE /\ active' = IF active = j THEN NoJob ELSE active
             /\ Save(j, [server[j] EXCEPT !.st = "complete"])
    <3>1. PICK rec : rec = [server[j] EXCEPT !.st = "complete"]
      OBVIOUS
    <3>2. /\ rec \in Record /\ rec.st = "complete" /\ rec.sel = server[j].sel /\ rec.keep = server[j].keep
          /\ rec.key = server[j].key /\ rec.retry = server[j].retry
      BY <1>2, <3>1 DEF Record, States, Terminal
    <3>3. Save(j, rec) /\ active' = IF active = j THEN NoJob ELSE active
      BY <2>2, <3>1
    <3> QED BY <3>2, <3>3
  <2>3. CASE /\ active' = IF active = j THEN NoJob ELSE active
             /\ \E again \in BOOLEAN : Save(j, [server[j] EXCEPT !.st = "failed", !.retry = again])
    <3>1. PICK again \in BOOLEAN : Save(j, [server[j] EXCEPT !.st = "failed", !.retry = again])
      BY <2>3
    <3>2. PICK rec : rec = [server[j] EXCEPT !.st = "failed", !.retry = again]
      OBVIOUS
    <3>3. /\ rec \in Record /\ rec.st = "failed" /\ rec.sel = server[j].sel /\ rec.keep = server[j].keep
          /\ rec.key = server[j].key
      BY <1>2, <3>2 DEF Record, States, Terminal
    <3>4. Save(j, rec) /\ active' = IF active = j THEN NoJob ELSE active
      BY <2>3, <3>1, <3>2
    <3> QED BY <3>3, <3>4
  <2> QED BY <2>1, <2>2, <2>3 DEF Transfer
<1>4. PICK rec \in Record :
        /\ Save(j, rec) /\ rec.sel = server[j].sel /\ rec.keep = server[j].keep /\ rec.key = server[j].key
        /\ \/ rec.st = "running" /\ active' = active /\ rec.retry = server[j].retry
           \/ /\ rec.st \in {"complete", "failed"} /\ active' = IF active = j THEN NoJob ELSE active
              /\ rec.retry = server[j].retry \/ rec.st = "failed"
  BY <1>3
<1>5. rec.st \in {"running", "complete", "failed"}
  BY <1>4
<1>6. /\ server' \in [Jobs -> Record] /\ disk' \in [Jobs -> Record]
      /\ server'[j] = rec
      /\ \A k \in Jobs \ {j} : server'[k] = server[k]
      /\ (\A k \in Jobs : RecordOK(server[k], disk[k]))'
  BY <1>4, <1>5, SaveIs DEF Transferring, Terminal
<1>7. server[j].st \notin Terminal \union {"none", "awaiting_selection"}
  BY <1>1 DEF Transferring, Terminal
<1>8. Onward
  BY <1>1, <1>4, <1>6, <1>5, <1>7 DEF Onward, Over, Terminal
<1>9. Tame
  <2>1. \A k \in Slots : calls[k].op = "confirm" => calls[k].job \in Jobs
    BY Addressed
  <2> QED BY <1>1, <1>4, <1>6, <2>1 DEF Tame
<1>10. (\A k \in Slots : CallOK(calls[k]))'
  <2>1. ASSUME NEW k \in Slots PROVE CallOK(calls[k])'
    BY <1>1, <1>8, CallStays DEF CInv
  <2> QED BY <2>1
<1>11. (raced \/ Orderly)'
  <2>1. ASSUME Orderly PROVE Orderly'
    <3>1. ~server[j].retry
      BY <1>1, <2>1 DEF Orderly, Transferring
    <3>2. \A k \in Jobs : server'[k].retry => server'[k].st = "failed"
      BY <1>4, <1>6, <2>1, <3>1 DEF Orderly
    <3>3. \A k \in Jobs : server'[k].st \in Transferring => server[k].st \in Transferring /\ active' = active
      BY <1>1, <1>4, <1>6, <2>1 DEF Orderly, Transferring
    <3>4. active' \in {active, NoJob}
      BY <1>4
    <3>5. \A k \in Jobs : server'[k].key => server[k].key
      BY <1>4, <1>6
    <3>6. \A k \in Jobs : server[k].st \in {"awaiting_selection", "cancelled"} =>
            server'[k].st \in {"awaiting_selection", "cancelled"}
      BY <1>6, <1>7 DEF Terminal
    <3> QED BY <1>1, <2>1, <3>2, <3>3, <3>4, <3>5, <3>6, OrderlyKept
  <2> QED BY <1>1, <2>1 DEF CInv
<1>12. (Cardinality(Waiting) <= Cardinality(Unused))'
  <2>1. Waiting' \subseteq Waiting
    BY <1>1 DEF Waiting
  <2>2. Unused \subseteq Unused'
    BY <1>6, <1>7 DEF Unused, Blank
  <2> QED BY <2>1, <2>2, Room
<1>13. active' \in Jobs \union {NoJob} /\ raced' \in BOOLEAN /\ calls' \in [Slots -> CallRecord]
  BY <1>1, <1>4 DEF CInv, TypeOK
<1> QED BY <1>1, <1>6, <1>8, <1>9, <1>10, <1>11, <1>12, <1>13, Served

LEMMA RestartKeeps ==
  ASSUME CInv, ServerRestarts
  PROVE  CInv' /\ Onward
<1> USE Shapes
<1>1. /\ UNCHANGED <<app_vars, touched, raced>> /\ retried' = retried /\ active' = NoJob
      /\ disk' = [j \in Jobs |-> IF disk[j].st \in Transferring THEN With(disk[j], "interrupted") ELSE disk[j]]
      /\ server' = disk'
  BY DEF ServerRestarts, Fault, With
<1>2. ASSUME NEW j \in Jobs
      PROVE  /\ server'[j] \in Record /\ disk'[j] = server'[j]
             /\ server'[j].st = IF server[j].st \in Transferring THEN "interrupted" ELSE server[j].st
             /\ server'[j].key = server[j].key /\ server'[j].retry = server[j].retry
             /\ server[j].key => server'[j].sel = server[j].sel /\ server'[j].keep = server[j].keep
             /\ server[j].st = "none" => server'[j] = Blank
             /\ server[j].st # "none" => server'[j].st # "none"
  <2>1. RecordOK(server[j], disk[j]) /\ disk[j] \in Record /\ server[j] \in Record
    BY DEF CInv
  <2>2. "interrupted" \in States
    BY DEF States, Terminal
  <2>3. /\ With(disk[j], "interrupted") \in Record /\ With(disk[j], "interrupted").st = "interrupted"
        /\ With(disk[j], "interrupted").sel = disk[j].sel /\ With(disk[j], "interrupted").keep = disk[j].keep
        /\ With(disk[j], "interrupted").key = disk[j].key /\ With(disk[j], "interrupted").retry = disk[j].retry
    BY <2>1, <2>2, WithIs
  <2>4. server'[j] = (IF disk[j].st \in Transferring THEN With(disk[j], "interrupted") ELSE disk[j])
        /\ disk'[j] = server'[j]
    BY <1>1
  <2>5. "none" \notin Transferring
    BY DEF Transferring
  <2> QED BY <2>1, <2>3, <2>4, <2>5 DEF RecordOK
<1>3. server' \in [Jobs -> Record] /\ disk' \in [Jobs -> Record]
  <2>1. server' = [j \in Jobs |-> server'[j]] /\ disk' = server'
    BY <1>1
  <2> QED BY <1>2, <2>1
<1>4. (\A j \in Jobs : RecordOK(server[j], disk[j]))'
  <2>1. ASSUME NEW j \in Jobs PROVE RecordOK(server[j], disk[j])'
    <3>1. server[j].key => server[j].st \in Transferring \union Terminal
      BY DEF CInv, RecordOK
    <3> QED BY <1>2, <3>1 DEF RecordOK, Terminal, Transferring, Blank
  <2> QED BY <2>1
<1>5. \A k \in Slots :
        /\ calls'[k] \in CallRecord
        /\ \/ calls'[k] = calls[k] /\ calls[k].at # "preflight"
           \/ calls'[k] = NoCall
           \/ /\ calls'[k].op = calls[k].op /\ calls'[k].job = calls[k].job /\ calls'[k].at = "lost"
              /\ calls'[k].sel = calls[k].sel /\ calls'[k].keep = calls[k].keep
              /\ calls[k].op \in {"intake", "confirm"} /\ calls[k].job \in Jobs
  <2> SUFFICES ASSUME NEW k \in Slots
      PROVE /\ calls'[k] \in CallRecord
            /\ \/ calls'[k] = calls[k] /\ calls[k].at # "preflight"
               \/ calls'[k] = NoCall
               \/ /\ calls'[k].op = calls[k].op /\ calls'[k].job = calls[k].job /\ calls'[k].at = "lost"
                  /\ calls'[k].sel = calls[k].sel /\ calls'[k].keep = calls[k].keep
                  /\ calls[k].op \in {"intake", "confirm"} /\ calls[k].job \in Jobs
    OBVIOUS
  <2>1. calls[k] \in CallRecord /\ CallOK(calls[k])
    BY DEF CInv
  <2>2. NoCall \in CallRecord
    BY DEF NoCall, CallRecord
  <2>3. calls'[k] = IF calls[k].op # "none" /\ calls[k].at \in {"metadata", "preflight"}
                    THEN IF calls[k].heard THEN [calls[k] EXCEPT !.at = "lost"] ELSE NoCall
                    ELSE calls[k]
    BY DEF ServerRestarts
  <2>4. calls[k].at \in {"metadata", "preflight"} =>
          calls[k].op \in {"intake", "confirm"} /\ calls[k].job \in Jobs
    BY <2>1 DEF CallOK, NoCall
  <2>5. CASE calls'[k] = [calls[k] EXCEPT !.at = "lost"] /\ calls[k].at \in {"metadata", "preflight"}
    BY <2>1, <2>4, <2>5 DEF CallRecord
  <2>6. CASE calls'[k] = calls[k] /\ ~(calls[k].op # "none" /\ calls[k].at \in {"metadata", "preflight"})
    BY <2>1, <2>4, <2>6
  <2> QED BY <2>2, <2>3, <2>5, <2>6
<1>6. calls' \in [Slots -> CallRecord]
  <2>1. calls' = [k \in Slots |-> calls'[k]]
    BY DEF ServerRestarts
  <2> QED BY <1>5, <2>1
<1>7. Onward
  BY <1>1, <1>2 DEF Onward, Over, Terminal, Transferring, CInv, RecordOK
<1>8. Tame
  <2>1. \A k \in Slots : calls'[k].at # "preflight"
    BY <1>5 DEF NoCall
  <2> QED BY <1>5, <2>1 DEF Tame
<1>9. (\A k \in Slots : CallOK(calls[k]))'
  <2> SUFFICES ASSUME NEW k \in Slots PROVE CallOK(calls[k])'
    OBVIOUS
  <2>1. CASE calls'[k] = calls[k]
    BY <1>7, <2>1, CallStays DEF CInv
  <2>2. CASE calls'[k] # calls[k]
    BY <1>5, <2>2 DEF CallOK
  <2> QED BY <2>1, <2>2
<1>10. (raced \/ Orderly)'
  <2>1. ASSUME Orderly PROVE Orderly'
    <3>1. \A k \in Slots : calls'[k].at # "preflight"
      BY <1>5 DEF NoCall
    <3>2. \A j \in Jobs : server'[j].st \notin Transferring
      BY <1>2 DEF Transferring
    <3>3. \A j \in Jobs : server'[j].retry => server'[j].st = "failed"
      BY <1>2, <2>1 DEF Orderly, Transferring
    <3> QED BY <3>1, <3>2, <3>3 DEF Orderly
  <2> QED BY <1>1, <2>1 DEF CInv
<1>11. (Cardinality(Waiting) <= Cardinality(Unused))'
  <2>1. Waiting' \subseteq Waiting
    BY <1>5 DEF Waiting, NoCall
  <2>2. Unused \subseteq Unused'
    BY <1>2 DEF Unused, Blank
  <2> QED BY <2>1, <2>2, Room
<1>12. active' \in Jobs \union {NoJob} /\ raced' \in BOOLEAN
  BY <1>1 DEF CInv, TypeOK
<1> QED BY <1>1, <1>3, <1>4, <1>6, <1>7, <1>8, <1>9, <1>10, <1>11, <1>12, Served

-----------------------------------------------------------------------------
(* Steps of the client *)

\* What the calls do in such a step: they end, or the client stops to wait for
\* them, or a new one is about the job of the screen and has what the form shows.
Asked ==
  \A k \in Slots :
    \/ calls'[k] = NoCall
    \/ /\ calls'[k].op = calls[k].op /\ calls'[k].job = calls[k].job /\ calls'[k].sel = calls[k].sel
       /\ calls'[k].keep = calls[k].keep /\ calls'[k].at = calls[k].at
    \/ calls'[k].op = "intake" /\ calls'[k].job = NoJob
    \/ /\ calls'[k].op \in {"start", "cancel", "retry"} /\ calls'[k].job = screen.job
       /\ screen.s = "intake" => calls'[k].op = "cancel"
    \/ /\ calls'[k].op = "confirm" /\ screen.s = "selection" /\ calls'[k].job = screen.job
       /\ Chosen(calls'[k]) /\ calls'[k].at = "out"

LEMMA AskedAlone ==
  ASSUME CInv, UNCHANGED server_vars, Asked,
         \A j \in {screen'.job, poll'.job} :
           \/ j \in {screen.job, poll.job, NoJob}
           \/ \A k \in Slots : calls'[k].op = "intake" => calls'[k].job # j
  PROVE  (\A i \in Slots : IntakeAlone(i))'
<1> USE Shapes
<1> SUFFICES ASSUME NEW i \in Slots, calls'[i].op = "intake", calls'[i].job # NoJob
             PROVE  /\ screen'.job # calls'[i].job /\ poll'.job # calls'[i].job
                    /\ ~server'[calls'[i].job].key
                    /\ \A k \in Slots \ {i} : calls'[k].job # calls'[i].job
  BY DEF IntakeAlone
<1>1. calls[i].op = "intake" /\ calls'[i].job = calls[i].job
  BY DEF Asked, NoCall
<1>2. /\ screen.job # calls[i].job /\ poll.job # calls[i].job
      /\ ~server[calls[i].job].key
      /\ \A k \in Slots \ {i} : calls[k].job # calls[i].job
  BY <1>1 DEF CInv, IntakeAlone
<1>3. ASSUME NEW k \in Slots \ {i} PROVE calls'[k].job # calls[i].job
  BY <1>1, <1>2 DEF Asked, NoCall
<1> QED BY <1>1, <1>2, <1>3 DEF server_vars

LEMMA AskedKnown ==
  ASSUME CInv, UNCHANGED server_vars, Asked, Known(screen'.job), Known(poll'.job)
  PROVE  AllKnown'
<1>1. \A j : Known(j) <=> (j # NoJob => j \in Jobs /\ server'[j].st # "none")
  BY DEF Known, server_vars
<1>2. ASSUME NEW k \in Slots PROVE Known(calls'[k].job)
  <2>1. Known(calls[k].job) /\ Known(screen.job) /\ Known(NoJob)
    BY DEF CInv, AllKnown, Known
  <2> QED BY <2>1 DEF Asked, NoCall
<1> QED BY <1>1, <1>2 DEF AllKnown, Known

LEMMA ShowIs ==
  ASSUME CInv, NEW scr \in Screens, Show(scr)
  PROVE  /\ screen' = scr /\ form' = NewForm /\ touched' = FALSE
         /\ poll' # NoPoll => poll' = poll /\ screen.s = scr.s /\ scr.s \in {"intake", "active"}
         /\ Known(poll'.job)
<1>1. poll' = poll \/ poll' = NoPoll
  BY DEF Show
<1>2. Known(poll.job) /\ Known(NoPoll.job)
  BY DEF CInv, AllKnown, Known, NoPoll
<1> QED BY <1>1, <1>2 DEF Show, CInv, PollOK

\* Where a screen may be shown, and of which job.
Fitting(scr) ==
  /\ Known(scr.job)
  /\ scr.job # NoJob => \A k \in Slots : calls'[k].op = "intake" => calls'[k].job # scr.job
  /\ scr.s = "intake" => ~server[scr.job].key /\ \A k \in Slots : calls'[k].job = scr.job => calls'[k].op = "cancel"
  /\ scr.s = "selection" =>
       ~server[scr.job].key /\ \A k \in Slots : calls'[k].op = "confirm" => calls'[k].job # scr.job
  /\ scr.s \in {"active", "retryable"} => server[scr.job].key
  /\ scr.s = "complete" => server[scr.job].st = "complete" \/ raced
  /\ scr.s \in {"error", "retryable"} => Over(scr.job) \/ retried \/ raced

LEMMA Shown ==
  ASSUME CInv, UNCHANGED <<server_vars, raced>>, retried => retried', Asked,
         NEW scr \in Screens, Show(scr), Fitting(scr)
  PROVE  (/\ \A i \in Slots : IntakeAlone(i)
          /\ AllKnown /\ DraftNew /\ PollOK /\ FormOK /\ ScreenOK)'
<1> USE Shapes
<1>1. /\ screen' = scr /\ form' = NewForm /\ touched' = FALSE
      /\ poll' # NoPoll => poll' = poll /\ screen.s = scr.s /\ scr.s \in {"intake", "active"}
      /\ Known(poll'.job)
  BY ShowIs
<1>2. server' = server /\ NoPoll.job = NoJob /\ raced' = raced
  BY DEF server_vars, NoPoll
<1>3. scr.s \in {"intake", "selection", "active", "complete", "error", "retryable"} => scr.job \in Jobs
  BY DEF Screens
<1>4. \A j \in Jobs : Over(j) => server'[j].st \in Terminal /\ (server'[j].st = "cancelled" => server'[j].key)
  BY <1>2 DEF Over
<1>5. (\A i \in Slots : IntakeAlone(i))'
  <2>1. \A j \in {screen'.job, poll'.job} :
           \/ j \in {screen.job, poll.job, NoJob}
           \/ \A k \in Slots : calls'[k].op = "intake" => calls'[k].job # j
    BY <1>1, <1>2 DEF Fitting
  <2> QED BY <2>1, AskedAlone
<1>6. AllKnown'
  BY <1>1, AskedKnown DEF Fitting
<1>7. DraftNew'
  <2> SUFFICES ASSUME scr.s = "intake", NEW j \in {scr.job, poll'.job} \ {NoJob}
               PROVE  /\ ~server[j].key
                      /\ \A i \in Slots : calls'[i].job = j => calls'[i].op = "cancel"
    BY <1>1, <1>2 DEF DraftNew
  <2>1. CASE j = scr.job
    BY <2>1 DEF Fitting
  <2>2. CASE j # scr.job
    <3>1. screen.s = "intake" /\ j = poll.job
      BY <1>1, <1>2, <2>2
    <3>2. ~server[j].key /\ \A i \in Slots : calls[i].job = j => calls[i].op = "cancel"
      BY <3>1 DEF CInv, DraftNew
    <3> QED BY <3>1, <3>2 DEF Asked, NoCall
  <2> QED BY <2>1, <2>2
<1>8. PollOK'
  <2> SUFFICES ASSUME poll' # NoPoll PROVE PollOK'
    BY DEF PollOK
  <2>1. poll' = poll /\ screen.s = scr.s /\ poll # NoPoll
    BY <1>1
  <2>2. poll.job \in Jobs
    BY <2>1 DEF CInv, PollOK
  <2> QED BY <1>1, <1>2, <1>4, <2>1, <2>2 DEF CInv, PollOK, Over
<1>9. FormOK'
  <2> SUFFICES ASSUME scr.s = "selection"
               PROVE  FormOK'
    BY <1>1 DEF FormOK
  <2> QED BY <1>1, <1>2 DEF FormOK, Fitting, NewForm
<1>10. ScreenOK'
  BY <1>1, <1>2, <1>3, <1>4 DEF ScreenOK, Fitting, Over
<1> QED BY <1>5, <1>6, <1>7, <1>8, <1>9, <1>10

\* The screen stays; a poll is read or dropped, the form is worked on.
LEMMA Stayed ==
  ASSUME CInv, UNCHANGED <<server_vars, raced, screen>>, retried => retried', Asked,
         \/ poll' = poll \/ poll' = NoPoll
         \/ /\ screen.s \in {"intake", "active"} /\ poll' = PublicJob(screen.job)
            /\ screen.s = "intake" => DraftFound(screen.job),
         screen.s = "selection" =>
           /\ form'.pre = "ok" => server[screen.job].key
           /\ touched => touched'
           /\ (form'.sel = form.sel /\ form'.keep = form.keep) \/ touched'
              \/ (~server[screen.job].key /\ calls' = calls
                  /\ \A k \in Slots : calls[k].op = "confirm" /\ calls[k].job = screen.job => calls[k].at = "back")
  PROVE  (/\ \A i \in Slots : IntakeAlone(i)
          /\ AllKnown /\ DraftNew /\ PollOK /\ FormOK /\ ScreenOK)'
<1> USE Shapes
<1>1. server' = server /\ NoPoll.job = NoJob /\ raced' = raced /\ screen' = screen
  BY DEF server_vars, NoPoll
<1>2. poll'.job \in {poll.job, screen.job, NoJob}
  BY <1>1 DEF PublicJob
<1>3. Known(screen.job) /\ Known(poll.job) /\ Known(NoJob)
  BY DEF CInv, AllKnown, Known
<1>4. \A j \in Jobs : Over(j) => server'[j].st \in Terminal /\ (server'[j].st = "cancelled" => server'[j].key)
  BY <1>1 DEF Over
<1>5. (\A i \in Slots : IntakeAlone(i))'
  BY <1>1, <1>2, AskedAlone
<1>6. AllKnown'
  BY <1>1, <1>2, <1>3, AskedKnown
<1>7. DraftNew'
  <2> SUFFICES ASSUME screen.s = "intake", NEW j \in {screen.job, poll'.job} \ {NoJob}
               PROVE  /\ ~server[j].key
                      /\ \A i \in Slots : calls'[i].job = j => calls'[i].op = "cancel"
    BY <1>1 DEF DraftNew
  <2>1. ~server[j].key /\ \A i \in Slots : calls[i].job = j => calls[i].op = "cancel"
    BY <1>2 DEF CInv, DraftNew
  <2> QED BY <2>1 DEF Asked, NoCall
<1>8. PollOK'
  <2>1. CASE poll' = NoPoll
    BY <2>1 DEF PollOK
  <2>2. CASE poll' = poll /\ poll # NoPoll
    <3>1. poll.job \in Jobs
      BY <2>2 DEF CInv, PollOK
    <3> QED BY <1>1, <1>4, <2>2, <3>1 DEF CInv, PollOK, Over
  <2>3. CASE /\ screen.s \in {"intake", "active"} /\ poll' = PublicJob(screen.job)
             /\ screen.s = "intake" => DraftFound(screen.job)
    <3>1. PICK j : j = screen.job
      OBVIOUS
    <3>2. j \in Jobs /\ poll'.job = j /\ poll'.st = server[j].st
      BY <2>3, <3>1 DEF PublicJob
    <3>3. screen.s = "intake" => server[j].st \in {"reading_metadata", "awaiting_selection", "failed"}
      BY <2>3, <3>1 DEF DraftFound
    <3>4. screen.s = "active" => server[j].key
      BY <3>1 DEF CInv, ScreenOK
    <3>5. server[j].st \in Terminal => Over(j)
      BY <2>3, <3>3, <3>4 DEF Over
    <3>6. Over(j) => server'[j].st \in Terminal /\ (server'[j].st = "cancelled" => server'[j].key)
      BY <1>4, <3>2
    <3> QED BY <1>1, <2>3, <3>2, <3>3, <3>4, <3>5, <3>6 DEF PollOK, Over
  <2> QED BY <2>1, <2>2, <2>3
<1>9. FormOK'
  <2> SUFFICES ASSUME screen.s = "selection"
               PROVE  /\ form'.pre = "ok" => server[screen.job].key
                      /\ ~touched' =>
                           /\ \A i \in Slots :
                                calls'[i].op = "confirm" /\ calls'[i].job = screen.job
                                  /\ calls'[i].at \in {"out", "preflight"} =>
                                  /\ calls'[i].sel = form'.sel /\ calls'[i].keep = form'.keep
                                  /\ calls'[i].at = "preflight" =>
                                       server[screen.job].sel = form'.sel /\ server[screen.job].keep = form'.keep
                           /\ server[screen.job].key =>
                                server[screen.job].sel = form'.sel /\ server[screen.job].keep = form'.keep
    BY <1>1 DEF FormOK, Chosen
  <2>1. ASSUME ~touched', form'.sel = form.sel, form'.keep = form.keep, NEW i \in Slots,
               calls'[i].op = "confirm", calls'[i].job = screen.job, calls'[i].at \in {"out", "preflight"}
        PROVE  /\ calls'[i].sel = form'.sel /\ calls'[i].keep = form'.keep
               /\ calls'[i].at = "preflight" =>
                    server[screen.job].sel = form'.sel /\ server[screen.job].keep = form'.keep
    <3>1. CASE /\ calls'[i].op = calls[i].op /\ calls'[i].job = calls[i].job /\ calls'[i].sel = calls[i].sel
               /\ calls'[i].keep = calls[i].keep /\ calls'[i].at = calls[i].at
      BY <2>1, <3>1 DEF CInv, FormOK, Chosen
    <3>2. CASE Chosen(calls'[i]) /\ calls'[i].at = "out"
      BY <2>1, <3>2 DEF Chosen
    <3> QED BY <2>1, <3>1, <3>2 DEF Asked, NoCall
  <2>2. ~touched' /\ form'.sel = form.sel /\ form'.keep = form.keep /\ server[screen.job].key =>
          server[screen.job].sel = form'.sel /\ server[screen.job].keep = form'.keep
    BY DEF CInv, FormOK, Chosen
  <2> QED BY <2>1, <2>2
<1>10. ScreenOK'
  <2>1. screen.s \in {"active", "complete", "error", "retryable"} => screen.job \in Jobs
    OBVIOUS
  <2> QED BY <1>1, <1>4, <2>1 DEF CInv, ScreenOK, Over
<1> QED BY <1>5, <1>6, <1>7, <1>8, <1>9, <1>10

FormRecord == [sel : SUBSET Files, keep : BOOLEAN, pre : {"none", "ok", "blocked"}, confirming : BOOLEAN]

PollRecord == [job : Jobs \union {NoJob}, st : States, retry : BOOLEAN]

\* What is left to show of a step of the client.
LEMMA ClientServed ==
  ASSUME CInv, UNCHANGED <<server_vars, raced>>, retried => retried', Asked,
         screen' \in Screens, form' \in FormRecord, live' \in Jobs \union {NoJob}, busy' \in BOOLEAN,
         poll' \in PollRecord, touched' \in BOOLEAN, calls' \in [Slots -> CallRecord],
         (\A i \in Slots : CallOK(calls[i]))',
         (/\ \A i \in Slots : IntakeAlone(i)
          /\ AllKnown /\ DraftNew /\ PollOK /\ FormOK /\ ScreenOK)',
         (Cardinality(Waiting) <= Cardinality(Unused))'
  PROVE  CInv' /\ Onward
<1>1. server' = server /\ disk' = disk /\ active' = active /\ raced' = raced
  BY DEF server_vars
<1>2. TypeOK'
  BY <1>1 DEF CInv, TypeOK, FormRecord, PollRecord, CallRecord
<1>3. (\A j \in Jobs : RecordOK(server[j], disk[j]))'
  BY <1>1 DEF CInv, RecordOK
<1>4. (raced \/ Orderly)'
  <2>1. ASSUME Orderly PROVE Orderly'
    <3>1. ASSUME NEW k \in Slots, calls'[k].at = "preflight"
          PROVE  calls[k].at = "preflight" /\ calls'[k].job = calls[k].job
      <4>1. CallOK(calls[k])'
        OBVIOUS
      <4>2. calls'[k].op = "confirm"
        BY <3>1, <4>1 DEF CallOK, NoCall
      <4> QED BY <3>1, <4>2 DEF Asked, NoCall
    <3>2. \A j \in Jobs : server[j].retry => server[j].st = "failed"
      BY <2>1 DEF Orderly
    <3> QED BY <1>1, <2>1, <3>1, <3>2, OrderlyKept
  <2> QED BY <1>1, <2>1 DEF CInv
<1>5. Onward
  BY <1>1, <1>3 DEF Onward, Over, CInv, RecordOK
<1> QED BY <1>2, <1>3, <1>4, <1>5 DEF CInv

\* No call is new.
Quiet ==
  \A k \in Slots :
    \/ calls'[k] = NoCall \/ calls'[k] = calls[k]
    \/ /\ calls[k].op # "none"
       /\ calls'[k].op = calls[k].op /\ calls'[k].job = calls[k].job /\ calls'[k].sel = calls[k].sel
       /\ calls'[k].keep = calls[k].keep /\ calls'[k].at = calls[k].at
       /\ calls'[k].ok = calls[k].ok /\ calls'[k].pre = calls[k].pre

LEMMA QuietKeeps ==
  ASSUME CInv, UNCHANGED <<server_vars, raced>>, retried => retried', Quiet
  PROVE  /\ Asked
         /\ (\A i \in Slots : CallOK(calls[i]))'
         /\ (Cardinality(Waiting) <= Cardinality(Unused))'
<1>1. server' = server
  BY DEF server_vars
<1>2. Asked
  BY DEF Quiet, Asked
<1>3. ASSUME NEW k \in Slots PROVE CallOK(calls[k])'
  <2>1. CallOK(calls[k])
    BY DEF CInv
  <2>2. CASE calls'[k] = NoCall
    BY <2>2 DEF CallOK
  <2>3. CASE calls'[k] = calls[k]
    BY <1>1, <2>1, <2>3 DEF CallOK
  <2>4. CASE /\ calls[k].op # "none"
             /\ calls'[k].op = calls[k].op /\ calls'[k].job = calls[k].job /\ calls'[k].sel = calls[k].sel
             /\ calls'[k].keep = calls[k].keep /\ calls'[k].at = calls[k].at
             /\ calls'[k].ok = calls[k].ok /\ calls'[k].pre = calls[k].pre
    BY <1>1, <2>1, <2>4 DEF CallOK, NoCall
  <2> QED BY <2>2, <2>3, <2>4 DEF Quiet
<1>4. (Cardinality(Waiting) <= Cardinality(Unused))'
  <2>1. Waiting' \subseteq Waiting
    BY DEF Quiet, Waiting, NoCall
  <2>2. Unused \subseteq Unused'
    BY <1>1 DEF Unused
  <2> QED BY <2>1, <2>2, Room
<1> QED BY <1>2, <1>3, <1>4

LEMMA SendIs ==
  ASSUME CInv, NEW op \in Ops, NEW j \in Jobs \union {NoJob}, NEW sel \in SUBSET Files, NEW keep \in BOOLEAN,
         Send(op, j, sel, keep)
  PROVE  /\ retried' = (retried \/ op = "retry") /\ calls' \in [Slots -> CallRecord]
         /\ \E i \in Slots :
              /\ calls[i] = NoCall /\ \A k \in Slots \ {i} : calls'[k] = calls[k]
              /\ calls'[i].op = op /\ calls'[i].job = j /\ calls'[i].sel = sel /\ calls'[i].keep = keep
              /\ calls'[i].at = IF op = "start" THEN "look" ELSE "out"
<1> USE Shapes
<1> DEFINE new == [NoCall EXCEPT !.op = op, !.job = j, !.sel = sel, !.keep = keep, !.heard = TRUE,
                                 !.at = IF op = "start" THEN "look" ELSE "out"]
<1>1. NoCall \in CallRecord
  BY DEF NoCall, CallRecord
<1>2. /\ new \in CallRecord /\ new.op = op /\ new.job = j /\ new.sel = sel /\ new.keep = keep
      /\ new.at = IF op = "start" THEN "look" ELSE "out"
  BY <1>1 DEF CallRecord
<1> HIDE DEF new
<1>3. PICK i \in Slots : Free(i) /\ calls' = [calls EXCEPT ![i] = new]
  BY DEF Send, new
<1>4. calls[i] = NoCall
  BY <1>3 DEF CInv, CallOK, Free
<1>5. /\ calls' \in [Slots -> CallRecord]
      /\ \A k \in Slots \ {i} : calls'[k] = calls[k]
      /\ calls'[i] = new
  BY <1>2, <1>3
<1>6. retried' = (retried \/ op = "retry")
  BY DEF Send
<1> QED BY <1>2, <1>4, <1>5, <1>6

\* A call about the job of the screen goes out.
LEMMA SendKeeps ==
  ASSUME CInv, UNCHANGED <<server_vars, raced>>,
         NEW op \in {"confirm", "start", "cancel", "retry"}, NEW j \in Jobs, j = screen.job,
         NEW sel \in SUBSET Files, NEW keep \in BOOLEAN, Send(op, j, sel, keep),
         op = "start" => server[j].key,
         screen.s = "intake" => op = "cancel",
         op = "confirm" => screen.s = "selection" /\ sel = form.sel /\ keep = form.keep
  PROVE  /\ Asked /\ (retried => retried') /\ calls' \in [Slots -> CallRecord]
         /\ (\A i \in Slots : CallOK(calls[i]))'
         /\ (Cardinality(Waiting) <= Cardinality(Unused))'
         /\ \A k \in Slots : calls'[k].op = "intake" => calls'[k].job # j
<1>1. server' = server
  BY DEF server_vars
<1>2. /\ retried' = (retried \/ op = "retry") /\ calls' \in [Slots -> CallRecord]
      /\ \E i \in Slots :
           /\ calls[i] = NoCall /\ \A k \in Slots \ {i} : calls'[k] = calls[k]
           /\ calls'[i].op = op /\ calls'[i].job = j /\ calls'[i].sel = sel /\ calls'[i].keep = keep
           /\ calls'[i].at = IF op = "start" THEN "look" ELSE "out"
  <2>1. op \in Ops
    BY DEF Ops
  <2> QED BY <2>1, SendIs
<1>3. PICK i \in Slots :
        /\ calls[i] = NoCall /\ \A k \in Slots \ {i} : calls'[k] = calls[k]
        /\ calls'[i].op = op /\ calls'[i].job = j /\ calls'[i].sel = sel /\ calls'[i].keep = keep
        /\ calls'[i].at = IF op = "start" THEN "look" ELSE "out"
  BY <1>2
<1>4. Asked
  <2>1. \/ /\ calls'[i].op \in {"start", "cancel", "retry"} /\ calls'[i].job = screen.job
           /\ screen.s = "intake" => calls'[i].op = "cancel"
        \/ /\ calls'[i].op = "confirm" /\ screen.s = "selection" /\ calls'[i].job = screen.job
           /\ Chosen(calls'[i]) /\ calls'[i].at = "out"
    BY <1>3 DEF Chosen
  <2> QED BY <1>3, <2>1 DEF Asked
<1>5. ASSUME NEW k \in Slots PROVE CallOK(calls[k])'
  <2>1. CASE k = i
    BY <1>1, <1>2, <1>3, <2>1 DEF CallOK
  <2>2. CASE k # i
    <3>1. CallOK(calls[k]) /\ calls'[k] = calls[k]
      BY <1>3, <2>2 DEF CInv
    <3> QED BY <1>1, <1>2, <3>1 DEF CallOK
  <2> QED BY <2>1, <2>2
<1>6. (Cardinality(Waiting) <= Cardinality(Unused))'
  <2>1. Waiting' \subseteq Waiting
    BY <1>3 DEF Waiting
  <2>2. Unused \subseteq Unused'
    BY <1>1 DEF Unused
  <2> QED BY <2>1, <2>2, Room
<1>7. ASSUME NEW k \in Slots, calls'[k].op = "intake" PROVE calls'[k].job # j
  <2>1. calls'[k] = calls[k] /\ calls[k].op = "intake"
    BY <1>3, <1>7
  <2> QED BY <2>1, JobsAssumption DEF CInv, IntakeAlone
<1> QED BY <1>2, <1>4, <1>5, <1>6, <1>7

LEMMA Forms ==
  ASSUME CInv
  PROVE  form \in FormRecord /\ poll \in PollRecord /\ screen \in Screens /\ live \in Jobs \union {NoJob}
         /\ busy \in BOOLEAN /\ touched \in BOOLEAN /\ Home \in Screens /\ NewForm \in FormRecord
         /\ NoPoll \in PollRecord
BY DEF CInv, TypeOK, FormRecord, PollRecord, Home, Screens, NewForm, NoPoll, States

LEMMA SubmitKeeps ==
  ASSUME CInv, Submit
  PROVE  CInv' /\ Onward
<1> USE Shapes, Forms
<1>1. /\ UNCHANGED <<server_vars, screen, form, live, poll, touched, raced>> /\ busy' = TRUE
      /\ screen.s = "home" /\ Send("intake", NoJob, {}, FALSE)
      /\ Cardinality(Waiting) < Cardinality(Unused)
  BY DEF Submit, CreateIntake, Waiting, Unused
<1>2. server' = server
  BY <1>1 DEF server_vars
<1>3. "intake" \in Ops /\ {} \in SUBSET Files /\ NoJob \in Jobs \union {NoJob}
  BY DEF Ops
<1>3a. \E keep \in BOOLEAN : Send("intake", NoJob, {}, keep)
  <2>1. Send("intake", NoJob, {}, FALSE)
    BY <1>1
  <2> WITNESS FALSE \in BOOLEAN
  <2> QED BY <2>1
<1>3b. PICK keep \in BOOLEAN : Send("intake", NoJob, {}, keep)
  BY <1>3a
<1>3c. PICK op \in Ops : op = "intake"
  BY <1>3
<1>3d. PICK sel \in SUBSET Files : sel = {}
  BY <1>3
<1>3e. Send(op, NoJob, sel, keep)
  BY <1>3b, <1>3c, <1>3d
<1>4. /\ retried' = (retried \/ op = "retry") /\ calls' \in [Slots -> CallRecord]
      /\ \E i \in Slots :
           /\ calls[i] = NoCall /\ \A k \in Slots \ {i} : calls'[k] = calls[k]
           /\ calls'[i].op = op /\ calls'[i].job = NoJob /\ calls'[i].sel = sel /\ calls'[i].keep = keep
           /\ calls'[i].at = IF op = "start" THEN "look" ELSE "out"
  BY <1>3, <1>3e, SendIs
<1>5. PICK i \in Slots :
        /\ calls[i] = NoCall /\ \A k \in Slots \ {i} : calls'[k] = calls[k]
        /\ calls'[i].op = "intake" /\ calls'[i].job = NoJob /\ calls'[i].at = "out"
  BY <1>4, <1>3c
<1>6. Asked
  BY <1>5 DEF Asked
<1>7. (\A k \in Slots : CallOK(calls[k]))'
  <2> SUFFICES ASSUME NEW k \in Slots PROVE CallOK(calls[k])'
    OBVIOUS
  <2>1. CASE k = i
    BY <1>5, <2>1 DEF CallOK
  <2>2. CASE k # i
    <3>1. CallOK(calls[k]) /\ calls'[k] = calls[k]
      BY <1>5, <2>2 DEF CInv
    <3> QED BY <1>2, <1>4, <3>1 DEF CallOK
  <2> QED BY <2>1, <2>2
<1>8. (Cardinality(Waiting) <= Cardinality(Unused))'
  <2>1. /\ IsFiniteSet(Waiting) /\ IsFiniteSet(Unused)
        /\ Cardinality(Waiting) \in Nat /\ Cardinality(Unused) \in Nat
    BY FiniteSides
  <2>2. Waiting' = Waiting \union {i} /\ i \notin Waiting
    BY <1>5 DEF Waiting, NoCall
  <2>3. Unused' = Unused
    BY <1>2 DEF Unused
  <2> HIDE DEF Waiting, Unused
  <2>4. Cardinality(Waiting') = Cardinality(Waiting) + 1
    BY <2>1, <2>2, FS_AddElement
  <2> QED BY <1>1, <2>1, <2>3, <2>4
<1>9. (/\ \A k \in Slots : IntakeAlone(k)
       /\ AllKnown /\ DraftNew /\ PollOK /\ FormOK /\ ScreenOK)'
  BY <1>1, <1>4, <1>6, Stayed
<1> QED BY <1>1, <1>4, <1>6, <1>7, <1>8, <1>9, ClientServed

LEMMA FormKeeps ==
  ASSUME CInv, Toggle \/ ToggleCleanup
  PROVE  CInv' /\ Onward
<1> USE Shapes, Forms
<1>1. /\ UNCHANGED <<server_vars, screen, live, busy, poll, calls, raced>> /\ retried' = retried
      /\ screen.s = "selection" /\ screen.job \in Jobs
      /\ touched' = (touched \/ Committed(screen.job))
  BY DEF Toggle, ToggleCleanup, bounds
<1>2. /\ form' \in FormRecord
      /\ form'.pre = "ok" => form.pre = "ok"
  <2>1. ASSUME NEW n \in Nodes PROVE ToggleNode(n, form.sel) \in SUBSET Files
    BY DEF ToggleNode, DescendantIndexes, FormRecord
  <2>2. CASE Toggle
    <3>1. PICK n \in Nodes : form' = [form EXCEPT !.sel = ToggleNode(n, form.sel), !.pre = "none"]
      BY <2>2 DEF Toggle
    <3>2. PICK sel \in SUBSET Files : sel = ToggleNode(n, form.sel)
      BY <2>1
    <3> QED BY <3>1, <3>2 DEF FormRecord
  <2>3. CASE ToggleCleanup
    BY <2>3 DEF ToggleCleanup, FormRecord
  <2> QED BY <2>2, <2>3
<1>3. Quiet
  BY <1>1 DEF Quiet
<1>4. touched' \in BOOLEAN
  BY <1>1 DEF Committed
<1>5. form'.pre = "ok" => server[screen.job].key
  BY <1>1, <1>2 DEF CInv, FormOK
<1>6. ~touched' => /\ ~server[screen.job].key
                   /\ \A k \in Slots : calls[k].op = "confirm" /\ calls[k].job = screen.job => calls[k].at = "back"
  BY <1>1 DEF Committed
<1>7. /\ Asked /\ (\A i \in Slots : CallOK(calls[i]))'
      /\ (Cardinality(Waiting) <= Cardinality(Unused))'
  BY <1>1, <1>3, QuietKeeps
<1>8. (/\ \A k \in Slots : IntakeAlone(k)
       /\ AllKnown /\ DraftNew /\ PollOK /\ FormOK /\ ScreenOK)'
  BY <1>1, <1>4, <1>5, <1>6, <1>7, Stayed
<1> QED BY <1>1, <1>2, <1>4, <1>7, <1>8, ClientServed

\* The same with the rest of the client as it was.
LEMMA Posted ==
  ASSUME CInv, UNCHANGED <<server_vars, screen, live, busy, poll, touched, raced>>,
         form' \in FormRecord, form'.sel = form.sel, form'.keep = form.keep, form'.pre = form.pre,
         NEW op \in {"confirm", "start", "cancel"}, screen.job \in Jobs,
         NEW sel \in SUBSET Files, NEW keep \in BOOLEAN, Send(op, screen.job, sel, keep),
         op = "start" => server[screen.job].key,
         screen.s = "intake" => op = "cancel",
         op = "confirm" => screen.s = "selection" /\ sel = form.sel /\ keep = form.keep
  PROVE  CInv' /\ Onward
<1> USE Forms
<1>1. /\ Asked /\ (retried => retried') /\ calls' \in [Slots -> CallRecord]
      /\ (\A i \in Slots : CallOK(calls[i]))'
      /\ (Cardinality(Waiting) <= Cardinality(Unused))'
  <2>1. PICK j \in Jobs : j = screen.job
    OBVIOUS
  <2>2. Send(op, j, sel, keep)
    BY <2>1
  <2> QED BY <2>1, <2>2, SendKeeps
<1>2. screen.s = "selection" /\ form'.pre = "ok" => server[screen.job].key
  BY DEF CInv, FormOK
<1>3. (/\ \A k \in Slots : IntakeAlone(k)
       /\ AllKnown /\ DraftNew /\ PollOK /\ FormOK /\ ScreenOK)'
  BY <1>1, <1>2, Stayed
<1> QED BY <1>1, <1>3, ClientServed

LEMMA ContinueKeeps ==
  ASSUME CInv, Continue
  PROVE  CInv' /\ Onward
<1> USE Shapes, Forms
<1>1. /\ UNCHANGED <<server_vars, screen, live, busy, poll, touched, raced>>
      /\ screen.s = "selection" /\ form' = [form EXCEPT !.confirming = TRUE]
      /\ Send("confirm", screen.job, form.sel, form.keep)
  BY DEF Continue, ConfirmSelection
<1>2. /\ form' \in FormRecord /\ form'.sel = form.sel /\ form'.keep = form.keep /\ form'.pre = form.pre
      /\ form.sel \in SUBSET Files /\ form.keep \in BOOLEAN
  BY <1>1 DEF FormRecord
<1>3. PICK op \in {"confirm"} : op = "confirm"
  OBVIOUS
<1>4. PICK sel \in SUBSET Files, keep \in BOOLEAN : sel = form.sel /\ keep = form.keep
  BY <1>2
<1>5. Send(op, screen.job, sel, keep)
  BY <1>1, <1>3, <1>4
<1> QED BY <1>1, <1>2, <1>3, <1>4, <1>5, Posted

LEMMA StartKeeps ==
  ASSUME CInv, Start
  PROVE  CInv' /\ Onward
<1> USE Shapes, Forms
<1>1. /\ UNCHANGED <<server_vars, screen, form, live, busy, poll, touched, raced>>
      /\ screen.s = "selection" /\ form.pre = "ok"
      /\ Send("start", screen.job, {}, ServerKeeps)
  BY DEF Start, StartEnabled, app_vars
<1>2. server[screen.job].key
  BY <1>1 DEF CInv, FormOK
<1>3. PICK op \in {"start"} : op = "start"
  OBVIOUS
<1>4. PICK sel \in SUBSET Files : sel = {}
  OBVIOUS
<1>5. PICK keep \in BOOLEAN : keep = ServerKeeps
  BY DEF ServerKeeps
<1>6. Send(op, screen.job, sel, keep)
  BY <1>1, <1>3, <1>4, <1>5
<1> QED BY <1>1, <1>2, <1>3, <1>6, Posted

LEMMA CancelJobKeeps ==
  ASSUME CInv, CancelJob
  PROVE  CInv' /\ Onward
<1> USE Shapes, Forms
<1>1. /\ UNCHANGED <<server_vars, screen, form, live, busy, poll, touched, raced>>
      /\ screen.job \in Jobs
      /\ Send("cancel", screen.job, {}, FALSE)
  BY DEF CancelJob, CancelOffered, app_vars
<1>2. \E keep \in BOOLEAN : Send("cancel", screen.job, {}, keep)
  <2>1. Send("cancel", screen.job, {}, FALSE)
    BY <1>1
  <2> WITNESS FALSE \in BOOLEAN
  <2> QED BY <2>1
<1>3. PICK keep \in BOOLEAN : Send("cancel", screen.job, {}, keep)
  BY <1>2
<1>4. PICK op \in {"cancel"} : op = "cancel"
  OBVIOUS
<1>5. PICK sel \in SUBSET Files : sel = {}
  OBVIOUS
<1>6. Send(op, screen.job, sel, keep)
  BY <1>3, <1>4, <1>5
<1> QED BY <1>1, <1>4, <1>6, Posted

LEMMA RetryPressKeeps ==
  ASSUME CInv, Retry
  PROVE  CInv' /\ Onward
<1> USE Shapes, Forms
<1>1. PICK j : j = screen.job
  OBVIOUS
<1>2. /\ UNCHANGED <<server_vars, live, busy, raced>>
      /\ screen.s = "retryable" /\ j \in Jobs
      /\ Show([s |-> "active", job |-> j])
      /\ Send("retry", j, {}, FALSE)
  BY <1>1 DEF Retry
<1>3. server[j].key
  BY <1>1, <1>2 DEF CInv, ScreenOK
<1>4. \E keep \in BOOLEAN : Send("retry", j, {}, keep)
  <2>1. Send("retry", j, {}, FALSE)
    BY <1>2
  <2> WITNESS FALSE \in BOOLEAN
  <2> QED BY <2>1
<1>5. PICK keep \in BOOLEAN : Send("retry", j, {}, keep)
  BY <1>4
<1>6. PICK op \in {"retry"} : op = "retry"
  OBVIOUS
<1>7. PICK sel \in SUBSET Files : sel = {}
  OBVIOUS
<1>8. Send(op, j, sel, keep)
  BY <1>5, <1>6, <1>7
<1>9. /\ Asked /\ (retried => retried') /\ calls' \in [Slots -> CallRecord]
      /\ (\A i \in Slots : CallOK(calls[i]))'
      /\ (Cardinality(Waiting) <= Cardinality(Unused))'
      /\ \A k \in Slots : calls'[k].op = "intake" => calls'[k].job # j
  BY <1>1, <1>2, <1>6, <1>8, SendKeeps
<1>10. PICK scr \in Screens : scr = [s |-> "active", job |-> j]
  BY <1>2 DEF Screens
<1>11. Show(scr)
  BY <1>2, <1>10
<1>12. Fitting(scr)
  BY <1>1, <1>2, <1>3, <1>9, <1>10 DEF Fitting, CInv, AllKnown
<1>13. (/\ \A k \in Slots : IntakeAlone(k)
        /\ AllKnown /\ DraftNew /\ PollOK /\ FormOK /\ ScreenOK)'
  BY <1>2, <1>9, <1>11, <1>12, Shown
<1>14. screen' = scr /\ form' = NewForm /\ touched' = FALSE /\ poll' \in PollRecord
  <2>1. poll' = poll \/ poll' = NoPoll
    BY <1>11 DEF Show
  <2> QED BY <1>11, <2>1 DEF Show
<1> QED BY <1>2, <1>9, <1>13, <1>14, ClientServed

\* A step that shows another screen and lets no call go out.
LEMMA Moved ==
  ASSUME CInv, UNCHANGED <<server_vars, raced>>, retried => retried', Quiet,
         NEW scr \in Screens, Show(scr), Fitting(scr),
         live' \in Jobs \union {NoJob}, busy' \in BOOLEAN, calls' \in [Slots -> CallRecord]
  PROVE  CInv' /\ Onward
<1> USE Forms
<1>1. /\ Asked /\ (\A i \in Slots : CallOK(calls[i]))'
      /\ (Cardinality(Waiting) <= Cardinality(Unused))'
  BY QuietKeeps
<1>2. (/\ \A k \in Slots : IntakeAlone(k)
       /\ AllKnown /\ DraftNew /\ PollOK /\ FormOK /\ ScreenOK)'
  BY <1>1, Shown
<1>3. screen' = scr /\ form' = NewForm /\ touched' = FALSE /\ poll' \in PollRecord
  <2>1. poll' = poll \/ poll' = NoPoll
    BY DEF Show
  <2> QED BY <2>1 DEF Show
<1> QED BY <1>1, <1>2, <1>3, ClientServed

\* A step that shows no other screen, changes no choice and lets no call go out.
LEMMA Remained ==
  ASSUME CInv, UNCHANGED <<server_vars, raced, screen, touched>>, retried => retried', Quiet,
         poll' \in PollRecord, poll' \in {poll, NoPoll},
         form' \in FormRecord, form'.sel = form.sel, form'.keep = form.keep,
         screen.s = "selection" /\ form'.pre = "ok" => server[screen.job].key,
         live' \in Jobs \union {NoJob}, busy' \in BOOLEAN, calls' \in [Slots -> CallRecord]
  PROVE  CInv' /\ Onward
<1> USE Forms
<1>1. /\ Asked /\ (\A i \in Slots : CallOK(calls[i]))'
      /\ (Cardinality(Waiting) <= Cardinality(Unused))'
  BY QuietKeeps
<1>2. (/\ \A k \in Slots : IntakeAlone(k)
       /\ AllKnown /\ DraftNew /\ PollOK /\ FormOK /\ ScreenOK)'
  BY <1>1, Stayed
<1> QED BY <1>1, <1>2, ClientServed

LEMMA HomeFits == ASSUME NEW scr \in Screens, scr.s \in {"home", "aside"} PROVE Fitting(scr)
BY DEF Fitting, Screens, Known

LEMMA LeaveKeeps ==
  ASSUME CInv, Leave
  PROVE  CInv' /\ Onward
<1> USE Shapes, Forms
<1>1. UNCHANGED <<server_vars, busy, calls, raced>> /\ retried' = retried
  BY DEF Leave, bounds
<1>2. live' \in Jobs \union {NoJob}
  BY DEF Leave
<1>3. PICK scr \in Screens : scr.s \in {"home", "aside"} /\ Show(scr)
  <2>1. Home \in Screens /\ Home.s = "home" /\ [s |-> "aside", job |-> NoJob] \in Screens
    BY DEF Home, Screens
  <2> QED BY <2>1 DEF Leave
<1>4. Quiet
  BY <1>1 DEF Quiet
<1> QED BY <1>1, <1>2, <1>3, <1>4, HomeFits, Moved

LEMMA PollReadKeeps ==
  ASSUME CInv, PollRead
  PROVE  CInv' /\ Onward
<1> USE Shapes, Forms
<1>1. /\ UNCHANGED <<server_vars, screen, form, live, busy, calls, touched, raced>> /\ retried' = retried
      /\ screen.s \in {"intake", "active"} /\ poll' = PublicJob(screen.job)
      /\ screen.s = "intake" => DraftFound(screen.job)
  BY DEF PollRead, bounds
<1>2. Quiet
  BY <1>1 DEF Quiet
<1>3. /\ Asked /\ (\A i \in Slots : CallOK(calls[i]))'
      /\ (Cardinality(Waiting) <= Cardinality(Unused))'
  BY <1>1, <1>2, QuietKeeps
<1>4. screen.s # "selection"
  BY <1>1
<1>5. (/\ \A k \in Slots : IntakeAlone(k)
       /\ AllKnown /\ DraftNew /\ PollOK /\ FormOK /\ ScreenOK)'
  BY <1>1, <1>3, <1>4, Stayed
<1>6. poll' \in PollRecord
  <2>1. screen.job \in Jobs
    BY <1>1
  <2>2. server[screen.job] \in Record
    BY <2>1
  <2> QED BY <1>1, <2>1, <2>2 DEF PublicJob, PollRecord, Record
<1> QED BY <1>1, <1>3, <1>5, <1>6, ClientServed

LEMMA DraftDataKeeps ==
  ASSUME CInv, DraftData
  PROVE  CInv' /\ Onward
<1> USE Shapes, Forms
<1>1. /\ UNCHANGED <<server_vars, live, busy, calls, raced>> /\ retried' = retried
      /\ screen.s = "intake" /\ poll # NoPoll
  BY DEF DraftData, bounds
<1>2. Quiet
  BY <1>1 DEF Quiet
<1>3. PICK j : j = poll.job
  OBVIOUS
<1>4. /\ j \in Jobs /\ Known(j) /\ ~server[j].key
      /\ \A i \in Slots : calls[i].job = j => calls[i].op = "cancel"
      /\ poll.st \in Terminal => Over(j) \/ retried \/ raced
  BY <1>1, <1>3, JobsAssumption DEF CInv, PollOK, AllKnown, DraftNew
<1>5. CASE poll.st = "awaiting_selection" /\ Show([s |-> "selection", job |-> poll.job])
  <2>1. PICK scr \in Screens : scr = [s |-> "selection", job |-> j]
    BY <1>4 DEF Screens
  <2>2. Show(scr)
    BY <1>3, <1>5, <2>1
  <2>3. Fitting(scr)
    BY <1>1, <1>4, <2>1 DEF Fitting
  <2> QED BY <1>1, <1>2, <2>2, <2>3, Moved
<1>6. CASE poll.st = "failed" /\ Show([s |-> "error", job |-> poll.job])
  <2>1. PICK scr \in Screens : scr = [s |-> "error", job |-> j]
    BY <1>4 DEF Screens
  <2>2. Show(scr)
    BY <1>3, <1>6, <2>1
  <2>3. Over(j) \/ retried \/ raced
    BY <1>4, <1>6 DEF Terminal
  <2>4. Fitting(scr)
    BY <1>1, <1>4, <2>1, <2>3 DEF Fitting
  <2> QED BY <1>1, <1>2, <2>2, <2>4, Moved
<1>7. CASE poll' = NoPoll /\ UNCHANGED <<screen, form, touched>>
  BY <1>1, <1>2, <1>7, Remained
<1> QED BY <1>5, <1>6, <1>7 DEF DraftData

LEMMA JobDataKeeps ==
  ASSUME CInv, JobData
  PROVE  CInv' /\ Onward
<1> USE Shapes, Forms
<1>1. /\ UNCHANGED <<server_vars, busy, calls, raced>> /\ retried' = retried
      /\ screen.s = "active" /\ poll # NoPoll
  BY DEF JobData, bounds
<1>2. Quiet
  BY <1>1 DEF Quiet
<1>3. PICK j : j = poll.job
  OBVIOUS
<1>4. /\ j \in Jobs /\ Known(j) /\ server[j].key
      /\ poll.st \in Terminal => Over(j) \/ retried \/ raced
      /\ poll.st = "complete" => server[j].st = "complete" \/ raced
  BY <1>1, <1>3 DEF CInv, PollOK, AllKnown
<1>5. CASE poll.st \in Terminal /\ Show([s |-> Outcome(poll), job |-> poll.job]) /\ live' = NoJob
  <2>1. /\ Outcome(poll) \in {"complete", "retryable", "error"}
        /\ Outcome(poll) = "complete" => poll.st = "complete"
    BY DEF Outcome
  <2>2. PICK scr \in Screens : scr = [s |-> Outcome(poll), job |-> j]
    BY <1>4, <2>1 DEF Screens
  <2>3. Show(scr)
    BY <1>3, <1>5, <2>2
  <2>4. \A k \in Slots : calls'[k].op = "intake" => calls'[k].job # j
    <3>1. ASSUME NEW k \in Slots, calls[k].op = "intake" PROVE calls[k].job # j
      BY <1>3, <1>4, <3>1, JobsAssumption DEF CInv, IntakeAlone
    <3> QED BY <1>1, <3>1
  <2>5. Fitting(scr)
    BY <1>4, <1>5, <2>1, <2>2, <2>4 DEF Fitting
  <2> QED BY <1>1, <1>2, <1>5, <2>3, <2>5, Moved
<1>6. CASE poll' = NoPoll /\ live' = poll.job /\ UNCHANGED <<screen, form, touched>>
  <2>1. screen.s # "selection" /\ live' \in Jobs
    BY <1>1, <1>3, <1>4, <1>6
  <2> QED BY <1>1, <1>2, <1>6, <2>1, Remained
<1> QED BY <1>5, <1>6 DEF JobData

LEMMA PollFailsKeeps ==
  ASSUME CInv, PollFails
  PROVE  CInv' /\ Onward
<1> USE Forms
<1>1. /\ UNCHANGED <<server_vars, screen, form, live, busy, calls, touched, raced>> /\ retried' = retried
      /\ poll' = NoPoll
  BY DEF PollFails, Fault
<1>2. Quiet
  BY <1>1 DEF Quiet
<1>3. screen.s = "selection" /\ form'.pre = "ok" => server[screen.job].key
  BY <1>1 DEF CInv, FormOK
<1>4. /\ UNCHANGED <<server_vars, raced, screen, touched>> /\ (retried => retried')
      /\ poll' \in PollRecord /\ poll' \in {poll, NoPoll}
      /\ form' \in FormRecord /\ form'.sel = form.sel /\ form'.keep = form.keep
      /\ live' \in Jobs \union {NoJob} /\ busy' \in BOOLEAN /\ calls' \in [Slots -> CallRecord]
  BY <1>1, Shapes
<1> QED BY <1>2, <1>3, <1>4, Remained

\* The end of a call, whatever screen is shown by then.
LEMMA SettledKeeps ==
  ASSUME CInv, UNCHANGED <<server_vars, raced, retried>>, Quiet, calls' \in [Slots -> CallRecord],
         NEW i \in Slots, calls[i].op # "none", NEW ok \in BOOLEAN, Settled(calls[i], ok),
         ok => calls[i].at = "back" /\ calls[i].ok /\ calls'[i] = NoCall
  PROVE  CInv' /\ Onward
<1> USE Shapes, Forms
<1>1. CallOK(calls[i]) /\ calls[i] # NoCall
  BY DEF CInv, NoCall
<1>2. busy' \in BOOLEAN
  BY DEF Settled
<1>3. PICK j : j = calls[i].job
  OBVIOUS
<1>4. Known(j)
  BY <1>3 DEF CInv, AllKnown
<1>5. CASE calls[i].op = "intake" /\ ok /\ Show([s |-> "intake", job |-> calls[i].job]) /\ UNCHANGED live
  <2>1. j \in Jobs /\ j # NoJob
    BY <1>1, <1>3, <1>5, JobsAssumption DEF CallOK
  <2>2. ~server[j].key /\ \A k \in Slots \ {i} : calls[k].job # j
    BY <1>3, <1>5, <2>1 DEF CInv, IntakeAlone
  <2>3. \A k \in Slots : calls'[k].job # j
    BY <1>5, <2>1, <2>2 DEF Quiet, NoCall
  <2>4. PICK scr \in Screens : scr = [s |-> "intake", job |-> j]
    BY <2>1 DEF Screens
  <2>5. Show(scr)
    BY <1>3, <1>5, <2>4
  <2>6. Fitting(scr)
    BY <1>4, <2>2, <2>3, <2>4 DEF Fitting
  <2> QED BY <1>2, <1>5, <2>5, <2>6, Moved
<1>6. CASE calls[i].op = "start" /\ ok /\ Show([s |-> "active", job |-> calls[i].job]) /\ UNCHANGED live
  <2>1. j \in Jobs /\ j # NoJob /\ server[j].key
    BY <1>1, <1>3, <1>6, JobsAssumption DEF CallOK
  <2>2. ASSUME NEW k \in Slots, calls'[k].op = "intake" PROVE calls'[k].job # j
    <3>1. calls[k].op = "intake" /\ calls'[k].job = calls[k].job
      BY <2>2 DEF Quiet, NoCall
    <3> QED BY <1>3, <1>6, <2>1, <3>1 DEF CInv, IntakeAlone
  <2>3. PICK scr \in Screens : scr = [s |-> "active", job |-> j]
    BY <2>1 DEF Screens
  <2>4. Show(scr)
    BY <1>3, <1>6, <2>3
  <2>5. Fitting(scr)
    BY <1>4, <2>1, <2>2, <2>3 DEF Fitting
  <2> QED BY <1>2, <1>6, <2>4, <2>5, Moved
<1>7. CASE Show(Home) /\ live' = NoJob
  <2>1. Fitting(Home)
    BY HomeFits DEF Home
  <2> QED BY <1>2, <1>7, <2>1, Moved
<1>8. CASE /\ calls[i].op = "confirm" /\ screen = [s |-> "selection", job |-> calls[i].job]
           /\ form' = [form EXCEPT !.confirming = FALSE, !.pre = IF ok THEN calls[i].pre ELSE @]
           /\ UNCHANGED <<screen, poll, live, touched>>
  <2>1. calls[i].pre \in {"none", "ok", "blocked"}
    BY DEF CallRecord
  <2>2. PICK pre \in {"none", "ok", "blocked"} : pre = IF ok THEN calls[i].pre ELSE form.pre
    BY <2>1 DEF FormRecord
  <2>3. form' = [form EXCEPT !.confirming = FALSE, !.pre = pre]
    BY <1>8, <2>2
  <2>4. form' \in FormRecord /\ form'.sel = form.sel /\ form'.keep = form.keep /\ form'.pre = pre
    BY <2>3 DEF FormRecord
  <2>5. screen.job = j /\ screen.s = "selection"
    BY <1>3, <1>8
  <2>6. ok /\ calls[i].pre = "ok" => server[j].key
    BY <1>1, <1>3, <1>8 DEF CallOK
  <2>7. form.pre = "ok" => server[j].key
    BY <2>5 DEF CInv, FormOK
  <2>8. form'.pre = "ok" => server[screen.job].key
    BY <2>2, <2>4, <2>5, <2>6, <2>7
  <2> QED BY <1>2, <1>8, <2>4, <2>8, Remained
<1>9. CASE UNCHANGED <<screen, poll, form, live, touched>>
  <2>1. screen.s = "selection" /\ form'.pre = "ok" => server[screen.job].key
    BY <1>9 DEF CInv, FormOK
  <2> QED BY <1>2, <1>9, <2>1, Remained
<1>10. \/ calls[i].op = "intake" /\ ok /\ Show([s |-> "intake", job |-> calls[i].job]) /\ UNCHANGED live
       \/ calls[i].op = "start" /\ ok /\ Show([s |-> "active", job |-> calls[i].job]) /\ UNCHANGED live
       \/ Show(Home) /\ live' = NoJob
       \/ /\ calls[i].op = "confirm" /\ screen = [s |-> "selection", job |-> calls[i].job]
          /\ form' = [form EXCEPT !.confirming = FALSE, !.pre = IF ok THEN calls[i].pre ELSE @]
          /\ UNCHANGED <<screen, poll, live, touched>>
       \/ UNCHANGED <<screen, poll, form, live, touched>>
  BY DEF Settled
<1> QED BY <1>5, <1>6, <1>7, <1>8, <1>9, <1>10

LEMMA AnswerKeeps ==
  ASSUME CInv, NEW i \in Slots, Answer(i)
  PROVE  CInv' /\ Onward
<1>1. NoCall \in CallRecord
  BY DEF NoCall, CallRecord
<1>2. /\ UNCHANGED <<server_vars, raced, retried>> /\ calls[i].op # "none" /\ calls[i].at = "back"
      /\ Settled(calls[i], calls[i].ok) /\ calls' = [calls EXCEPT ![i] = NoCall]
  BY DEF Answer, bounds, Drop
<1>3. /\ calls' \in [Slots -> CallRecord] /\ calls'[i] = NoCall
      /\ \A k \in Slots \ {i} : calls'[k] = calls[k]
  BY <1>1, <1>2, Shapes
<1>4. Quiet
  BY <1>3 DEF Quiet
<1>5. calls[i].ok \in BOOLEAN
  BY Shapes DEF CallRecord
<1>6. PICK ok \in BOOLEAN : ok = calls[i].ok
  BY <1>5
<1>7. Settled(calls[i], ok)
  BY <1>2, <1>6
<1> QED BY <1>2, <1>3, <1>4, <1>6, <1>7, SettledKeeps

LEMMA GiveUpKeeps ==
  ASSUME CInv, NEW i \in Slots, GiveUp(i)
  PROVE  CInv' /\ Onward
<1>1. NoCall \in CallRecord /\ calls[i] \in CallRecord
  BY Shapes DEF NoCall, CallRecord
<1>2. /\ UNCHANGED <<server_vars, raced, retried>> /\ calls[i].op # "none"
      /\ Settled(calls[i], FALSE)
      /\ calls' = [calls EXCEPT ![i] = IF calls[i].at \in {"back", "lost", "look"} THEN NoCall
                                       ELSE [calls[i] EXCEPT !.heard = FALSE]]
  BY DEF GiveUp, bounds, Fault
<1>3. PICK c : c = IF calls[i].at \in {"back", "lost", "look"} THEN NoCall
                   ELSE [calls[i] EXCEPT !.heard = FALSE]
  OBVIOUS
<1>4. /\ c \in CallRecord
      /\ \/ c = NoCall
         \/ /\ c.op = calls[i].op /\ c.job = calls[i].job /\ c.sel = calls[i].sel
            /\ c.keep = calls[i].keep /\ c.at = calls[i].at
            /\ c.ok = calls[i].ok /\ c.pre = calls[i].pre
  BY <1>1, <1>3 DEF CallRecord
<1>5. calls' = [calls EXCEPT ![i] = c]
  BY <1>2, <1>3
<1>6. /\ calls' \in [Slots -> CallRecord] /\ calls'[i] = c
      /\ \A k \in Slots \ {i} : calls'[k] = calls[k]
  BY <1>4, <1>5, Shapes
<1>7. Quiet
  BY <1>2, <1>4, <1>6 DEF Quiet
<1>8. \E ok \in BOOLEAN : ~ok /\ Settled(calls[i], ok)
  <2>1. Settled(calls[i], FALSE)
    BY <1>2
  <2> WITNESS FALSE \in BOOLEAN
  <2> QED BY <2>1
<1>9. PICK ok \in BOOLEAN : ~ok /\ Settled(calls[i], ok)
  BY <1>8
<1> QED BY <1>2, <1>6, <1>7, <1>9, SettledKeeps

LEMMA ClientRestartKeeps ==
  ASSUME CInv, ClientRestarts
  PROVE  CInv' /\ Onward
<1> USE Forms
<1>1. /\ UNCHANGED <<server_vars, raced, retried>>
      /\ screen' = Home /\ form' = NewForm /\ live' = NoJob /\ busy' = FALSE /\ poll' = NoPoll
      /\ touched' = FALSE
  BY DEF ClientRestarts, Fault
<1>2. ASSUME NEW k \in Slots
      PROVE  /\ calls'[k] \in CallRecord
             /\ \/ calls'[k] = NoCall
                \/ /\ calls[k].op # "none"
                   /\ calls'[k].op = calls[k].op /\ calls'[k].job = calls[k].job /\ calls'[k].sel = calls[k].sel
                   /\ calls'[k].keep = calls[k].keep /\ calls'[k].at = calls[k].at
                   /\ calls'[k].ok = calls[k].ok /\ calls'[k].pre = calls[k].pre
  <2>1. NoCall \in CallRecord /\ calls[k] \in CallRecord
    BY Shapes DEF NoCall, CallRecord
  <2>2. calls'[k] = IF Free(k) \/ calls[k].at \in {"back", "lost", "look"} THEN NoCall
                    ELSE [calls[k] EXCEPT !.heard = FALSE]
    BY DEF ClientRestarts
  <2>3. CASE calls'[k] = NoCall
    BY <2>1, <2>3
  <2>4. CASE calls[k].op # "none" /\ calls'[k] = [calls[k] EXCEPT !.heard = FALSE]
    BY <2>1, <2>4 DEF CallRecord
  <2> QED BY <2>2, <2>3, <2>4 DEF Free
<1>3. calls' \in [Slots -> CallRecord]
  <2>1. calls' = [k \in Slots |-> calls'[k]]
    BY DEF ClientRestarts
  <2> QED BY <1>2, <2>1
<1>4. Quiet
  BY <1>2 DEF Quiet
<1>5. /\ Asked /\ (\A i \in Slots : CallOK(calls[i]))'
      /\ (Cardinality(Waiting) <= Cardinality(Unused))'
  BY <1>1, <1>4, QuietKeeps
<1>6. Known(NoJob) /\ screen'.job = NoJob /\ poll'.job = NoJob
  BY <1>1 DEF Known, Home, NoPoll
<1>7. (\A k \in Slots : IntakeAlone(k))' /\ AllKnown'
  BY <1>1, <1>5, <1>6, AskedAlone, AskedKnown
<1>8. (DraftNew /\ PollOK /\ FormOK /\ ScreenOK)'
  BY <1>1 DEF DraftNew, PollOK, FormOK, ScreenOK, Home
<1> QED BY <1>1, <1>3, <1>5, <1>7, <1>8, ClientServed

-----------------------------------------------------------------------------
(* The theorems *)

LEMMA InitHolds ==
  ASSUME Init
  PROVE  CInv
<1>1. /\ server = [j \in Jobs |-> Blank] /\ disk = server /\ calls = [i \in Slots |-> NoCall]
      /\ active = NoJob /\ screen = Home /\ form = NewForm /\ live = NoJob /\ busy = FALSE /\ poll = NoPoll
      /\ retried = FALSE /\ touched = FALSE /\ raced = FALSE
  BY DEF Init
<1>2. Blank \in Record /\ NoCall \in CallRecord
  BY DEF Blank, Record, States, NoCall, CallRecord
<1>3. Home \in Screens /\ NewForm \in FormRecord /\ NoPoll \in PollRecord
  BY DEF Home, Screens, NewForm, FormRecord, NoPoll, PollRecord, States
<1>4. TypeOK
  <2>1. /\ server \in [Jobs -> Record] /\ disk \in [Jobs -> Record] /\ calls \in [Slots -> CallRecord]
        /\ active \in Jobs \union {NoJob} /\ live \in Jobs \union {NoJob}
        /\ screen \in Screens /\ busy \in BOOLEAN /\ touched \in BOOLEAN /\ raced \in BOOLEAN
        /\ form \in FormRecord /\ poll \in PollRecord
    BY <1>1, <1>2, <1>3
  <2> QED BY <2>1 DEF TypeOK, FormRecord, PollRecord, CallRecord
<1>5. \A i \in Slots : CallOK(calls[i]) /\ IntakeAlone(i)
  BY <1>1 DEF CallOK, IntakeAlone, NoCall
<1>6. \A j \in Jobs : RecordOK(server[j], disk[j])
  BY <1>1 DEF RecordOK, Blank
<1>7. Orderly
  BY <1>1 DEF Orderly, NoCall, Blank, Transferring
<1>8. Cardinality(Waiting) <= Cardinality(Unused)
  <2>1. Waiting = {}
    BY <1>1 DEF Waiting, NoCall
  <2>2. Cardinality(Unused) \in Nat
    BY FiniteSides
  <2> QED BY <2>1, <2>2, FS_EmptySet
<1>9. AllKnown
  BY <1>1 DEF AllKnown, Known, Home, NoPoll, NoCall
<1>10. DraftNew /\ PollOK /\ FormOK /\ ScreenOK
  BY <1>1 DEF DraftNew, PollOK, FormOK, ScreenOK, Home
<1> QED BY <1>4, <1>5, <1>6, <1>7, <1>8, <1>9, <1>10 DEF CInv

LEMMA StutterKeeps ==
  ASSUME CInv, UNCHANGED vars
  PROVE  CInv' /\ Onward
<1> USE Shapes, Forms
<1>1. /\ UNCHANGED <<server_vars, raced, screen, touched, retried, calls, poll, form, live, busy>>
  BY DEF vars, server_vars
<1>2. Quiet
  BY <1>1 DEF Quiet
<1>3. screen.s = "selection" /\ form'.pre = "ok" => server[screen.job].key
  BY <1>1 DEF CInv, FormOK
<1>4. /\ UNCHANGED <<server_vars, raced, screen, touched>> /\ (retried => retried')
      /\ poll' \in PollRecord /\ poll' \in {poll, NoPoll}
      /\ form' \in FormRecord /\ form'.sel = form.sel /\ form'.keep = form.keep
      /\ live' \in Jobs \union {NoJob} /\ busy' \in BOOLEAN /\ calls' \in [Slots -> CallRecord]
  BY <1>1
<1> QED BY <1>2, <1>3, <1>4, Remained

LEMMA StepKeeps ==
  ASSUME CInv, [Next]_vars
  PROVE  CInv' /\ Onward
<1>1. CASE User
  BY <1>1, SubmitKeeps, FormKeeps, ContinueKeeps, StartKeeps, CancelJobKeeps, RetryPressKeeps, LeaveKeeps DEF User
<1>2. CASE PollRead \/ DraftData \/ JobData \/ PollFails
  BY <1>2, PollReadKeeps, DraftDataKeeps, JobDataKeeps, PollFailsKeeps
<1>3. CASE \E i \in Slots : Handle(i) \/ Blocked(i) \/ Begin(i) \/ Answer(i) \/ GiveUp(i) \/ Forget(i)
  <2>1. PICK i \in Slots : Handle(i) \/ Blocked(i) \/ Begin(i) \/ Answer(i) \/ GiveUp(i) \/ Forget(i)
    BY <1>3
  <2> QED BY <2>1, IntakeKeeps, MetadataKeeps, LookKeeps, CommitKeeps, CancelKeeps, RetryKeeps,
             BlockedKeeps, BeginKeeps, AnswerKeeps, GiveUpKeeps, ForgetKeeps DEF Handle
<1>4. CASE \E j \in Jobs : Transfer(j)
  BY <1>4, TransferKeeps
<1>5. CASE ServerRestarts \/ ClientRestarts
  BY <1>5, RestartKeeps, ClientRestartKeeps
<1>6. CASE UNCHANGED vars
  BY <1>6, StutterKeeps
<1> QED BY <1>1, <1>2, <1>3, <1>4, <1>5, <1>6 DEF Next

\* Whatever call or answer is late, lost, given up or repeated, and whenever the
\* program is restarted, the inductive invariant holds.
THEOREM Invariance == Spec => []CInv
<1>1. Init => CInv
  BY InitHolds
<1>2. CInv /\ [Next]_vars => CInv'
  BY StepKeeps
<1> QED BY <1>1, <1>2, PTL DEF Spec

\* What a screen says of its job is so on the server (ScreenIsReal).
THEOREM ScreensReal == Spec => []ScreenIsReal
<1>1. CInv => ScreenIsReal
  <2> SUFFICES ASSUME CInv PROVE ScreenIsReal
    OBVIOUS
  <2>1. CASE screen.s = "selection"
    BY <2>1 DEF CInv, FormOK, Chosen, ScreenIsReal
  <2>2. CASE screen.s # "selection"
    BY <2>2 DEF CInv, ScreenOK, Over, ScreenIsReal
  <2> QED BY <2>1, <2>2
<1> QED BY <1>1, Invariance, PTL

\* A job is started once, and is as its commit left it whatever is repeated; no
\* transfer runs beside another one (StartedUnchanged).
THEOREM StartedOnce == Spec => StartedUnchanged
<1>1. ASSUME CInv, [Next]_vars
      PROVE  ~raced' => \A j \in Jobs :
               /\ server[j].key => /\ server'[j].sel = server[j].sel /\ server'[j].keep = server[j].keep
                                   /\ server'[j].st = "queued" => server[j].st = "queued"
               /\ server'[j].st \in Transferring => active' = j
  <2>1. CInv' /\ Onward
    BY <1>1, StepKeeps
  <2>2. ~raced' => Orderly'
    BY <2>1 DEF CInv
  <2> QED BY <2>1, <2>2 DEF Onward, Orderly
<1>2. CInv /\ [Next]_vars =>
        [~raced' => \A j \in Jobs :
               /\ server[j].key => /\ server'[j].sel = server[j].sel /\ server'[j].keep = server[j].keep
                                   /\ server'[j].st = "queued" => server[j].st = "queued"
               /\ server'[j].st \in Transferring => active' = j]_vars
  BY <1>1
<1> QED BY <1>2, Invariance, PTL DEF Spec, StartedUnchanged

\* Every box of the tree tells whether all files below it are selected, and a click
\* decides it (BoxesAgree).
THEOREM BoxesTrue == Spec => []BoxesAgree
<1>1. BoxesAgree
  BY CheckedIsAll, ToggleDecides DEF BoxesAgree
<1> QED BY <1>1, PTL
=============================================================================
