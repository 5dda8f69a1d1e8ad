-------------------------- MODULE DirectJobsProofs --------------------------
(* What friend mode keeps while no file is damaged: the two queues agree, an  *)
(* item that is being taken is never forgotten, and a link is fetched once,   *)
(* for any number of jobs and faults.                                         *)
EXTENDS DirectJobs, TLAPS

-----------------------------------------------------------------------------
(* Types *)

AtHand ==
  { "appending", "opening", "failing", "marking", "marked", "taking", "fetching", "settling",
    "telling", "told" }
Decisive == {"accept", "decline"}

\* The job a call or a request is about.
Named ==
  /\ \A o \in Actors : op[o].pc \in AtHand => op[o].job \in Jobs
  /\ \A c \in Callers : req[c].pc # "none" /\ req[c].what # "list" => req[c].job \in Jobs
  /\ \A c \in Callers : req[c].pc # "none" => (c = "sender" <=> req[c].what = "add")
  /\ \A c \in Callers : req[c].pc = "saving" => req[c].what # "list"
  /\ \A c \in Callers : req[c].pc = "sent" => c # "sender"

-----------------------------------------------------------------------------
(* The client's file *)

Known(its, j)   == its[j] # "absent"
Decided(its, j) == its[j] \notin {"absent", "pending"}
Open(its, j)    == its[j] \notin {"absent", "done", "downloading"}

\* What a call counts on while the file has its and ft were fetched: its copy is
\* the file but for the item at hand.
Counts(r, its, ft) ==
  /\ r.pc \in {"opening", "marking"} => Known(its, r.job)
  /\ r.pc = "telling" => Decided(its, r.job)
  /\ r.pc = "appending" =>
       r.copy = [its EXCEPT ![r.job] = IF Known(its, r.job) THEN its[r.job] ELSE "pending"]
  /\ r.pc = "failing" => Open(its, r.job)
  /\ r.pc = "taking" => Open(its, r.job) /\ r.copy = [its EXCEPT ![r.job] = "downloading"]
  /\ r.pc = "fetching" => its[r.job] = "downloading" /\ r.copy = its /\ r.job \notin ft
  /\ r.pc = "settling" =>
       /\ its[r.job] = "downloading"
       /\ \E s \in {"done", "failed"} :
            r.copy = [its EXCEPT ![r.job] = s] /\ (r.job \in ft => s = "done")
  /\ r.pc = "marked" =>
       /\ Known(its, r.job) /\ r.job \notin ft
       /\ \E s \in {"failed", "declined"} : r.copy = [its EXCEPT ![r.job] = s]
  /\ r.pc \in {"measuring", "measured"} => r.copy = its
  /\ r.pc \in Saving => ~r.mixed

Alone(o) == \A p \in Actors \ {o} : op[p].pc \notin Holding

Fetchers(j) == { o \in Actors : op[o].job = j /\ op[o].pc \in {"fetching", "settling"} }

ItemsSafe ==
  /\ \A o \in Actors : op[o].pc \in Holding => Alone(o)
  /\ \A o \in Actors : Counts(op[o], items, fetched)
  /\ \A j \in fetched : items[j] \in {"done", "downloading"}
  /\ \A j \in Jobs \ stranded : items[j] = "downloading" => Fetchers(j) # {}

ItemsInv == "items" \notin hurt => ItemsSafe

-----------------------------------------------------------------------------
(* The two files *)

\* The request is the only one being saved, in a copy that differs at its job.
SavesOn(c) ==
  /\ \A d \in Callers \ {c} : req[d].pc # "saving"
  /\ ~req[c].mixed /\ req[c].copy = Applied(req[c], queue)
  /\ req[c].what \in Decisive => queue[req[c].job] = "queued"
  /\ req[c].what = "add" => req[c].job \notin sent

Deciding(c, j) == req[c].pc # "none" /\ req[c].what \in Decisive /\ req[c].job = j
Telling(o, j)  == op[o].job = j /\ op[o].pc \in {"fetching", "settling", "telling"}

QueueSafe ==
  /\ \A c \in Callers : req[c].pc = "saving" => SavesOn(c)
  /\ \A j \in Jobs : queue[j] # "absent" <=> j \in sent
  /\ \A o \in Actors : op[o].todo \subseteq sent /\ (op[o].pc = "appending" => op[o].job \in sent)
  /\ \A j \in Jobs : Known(items, j) => j \in sent
  /\ \A j \in Jobs : queue[j] \in {"accepted", "declined"} => Decided(items, j)
  /\ \A c \in Callers, j \in Jobs : Deciding(c, j) => Decided(items, j)
  /\ \A j \in Jobs \ lost : queue[j] = "queued" /\ Decided(items, j) =>
       \E o \in Actors : Telling(o, j) \/ Deciding(o, j)

QueueInv == hurt = {} => QueueSafe

Types == TypeOK /\ Named

-----------------------------------------------------------------------------
(* Steps of one call *)

LEMMA IdleTyped ==
  /\ Idle \in Ops /\ Idle.pc = "idle" /\ Idle.job = NoJob /\ Idle.todo = {}
  /\ NoRequest \in Requests /\ NoRequest.pc = "none" /\ NoRequest.what = "list"
  /\ Nothing \in [Jobs -> ItemStates] /\ Nothing \in [Jobs -> ServerStates]
BY DEF Idle, Ops, Steps, NoRequest, Requests, Nothing, ItemStates, ServerStates

LEMMA FinishedTyped ==
  ASSUME NEW o \in Actors, NEW r \in Ops
  PROVE  /\ Finished(o, r) \in Ops /\ Finished(o, r).pc \in {"idle", "looping"}
         /\ Finished(o, r).todo \in {{}, r.todo}
<1>1. CASE o = "poll" /\ r.job # NoJob
  <2>1. Finished(o, r) = [r EXCEPT !.pc = "looping", !.job = NoJob, !.act = "accept", !.copy = Nothing]
    BY <1>1 DEF Finished
  <2> QED
    BY <2>1, IdleTyped DEF Ops, Steps
<1>2. CASE ~(o = "poll" /\ r.job # NoJob)
  BY <1>2, IdleTyped DEF Finished
<1> QED
  BY <1>1, <1>2

\* Nothing is saved, taken or said at these steps.
Harmless == {"idle", "asking", "knowing", "looping", "told", "refreshing", "reporting", "reported"}

LEMMA ResumedTyped ==
  ASSUME op \in [Actors -> Ops], NEW o \in Actors, NEW jobs \in SUBSET Jobs
  PROVE  /\ Resumed(o, jobs) \in Ops
         /\ Resumed(o, jobs) = op[o] \/ (Resumed(o, jobs).pc \in Harmless \ {"told"} /\ op[o].pc \in Harmless)
         /\ Resumed(o, jobs).todo \in {{}, op[o].todo, jobs}
<1> DEFINE r == op[o]
           n == Resumed(o, jobs)
<1>1. r \in Ops
  OBVIOUS
<1>2. CASE r.pc = "asking" /\ jobs = {}
  <2>1. n = Idle
    BY <1>2 DEF Resumed
  <2> QED
    BY <1>2, <2>1, IdleTyped DEF Harmless
<1>3. CASE r.pc = "asking" /\ jobs # {}
  <2>1. n = [r EXCEPT !.pc = "knowing", !.todo = jobs]
    BY <1>3 DEF Resumed
  <2> QED
    BY <1>1, <1>3, <2>1 DEF Harmless, Ops, Steps
<1>4. CASE r.pc = "reported"
  <2> DEFINE left == r.reports \ {req[o].job}
  <2>1. n = [r EXCEPT !.pc = "reporting", !.reports = left]
    BY <1>4 DEF Resumed
  <2>2. left \in SUBSET Jobs
    BY <1>1 DEF Ops
  <2> HIDE DEF left
  <2>3. n \in Ops /\ n.pc = "reporting" /\ n.todo = r.todo
    BY <1>1, <2>1, <2>2 DEF Ops, Steps
  <2> QED
    BY <1>4, <2>3 DEF Harmless
<1>5. CASE r.pc = "told" /\ r.act = "decline"
  <2>1. n = Idle
    BY <1>5 DEF Resumed
  <2> QED
    BY <1>5, <2>1, IdleTyped DEF Harmless
<1>6. CASE r.pc = "told" /\ r.act # "decline"
  <2>1. n = [r EXCEPT !.pc = "refreshing"]
    BY <1>6 DEF Resumed
  <2> QED
    BY <1>1, <1>6, <2>1 DEF Harmless, Ops, Steps
<1>7. CASE r.pc \notin {"asking", "reported", "told"}
  <2>1. n = r
    BY <1>7 DEF Resumed
  <2> QED
    BY <1>1, <2>1
<1> QED
  BY <1>2, <1>3, <1>4, <1>5, <1>6, <1>7

LEMMA WriteTyped ==
  ASSUME op \in [Actors -> Ops], NEW o \in Actors, NEW r \in Ops, Write(o, r)
  PROVE  /\ op' \in [Actors -> Ops]
         /\ op'[o].pc = r.pc /\ op'[o].job = r.job /\ op'[o].todo = r.todo
         /\ \A x \in Actors \ {o} :
              op'[x].pc = op[x].pc /\ op'[x].job = op[x].job /\ op'[x].todo = op[x].todo
         /\ Alone(o) => op' = [op EXCEPT ![o] = [r EXCEPT !.mixed = FALSE]]
<1> DEFINE m == Others(o, Saving) # {}
           n == [r EXCEPT !.mixed = m]
           F(x) == IF x = o THEN n ELSE IF x \in Others(o, Saving) THEN [op[x] EXCEPT !.mixed = TRUE] ELSE op[x]
<1>1. m \in BOOLEAN
  OBVIOUS
<1>2. n \in Ops /\ n.pc = r.pc /\ n.job = r.job /\ n.todo = r.todo
  <2> HIDE DEF m
  <2> QED
    BY <1>1 DEF Ops
<1>3. \A x \in Actors : LET v == [op[x] EXCEPT !.mixed = TRUE]
                        IN  v \in Ops /\ v.pc = op[x].pc /\ v.job = op[x].job /\ v.todo = op[x].todo
  <2> TAKE x \in Actors
  <2>1. op[x] \in Ops
    OBVIOUS
  <2> QED
    BY <2>1 DEF Ops
<1>4. op' = [x \in Actors |-> F(x)]
  BY DEF Write, Others
<1>5. \A x \in Actors : F(x) \in Ops
  BY <1>2, <1>3
<1>6. ASSUME Alone(o)
      PROVE  op' = [op EXCEPT ![o] = [r EXCEPT !.mixed = FALSE]]
  <2>1. Others(o, Saving) = {}
    BY <1>6 DEF Others, Alone, Holding
  <2>2. m = FALSE
    BY <2>1
  <2>3. n = [r EXCEPT !.mixed = FALSE]
    <3> HIDE DEF m
    <3> QED
      BY <2>2
  <2>4. \A x \in Actors : F(x) = IF x = o THEN [r EXCEPT !.mixed = FALSE] ELSE op[x]
    BY <2>1, <2>3
  <2> HIDE DEF F
  <2> QED
    BY <1>4, <2>4
<1> HIDE DEF n
<1> QED
  BY <1>2, <1>3, <1>4, <1>5, <1>6

-----------------------------------------------------------------------------
(* What a step of one call leaves of the client's file *)

LEMMA OverlapsAlone ==
  ASSUME NEW o \in Actors, Overlaps(o), "items" \notin hurt'
  PROVE  "items" \notin hurt /\ Alone(o) /\ ReadItems(o) = {items}
<1>1. Others(o, Holding) = {} /\ "items" \notin hurt
  BY DEF Overlaps
<1>2. Alone(o)
  BY <1>1 DEF Others, Alone
<1>3. Others(o, Saving) = {}
  BY <1>1 DEF Others, Holding
<1> QED
  BY <1>1, <1>2, <1>3 DEF ReadItems

LEMMA CountsLess ==
  ASSUME NEW r, NEW its, NEW ft, NEW gt \in SUBSET ft, Counts(r, its, ft)
  PROVE  Counts(r, its, gt)
BY DEF Counts

LEMMA CountsHarmless ==
  ASSUME NEW r, NEW its, NEW ft, r.pc \in Harmless
  PROVE  Counts(r, its, ft)
BY DEF Counts, Harmless, Saving

LEMMA CountsBystander ==
  ASSUME NEW r, NEW its, NEW jts, NEW ft, NEW gt, r.pc \notin Holding, Counts(r, its, ft),
         Known(its, r.job) => Known(jts, r.job), Decided(its, r.job) => Decided(jts, r.job)
  PROVE  Counts(r, jts, gt)
BY DEF Counts, Holding, Saving

\* Calls that come to nothing.
LEMMA CalmItems ==
  ASSUME ItemsInv, items' = items, fetched' = fetched, hurt \subseteq hurt', stranded \subseteq stranded',
         \A x \in Actors : \/ op'[x] = op[x]
                           \/ /\ op'[x].pc \in Harmless
                              /\ op[x].pc \in {"fetching", "settling"} => op[x].job \in stranded'
  PROVE  ItemsInv'
<1> SUFFICES ASSUME "items" \notin hurt' PROVE ItemsSafe'
  BY DEF ItemsInv
<1>1. ItemsSafe
  BY DEF ItemsInv
<1>2. \A x \in Actors : op'[x].pc \in Holding => op'[x] = op[x]
  BY DEF Harmless, Holding, Saving
<1>3. \A o \in Actors : op'[o].pc \in Holding => Alone(o)'
  BY <1>1, <1>2 DEF ItemsSafe, Alone
<1>4. \A o \in Actors : Counts(op'[o], items', fetched')
  BY <1>1, CountsHarmless DEF ItemsSafe
<1>5. ASSUME NEW j \in Jobs \ stranded', items[j] = "downloading"
      PROVE  Fetchers(j)' # {}
  <2>1. PICK o \in Actors : op[o].job = j /\ op[o].pc \in {"fetching", "settling"}
    BY <1>1, <1>5 DEF ItemsSafe, Fetchers
  <2>2. op'[o] = op[o]
    BY <1>5, <2>1
  <2> QED
    BY <2>1, <2>2 DEF Fetchers
<1> QED
  BY <1>1, <1>3, <1>4, <1>5 DEF ItemsSafe

\* One call goes on; the file is as it was.
LEMMA TurnItems ==
  ASSUME op \in [Actors -> Ops], ItemsSafe, NEW o \in Actors, NEW n,
         op' = [op EXCEPT ![o] = n], items' = items, stranded' = stranded,
         n.pc \in Holding => Alone(o),
         Counts(n, items, fetched'),
         fetched' \subseteq fetched \/ Alone(o),
         \A j \in fetched' : items[j] \in {"done", "downloading"},
         op[o].pc \in {"fetching", "settling"} =>
           n.pc \in {"fetching", "settling"} /\ n.job = op[o].job
  PROVE  ItemsSafe'
<1>1. op'[o] = n /\ \A p \in Actors \ {o} : op'[p] = op[p]
  OBVIOUS
<1>2. \A p \in Actors : op'[p].pc \in Holding => Alone(p)'
  <2>1. CASE n.pc \in Holding
    BY <1>1, <2>1 DEF Alone
  <2>2. CASE n.pc \notin Holding
    BY <1>1, <2>2 DEF Alone, ItemsSafe
  <2> QED
    BY <2>1, <2>2
<1>3. ASSUME NEW p \in Actors \ {o}
      PROVE  Counts(op[p], items, fetched')
  <2>1. Counts(op[p], items, fetched)
    BY DEF ItemsSafe
  <2>2. CASE fetched' \subseteq fetched
    BY <2>1, <2>2, CountsLess
  <2>3. CASE Alone(o)
    BY <2>1, <2>3, CountsBystander DEF Alone
  <2> QED
    BY <2>2, <2>3
<1>4. \A p \in Actors : Counts(op'[p], items', fetched')
  BY <1>1, <1>3
<1>5. ASSUME NEW j \in Jobs \ stranded, items[j] = "downloading"
      PROVE  Fetchers(j)' # {}
  <2>1. PICK p \in Actors : op[p].job = j /\ op[p].pc \in {"fetching", "settling"}
    BY <1>5 DEF ItemsSafe, Fetchers
  <2>2. op'[p].job = j /\ op'[p].pc \in {"fetching", "settling"}
    BY <1>1, <2>1
  <2> QED
    BY <2>2 DEF Fetchers
<1> QED
  BY <1>2, <1>4, <1>5 DEF ItemsSafe

-----------------------------------------------------------------------------
(* The types, whatever happens to the files *)

\* Only o goes on, and does not give up a job that it has taken.
Moves(o) ==
  /\ op' \in [Actors -> Ops]
  /\ op'[o].pc \in AtHand => op'[o].job \in Jobs
  /\ op'[o].todo \subseteq op[o].todo
  /\ op'[o].pc = "appending" => op'[o].job \in op[o].todo
  /\ op[o].pc \in {"fetching", "settling"} =>
       op'[o].pc \in {"fetching", "settling", "telling"} /\ op'[o].job = op[o].job
  /\ \A x \in Actors \ {o} : op'[x].pc = op[x].pc /\ op'[x].job = op[x].job /\ op'[x].todo = op[x].todo

LEMMA TurnMoves ==
  ASSUME op \in [Actors -> Ops], NEW o \in Actors, NEW n \in Ops, op' = [op EXCEPT ![o] = n],
         n.pc \in AtHand => n.job \in Jobs,
         n.todo \in {{}, op[o].todo} \/ n.todo \subseteq op[o].todo, n.pc # "appending",
         op[o].pc \in {"fetching", "settling"} => n.pc \in {"fetching", "settling", "telling"} /\ n.job = op[o].job
  PROVE  Moves(o)
BY DEF Moves

\* The call as it begins to write, when no other writes.
Begun(r, step, copy) == [r EXCEPT !.pc = step, !.copy = copy, !.mixed = FALSE]

LEMMA SaveTyped ==
  ASSUME op \in [Actors -> Ops], NEW o \in Actors, op[o].job \in Jobs,
         NEW step \in Steps, NEW copy \in [Jobs -> ItemStates], Save(o, step, copy),
         step # "appending", op[o].pc \in {"fetching", "settling"} => step = "settling"
  PROVE  /\ Moves(o)
         /\ Alone(o) => op' = [op EXCEPT ![o] = Begun(op[o], step, copy)]
<1> DEFINE r == [op[o] EXCEPT !.pc = step, !.copy = copy]
<1>1. op[o] \in Ops
  OBVIOUS
<1>2. r \in Ops /\ r.job = op[o].job /\ r.pc = step /\ r.todo = op[o].todo
  BY <1>1 DEF Ops
<1>3. [r EXCEPT !.mixed = FALSE] = Begun(op[o], step, copy)
  BY <1>1 DEF Ops, Begun
<1>4. Write(o, r)
  BY DEF Save
<1> HIDE DEF r
<1>5. Moves(o) /\ (Alone(o) => op' = [op EXCEPT ![o] = [r EXCEPT !.mixed = FALSE]])
  BY <1>2, <1>4, WriteTyped DEF Moves
<1> QED
  BY <1>2, <1>3, <1>5 DEF r

\* A step of the client that asks for nothing.
LEMMA TypesKept ==
  ASSUME Types, NEW o \in Actors, Moves(o), UNCHANGED << server, paired, faults >>,
         items' \in [Jobs -> ItemStates],
         sent' \subseteq Jobs, fetched' \subseteq Jobs, lost' \subseteq Jobs, stranded' \subseteq Jobs,
         hurt' \subseteq {"queue", "items"}
  PROVE  Types'
<1>1. TypeOK'
  BY DEF Types, TypeOK, Moves, server
<1>2. Named'
  BY DEF Types, Named, Moves, server
<1> QED
  BY <1>1, <1>2 DEF Types

-----------------------------------------------------------------------------
(* The client's calls *)

LEMMA ReadTyped ==
  ASSUME Types, NEW o \in Actors, NEW found \in ReadItems(o)
  PROVE  found \in [Jobs -> ItemStates]
BY IdleTyped DEF ReadItems, Types, TypeOK

LEMMA OverlapsTyped ==
  ASSUME Types, NEW o \in Actors, Overlaps(o)
  PROVE  hurt' \subseteq {"queue", "items"}
BY DEF Overlaps, Types, TypeOK

LEMMA AskKeeps ==
  ASSUME Types, ItemsInv, NEW o \in Actors, NEW j \in Jobs \cup {NoJob}, NEW what, NEW step,
         what \in {"list", "accept", "decline", "report"}, what # "list" => j \in Jobs,
         step \in {"asking", "told", "reported"}, op[o].pc \in {"idle", "telling", "reporting"},
         step = "told" => op[o].job \in Jobs,
         Ask(o, what, j, step)
  PROVE  Types' /\ ItemsInv' /\ Moves(o)
<1> DEFINE n == [op[o] EXCEPT !.pc = step]
           q == [NoRequest EXCEPT !.pc = "sent", !.what = what, !.job = j]
<1>1. /\ op' = [op EXCEPT ![o] = n] /\ req' = [req EXCEPT ![o] = q]
      /\ UNCHANGED << queue, items, paired, faults, history >>
  BY DEF Ask, To
<1>2. op[o] \in Ops /\ op \in [Actors -> Ops] /\ req \in [Callers -> Requests] /\ o \in Callers
  BY DEF Types, TypeOK, Callers
<1>3. n \in Ops /\ n.pc = step /\ n.job = op[o].job /\ n.todo = op[o].todo
  BY <1>2 DEF Ops, Steps
<1>4. q \in Requests /\ q.pc = "sent" /\ q.what = what /\ q.job = j
  BY IdleTyped DEF Requests, NoRequest
<1> HIDE DEF n, q
<1>5. o # "sender"
  BY DEF Actors
<1>6. TypeOK'
  BY <1>1, <1>2, <1>3, <1>4 DEF Types, TypeOK, history
<1>7. Named'
  BY <1>1, <1>2, <1>3, <1>4, <1>5 DEF Types, Named, AtHand
<1>8. \A x \in Actors : op'[x] = op[x] \/ (op'[x].pc \in Harmless /\ op[x].pc \notin {"fetching", "settling"})
  BY <1>1, <1>2, <1>3 DEF Harmless
<1>9. Moves(o)
  BY <1>1, <1>2, <1>3, TurnMoves DEF AtHand
<1> QED
  BY <1>1, <1>6, <1>7, <1>8, <1>9, CalmItems DEF Types, history

LEMMA AsksKeep ==
  ASSUME Types, ItemsInv, NEW o \in Actors, (o = "poll" /\ PollOnce) \/ RemoteAction(o) \/ RemoteReport(o)
  PROVE  Types' /\ ItemsInv' /\ Moves(o)
<1>1. CASE o = "poll" /\ PollOnce
  BY <1>1, AskKeeps DEF PollOnce, Actors
<1>2. CASE RemoteAction(o)
  <2>1. op[o].act \in {"accept", "decline"} /\ op[o].job \in Jobs /\ op[o].pc = "telling"
    BY <1>2 DEF RemoteAction, Types, TypeOK, Ops, Named, AtHand
  <2> QED
    BY <1>2, <2>1, AskKeeps DEF RemoteAction
<1>3. CASE RemoteReport(o)
  <2>1. PICK j \in op[o].reports : Ask(o, "report", j, "reported")
    BY <1>3 DEF RemoteReport
  <2>2. op[o].pc = "reporting" /\ j \in Jobs
    BY <1>3 DEF RemoteReport, Types, TypeOK, Ops
  <2> QED
    BY <2>1, <2>2, AskKeeps
<1> QED
  BY <1>1, <1>2, <1>3

\* A call comes to a step at which nothing hangs on the file.
LEMMA RestKeeps ==
  ASSUME Types, ItemsInv, NEW o \in Actors, NEW n \in Ops, op' = [op EXCEPT ![o] = n],
         n.pc \in Harmless \ {"told"}, op[o].pc \notin {"fetching", "settling"},
         n.todo \in {{}, op[o].todo} \/ n.todo \subseteq op[o].todo,
         hurt' = hurt \/ Overlaps(o),
         UNCHANGED << server, items, paired, faults, sent, fetched, lost, stranded >>
  PROVE  Types' /\ ItemsInv' /\ Moves(o)
<1>1. Moves(o)
  BY TurnMoves DEF Types, TypeOK, Harmless, AtHand
<1>2. hurt \subseteq hurt' /\ hurt' \subseteq {"queue", "items"}
  BY OverlapsTyped DEF Overlaps, Types, TypeOK
<1>3. Types'
  BY <1>1, <1>2, TypesKept DEF Types, TypeOK
<1>4. \A x \in Actors : op'[x] = op[x] \/ (op'[x].pc \in Harmless /\ op[x].pc \notin {"fetching", "settling"})
  BY DEF Types, TypeOK
<1> QED
  BY <1>1, <1>2, <1>3, <1>4, CalmItems

LEMMA PollRests ==
  ASSUME Types, ItemsInv, PollKnown \/ PollRefresh
  PROVE  Types' /\ ItemsInv' /\ Moves("poll")
<1>1. "poll" \in Actors /\ op["poll"] \in Ops
  BY DEF Types, TypeOK, Actors
<1>2. CASE PollKnown
  <2>1. PICK found \in ReadItems("poll") :
          op' = [op EXCEPT !["poll"].pc = "looping", !["poll"].todo = {j \in op["poll"].todo : found[j] = "absent"}]
    BY <1>2 DEF PollKnown
  <2> DEFINE left == {j \in op["poll"].todo : found[j] = "absent"}
             n == [op["poll"] EXCEPT !.pc = "looping", !.todo = left]
  <2>2. left \subseteq Jobs /\ left \subseteq op["poll"].todo
    BY <1>1 DEF Ops
  <2> HIDE DEF left
  <2>3. n \in Ops /\ n.pc = "looping" /\ n.todo = left
    BY <1>1, <2>2 DEF Ops, Steps
  <2>4. op' = [op EXCEPT !["poll"] = n]
    BY <1>1, <2>1 DEF left, Types, TypeOK
  <2> HIDE DEF n
  <2> QED
    BY <1>1, <1>2, <2>2, <2>3, <2>4, RestKeeps DEF PollKnown, Harmless
<1>3. CASE PollRefresh
  <2> DEFINE n == [op["poll"] EXCEPT !.pc = "refreshing"]
  <2>1. n \in Ops /\ n.pc = "refreshing" /\ n.todo = op["poll"].todo
    BY <1>1 DEF Ops, Steps
  <2>2. op' = [op EXCEPT !["poll"] = n]
    BY <1>3 DEF PollRefresh, To
  <2> HIDE DEF n
  <2> QED
    BY <1>1, <1>3, <2>1, <2>2, RestKeeps DEF PollRefresh, Harmless, history
<1> QED
  BY <1>2, <1>3

LEMMA AppendLocalKeeps ==
  ASSUME Types, ItemsInv, AppendLocal
  PROVE  Types' /\ ItemsInv' /\ Moves("poll")
<1> DEFINE o == "poll"
<1>1. o \in Actors /\ op[o] \in Ops /\ op \in [Actors -> Ops]
  BY DEF Types, TypeOK, Actors
<1>2. PICK j \in op[o].todo, found \in ReadItems(o) :
        Write(o, [op[o] EXCEPT !.pc = "appending", !.job = j, !.todo = op[o].todo \ {j},
                    !.copy = IF found[j] = "absent" THEN [found EXCEPT ![j] = "pending"] ELSE found])
  BY DEF AppendLocal
<1> DEFINE copy == IF found[j] = "absent" THEN [found EXCEPT ![j] = "pending"] ELSE found
           left == op[o].todo \ {j}
           n == [op[o] EXCEPT !.pc = "appending", !.job = j, !.todo = left, !.copy = copy]
<1>3. j \in Jobs /\ left \subseteq Jobs /\ left \subseteq op[o].todo
  BY <1>1 DEF Ops
<1>4. found \in [Jobs -> ItemStates]
  BY <1>1, ReadTyped
<1>5. copy \in [Jobs -> ItemStates]
  BY <1>3, <1>4 DEF ItemStates
<1>6. copy = [found EXCEPT ![j] = IF Known(found, j) THEN found[j] ELSE "pending"]
  BY <1>3, <1>4 DEF Known
<1> HIDE DEF copy, left
<1>7. n \in Ops /\ n.pc = "appending" /\ n.job = j /\ n.copy = copy /\ n.todo = left
  BY <1>1, <1>3, <1>5 DEF Ops, Steps
<1>8. LET m == [n EXCEPT !.mixed = FALSE]
      IN  m.pc = "appending" /\ m.job = j /\ m.copy = copy /\ m.mixed = FALSE
  BY <1>7 DEF Ops
<1>9. Write(o, n)
  BY <1>2 DEF n, copy, left
<1> HIDE DEF n
<1>10. Overlaps(o) /\ op[o].pc = "looping"
       /\ UNCHANGED << server, items, paired, faults, sent, fetched, lost, stranded >>
  BY DEF AppendLocal
<1>11. Moves(o) /\ (Alone(o) => op' = [op EXCEPT ![o] = [n EXCEPT !.mixed = FALSE]])
  BY <1>1, <1>3, <1>7, <1>9, <1>10, WriteTyped DEF Moves
<1>12. Types'
  BY <1>1, <1>10, <1>11, TypesKept, OverlapsTyped DEF Types, TypeOK
<1>13. ASSUME "items" \notin hurt'
       PROVE  ItemsSafe'
  <2>1. "items" \notin hurt /\ Alone(o) /\ found = items
    BY <1>1, <1>10, <1>13, OverlapsAlone
  <2> DEFINE m == [n EXCEPT !.mixed = FALSE]
  <2>2. m.pc = "appending" /\ m.job = j /\ m.copy = copy /\ m.mixed = FALSE
    BY <1>8
  <2>3. op' = [op EXCEPT ![o] = m]
    BY <1>11, <2>1
  <2> HIDE DEF m
  <2>4. Counts(m, items, fetched')
    BY <1>6, <2>1, <2>2 DEF Counts
  <2>5. ItemsSafe
    BY <2>1 DEF ItemsInv
  <2> HIDE DEF o
  <2> QED
    BY <1>1, <1>10, <2>1, <2>3, <2>4, <2>5, TurnItems DEF ItemsSafe
<1> QED
  BY <1>11, <1>12, <1>13 DEF ItemsInv

LEMMA ClickKeeps ==
  ASSUME Types, ItemsInv, NEW j \in Jobs, NEW act \in {"accept", "decline"}, Click(j, act)
  PROVE  Types' /\ ItemsInv' /\ Moves("ui")
<1> DEFINE n == [Idle EXCEPT !.job = j, !.act = act, !.pc = IF act = "accept" THEN "opening" ELSE "marking"]
<1>1. "ui" \in Actors /\ op \in [Actors -> Ops]
  BY DEF Types, TypeOK, Actors
<1>2. n \in Ops /\ n.pc \in {"opening", "marking"} /\ n.job = j /\ n.todo = {}
  BY IdleTyped DEF Ops, Steps
<1>3. op' = [op EXCEPT !["ui"] = n] /\ items[j] # "absent" /\ op["ui"].pc = "idle"
      /\ UNCHANGED << server, items, paired, faults, history >>
  BY DEF Click
<1> HIDE DEF n
<1>4. Moves("ui")
  BY <1>1, <1>2, <1>3, TurnMoves
<1>5. Types'
  BY <1>1, <1>3, <1>4, TypesKept DEF Types, TypeOK, history
<1>6. ASSUME "items" \notin hurt'
      PROVE  ItemsSafe'
  <2>1. ItemsSafe
    BY <1>3, <1>6 DEF ItemsInv, history
  <2>2. Counts(n, items, fetched') /\ n.pc \notin Holding
    BY <1>2, <1>3 DEF Counts, Known, Holding, Saving
  <2> QED
    BY <1>1, <1>3, <2>1, <2>2, TurnItems DEF ItemsSafe, history
<1> QED
  BY <1>4, <1>5, <1>6 DEF ItemsInv

\* A call begins to write.
LEMMA SaveKeeps ==
  ASSUME Types, ItemsInv, NEW o \in Actors, op[o].job \in Jobs,
         NEW step \in Saving, NEW copy \in [Jobs -> ItemStates], Save(o, step, copy),
         UNCHANGED << server, items, paired, faults, sent, lost, stranded >>,
         hurt \subseteq hurt', hurt' \subseteq {"queue", "items"}, fetched' \subseteq Jobs,
         step # "appending", op[o].pc \in {"fetching", "settling"} => step = "settling",
         "items" \notin hurt' =>
           /\ Alone(o)
           /\ Counts(Begun(op[o], step, copy), items, fetched')
           /\ \A j \in fetched' : items[j] \in {"done", "downloading"}
  PROVE  Types' /\ ItemsInv' /\ Moves(o)
<1>1. op[o] \in Ops /\ op \in [Actors -> Ops] /\ step \in Steps
  BY DEF Types, TypeOK, Saving, Steps
<1>2. /\ Moves(o)
      /\ Alone(o) => op' = [op EXCEPT ![o] = Begun(op[o], step, copy)]
  BY <1>1, SaveTyped
<1>3. Types'
  BY <1>2, TypesKept DEF Types, TypeOK
<1>4. ASSUME "items" \notin hurt'
      PROVE  ItemsSafe'
  <2> DEFINE m == Begun(op[o], step, copy)
  <2>1. m.pc = step /\ m.job = op[o].job
    BY <1>1 DEF Begun, Ops
  <2>2. op' = [op EXCEPT ![o] = m] /\ Counts(m, items, fetched')
    BY <1>2, <1>4
  <2> HIDE DEF m
  <2>3. ItemsSafe
    BY <1>4 DEF ItemsInv
  <2> QED
    BY <1>1, <1>4, <2>1, <2>2, <2>3, TurnItems
<1> QED
  BY <1>2, <1>3, <1>4 DEF ItemsInv

LEMMA DownloadPendingKeeps ==
  ASSUME Types, ItemsInv, NEW o \in Actors, DownloadPending(o)
  PROVE  Types' /\ ItemsInv' /\ Moves(o)
<1>1. /\ op[o].pc = "opening" /\ Overlaps(o)
      /\ UNCHANGED << server, items, paired, faults, sent, fetched, lost, stranded >>
  BY DEF DownloadPending
<1>2. op[o] \in Ops /\ op \in [Actors -> Ops] /\ op[o].job \in Jobs
  BY <1>1 DEF Types, TypeOK, Named, AtHand
<1>3. hurt \subseteq hurt' /\ hurt' \subseteq {"queue", "items"}
  BY <1>1, OverlapsTyped DEF Overlaps
<1>4. PICK found \in ReadItems(o) :
        \/ found[op[o].job] \in {"absent", "done", "downloading"} /\ To(o, "telling")
        \/ /\ found[op[o].job] \notin {"absent", "done", "downloading"}
           /\ \/ To(o, "failing")
              \/ Save(o, "taking", [found EXCEPT ![op[o].job] = "downloading"])
  BY DEF DownloadPending
<1>5. found \in [Jobs -> ItemStates]
  BY ReadTyped
<1>6. ASSUME "items" \notin hurt'
      PROVE  Alone(o) /\ found = items /\ ItemsSafe /\ Known(items, op[o].job)
  <2>1. Alone(o) /\ found = items /\ "items" \notin hurt
    BY <1>1, <1>6, OverlapsAlone
  <2> QED
    BY <1>1, <2>1 DEF ItemsInv, ItemsSafe, Counts
<1>7. ASSUME NEW step \in {"telling", "failing"}, To(o, step),
             step = "telling" => found[op[o].job] \in {"absent", "done", "downloading"},
             step = "failing" => Open(found, op[o].job)
      PROVE  Types' /\ ItemsInv' /\ Moves(o)
  <2> DEFINE n == [op[o] EXCEPT !.pc = step]
  <2>1. n \in Ops /\ n.pc = step /\ n.job = op[o].job /\ n.todo = op[o].todo
    BY <1>2 DEF Ops, Steps
  <2>2. op' = [op EXCEPT ![o] = n]
    BY <1>7 DEF To
  <2> HIDE DEF n
  <2>3. Moves(o)
    BY <1>1, <1>2, <1>7, <2>1, <2>2, TurnMoves
  <2>4. Types'
    BY <1>1, <1>3, <2>3, TypesKept DEF Types, TypeOK
  <2>5. ASSUME "items" \notin hurt'
        PROVE  ItemsSafe'
    <3>1. Counts(n, items, fetched')
      BY <1>6, <1>7, <2>1, <2>5 DEF Counts, Known, Decided, Saving
    <3> QED
      BY <1>1, <1>2, <1>6, <2>2, <2>5, <3>1, TurnItems DEF ItemsSafe
  <2> QED
    BY <2>3, <2>4, <2>5 DEF ItemsInv
<1>8. ASSUME Save(o, "taking", [found EXCEPT ![op[o].job] = "downloading"]), Open(found, op[o].job)
      PROVE  Types' /\ ItemsInv' /\ Moves(o)
  <2> DEFINE copy == [found EXCEPT ![op[o].job] = "downloading"]
  <2>1. copy \in [Jobs -> ItemStates] /\ "taking" \in Saving
    BY <1>5 DEF ItemStates, Saving
  <2>2. ASSUME "items" \notin hurt'
        PROVE  /\ Alone(o)
               /\ Counts(Begun(op[o], "taking", copy), items, fetched')
               /\ \A j \in fetched' : items[j] \in {"done", "downloading"}
    <3> DEFINE m == Begun(op[o], "taking", copy)
    <3>1. copy = [items EXCEPT ![op[o].job] = "downloading"]
      BY <1>2, <1>6, <2>2
    <3> HIDE DEF copy
    <3>2. m.pc = "taking" /\ m.copy = copy /\ m.job = op[o].job /\ m.mixed = FALSE
      BY <1>2 DEF Begun, Ops
    <3> HIDE DEF m
    <3>3. Counts(m, items, fetched')
      BY <1>6, <1>8, <2>2, <3>1, <3>2 DEF Counts
    <3> QED
      BY <1>1, <1>6, <2>2, <3>3 DEF ItemsSafe, m
  <2>3. Save(o, "taking", copy)
    BY <1>8
  <2> HIDE DEF copy
  <2> QED
    BY <1>1, <1>2, <1>3, <2>1, <2>2, <2>3, SaveKeeps DEF Types, TypeOK
<1> QED
  BY <1>4, <1>7, <1>8 DEF Open

LEMMA MarkLocalKeeps ==
  ASSUME Types, ItemsInv, NEW o \in Actors, MarkLocal(o)
  PROVE  Types' /\ ItemsInv' /\ Moves(o)
<1> DEFINE mark == IF op[o].pc = "failing" THEN "failed" ELSE "declined"
<1>1. /\ op[o].pc \in {"failing", "marking"} /\ Overlaps(o)
      /\ fetched' = IF op[o].pc = "marking" THEN fetched \ {op[o].job} ELSE fetched
      /\ UNCHANGED << server, items, paired, faults, sent, lost, stranded >>
  BY DEF MarkLocal
<1>2. op[o] \in Ops /\ op \in [Actors -> Ops] /\ op[o].job \in Jobs /\ fetched \subseteq Jobs
  BY <1>1 DEF Types, TypeOK, Named, AtHand
<1>3. hurt \subseteq hurt' /\ hurt' \subseteq {"queue", "items"} /\ fetched' \subseteq fetched
  BY <1>1, OverlapsTyped DEF Overlaps
<1>4. PICK found \in ReadItems(o) :
        \/ found[op[o].job] = "absent" /\ To(o, "telling")
        \/ found[op[o].job] # "absent" /\ Save(o, "marked", [found EXCEPT ![op[o].job] = mark])
  BY DEF MarkLocal
<1>5. found \in [Jobs -> ItemStates]
  BY ReadTyped
<1>6. ASSUME "items" \notin hurt'
      PROVE  Alone(o) /\ found = items /\ ItemsSafe /\ Known(items, op[o].job) /\ op[o].job \notin fetched'
  <2>1. Alone(o) /\ found = items /\ "items" \notin hurt
    BY <1>1, <1>6, OverlapsAlone
  <2>2. ItemsSafe /\ Counts(op[o], items, fetched)
    BY <2>1 DEF ItemsInv, ItemsSafe
  <2>3. CASE op[o].pc = "marking"
    BY <1>1, <2>1, <2>2, <2>3 DEF Counts
  <2>4. CASE op[o].pc = "failing"
    BY <1>1, <2>1, <2>2, <2>4 DEF Counts, Open, Known, ItemsSafe
  <2> QED
    BY <1>1, <2>3, <2>4
<1>7. CASE found[op[o].job] = "absent" /\ To(o, "telling")
  <2> DEFINE n == [op[o] EXCEPT !.pc = "telling"]
  <2>1. n \in Ops /\ n.pc = "telling" /\ n.job = op[o].job /\ n.todo = op[o].todo
    BY <1>2 DEF Ops, Steps
  <2>2. op' = [op EXCEPT ![o] = n]
    BY <1>7 DEF To
  <2> HIDE DEF n
  <2>3. Moves(o)
    BY <1>2, <2>1, <2>2, TurnMoves
  <2>4. Types'
    BY <1>1, <1>2, <1>3, <2>3, TypesKept DEF Types, TypeOK
  <2>5. "items" \in hurt'
    BY <1>6, <1>7 DEF Known
  <2> QED
    BY <2>3, <2>4, <2>5 DEF ItemsInv
<1>8. CASE Save(o, "marked", [found EXCEPT ![op[o].job] = mark])
  <2> DEFINE copy == [found EXCEPT ![op[o].job] = mark]
  <2>1. copy \in [Jobs -> ItemStates] /\ "marked" \in Saving /\ mark \in {"failed", "declined"}
    BY <1>5 DEF ItemStates, Saving
  <2>2. ASSUME "items" \notin hurt'
        PROVE  /\ Alone(o)
               /\ Counts(Begun(op[o], "marked", copy), items, fetched')
               /\ \A j \in fetched' : items[j] \in {"done", "downloading"}
    <3> DEFINE m == Begun(op[o], "marked", copy)
    <3>1. copy = [items EXCEPT ![op[o].job] = mark]
      BY <1>2, <1>6, <2>2
    <3> HIDE DEF copy
    <3>2. m.pc = "marked" /\ m.copy = copy /\ m.job = op[o].job /\ m.mixed = FALSE
      BY <1>2 DEF Begun, Ops
    <3> HIDE DEF m, mark
    <3>3. Counts(m, items, fetched')
      BY <1>6, <2>1, <2>2, <3>1, <3>2 DEF Counts
    <3> QED
      BY <1>3, <1>6, <2>2, <3>3 DEF ItemsSafe, m
  <2>3. Save(o, "marked", copy)
    BY <1>8
  <2> HIDE DEF copy
  <2> QED
    BY <1>1, <1>2, <1>3, <2>1, <2>2, <2>3, SaveKeeps
<1> QED
  BY <1>4, <1>7, <1>8

LEMMA FetchedKeeps ==
  ASSUME Types, ItemsInv, NEW o \in Actors, Fetched(o)
  PROVE  Types' /\ ItemsInv' /\ Moves(o)
<1>1. PICK done \in BOOLEAN :
        /\ Save(o, "settling", [op[o].copy EXCEPT ![op[o].job] = IF done THEN "done" ELSE "failed"])
        /\ fetched' = IF done THEN fetched \cup {op[o].job} ELSE fetched
  BY DEF Fetched
<1> DEFINE s == IF done THEN "done" ELSE "failed"
           copy == [op[o].copy EXCEPT ![op[o].job] = s]
<1>2. /\ op[o].pc = "fetching"
      /\ UNCHANGED << server, items, paired, faults, sent, lost, stranded, hurt >>
  BY DEF Fetched
<1>3. op[o] \in Ops /\ op[o].job \in Jobs /\ fetched \subseteq Jobs /\ op[o].copy \in [Jobs -> ItemStates]
  BY <1>2 DEF Types, TypeOK, Named, AtHand, Ops
<1>4. copy \in [Jobs -> ItemStates] /\ "settling" \in Saving /\ s \in {"done", "failed"}
  BY <1>3 DEF ItemStates, Saving
<1>5. ASSUME "items" \notin hurt'
      PROVE  /\ Alone(o)
             /\ Counts(Begun(op[o], "settling", copy), items, fetched')
             /\ \A j \in fetched' : items[j] \in {"done", "downloading"}
  <2>1. ItemsSafe
    BY <1>2, <1>5 DEF ItemsInv
  <2>2. Alone(o) /\ items[op[o].job] = "downloading" /\ op[o].copy = items /\ op[o].job \notin fetched
    BY <1>2, <2>1 DEF ItemsSafe, Counts, Holding
  <2> DEFINE m == Begun(op[o], "settling", copy)
  <2>3. copy = [items EXCEPT ![op[o].job] = s]
    BY <1>3, <2>2
  <2> HIDE DEF copy
  <2>4. m.pc = "settling" /\ m.copy = copy /\ m.job = op[o].job /\ m.mixed = FALSE
    BY <1>3 DEF Begun, Ops
  <2>5. op[o].job \in fetched' => s = "done"
    BY <1>1, <2>2
  <2> HIDE DEF m, s
  <2>6. Counts(m, items, fetched')
    BY <1>4, <2>2, <2>3, <2>4, <2>5 DEF Counts
  <2> QED
    BY <1>1, <2>1, <2>2, <2>6 DEF ItemsSafe, m
<1>6. Save(o, "settling", copy) /\ fetched' \subseteq Jobs
  BY <1>1, <1>3
<1> HIDE DEF copy
<1> QED
  BY <1>2, <1>3, <1>4, <1>5, <1>6, SaveKeeps DEF Types, TypeOK

\* The call after its write.
Ended(r, next) ==
  [r EXCEPT !.pc = next, !.mixed = FALSE,
            !.job = IF next = "looping" THEN NoJob ELSE r.job,
            !.copy = IF next = "fetching" THEN r.copy ELSE Nothing]

LEMMA EndedTyped ==
  ASSUME NEW r \in Ops, NEW next \in Steps
  PROVE  /\ Ended(r, next) \in Ops /\ Ended(r, next).pc = next /\ Ended(r, next).todo = r.todo
         /\ next # "looping" => Ended(r, next).job = r.job
         /\ next = "fetching" => Ended(r, next).copy = r.copy
<1> DEFINE j == IF next = "looping" THEN NoJob ELSE r.job
           c == IF next = "fetching" THEN r.copy ELSE Nothing
           n == [r EXCEPT !.pc = next, !.mixed = FALSE, !.job = j, !.copy = c]
<1>1. j \in Jobs \cup {NoJob} /\ c \in [Jobs -> ItemStates] /\ n = Ended(r, next)
  BY IdleTyped DEF Ops, Ended
<1>2. (next # "looping" => j = r.job) /\ (next = "fetching" => c = r.copy)
  OBVIOUS
<1> HIDE DEF j, c
<1>3. n \in Ops /\ n.pc = next /\ n.todo = r.todo /\ n.job = j /\ n.copy = c
  BY <1>1 DEF Ops
<1> HIDE DEF n
<1> QED
  BY <1>1, <1>2, <1>3

\* The file changes at one item, and no later than another call decided.
LEMMA WrittenItems ==
  ASSUME op \in [Actors -> Ops], items \in [Jobs -> ItemStates], ItemsSafe,
         NEW o \in Actors, NEW n, NEW v, NEW j \in Jobs,
         op[o].pc \in Holding, op[o].job = j, op' = [op EXCEPT ![o] = n], items' = [items EXCEPT ![j] = v],
         fetched' = fetched, stranded' = stranded,
         n.pc \notin Holding \/ n.pc = "fetching",
         v # "absent", Decided(items, j) => v # "pending",
         j \in fetched => v \in {"done", "downloading"},
         v = "downloading" => n.pc = "fetching" \/ (items[j] = v /\ op[o].pc = "appending"),
         n.pc = "fetching" => n.job = j,
         Counts(n, items', fetched)
  PROVE  ItemsSafe'
<1>1. op'[o] = n /\ \A p \in Actors \ {o} : op'[p] = op[p]
  OBVIOUS
<1>2. items'[j] = v /\ \A k \in Jobs \ {j} : items'[k] = items[k]
  OBVIOUS
<1>3. Alone(o)
  BY DEF ItemsSafe
<1>4. \A p \in Actors : op'[p].pc \in Holding => Alone(p)'
  BY <1>1, <1>3 DEF Alone
<1>5. ASSUME NEW p \in Actors \ {o}
      PROVE  Counts(op[p], items', fetched)
  <2>1. Counts(op[p], items, fetched) /\ op[p].pc \notin Holding
    BY <1>3 DEF ItemsSafe, Alone
  <2>2. CASE op[p].job \in Jobs
    <3>1. Known(items, op[p].job) => Known(items', op[p].job)
      BY <1>2, <2>2 DEF Known
    <3>2. Decided(items, op[p].job) => Decided(items', op[p].job)
      BY <1>2, <2>2 DEF Decided
    <3> QED
      BY <2>1, <3>1, <3>2, CountsBystander
  <2>3. CASE op[p].job \notin Jobs
    <3>1. items'[op[p].job] = items[op[p].job]
      BY <2>3
    <3> QED
      BY <2>1, <3>1, CountsBystander DEF Known, Decided
  <2> QED
    BY <2>2, <2>3
<1>6. \A p \in Actors : Counts(op'[p], items', fetched')
  BY <1>1, <1>5
<1>7. \A k \in fetched' : items'[k] \in {"done", "downloading"}
  BY <1>2 DEF ItemsSafe
<1>8. ASSUME NEW k \in Jobs \ stranded, items'[k] = "downloading"
      PROVE  Fetchers(k)' # {}
  <2>1. CASE n.pc = "fetching" /\ k = j
    BY <1>1, <2>1 DEF Fetchers
  <2>2. CASE ~(n.pc = "fetching" /\ k = j)
    <3>1. items[k] = "downloading" /\ (k = j => op[o].pc = "appending")
      BY <1>2, <1>8, <2>2
    <3>2. PICK p \in Actors : op[p].job = k /\ op[p].pc \in {"fetching", "settling"}
      BY <1>8, <3>1 DEF ItemsSafe, Fetchers
    <3>3. p # o
      BY <3>1, <3>2
    <3> QED
      BY <1>1, <3>2, <3>3 DEF Fetchers
  <2> QED
    BY <2>1, <2>2
<1> QED
  BY <1>4, <1>6, <1>7, <1>8 DEF ItemsSafe

\* A save ends and its call goes on as n.
SavedAs(o, n) ==
  /\ op[o].pc \in Saving /\ op' = [op EXCEPT ![o] = n] /\ n \in Ops /\ n.todo = op[o].todo
  /\ op[o].pc = "appending" => n.pc \in {"opening", "looping"}
  /\ op[o].pc = "taking" => n.pc = "fetching"
  /\ op[o].pc = "measured" => n.pc = "reporting"
  /\ op[o].pc \in {"settling", "marked"} => n.pc = "telling"
  /\ n.pc # "looping" => n.job = op[o].job
  /\ n.pc = "fetching" => n.copy = op[o].copy
  /\ items' \in IF op[o].mixed THEN {op[o].copy, Nothing} ELSE {op[o].copy}
  /\ UNCHANGED << server, paired, faults, sent, fetched, lost, stranded, hurt >>

LEMMA SavedTurn ==
  ASSUME Types, NEW o \in Actors, Saved(o)
  PROVE  \E n : SavedAs(o, n)
<1>1. op \in [Actors -> Ops] /\ op[o] \in Ops
  BY DEF Types, TypeOK
<1>2. PICK next \in AfterSave(o) : op' = [op EXCEPT ![o] = Ended(op[o], next)]
  <2>1. PICK next \in AfterSave(o) :
          op' = [op EXCEPT ![o].pc = next, ![o].mixed = FALSE,
                           ![o].job = IF next = "looping" THEN NoJob ELSE @,
                           ![o].copy = IF next = "fetching" THEN @ ELSE Nothing]
    BY DEF Saved
  <2>2. op' = [op EXCEPT ![o] = Ended(op[o], next)]
    BY <1>1, <2>1 DEF Ended, Ops
  <2> QED
    BY <2>2
<1> DEFINE n == Ended(op[o], next)
<1>3. /\ op[o].pc \in Saving
      /\ items' \in IF op[o].mixed THEN {op[o].copy, Nothing} ELSE {op[o].copy}
      /\ UNCHANGED << server, paired, faults, sent, fetched, lost, stranded, hurt >>
  BY DEF Saved, history
<1>4. /\ op[o].pc = "appending" => next \in {"opening", "looping"}
      /\ op[o].pc = "taking" => next = "fetching"
      /\ op[o].pc = "measured" => next = "reporting"
      /\ op[o].pc \in {"settling", "marked"} => next = "telling"
  BY <1>3 DEF AfterSave, Saving
<1>5. next \in Steps
  BY <1>3, <1>4 DEF Steps, Saving
<1>6. /\ n \in Ops /\ n.pc = next /\ (next # "looping" => n.job = op[o].job) /\ n.todo = op[o].todo
      /\ next = "fetching" => n.copy = op[o].copy
  BY <1>1, <1>5, EndedTyped
<1>7. op' = [op EXCEPT ![o] = n]
  BY <1>2
<1> HIDE DEF n
<1> QED
  BY <1>3, <1>4, <1>6, <1>7 DEF SavedAs

\* What the write of one item puts in the file, of j, by a call that goes on as n.
Puts(o, n, j, v) ==
  /\ j \in Jobs /\ op[o].job = j /\ items' = [items EXCEPT ![j] = v] /\ op[o].pc # "measured"
  /\ v # "absent" /\ (Decided(items, j) => v # "pending")
  /\ Known(items, j) \/ op[o].pc = "appending"
  /\ j \in fetched => v \in {"done", "downloading"}
  /\ v = "downloading" => n.pc = "fetching" \/ (items[j] = v /\ op[o].pc = "appending")
  /\ n.pc = "telling" => v # "pending"
  /\ n.pc = "fetching" => v = "downloading" /\ j \notin fetched
  /\ v = "pending" \/ Decided(items, j) \/ n.pc \in {"fetching", "telling"}

LEMMA SavedPuts ==
  ASSUME Types, ItemsSafe, NEW o \in Actors, NEW n, SavedAs(o, n)
  PROVE  \/ op[o].pc = "measured" /\ items' = items
         \/ \E v : Puts(o, n, op[o].job, v)
<1> DEFINE j == op[o].job
<1>1. /\ op[o].pc = "appending" => n.pc \in {"opening", "looping"}
      /\ op[o].pc = "taking" => n.pc = "fetching"
      /\ op[o].pc \in {"settling", "marked"} => n.pc = "telling"
      /\ op[o].pc \in Saving
  BY DEF SavedAs
<1>2. Counts(op[o], items, fetched)
  BY DEF ItemsSafe
<1>3. items' = op[o].copy
  BY <1>1, <1>2 DEF Counts, SavedAs
<1>4. op[o].pc # "measured" => j \in Jobs
  BY <1>1 DEF Types, Named, AtHand, Saving
<1>5. CASE op[o].pc = "measured"
  BY <1>2, <1>3, <1>5 DEF Counts
<1>6. CASE op[o].pc = "appending"
  <2> DEFINE v == IF Known(items, j) THEN items[j] ELSE "pending"
  <2>1. items' = [items EXCEPT ![j] = v]
    BY <1>2, <1>3, <1>6 DEF Counts
  <2>2. j \in fetched => items[j] \in {"done", "downloading"}
    BY DEF ItemsSafe
  <2>3. /\ v # "absent" /\ (Decided(items, j) => v # "pending") /\ (j \in fetched => v \in {"done", "downloading"})
        /\ (v = "downloading" => items[j] = v) /\ (v = "pending" \/ Decided(items, j))
    BY <2>2 DEF Known, Decided
  <2> HIDE DEF v
  <2>4. Puts(o, n, j, v)
    BY <1>1, <1>4, <1>6, <2>1, <2>3 DEF Puts
  <2> QED
    BY <2>4
<1>7. CASE op[o].pc = "taking"
  <2>1. items' = [items EXCEPT ![j] = "downloading"] /\ Open(items, j)
    BY <1>2, <1>3, <1>7 DEF Counts
  <2>2. j \notin fetched /\ Known(items, j)
    BY <2>1 DEF ItemsSafe, Open, Known
  <2>3. Puts(o, n, j, "downloading")
    BY <1>1, <1>4, <1>7, <2>1, <2>2 DEF Puts
  <2> QED
    BY <2>3
<1>8. CASE op[o].pc = "settling"
  <2>1. PICK s \in {"done", "failed"} : items' = [items EXCEPT ![j] = s] /\ (j \in fetched => s = "done")
    BY <1>2, <1>3, <1>8 DEF Counts
  <2>2. Known(items, j)
    BY <1>2, <1>8 DEF Counts, Known
  <2>3. Puts(o, n, j, s)
    BY <1>1, <1>4, <1>8, <2>1, <2>2 DEF Puts
  <2> QED
    BY <2>3
<1>9. CASE op[o].pc = "marked"
  <2>1. PICK s \in {"failed", "declined"} : items' = [items EXCEPT ![j] = s]
    BY <1>2, <1>3, <1>9 DEF Counts
  <2>2. Known(items, j) /\ j \notin fetched
    BY <1>2, <1>9 DEF Counts
  <2>3. Puts(o, n, j, s)
    BY <1>1, <1>4, <1>9, <2>1, <2>2 DEF Puts
  <2> QED
    BY <2>3
<1> QED
  BY <1>1, <1>5, <1>6, <1>7, <1>8, <1>9 DEF Saving

LEMMA SavedKeeps ==
  ASSUME Types, ItemsInv, NEW o \in Actors, Saved(o)
  PROVE  Types' /\ ItemsInv' /\ Moves(o)
<1>1. PICK n : SavedAs(o, n)
  BY SavedTurn
<1>2. /\ op[o].pc \in Saving /\ op' = [op EXCEPT ![o] = n] /\ n \in Ops /\ n.todo = op[o].todo
      /\ n.pc \in {"opening", "looping", "fetching", "reporting", "telling"}
      /\ op[o].pc = "settling" => n.pc = "telling"
      /\ op[o].pc = "measured" <=> n.pc = "reporting"
      /\ n.pc # "looping" => n.job = op[o].job
      /\ n.pc = "fetching" => n.copy = op[o].copy
      /\ items' \in {op[o].copy, Nothing}
      /\ UNCHANGED << server, paired, faults, sent, fetched, lost, stranded, hurt >>
  BY <1>1 DEF SavedAs, Saving
<1>3. op[o] \in Ops /\ op \in [Actors -> Ops] /\ items \in [Jobs -> ItemStates] /\ op[o].copy \in [Jobs -> ItemStates]
  BY DEF Types, TypeOK, Ops
<1>4. op[o].pc # "measured" => op[o].job \in Jobs
  BY <1>2 DEF Types, Named, AtHand, Saving
<1>5. Moves(o)
  BY <1>2, <1>3, <1>4, TurnMoves DEF AtHand, Saving
<1>6. items' \in [Jobs -> ItemStates]
  BY <1>2, <1>3, IdleTyped
<1>7. Types'
  BY <1>2, <1>5, <1>6, TypesKept DEF Types, TypeOK
<1>8. ASSUME "items" \notin hurt'
      PROVE  ItemsSafe'
  <2>1. ItemsSafe /\ op[o].pc \in Holding
    BY <1>2, <1>8 DEF ItemsInv, Holding
  <2>2. CASE op[o].pc = "measured" /\ items' = items
    <3>1. n.pc \in Harmless \ Holding
      BY <1>2, <2>2 DEF Harmless, Holding, Saving
    <3>2. Counts(n, items, fetched')
      BY <3>1, CountsHarmless
    <3> QED
      BY <1>2, <1>3, <2>1, <2>2, <3>1, <3>2, TurnItems DEF ItemsSafe
  <2>3. CASE \E v : Puts(o, n, op[o].job, v)
    <3>1. PICK v : Puts(o, n, op[o].job, v)
      BY <2>3
    <3>2. items'[op[o].job] = v
      BY <1>3, <3>1 DEF Puts
    <3>3. op[o].mixed = FALSE /\ items' = op[o].copy
      BY <1>1, <2>1, <1>3 DEF ItemsSafe, Counts, SavedAs, Ops
    <3>4. Counts(n, items', fetched)
      BY <1>2, <3>1, <3>2, <3>3 DEF Counts, Puts, Known, Decided, Saving
    <3>5. n.pc \notin Holding \/ n.pc = "fetching"
      BY <1>2 DEF Holding, Saving
    <3> QED
      BY <1>2, <1>3, <2>1, <3>1, <3>4, <3>5, WrittenItems DEF Puts
  <2> QED
    BY <1>1, <2>1, <2>2, <2>3, SavedPuts
<1> QED
  BY <1>5, <1>7, <1>8 DEF ItemsInv

LEMMA RefreshProgressKeeps ==
  ASSUME Types, ItemsInv, NEW o \in Actors, RefreshProgress(o)
  PROVE  Types' /\ ItemsInv' /\ Moves(o)
<1>1. /\ op[o].pc = "refreshing" /\ Overlaps(o)
      /\ UNCHANGED << server, items, paired, faults, sent, fetched, lost, stranded >>
  BY DEF RefreshProgress
<1>2. op[o] \in Ops /\ op \in [Actors -> Ops]
  BY DEF Types, TypeOK
<1>3. PICK found \in ReadItems(o) :
        op' = [op EXCEPT ![o] = IF Active(found) = {} THEN Finished(o, op[o])
                                ELSE [op[o] EXCEPT !.pc = "measuring", !.copy = found, !.reports = Active(found)]]
  BY DEF RefreshProgress
<1>4. CASE Active(found) = {}
  <2> DEFINE n == Finished(o, op[o])
  <2>1. n \in Ops /\ n.pc \in Harmless \ {"told"} /\ n.todo \in {{}, op[o].todo}
    BY <1>2, FinishedTyped DEF Harmless
  <2>2. op' = [op EXCEPT ![o] = n]
    BY <1>3, <1>4
  <2> HIDE DEF n
  <2> QED
    BY <1>1, <2>1, <2>2, RestKeeps
<1>5. CASE Active(found) # {}
  <2> DEFINE a == Active(found)
             n == [op[o] EXCEPT !.pc = "measuring", !.copy = found, !.reports = a]
  <2>1. found \in [Jobs -> ItemStates] /\ a \in SUBSET Jobs
    BY ReadTyped, DirectConstants DEF Active
  <2>2. op' = [op EXCEPT ![o] = n]
    BY <1>3, <1>5
  <2> HIDE DEF a
  <2>3. n \in Ops /\ n.pc = "measuring" /\ n.copy = found /\ n.todo = op[o].todo
    BY <1>2, <2>1 DEF Ops, Steps
  <2> HIDE DEF n
  <2>4. Moves(o)
    BY <1>1, <1>2, <2>2, <2>3, TurnMoves DEF AtHand
  <2>5. Types'
    BY <1>1, <2>4, TypesKept, OverlapsTyped DEF Types, TypeOK
  <2>6. ASSUME "items" \notin hurt'
        PROVE  ItemsSafe'
    <3>1. "items" \notin hurt /\ Alone(o) /\ found = items
      BY <1>1, <2>6, OverlapsAlone
    <3>2. ItemsSafe
      BY <3>1 DEF ItemsInv
    <3>3. Counts(n, items, fetched')
      BY <2>3, <3>1 DEF Counts, Saving
    <3> QED
      BY <1>1, <1>2, <2>2, <3>1, <3>2, <3>3, TurnItems DEF ItemsSafe
  <2> QED
    BY <2>4, <2>5, <2>6 DEF ItemsInv
<1> QED
  BY <1>4, <1>5

LEMMA MeasuredKeeps ==
  ASSUME Types, ItemsInv, NEW o \in Actors, Measured(o)
  PROVE  Types' /\ ItemsInv' /\ Moves(o)
<1>1. op[o].pc = "measuring" /\ UNCHANGED << server, items, paired, faults, history >>
  BY DEF Measured
<1>2. op[o] \in Ops /\ op \in [Actors -> Ops]
  BY DEF Types, TypeOK
<1>3. CASE op' = [op EXCEPT ![o] = Finished(o, [@ EXCEPT !.reports = {}])]
  <2> DEFINE r == [op[o] EXCEPT !.reports = {}]
             n == Finished(o, r)
  <2>1. r \in Ops /\ r.todo = op[o].todo
    BY <1>2 DEF Ops
  <2>2. op' = [op EXCEPT ![o] = n]
    BY <1>3
  <2> HIDE DEF r
  <2>3. n \in Ops /\ n.pc \in Harmless \ {"told"} /\ n.todo \in {{}, op[o].todo}
    BY <2>1, FinishedTyped DEF Harmless
  <2> HIDE DEF n
  <2> QED
    BY <1>1, <2>2, <2>3, RestKeeps DEF history
<1>4. CASE \E known \in SUBSET op[o].reports \ {{}} : Write(o, [op[o] EXCEPT !.pc = "measured", !.reports = known])
  <2>1. PICK known \in SUBSET op[o].reports : Write(o, [op[o] EXCEPT !.pc = "measured", !.reports = known])
    BY <1>4
  <2> DEFINE n == [op[o] EXCEPT !.pc = "measured", !.reports = known]
             m == [n EXCEPT !.mixed = FALSE]
  <2>2. known \subseteq Jobs
    BY <1>2, <2>1 DEF Ops
  <2>3. n \in Ops /\ n.pc = "measured" /\ n.copy = op[o].copy /\ n.todo = op[o].todo
    BY <1>2, <2>2 DEF Ops, Steps
  <2>4. Write(o, n)
    BY <2>1
  <2> HIDE DEF n
  <2>5. m.pc = "measured" /\ m.copy = op[o].copy /\ m.mixed = FALSE
    BY <2>3 DEF Ops
  <2>6. Moves(o) /\ (Alone(o) => op' = [op EXCEPT ![o] = m])
    BY <1>1, <1>2, <2>3, <2>4, WriteTyped DEF Moves, AtHand
  <2> HIDE DEF m
  <2>7. Types'
    BY <1>1, <2>6, TypesKept DEF Types, TypeOK, history
  <2>8. ASSUME "items" \notin hurt'
        PROVE  ItemsSafe'
    <3>1. ItemsSafe
      BY <1>1, <2>8 DEF ItemsInv, history
    <3>2. Alone(o) /\ op[o].copy = items
      BY <1>1, <3>1 DEF ItemsSafe, Counts, Holding
    <3>3. Counts(m, items, fetched')
      BY <2>5, <3>2 DEF Counts
    <3> QED
      BY <1>1, <1>2, <2>6, <3>1, <3>2, <3>3, TurnItems DEF ItemsSafe, history
  <2> QED
    BY <2>6, <2>7, <2>8 DEF ItemsInv
<1> QED
  BY <1>3, <1>4 DEF Measured

LEMMA ReportsDoneKeeps ==
  ASSUME Types, ItemsInv, NEW o \in Actors, ReportsDone(o)
  PROVE  Types' /\ ItemsInv' /\ Moves(o)
<1> DEFINE n == Finished(o, op[o])
<1>1. op[o].pc = "reporting" /\ op' = [op EXCEPT ![o] = n]
      /\ UNCHANGED << server, items, paired, faults, history >>
  BY DEF ReportsDone
<1>2. n \in Ops /\ n.pc \in Harmless \ {"told"} /\ n.todo \in {{}, op[o].todo}
  BY FinishedTyped DEF Harmless, Types, TypeOK
<1> HIDE DEF n
<1> QED
  BY <1>1, <1>2, RestKeeps DEF history

-----------------------------------------------------------------------------
(* The server's steps, and faults *)

\* Calls are answered, with jobs, or left alone.
Answering(jobs) ==
  /\ op' \in [Actors -> Ops]
  /\ \A x \in Actors : op'[x] = op[x] \/ (op'[x].pc \in Harmless \ {"told"} /\ op[x].pc \in Harmless)
  /\ \A x \in Actors : op'[x].todo \in {{}, op[x].todo, jobs}

LEMMA AnsweredTyped ==
  ASSUME op \in [Actors -> Ops], NEW c \in Callers, NEW jobs \in SUBSET Jobs, Answered(c, jobs)
  PROVE  Answering(jobs)
<1>1. CASE c \in Actors
  <2>1. op' = [op EXCEPT ![c] = Resumed(c, jobs)]
    BY <1>1 DEF Answered
  <2> QED
    BY <1>1, <2>1, ResumedTyped DEF Answering
<1>2. CASE c \notin Actors
  BY <1>2 DEF Answered, Answering
<1> QED
  BY <1>1, <1>2

\* What Named says of one request.
Sensible(c, r) ==
  /\ r.pc # "none" /\ r.what # "list" => r.job \in Jobs
  /\ r.pc # "none" => (c = "sender" <=> r.what = "add")
  /\ r.pc = "saving" => r.what # "list"
  /\ r.pc = "sent" => c # "sender"

LEMMA ServeKeeps ==
  ASSUME Types, ItemsInv, NEW jobs, Answering(jobs),
         req' \in [Callers -> Requests], \A c \in Callers : Sensible(c, req'[c]),
         queue' \in [Jobs -> ServerStates], items' = items, paired' \in BOOLEAN, faults' \in 0 .. MaxFaults,
         sent' \subseteq Jobs, fetched' = fetched, lost' \subseteq Jobs, stranded' = stranded,
         hurt \subseteq hurt', hurt' \subseteq {"queue", "items"}
  PROVE  Types' /\ ItemsInv'
<1>1. TypeOK'
  BY DEF Types, TypeOK, Answering
<1>2. \A o \in Actors : op'[o].pc \in AtHand => op'[o].job \in Jobs
  BY DEF Answering, Harmless, AtHand, Types, Named
<1>3. Named'
  BY <1>2 DEF Named, Sensible
<1>4. \A x \in Actors : op'[x] = op[x] \/ (op'[x].pc \in Harmless /\ op[x].pc \notin {"fetching", "settling"})
  BY DEF Answering, Harmless
<1> QED
  BY <1>1, <1>3, <1>4, CalmItems DEF Types

\* The request as its copy begins to be written, and when another write meets it.
Serving(r, copy, met) == [r EXCEPT !.pc = "saving", !.copy = copy, !.mixed = met]

LEMMA StartSaveTyped ==
  ASSUME req \in [Callers -> Requests], NEW c \in Callers, NEW r \in Requests,
         r.what # "list", r.job \in Jobs, NEW found \in [Jobs -> ServerStates], StartSave(c, r, found)
  PROVE  /\ req' \in [Callers -> Requests]
         /\ req'[c].pc = "saving" /\ req'[c].what = r.what /\ req'[c].job = r.job
         /\ req'[c].copy = Applied(r, found) /\ (Loading(c) = {} => ~req'[c].mixed)
         /\ \A x \in Callers \ {c} :
              /\ req'[x].pc = req[x].pc /\ req'[x].what = req[x].what /\ req'[x].job = req[x].job
              /\ Loading(c) = {} => req'[x] = req[x]
<1> DEFINE copy == Applied(r, found)
           met == Loading(c) # {}
           n == Serving(r, copy, met)
           F(x) == IF x = c THEN n ELSE IF x \in Loading(c) THEN [req[x] EXCEPT !.mixed = TRUE] ELSE req[x]
<1>1. copy \in [Jobs -> ServerStates]
  BY IdleTyped DEF Applied, ServerStates
<1>2. met \in BOOLEAN
  OBVIOUS
<1>3. n \in Requests /\ n.pc = "saving" /\ n.what = r.what /\ n.job = r.job /\ n.copy = copy /\ n.mixed = met
  <2> HIDE DEF copy, met
  <2> QED
    BY <1>1, <1>2 DEF Requests, Serving
<1>4. \A x \in Callers : LET v == [req[x] EXCEPT !.mixed = TRUE]
                         IN  v \in Requests /\ v.pc = req[x].pc /\ v.what = req[x].what /\ v.job = req[x].job
  <2> TAKE x \in Callers
  <2>1. req[x] \in Requests
    OBVIOUS
  <2> QED
    BY <2>1 DEF Requests
<1>5. req' = [x \in Callers |-> F(x)]
  BY DEF StartSave, Loading, Serving
<1> HIDE DEF n, copy
<1>6. \A x \in Callers : F(x) \in Requests
  BY <1>3, <1>4
<1>7. req' \in [Callers -> Requests] /\ \A x \in Callers : req'[x] = F(x)
  BY <1>5, <1>6
<1>8. F(c) = n /\ \A x \in Callers \ {c} :
        /\ F(x).pc = req[x].pc /\ F(x).what = req[x].what /\ F(x).job = req[x].job
        /\ Loading(c) = {} => F(x) = req[x]
  BY <1>4
<1> HIDE DEF F
<1> QED
  BY <1>3, <1>7, <1>8 DEF copy

\* A request is dropped, its caller is answered.
LEMMA DropKeeps ==
  ASSUME Types, ItemsInv, NEW c \in Callers, NEW jobs \in SUBSET Jobs, Answered(c, jobs),
         req' = [req EXCEPT ![c] = NoRequest], items' = items, fetched' = fetched, stranded' = stranded,
         queue' \in [Jobs -> ServerStates], paired' = paired, faults' \in 0 .. MaxFaults,
         sent' \subseteq Jobs, lost' \subseteq Jobs, hurt \subseteq hurt', hurt' \subseteq {"queue", "items"}
  PROVE  Types' /\ ItemsInv'
<1>1. Answering(jobs)
  BY AnsweredTyped DEF Types, TypeOK
<1>2. req' \in [Callers -> Requests]
  BY IdleTyped DEF Types, TypeOK
<1>3. \A x \in Callers : Sensible(x, req'[x])
  BY IdleTyped DEF Sensible, Types, TypeOK, Named
<1> QED
  BY <1>1, <1>2, <1>3, ServeKeeps DEF Types, TypeOK

LEMMA StartSaveKeeps ==
  ASSUME Types, ItemsInv, NEW c \in Callers, NEW r \in Requests,
         r.what # "list", r.job \in Jobs, c = "sender" <=> r.what = "add",
         NEW found \in ReadQueue(c), StartSave(c, r, found), op' = op,
         UNCHANGED << queue, items, paired, faults, sent, fetched, lost, stranded >>
  PROVE  Types' /\ ItemsInv'
<1>1. found \in [Jobs -> ServerStates]
  BY IdleTyped DEF ReadQueue, Types, TypeOK
<1>2. Answering({})
  BY DEF Answering, Types, TypeOK
<1>3. /\ req' \in [Callers -> Requests]
      /\ req'[c].pc = "saving" /\ req'[c].what = r.what /\ req'[c].job = r.job
      /\ \A x \in Callers \ {c} : req'[x].pc = req[x].pc /\ req'[x].what = req[x].what /\ req'[x].job = req[x].job
  BY <1>1, StartSaveTyped DEF Types, TypeOK
<1>4. \A x \in Callers : Sensible(x, req'[x])
  BY <1>3 DEF Sensible, Types, Named
<1>5. hurt \subseteq hurt' /\ hurt' \subseteq {"queue", "items"}
  BY DEF StartSave, Types, TypeOK
<1> QED
  BY <1>2, <1>3, <1>4, <1>5, ServeKeeps DEF Types, TypeOK

LEMMA SendKeeps ==
  ASSUME Types, ItemsInv, NEW j \in Jobs, Send(j)
  PROVE  Types' /\ ItemsInv'
<1> DEFINE r == [NoRequest EXCEPT !.what = "add", !.job = j]
<1>1. r \in Requests /\ r.what = "add" /\ r.job = j
  BY IdleTyped DEF Requests
<1>2. PICK found \in ReadQueue("sender") : StartSave("sender", r, found)
  BY DEF Send
<1>3. op' = op /\ UNCHANGED << queue, items, paired, faults, sent, fetched, lost, stranded >>
  BY DEF Send, client
<1> HIDE DEF r
<1> QED
  BY <1>1, <1>2, <1>3, StartSaveKeeps DEF Callers

LEMMA ServerStepKeeps ==
  ASSUME Types, ItemsInv, NEW c \in Callers, ServerStep(c)
  PROVE  Types' /\ ItemsInv'
<1>1. CASE ServeList(c)
  <2>1. PICK found \in {queue} \cup {Nothing} : Answered(c, Queued(found))
    BY <1>1 DEF ServeList
  <2>2. Queued(found) \in SUBSET Jobs
    BY DEF Queued
  <2>3. req' = [req EXCEPT ![c] = NoRequest] /\ UNCHANGED << queue, items, paired, faults, history >>
    BY <1>1 DEF ServeList
  <2> QED
    BY <2>1, <2>2, <2>3, DropKeeps DEF Types, TypeOK, history
<1>2. CASE Operate(c)
  <2>1. /\ req[c].pc = "sent" /\ req[c].what # "list"
        /\ UNCHANGED << queue, items, paired, faults, sent, fetched, lost, stranded >>
    BY <1>2 DEF Operate, Admitted
  <2>2. PICK found \in ReadQueue(c) :
          \/ StartSave(c, req[c], found) /\ op' = op
          \/ /\ req' = [req EXCEPT ![c] = NoRequest]
             /\ Answered(c, {})
             /\ hurt' = IF Loading(c) # {} THEN hurt \cup {"queue"} ELSE hurt
    BY <1>2 DEF Operate
  <2>3. req[c] \in Requests /\ req[c].job \in Jobs /\ (c = "sender" <=> req[c].what = "add")
    BY <2>1 DEF Types, TypeOK, Named
  <2>4. CASE StartSave(c, req[c], found) /\ op' = op
    BY <2>1, <2>3, <2>4, StartSaveKeeps
  <2>5. CASE req' = [req EXCEPT ![c] = NoRequest] /\ Answered(c, {})
             /\ hurt' = IF Loading(c) # {} THEN hurt \cup {"queue"} ELSE hurt
    <3>1. {} \in SUBSET Jobs /\ hurt \subseteq hurt' /\ hurt' \subseteq {"queue", "items"}
      BY <2>5 DEF Types, TypeOK
    <3> QED
      BY <2>1, <2>5, <3>1, DropKeeps DEF Types, TypeOK
  <2> QED
    BY <2>2, <2>4, <2>5
<1>3. CASE QueueSaved(c)
  <2>1. /\ req[c].pc = "saving" /\ req' = [req EXCEPT ![c] = NoRequest] /\ Answered(c, {})
        /\ queue' \in {req[c].copy, Nothing} /\ sent' \in {sent, sent \cup {req[c].job}}
        /\ UNCHANGED << items, paired, faults, fetched, lost, stranded, hurt >>
    BY <1>3 DEF QueueSaved
  <2>2. req[c] \in Requests /\ req[c].job \in Jobs /\ {} \in SUBSET Jobs
    BY <2>1 DEF Types, TypeOK, Named
  <2>3. queue' \in [Jobs -> ServerStates]
    BY <2>1, <2>2, IdleTyped DEF Requests
  <2>4. sent' \subseteq Jobs
    BY <2>1, <2>2 DEF Types, TypeOK
  <2> QED
    BY <2>1, <2>2, <2>3, <2>4, DropKeeps DEF Types, TypeOK
<1> QED
  BY <1>1, <1>2, <1>3 DEF ServerStep

LEMMA DecisionsTyped ==
  ASSUME Types, NEW cs \in SUBSET Callers, \A c \in cs : req[c].pc # "none"
  PROVE  Decisions(cs) \subseteq Jobs
BY DEF Decisions, Types, Named

LEMMA RejectedTyped ==
  ASSUME op \in [Actors -> Ops], NEW o \in Actors
  PROVE  /\ Rejected(o) \in Ops /\ Rejected(o).pc \in {"idle", "looping"}
         /\ Rejected(o).todo \in {{}, op[o].todo}
<1> DEFINE r == [op[o] EXCEPT !.reports = {}, !.mixed = FALSE]
<1>1. r \in Ops /\ r.todo = op[o].todo
  BY DEF Ops
<1>2. Rejected(o) = Idle \/ Rejected(o) = Finished(o, r)
  BY DEF Rejected
<1> HIDE DEF r
<1> QED
  BY <1>1, <1>2, IdleTyped, FinishedTyped

\* An item whose end was not saved is among those left behind.
LEMMA SaveFailsKeeps ==
  ASSUME Types, ItemsInv, NEW o \in Actors, SaveFails(o)
  PROVE  Types' /\ ItemsInv'
<1> DEFINE taken == IF op[o].pc = "settling" THEN {op[o].job} ELSE {}
<1>1. /\ op[o].pc \in Saving /\ faults < MaxFaults /\ faults' = faults + 1
      /\ op' = [op EXCEPT ![o] = Rejected(o)]
      /\ UNCHANGED << items, hurt >> \/ (items' = Nothing /\ hurt' = hurt \cup {"items"})
      /\ stranded' = stranded \cup taken /\ lost' = lost \cup taken
      /\ UNCHANGED << server, paired, sent, fetched >>
  BY DEF SaveFails
<1>2. faults' \in 0 .. MaxFaults
  BY <1>1, DirectConstants DEF Types, TypeOK
<1>3. taken \subseteq Jobs
  BY DEF Types, Named, AtHand
<1>4. Rejected(o) \in Ops /\ Rejected(o).pc \in {"idle", "looping"}
  BY RejectedTyped DEF Types, TypeOK
<1>5. op' \in [Actors -> Ops] /\ op'[o] = Rejected(o) /\ \A x \in Actors \ {o} : op'[x] = op[x]
  BY <1>1, <1>4 DEF Types, TypeOK
<1>6. op[o].pc = "settling" => op[o].job \in stranded'
  BY <1>1
<1> HIDE DEF taken
<1>7. stranded \subseteq stranded' /\ stranded' \subseteq Jobs /\ lost' \subseteq Jobs
  BY <1>1, <1>3 DEF Types, TypeOK
<1>8. TypeOK'
  BY <1>1, <1>2, <1>5, <1>7, IdleTyped DEF Types, TypeOK, server
<1>9. Named'
  BY <1>1, <1>4, <1>5 DEF Types, Named, server, AtHand
<1>10. CASE UNCHANGED << items, hurt >>
  <2>1. ASSUME NEW x \in Actors
        PROVE  \/ op'[x] = op[x]
               \/ /\ op'[x].pc \in Harmless
                  /\ op[x].pc \in {"fetching", "settling"} => op[x].job \in stranded'
    BY <1>1, <1>4, <1>5, <1>6 DEF Harmless, Saving
  <2>2. ItemsInv'
    BY <1>1, <1>7, <1>10, <2>1, CalmItems
  <2> QED
    BY <1>8, <1>9, <2>2 DEF Types
<1>11. CASE hurt' = hurt \cup {"items"}
  BY <1>8, <1>9, <1>11 DEF ItemsInv, Types
<1> QED
  BY <1>1, <1>10, <1>11

LEMMA QueueSaveFailsKeeps ==
  ASSUME Types, ItemsInv, NEW c \in Callers, QueueSaveFails(c)
  PROVE  Types' /\ ItemsInv'
<1>1. /\ req[c].pc = "saving" /\ faults < MaxFaults /\ faults' = faults + 1
      /\ UNCHANGED << queue, hurt >> \/ (queue' = Nothing /\ hurt' = hurt \cup {"queue"})
      /\ req' = [req EXCEPT ![c] = NoRequest] /\ Answered(c, {})
      /\ lost' = lost \cup Decisions({c})
      /\ UNCHANGED << items, paired, sent, fetched, stranded >>
  BY DEF QueueSaveFails
<1>2. faults' \in 0 .. MaxFaults /\ {} \in SUBSET Jobs
  BY <1>1, DirectConstants DEF Types, TypeOK
<1>3. lost' \subseteq Jobs
  BY <1>1, DecisionsTyped DEF Types, TypeOK
<1>4. queue' \in [Jobs -> ServerStates] /\ hurt \subseteq hurt' /\ hurt' \subseteq {"queue", "items"}
  BY <1>1, IdleTyped DEF Types, TypeOK
<1> QED
  BY <1>1, <1>2, <1>3, <1>4, DropKeeps DEF Types, TypeOK

Fault ==
  \/ \E o \in Actors : RequestLost(o) \/ RequestTimesOut(o) \/ SaveFails(o)
  \/ \E c \in Callers : QueueSaveFails(c)
  \/ Unpair \/ ClientCrash \/ ServerCrash

LEMMA FaultsKeep ==
  ASSUME Types, ItemsInv, Fault
  PROVE  Types' /\ ItemsInv'
<1>1. faults \in Nat /\ MaxFaults \in Nat /\ faults <= MaxFaults /\ {} \in SUBSET Jobs
  BY DirectConstants DEF Types, TypeOK
<1>2. ASSUME NEW o \in Actors, RequestLost(o)
      PROVE  Types' /\ ItemsInv'
  <2>1. /\ req[o].pc = "sent" /\ req' = [req EXCEPT ![o] = NoRequest] /\ Answered(o, {})
        /\ faults' = (IF paired THEN faults + 1 ELSE faults) /\ (paired => faults < MaxFaults)
        /\ lost' = lost \cup Decisions({o})
        /\ UNCHANGED << queue, items, paired, sent, fetched, stranded, hurt >>
    BY <1>2 DEF RequestLost
  <2>2. faults' \in 0 .. MaxFaults
    BY <1>1, <2>1
  <2>3. o \in Callers
    BY DEF Callers
  <2>4. lost' \subseteq Jobs
    BY <2>1, <2>3, DecisionsTyped DEF Types, TypeOK
  <2> QED
    BY <1>1, <2>1, <2>2, <2>3, <2>4, DropKeeps DEF Types, TypeOK
<1>3. ASSUME NEW o \in Actors, RequestTimesOut(o)
      PROVE  Types' /\ ItemsInv'
  <2>1. /\ Answered(o, {}) /\ faults' = faults + 1 /\ faults < MaxFaults
        /\ UNCHANGED << server, items, paired, history >>
    BY <1>3 DEF RequestTimesOut
  <2>2. faults' \in 0 .. MaxFaults
    BY <1>1, <2>1
  <2>3. Answering({})
    BY <1>1, <2>1, AnsweredTyped DEF Types, TypeOK, Callers
  <2>4. \A x \in Callers : Sensible(x, req'[x])
    BY <2>1 DEF Sensible, Types, Named, server
  <2> QED
    BY <2>1, <2>2, <2>3, <2>4, ServeKeeps DEF Types, TypeOK, server, history
<1>4. CASE Unpair
  <2>1. paired' = FALSE /\ UNCHANGED << server, client, faults, history >>
    BY <1>4 DEF Unpair
  <2>2. Answering({})
    BY <2>1 DEF Answering, Types, TypeOK, client
  <2>3. \A x \in Callers : Sensible(x, req'[x])
    BY <2>1 DEF Sensible, Types, Named, server
  <2> QED
    BY <2>1, <2>2, <2>3, ServeKeeps DEF Types, TypeOK, server, client, history
<1>5. CASE ClientCrash
  <2>1. /\ faults < MaxFaults /\ faults' = faults + 1 /\ op' = [o \in Actors |-> Idle]
        /\ \/ UNCHANGED << items, hurt >>
           \/ items' = Nothing /\ hurt' = hurt \cup {"items"}
        /\ stranded' = stranded \cup {op[o].job : o \in {x \in Actors : op[x].pc \in {"fetching", "settling"}}}
        /\ lost' = lost \cup {op[o].job : o \in {x \in Actors : op[x].pc \in {"fetching", "settling", "telling"}}}
        /\ UNCHANGED << server, paired, sent, fetched >>
    BY <1>5 DEF ClientCrash
  <2>2. faults' \in 0 .. MaxFaults
    BY <1>1, <2>1
  <2>3. stranded' \subseteq Jobs /\ lost' \subseteq Jobs
    BY <2>1 DEF Types, TypeOK, Named, AtHand
  <2>4. op' \in [Actors -> Ops] /\ \A o \in Actors : op'[o] = Idle
    BY <2>1, IdleTyped
  <2>5. TypeOK'
    BY <2>1, <2>2, <2>3, <2>4, IdleTyped DEF Types, TypeOK, server
  <2>6. Named'
    BY <2>1, <2>4, IdleTyped DEF Types, Named, server, AtHand
  <2>7. CASE UNCHANGED << items, hurt >>
    <3>1. ASSUME NEW o \in Actors
          PROVE  \/ op'[o] = op[o]
                 \/ /\ op'[o].pc \in Harmless
                    /\ op[o].pc \in {"fetching", "settling"} => op[o].job \in stranded'
      BY <2>1, <2>4, IdleTyped DEF Harmless
    <3>2. stranded \subseteq stranded' /\ fetched' = fetched /\ items' = items /\ hurt \subseteq hurt'
      BY <2>1, <2>7
    <3>3. ItemsInv'
      BY <3>1, <3>2, CalmItems
    <3> QED
      BY <2>5, <2>6, <3>3 DEF Types
  <2>8. CASE hurt' = hurt \cup {"items"}
    BY <2>5, <2>6, <2>8 DEF ItemsInv, Types
  <2> QED
    BY <2>1, <2>7, <2>8
<1>6. CASE ServerCrash
  <2>1. /\ faults < MaxFaults /\ faults' = faults + 1
        /\ req' = [c \in Callers |-> NoRequest] /\ op' = [o \in Actors |-> Resumed(o, {})]
        /\ \/ UNCHANGED << queue, hurt >>
           \/ queue' = Nothing /\ hurt' = hurt \cup {"queue"}
        /\ lost' = lost \cup Decisions({c \in Callers : req[c].pc # "none"})
        /\ UNCHANGED << items, paired, sent, fetched, stranded >>
    BY <1>6 DEF ServerCrash
  <2>2. faults' \in 0 .. MaxFaults
    BY <1>1, <2>1
  <2>3. lost' \subseteq Jobs
    BY <2>1, DecisionsTyped DEF Types, TypeOK
  <2>4. Answering({})
    BY <1>1, <2>1, ResumedTyped DEF Answering, Types, TypeOK
  <2>5. req' \in [Callers -> Requests] /\ \A x \in Callers : Sensible(x, req'[x])
    BY <2>1, IdleTyped DEF Sensible
  <2>6. queue' \in [Jobs -> ServerStates] /\ hurt \subseteq hurt' /\ hurt' \subseteq {"queue", "items"}
    BY <2>1, IdleTyped DEF Types, TypeOK
  <2> QED
    BY <2>1, <2>2, <2>3, <2>4, <2>5, <2>6, ServeKeeps DEF Types, TypeOK
<1> QED
  BY <1>2, <1>3, <1>4, <1>5, <1>6, SaveFailsKeeps, QueueSaveFailsKeeps DEF Fault

LEMMA InitKeeps ==
  ASSUME Init
  PROVE  Types /\ ItemsInv
<1>1. TypeOK
  BY IdleTyped, DirectConstants DEF Init, TypeOK
<1>2. Named
  BY IdleTyped DEF Init, Named, AtHand
<1>3. \A o \in Actors : op[o].pc = "idle"
  BY IdleTyped DEF Init
<1>4. \A o \in Actors : Counts(op[o], items, fetched)
  BY <1>3, CountsHarmless DEF Harmless
<1>5. \A j \in Jobs : items[j] = "absent"
  BY DEF Init, Nothing
<1>6. ItemsSafe
  BY <1>3, <1>4, <1>5 DEF ItemsSafe, Init, Holding, Saving
<1> QED
  BY <1>1, <1>2, <1>6 DEF Types, ItemsInv

LEMMA StutterKeeps ==
  ASSUME Types, ItemsInv, UNCHANGED vars
  PROVE  Types' /\ ItemsInv'
BY DEF vars, history, Types, TypeOK, Named, ItemsInv, ItemsSafe, Alone, Fetchers

LEMMA ClientStepKeeps ==
  ASSUME Types, ItemsInv, NEW o \in Actors, ClientStep(o)
  PROVE  Types' /\ ItemsInv' /\ Moves(o)
BY AsksKeep, SavedKeeps, DownloadPendingKeeps, MarkLocalKeeps, FetchedKeeps, RefreshProgressKeeps,
   MeasuredKeeps, ReportsDoneKeeps DEF ClientStep

LEMMA NextKeeps ==
  ASSUME Types, ItemsInv, Next
  PROVE  Types' /\ ItemsInv'
<1>1. CASE PollOnce
  BY <1>1, AsksKeep DEF Actors
<1>2. CASE PollStep
  BY <1>2, PollRests, AppendLocalKeeps DEF PollStep
<1>3. CASE \E o \in Actors : ClientStep(o)
  BY <1>3, ClientStepKeeps
<1>4. CASE \E j \in Jobs, act \in {"accept", "decline"} : Click(j, act)
  BY <1>4, ClickKeeps
<1>5. CASE \E j \in Jobs : Send(j)
  BY <1>5, SendKeeps
<1>6. CASE \E c \in Callers : ServerStep(c)
  BY <1>6, ServerStepKeeps
<1>7. CASE Fault
  BY <1>7, FaultsKeep
<1> QED
  BY <1>1, <1>2, <1>3, <1>4, <1>5, <1>6, <1>7 DEF Next, Fault

\* Both files, and every call and request, keep their types; and while the client's
\* file is not damaged, each call's copy of it is the file but for the item at hand.
THEOREM ItemsKept == Spec => [](Types /\ ItemsInv)
<1>1. Init => Types /\ ItemsInv
  BY InitKeeps
<1>2. Types /\ ItemsInv /\ [Next]_vars => (Types /\ ItemsInv)'
  BY NextKeeps, StutterKeeps
<1> QED
  BY <1>1, <1>2, PTL DEF Spec

-----------------------------------------------------------------------------
(* An item that is being taken is in the hands of a call *)

\* In every reachable state, while the client's file is not damaged, an item is
\* "downloading" only in the hands of a call that is fetching it or saving how it
\* ended; or its taking was cut off by a crash, or the save of its end failed.
THEOREM ItemsDriven == Spec => []Driven
<1>1. ItemsInv => Driven
  BY DEF ItemsInv, ItemsSafe, Fetchers, Driven
<1> QED
  BY <1>1, ItemsKept, PTL

-----------------------------------------------------------------------------
(* A link is handed over once *)

\* The server, and what becomes of requests, begin nothing on the client.
ServerMoves ==
  \/ \E c \in Callers : ServerStep(c)
  \/ \E j \in Jobs : Send(j)
  \/ \E o \in Actors : RequestLost(o) \/ RequestTimesOut(o)
  \/ \E c \in Callers : QueueSaveFails(c)
  \/ Unpair \/ ServerCrash

LEMMA ServerAnswers ==
  ASSUME Types, ServerMoves
  PROVE  \E jobs \in SUBSET Jobs : Answering(jobs)
<1>1. op \in [Actors -> Ops] /\ {} \in SUBSET Jobs /\ Actors \subseteq Callers
  BY DEF Types, TypeOK, Callers
<1>2. ASSUME op' = op
      PROVE  Answering({})
  BY <1>1, <1>2 DEF Answering
<1>3. ASSUME NEW c \in Callers, ServerStep(c)
      PROVE  \E jobs \in SUBSET Jobs : Answering(jobs)
  <2>1. \/ \E found \in {queue, Nothing} : Answered(c, Queued(found))
        \/ Answered(c, {})
        \/ op' = op
    BY <1>3 DEF ServerStep, ServeList, Operate, QueueSaved
  <2>2. \A found : Queued(found) \in SUBSET Jobs
    BY DEF Queued
  <2> QED
    BY <1>1, <1>2, <2>1, <2>2, AnsweredTyped
<1>4. ASSUME NEW j \in Jobs, Send(j)
      PROVE  op' = op
  BY <1>4 DEF Send, client
<1>5. ASSUME NEW o \in Actors, RequestLost(o) \/ RequestTimesOut(o)
      PROVE  Answering({})
  BY <1>1, <1>5, AnsweredTyped DEF RequestLost, RequestTimesOut
<1>6. ASSUME Unpair
      PROVE  op' = op
  BY <1>6 DEF Unpair, client
<1>7. ASSUME ServerCrash
      PROVE  Answering({})
  <2>1. op' = [o \in Actors |-> Resumed(o, {})]
    BY <1>7 DEF ServerCrash
  <2> QED
    BY <1>1, <2>1, ResumedTyped DEF Answering
<1>8. ASSUME NEW c \in Callers, QueueSaveFails(c)
      PROVE  Answering({})
  BY <1>1, <1>8, AnsweredTyped DEF QueueSaveFails
<1> QED
  BY <1>1, <1>2, <1>3, <1>4, <1>5, <1>6, <1>7, <1>8 DEF ServerMoves

LEMMA TakesOnce ==
  ASSUME Types, ItemsInv, Next, NEW o \in Actors, op[o].pc = "opening", op'[o].pc = "taking"
  PROVE  op[o].job \notin fetched \/ "items" \in hurt'
<1>1. DownloadPending(o)
  <2>1. CASE PollOnce \/ PollStep
    <3>1. Moves("poll") /\ op["poll"].pc \in {"idle", "knowing", "looping"}
      BY <2>1, AsksKeep, PollRests, AppendLocalKeeps
        DEF PollOnce, PollStep, PollKnown, PollRefresh, AppendLocal, Actors
    <3> QED
      BY <3>1 DEF Moves
  <2>2. ASSUME NEW p \in Actors, ClientStep(p)
        PROVE  DownloadPending(o)
    <3>1. Moves(p)
      BY <2>2, ClientStepKeeps
    <3>2. p = o
      BY <3>1 DEF Moves
    <3> QED
      BY <2>2, <3>2 DEF ClientStep, Saved, MarkLocal, Fetched, RemoteAction, RefreshProgress, Measured, RemoteReport,
         ReportsDone, Saving
  <2>3. ASSUME NEW j \in Jobs, NEW act \in {"accept", "decline"}, Click(j, act)
        PROVE  FALSE
    <3>1. Moves("ui") /\ op["ui"].pc = "idle"
      BY <2>3, ClickKeeps DEF Click
    <3> QED
      BY <3>1 DEF Moves
  <2>4. CASE ServerMoves
    BY <2>4, ServerAnswers DEF Answering, Harmless
  <2>5. CASE ClientCrash
    BY <2>5, IdleTyped DEF ClientCrash
  <2>6. ASSUME NEW p \in Actors, SaveFails(p)
        PROVE  FALSE
    <3>1. op' = [op EXCEPT ![p] = Rejected(p)] /\ Rejected(p).pc \in {"idle", "looping"}
      BY <2>6, RejectedTyped DEF SaveFails, Types, TypeOK
    <3> QED
      BY <3>1 DEF Types, TypeOK
  <2> QED
    BY <2>1, <2>2, <2>3, <2>4, <2>5, <2>6 DEF Next, ServerMoves
<1>2. op[o] \in Ops /\ op \in [Actors -> Ops]
  BY DEF Types, TypeOK
<1>3. PICK found \in ReadItems(o) :
        found[op[o].job] \notin {"absent", "done", "downloading"} \/ To(o, "telling") \/ To(o, "failing")
  BY <1>1 DEF DownloadPending
<1>4. ~To(o, "telling") /\ ~To(o, "failing")
  BY <1>2 DEF To, Ops
<1>5. CASE "items" \notin hurt'
  <2>1. "items" \notin hurt /\ found = items
    BY <1>1, <1>5, OverlapsAlone DEF DownloadPending
  <2> QED
    BY <1>3, <1>4, <2>1 DEF ItemsInv, ItemsSafe
<1> QED
  BY <1>5

\* A link that was handed to qBittorrent is not handed over again, unless the user
\* declined it in between or the client's file was damaged.
THEOREM HandedOnce == Spec => FetchedOnce
<1>1. Types /\ ItemsInv /\ [Next]_vars =>
        [\A o \in Actors :
           (op[o].pc = "opening" /\ op'[o].pc = "taking") =>
             \/ op[o].job \notin fetched
             \/ "items" \in hurt']_vars
  BY TakesOnce
<1> QED
  BY <1>1, ItemsKept, PTL DEF Spec, FetchedOnce

-----------------------------------------------------------------------------
(* The two queues: the client's steps *)

LEMMA HurtGrows ==
  ASSUME Next
  PROVE  hurt \subseteq hurt'
BY DEF Next, PollOnce, PollStep, PollKnown, PollRefresh, AppendLocal,
    ClientStep, Click, Send, ServerStep, RequestLost,
  RequestTimesOut, Unpair, ClientCrash, ServerCrash, Saved, DownloadPending, MarkLocal, Fetched, RemoteAction,
  RefreshProgress, Measured, RemoteReport, ReportsDone, ServeList, Operate, QueueSaved, Ask, Overlaps, StartSave,
  SaveFails, QueueSaveFails, server, client, history

\* A new request decides nothing but what the client has decided.
Asked ==
  \A c \in Callers :
    \/ req'[c] = req[c]
    \/ /\ req[c].pc = "none" /\ req'[c].pc = "sent"
       /\ req'[c].what \in Decisive => Decided(items, req'[c].job)

\* What the items of a call's step may become.
Grown(o) ==
  \A j \in Jobs :
    /\ Known(items, j) => Known(items', j)
    /\ Known(items', j) => Known(items, j) \/ j \in sent
    /\ Decided(items, j) => Decided(items', j)
    /\ Decided(items', j) => Decided(items, j) \/ Telling(o, j)'

LEMMA ClientQueue ==
  ASSUME Types, QueueSafe, NEW o \in Actors, Moves(o), Asked, Grown(o),
         queue' = queue, sent' = sent, lost' = lost,
         \A j \in Jobs : op[o].pc = "telling" /\ op[o].job = j => Deciding(o, j)'
  PROVE  QueueSafe'
<1>1. ASSUME NEW c \in Callers, req'[c].pc = "saving"
      PROVE  SavesOn(c)'
  <2>1. req'[c] = req[c] /\ SavesOn(c)
    BY <1>1 DEF Asked, QueueSafe
  <2>2. \A d \in Callers \ {c} : req'[d].pc # "saving"
    BY <2>1 DEF Asked, SavesOn
  <2> QED
    BY <2>1, <2>2 DEF SavesOn
<1>2. ASSUME NEW p \in Actors
      PROVE  op'[p].todo \subseteq sent
  <2>1. op'[p].todo \subseteq op[p].todo
    BY DEF Moves
  <2> QED
    BY <2>1 DEF QueueSafe
<1>3. ASSUME NEW p \in Actors, op'[p].pc = "appending"
      PROVE  op'[p].job \in sent
  BY <1>3 DEF Moves, QueueSafe
<1>4. ASSUME NEW c \in Callers, NEW j \in Jobs, Deciding(c, j)'
      PROVE  Decided(items', j)
  BY <1>4 DEF Deciding, Asked, QueueSafe, Grown
<1>5. ASSUME NEW p \in Actors, NEW j \in Jobs, Telling(p, j) \/ Deciding(p, j)
      PROVE  Telling(p, j)' \/ Deciding(p, j)'
  <2>1. CASE Deciding(p, j)
    BY <2>1 DEF Deciding, Asked, Callers
  <2>2. CASE Telling(p, j) /\ p # o
    BY <2>2 DEF Telling, Moves
  <2>3. CASE Telling(p, j) /\ p = o
    <3>1. op[o].job = j /\ op[o].pc \in {"fetching", "settling", "telling"}
      BY <2>3 DEF Telling
    <3>2. CASE op[o].pc = "telling"
      BY <2>3, <3>1, <3>2 DEF Deciding
    <3>3. CASE op[o].pc \in {"fetching", "settling"}
      BY <2>3, <3>1, <3>3 DEF Telling, Moves
    <3> QED
      BY <3>1, <3>2, <3>3
  <2> QED
    BY <1>5, <2>1, <2>2, <2>3
<1>6. ASSUME NEW j \in Jobs \ lost, queue[j] = "queued", Decided(items', j)
      PROVE  \E p \in Actors : Telling(p, j)' \/ Deciding(p, j)'
  <2>1. CASE Decided(items, j)
    BY <1>5, <1>6, <2>1 DEF QueueSafe
  <2>2. CASE ~Decided(items, j)
    BY <1>6, <2>2 DEF Grown
  <2> QED
    BY <2>1, <2>2
<1>7. \A j \in Jobs : queue[j] \in {"accepted", "declined"} => Decided(items', j)
  BY DEF QueueSafe, Grown
<1>8. \A j \in Jobs : Known(items', j) => j \in sent
  BY DEF QueueSafe, Grown
<1> QED
  BY <1>1, <1>2, <1>3, <1>4, <1>6, <1>7, <1>8 DEF QueueSafe

\* Steps that leave the file as it is.
LEMMA GrownSame ==
  ASSUME items' = items, NEW o
  PROVE  Grown(o)
BY DEF Grown

LEMMA SavedQueue ==
  ASSUME Types, ItemsInv, QueueInv, NEW o \in Actors, Saved(o), hurt' = {}
  PROVE  QueueSafe'
<1>1. PICK n : SavedAs(o, n)
  BY SavedTurn
<1>2. /\ op[o].pc \in Saving /\ op' = [op EXCEPT ![o] = n]
      /\ n.pc \in {"fetching", "telling"} => n.job = op[o].job
      /\ UNCHANGED << server, paired, faults, sent, fetched, lost, stranded, hurt >>
  BY <1>1 DEF SavedAs
<1>3. ItemsSafe /\ QueueSafe
  BY <1>2 DEF ItemsInv, QueueInv
<1>4. Moves(o)
  BY SavedKeeps
<1>5. Grown(o)
  <2>1. CASE items' = items
    BY <2>1, GrownSame
  <2>2. CASE \E v : Puts(o, n, op[o].job, v)
    <3>1. PICK j \in Jobs : \E v : Puts(o, n, j, v)
      BY <2>2 DEF Puts
    <3>2. PICK v : Puts(o, n, j, v)
      BY <3>1
    <3>3. items'[j] = v /\ \A k \in Jobs \ {j} : items'[k] = items[k]
      BY <3>2 DEF Puts, Types, TypeOK
    <3>4. op'[o] = n
      BY <1>2 DEF Types, TypeOK
    <3>5. op[o].pc = "appending" => j \in sent
      BY <1>3, <3>2 DEF QueueSafe, Puts
    <3>6. Known(items', j) /\ (Known(items, j) \/ j \in sent)
      BY <3>2, <3>3, <3>5 DEF Puts, Known
    <3>7. Decided(items, j) => Decided(items', j)
      BY <3>2, <3>3 DEF Puts, Decided
    <3>8. Decided(items', j) => Decided(items, j) \/ Telling(o, j)'
      BY <1>2, <3>2, <3>3, <3>4 DEF Puts, Decided, Telling
    <3> QED
      BY <3>3, <3>6, <3>7, <3>8 DEF Grown, Known, Decided, Telling
  <2> QED
    BY <1>1, <1>3, <2>1, <2>2, SavedPuts
<1>6. Asked /\ queue' = queue /\ op[o].pc # "telling"
  BY <1>2 DEF Asked, server, Saving
<1> QED
  BY <1>2, <1>3, <1>4, <1>5, <1>6, ClientQueue

\* Steps that neither save nor ask.
LEMMA QuietQueue ==
  ASSUME Types, QueueSafe, NEW o \in Actors, Moves(o), op[o].pc # "telling",
         UNCHANGED << server, items, sent, lost >>
  PROVE  QueueSafe'
<1>1. Asked /\ queue' = queue
  BY DEF Asked, server
<1> QED
  BY <1>1, GrownSame, ClientQueue

LEMMA AskQueue ==
  ASSUME Types, QueueSafe, NEW o \in Actors, Moves(o), NEW j \in Jobs \cup {NoJob}, NEW what, NEW step,
         Ask(o, what, j, step), what \in Decisive => Decided(items, j),
         op[o].pc = "telling" => what \in Decisive /\ j = op[o].job
  PROVE  QueueSafe'
<1> DEFINE q == [NoRequest EXCEPT !.pc = "sent", !.what = what, !.job = j]
<1>1. req[o].pc = "none" /\ req' = [req EXCEPT ![o] = q] /\ UNCHANGED << queue, items, paired, faults, history >>
  BY DEF Ask
<1>2. req \in [Callers -> Requests] /\ o \in Callers
  BY DEF Types, TypeOK, Callers
<1>3. q.pc = "sent" /\ q.what = what /\ q.job = j
  BY DEF NoRequest
<1> HIDE DEF q
<1>4. Asked
  BY <1>1, <1>2, <1>3 DEF Asked
<1>5. \A k \in Jobs : op[o].pc = "telling" /\ op[o].job = k => Deciding(o, k)'
  BY <1>1, <1>2, <1>3 DEF Deciding
<1> QED
  BY <1>1, <1>4, <1>5, GrownSame, ClientQueue DEF history

LEMMA AsksQueue ==
  ASSUME Types, ItemsInv, QueueInv, NEW o \in Actors, hurt' = {},
         (o = "poll" /\ PollOnce) \/ RemoteAction(o) \/ RemoteReport(o)
  PROVE  QueueSafe'
<1>1. Moves(o) /\ NoJob \in Jobs \cup {NoJob}
  BY AsksKeep
<1>2. hurt = {}
  BY DEF PollOnce, RemoteAction, RemoteReport, Ask, history
<1>3. ItemsSafe /\ QueueSafe
  BY <1>2 DEF ItemsInv, QueueInv
<1>4. CASE o = "poll" /\ PollOnce
  BY <1>1, <1>3, <1>4, AskQueue DEF PollOnce, Decisive
<1>5. CASE RemoteAction(o)
  <2>1. op[o].pc = "telling" /\ Ask(o, op[o].act, op[o].job, "told") /\ op[o].act \in Decisive /\ op[o].job \in Jobs
    BY <1>5 DEF RemoteAction, Types, TypeOK, Ops, Decisive, Named, AtHand
  <2>2. Decided(items, op[o].job)
    BY <1>3, <2>1 DEF ItemsSafe, Counts
  <2> QED
    BY <1>1, <1>3, <2>1, <2>2, AskQueue
<1>6. CASE RemoteReport(o)
  <2>1. PICK j \in op[o].reports : Ask(o, "report", j, "reported")
    BY <1>6 DEF RemoteReport
  <2>2. j \in Jobs /\ op[o].pc = "reporting"
    BY <1>6 DEF RemoteReport, Types, TypeOK, Ops
  <2> QED
    BY <1>1, <1>3, <2>1, <2>2, AskQueue DEF Decisive
<1> QED
  BY <1>4, <1>5, <1>6

LEMMA ClientStepQueue ==
  ASSUME Types, ItemsInv, QueueInv, NEW o \in Actors, hurt' = {}, hurt = {},
         ClientStep(o) \/ (o = "poll" /\ (PollOnce \/ PollStep))
           \/ (o = "ui" /\ \E j \in Jobs, act \in {"accept", "decline"} : Click(j, act))
  PROVE  QueueSafe'
<1>1. CASE (o = "poll" /\ PollOnce) \/ RemoteAction(o) \/ RemoteReport(o)
  BY <1>1, AsksQueue
<1>2. CASE Saved(o)
  BY <1>2, SavedQueue
<1>3. CASE DownloadPending(o) \/ MarkLocal(o) \/ Fetched(o) \/ RefreshProgress(o) \/ Measured(o) \/ ReportsDone(o)
  <2>1. op[o].pc # "telling" /\ UNCHANGED << server, items, sent, lost >>
    BY <1>3 DEF DownloadPending, MarkLocal, Fetched, RefreshProgress, Measured, ReportsDone, history
  <2>2. Moves(o)
    BY <1>3, ClientStepKeeps DEF ClientStep
  <2> QED
    BY <2>1, <2>2, QuietQueue DEF QueueInv
<1>4. CASE o = "poll" /\ PollStep
  <2>1. op[o].pc # "telling" /\ UNCHANGED << server, items, sent, lost >>
    BY <1>4 DEF PollStep, PollKnown, AppendLocal, PollRefresh, history
  <2>2. Moves(o)
    BY <1>4, PollRests, AppendLocalKeeps DEF PollStep
  <2> QED
    BY <2>1, <2>2, QuietQueue DEF QueueInv
<1>5. CASE o = "ui" /\ \E j \in Jobs, act \in {"accept", "decline"} : Click(j, act)
  <2>1. op[o].pc # "telling" /\ UNCHANGED << server, items, sent, lost >>
    BY <1>5 DEF Click, history
  <2>2. Moves(o)
    BY <1>5, ClickKeeps
  <2> QED
    BY <2>1, <2>2, QuietQueue DEF QueueInv
<1> QED
  BY <1>1, <1>2, <1>3, <1>4, <1>5 DEF ClientStep

-----------------------------------------------------------------------------
(* The two queues: the server's steps, and faults *)

\* What the server's queue may become, and what becomes of the calls and requests
\* that know of it.
Served ==
  /\ sent \subseteq sent' /\ lost \subseteq lost' /\ items' = items
  /\ \A j \in Jobs : queue'[j] # "absent" <=> j \in sent'
  /\ \A j \in Jobs : queue'[j] \in {"accepted", "declined"} => queue[j] = queue'[j] \/ Decided(items, j)
  /\ \A j \in Jobs : queue'[j] = "queued" /\ Decided(items, j) => queue[j] = "queued"
CallsKept ==
  /\ \A o \in Actors : op'[o].todo \subseteq sent' /\ (op'[o].pc = "appending" => op'[o].job \in sent')
  /\ \A o \in Actors, j \in Jobs : Telling(o, j) => Telling(o, j)' \/ j \in lost'
RequestsKept ==
  /\ \A c \in Callers : req'[c].pc = "saving" => SavesOn(c)'
  /\ \A c \in Callers, j \in Jobs : Deciding(c, j)' => Deciding(c, j)
  /\ \A o \in Actors, j \in Jobs : Deciding(o, j) => Deciding(o, j)' \/ j \in lost' \/ queue'[j] # "queued"

LEMMA ServedQueue ==
  ASSUME QueueSafe, Served, CallsKept, RequestsKept
  PROVE  QueueSafe'
<1>1. ASSUME NEW j \in Jobs \ lost', queue'[j] = "queued", Decided(items, j)
      PROVE  \E o \in Actors : Telling(o, j)' \/ Deciding(o, j)'
  <2>1. j \notin lost /\ queue[j] = "queued"
    BY <1>1 DEF Served
  <2>2. PICK o \in Actors : Telling(o, j) \/ Deciding(o, j)
    BY <1>1, <2>1 DEF QueueSafe
  <2> QED
    BY <1>1, <2>2 DEF CallsKept, RequestsKept
<1>2. \A j \in Jobs : queue'[j] \in {"accepted", "declined"} => Decided(items, j)
  BY DEF Served, QueueSafe
<1>3. \A c \in Callers, j \in Jobs : Deciding(c, j)' => Decided(items, j)
  BY DEF RequestsKept, QueueSafe
<1>4. \A j \in Jobs : Known(items, j) => j \in sent'
  BY DEF Served, QueueSafe
<1>5. items' = items
  BY DEF Served
<1>6. \A c \in Callers : req'[c].pc = "saving" => SavesOn(c)'
  BY DEF RequestsKept
<1> QED
  BY <1>1, <1>2, <1>3, <1>4, <1>5, <1>6 DEF QueueSafe, Served, CallsKept

LEMMA AnsweredCalls ==
  ASSUME QueueSafe, sent \subseteq sent', NEW jobs \in SUBSET sent', Answering(jobs)
  PROVE  CallsKept
<1>1. ASSUME NEW o \in Actors
      PROVE  op'[o].todo \subseteq sent' /\ (op'[o].pc = "appending" => op'[o].job \in sent')
  BY DEF Answering, QueueSafe, Harmless
<1>2. ASSUME NEW o \in Actors, NEW j \in Jobs, Telling(o, j)
      PROVE  Telling(o, j)'
  BY <1>2 DEF Answering, Telling, Harmless
<1> QED
  BY <1>1, <1>2 DEF CallsKept

\* Steps that change no request but may drop one that is not being saved.
LEMMA DroppedRequests ==
  ASSUME Types, QueueSafe, NEW c \in Callers, req[c].pc # "saving",
         req' \in {req, [req EXCEPT ![c] = NoRequest]}, queue' = queue, sent' = sent,
         \A j \in Jobs : Deciding(c, j) => j \in lost' \/ queue[j] # "queued" \/ req' = req
  PROVE  RequestsKept
<1>1. \A x \in Callers : req'[x] = req[x] \/ (x = c /\ req'[x].pc = "none")
  BY IdleTyped DEF Types, TypeOK
<1>2. ASSUME NEW x \in Callers, req'[x].pc = "saving"
      PROVE  SavesOn(x)'
  <2>1. req'[x] = req[x] /\ SavesOn(x)
    BY <1>1, <1>2 DEF QueueSafe
  <2>2. \A d \in Callers \ {x} : req'[d].pc # "saving"
    BY <1>1, <2>1 DEF SavesOn
  <2> QED
    BY <2>1, <2>2 DEF SavesOn
<1>3. \A x \in Callers, j \in Jobs : Deciding(x, j)' => Deciding(x, j)
  BY <1>1 DEF Deciding
<1>4. \A x \in Callers, j \in Jobs : Deciding(x, j) => Deciding(x, j)' \/ j \in lost' \/ queue'[j] # "queued"
  BY <1>1 DEF Deciding
<1> QED
  BY <1>2, <1>3, <1>4 DEF RequestsKept, Callers

\* The server's files are as they were.
LEMMA ServedSame ==
  ASSUME QueueSafe, UNCHANGED << queue, items, sent >>, lost \subseteq lost'
  PROVE  Served
BY DEF Served, QueueSafe

LEMMA ServeListQueue ==
  ASSUME Types, QueueSafe, NEW c \in Callers, ServeList(c)
  PROVE  QueueSafe'
<1>1. /\ req[c].pc = "sent" /\ req[c].what = "list" /\ req' = [req EXCEPT ![c] = NoRequest]
      /\ UNCHANGED << queue, items, paired, faults, history >>
  BY DEF ServeList, Admitted
<1>2. PICK found \in {queue, Nothing} : Answered(c, Queued(found))
  BY DEF ServeList
<1>3. Queued(found) \in SUBSET Jobs /\ Queued(found) \in SUBSET sent
  BY DEF Queued, Nothing, QueueSafe
<1>4. Answering(Queued(found))
  BY <1>2, <1>3, AnsweredTyped DEF Types, TypeOK
<1>5. CallsKept
  BY <1>1, <1>3, <1>4, AnsweredCalls DEF history
<1>6. RequestsKept
  BY <1>1, DroppedRequests DEF Deciding, Decisive, history
<1> QED
  BY <1>1, <1>5, <1>6, ServedSame, ServedQueue DEF history

\* An operation is about to be saved, and no other is.
LEMMA StartSaveQueue ==
  ASSUME Types, QueueSafe, NEW c \in Callers, NEW r \in Requests, r.what # "list", r.job \in Jobs,
         NEW found \in ReadQueue(c), StartSave(c, r, found), hurt' = {}, op' = op,
         UNCHANGED << queue, items, sent, lost >>,
         r.what \in Decisive => queue[r.job] = "queued" /\ r = req[c] /\ req[c].pc # "none",
         r.what = "add" => r.job \notin sent,
         req[c].pc = "none" \/ r = req[c]
  PROVE  QueueSafe'
<1>1. Loading(c) = {}
  BY DEF StartSave
<1>2. found = queue /\ queue \in [Jobs -> ServerStates]
  BY <1>1 DEF ReadQueue, Types, TypeOK
<1>3. /\ req'[c].pc = "saving" /\ req'[c].what = r.what /\ req'[c].job = r.job
      /\ req'[c].copy = Applied(r, queue) /\ ~req'[c].mixed
      /\ \A x \in Callers \ {c} : req'[x] = req[x]
  BY <1>1, <1>2, StartSaveTyped DEF Types, TypeOK
<1>4. \A x \in Callers \ {c} : req'[x].pc # "saving"
  BY <1>1, <1>3 DEF Loading
<1>5. Applied(req'[c], queue) = Applied(r, queue)
  BY <1>3 DEF Applied
<1>6. SavesOn(c)'
  BY <1>3, <1>4, <1>5 DEF SavesOn, Applied
<1>7. ASSUME NEW x \in Callers, NEW j \in Jobs
      PROVE  Deciding(x, j)' => Deciding(x, j)
  <2>1. CASE x = c
    BY <1>3, <2>1 DEF Deciding
  <2>2. CASE x # c
    BY <1>3, <2>2 DEF Deciding
  <2> QED
    BY <2>1, <2>2
<1>8. ASSUME NEW x \in Callers, NEW j \in Jobs, Deciding(x, j)
      PROVE  Deciding(x, j)'
  <2>1. CASE x = c
    BY <1>3, <1>8, <2>1 DEF Deciding
  <2>2. CASE x # c
    BY <1>3, <1>8, <2>2 DEF Deciding
  <2> QED
    BY <2>1, <2>2
<1>9. RequestsKept
  BY <1>4, <1>6, <1>7, <1>8 DEF RequestsKept, Callers
<1>10. CallsKept
  BY DEF CallsKept, QueueSafe, Telling
<1> QED
  BY <1>9, <1>10, ServedSame, ServedQueue

LEMMA SendQueue ==
  ASSUME Types, QueueSafe, NEW j \in Jobs, Send(j), hurt' = {}
  PROVE  QueueSafe'
<1> DEFINE r == [NoRequest EXCEPT !.what = "add", !.job = j]
<1>1. r \in Requests /\ r.what = "add" /\ r.job = j
  BY IdleTyped DEF Requests
<1>2. PICK found \in ReadQueue("sender") : StartSave("sender", r, found)
  BY DEF Send
<1>3. j \notin sent /\ req["sender"].pc = "none" /\ op' = op /\ UNCHANGED << queue, items, sent, lost >>
  BY DEF Send, LinkEntered, client
<1> HIDE DEF r
<1> QED
  BY <1>1, <1>2, <1>3, StartSaveQueue DEF Callers, Decisive

LEMMA OperateQueue ==
  ASSUME Types, QueueSafe, NEW c \in Callers, Operate(c), hurt' = {}
  PROVE  QueueSafe'
<1>1. /\ req[c].pc = "sent" /\ req[c].what # "list"
      /\ UNCHANGED << queue, items, paired, faults, sent, fetched, lost, stranded >>
  BY DEF Operate, Admitted
<1>2. PICK found \in ReadQueue(c) :
        \/ Applies(req[c], found) /\ StartSave(c, req[c], found) /\ op' = op
        \/ /\ ~Applies(req[c], found) /\ req' = [req EXCEPT ![c] = NoRequest] /\ Answered(c, {})
           /\ hurt' = IF Loading(c) # {} THEN hurt \cup {"queue"} ELSE hurt
  BY DEF Operate
<1>3. req[c] \in Requests /\ req[c].job \in Jobs /\ req[c].what # "add" /\ {} \in SUBSET Jobs /\ {} \in SUBSET sent'
  BY <1>1 DEF Types, TypeOK, Named
<1>4. found = queue
  BY <1>2 DEF StartSave, ReadQueue
<1>5. CASE Applies(req[c], found) /\ StartSave(c, req[c], found) /\ op' = op
  BY <1>1, <1>3, <1>4, <1>5, StartSaveQueue DEF Applies, Decisive
<1>6. CASE ~Applies(req[c], found) /\ req' = [req EXCEPT ![c] = NoRequest] /\ Answered(c, {})
  <2>1. Answering({})
    BY <1>3, <1>6, AnsweredTyped DEF Types, TypeOK
  <2>2. CallsKept
    BY <1>1, <1>3, <2>1, AnsweredCalls
  <2>3. RequestsKept
    BY <1>1, <1>4, <1>6, DroppedRequests DEF Deciding, Decisive, Applies
  <2> QED
    BY <1>1, <2>2, <2>3, ServedSame, ServedQueue
<1> QED
  BY <1>2, <1>5, <1>6

LEMMA QueueSavedQueue ==
  ASSUME Types, QueueSafe, NEW c \in Callers, QueueSaved(c)
  PROVE  QueueSafe'
<1> DEFINE j == req[c].job
<1>1. /\ req[c].pc = "saving" /\ req' = [req EXCEPT ![c] = NoRequest] /\ Answered(c, {})
      /\ queue' \in IF req[c].mixed THEN {req[c].copy, Nothing} ELSE {req[c].copy}
      /\ sent' = IF c = "sender" THEN sent \cup {j} ELSE sent
      /\ UNCHANGED << items, paired, faults, fetched, lost, stranded, hurt >>
  BY DEF QueueSaved
<1>2. SavesOn(c)
  BY <1>1 DEF QueueSafe
<1>3. queue' = Applied(req[c], queue)
  BY <1>1, <1>2 DEF SavesOn
<1>4. /\ queue \in [Jobs -> ServerStates] /\ j \in Jobs /\ {} \in SUBSET Jobs /\ {} \in SUBSET sent'
      /\ c = "sender" <=> req[c].what = "add"
      /\ req[c] \in Requests /\ req[c].what # "list"
  BY <1>1 DEF Types, TypeOK, Named
<1>5. \A x \in Callers : x # c => req'[x] = req[x] /\ req[x].pc # "saving"
  BY <1>1, <1>2 DEF SavesOn, Types, TypeOK
<1>6. req'[c].pc = "none"
  BY <1>1, IdleTyped DEF Types, TypeOK
<1>7. Answering({})
  BY <1>1, <1>4, AnsweredTyped DEF Types, TypeOK
<1>8. CallsKept
  BY <1>1, <1>4, <1>7, AnsweredCalls
<1>9. /\ \A k \in Jobs : k # j => queue'[k] = queue[k]
      /\ req[c].what = "add" => queue'[j] = "queued" /\ sent' = sent \cup {j} /\ j \notin sent
      /\ req[c].what \in Decisive =>
           queue'[j] \in {"accepted", "declined"} /\ queue[j] = "queued" /\ Decided(items, j) /\ sent' = sent
      /\ req[c].what = "report" => queue' = queue /\ sent' = sent
  <2>1. CASE req[c].what = "add"
    <3>1. queue' = [queue EXCEPT ![j] = "queued"]
      BY <1>3, <2>1 DEF Applied
    <3> QED
      BY <1>1, <1>2, <1>4, <2>1, <3>1 DEF SavesOn, Decisive
  <2>2. CASE req[c].what \in Decisive
    <3>1. \E s \in {"accepted", "declined"} : queue' = [queue EXCEPT ![j] = s]
      BY <1>3, <2>2 DEF Applied, Decisive
    <3>2. Decided(items, j) /\ queue[j] = "queued"
      BY <1>1, <1>2, <1>4, <2>2 DEF SavesOn, QueueSafe, Deciding
    <3> QED
      BY <1>1, <1>4, <2>2, <3>1, <3>2 DEF Decisive
  <2>3. CASE req[c].what = "report"
    BY <1>1, <1>3, <1>4, <2>3 DEF Applied, Decisive
  <2> QED
    BY <1>4, <2>1, <2>2, <2>3 DEF Requests, Decisive
<1>10. req[c].what \in Decisive \cup {"add", "report"}
  BY <1>4 DEF Requests, Decisive
<1>11. Served
  <2>1. \A k \in Jobs : queue[k] # "absent" <=> k \in sent
    BY DEF QueueSafe
  <2>2. Decided(items, j) => j \in sent
    BY <1>4 DEF QueueSafe, Known, Decided
  <2>3. sent \subseteq sent' /\ lost \subseteq lost' /\ items' = items
    BY <1>1
  <2> HIDE DEF j
  <2>4. CASE req[c].what = "add"
    BY <1>4, <1>9, <2>1, <2>2, <2>3, <2>4 DEF Served
  <2>5. CASE req[c].what \in Decisive
    BY <1>4, <1>9, <2>1, <2>3, <2>5 DEF Served
  <2>6. CASE req[c].what = "report"
    BY <1>9, <2>1, <2>3, <2>6 DEF Served
  <2> QED
    BY <1>10, <2>4, <2>5, <2>6
<1>12. RequestsKept
  <2>1. ASSUME NEW x \in Callers, NEW k \in Jobs, Deciding(x, k)'
        PROVE  Deciding(x, k)
    BY <1>5, <1>6, <2>1 DEF Deciding
  <2>2. ASSUME NEW x \in Actors, NEW k \in Jobs, Deciding(x, k)
        PROVE  Deciding(x, k)' \/ queue'[k] # "queued"
    <3>1. CASE x = c
      BY <1>9, <2>2, <3>1 DEF Deciding
    <3>2. CASE x # c
      BY <1>5, <2>2, <3>2 DEF Deciding, Callers
    <3> QED
      BY <3>1, <3>2
  <2> QED
    BY <1>5, <1>6, <2>1, <2>2 DEF RequestsKept
<1> QED
  BY <1>8, <1>11, <1>12, ServedQueue

LEMMA FaultsQueue ==
  ASSUME Types, QueueSafe, hurt' = {}, hurt = {}, Fault
  PROVE  QueueSafe'
<1>1. {} \in SUBSET Jobs /\ {} \in SUBSET sent' /\ Actors \subseteq Callers
  BY DEF Callers
<1>2. ASSUME NEW o \in Actors, RequestLost(o)
      PROVE  QueueSafe'
  <2>1. /\ req[o].pc = "sent" /\ req' = [req EXCEPT ![o] = NoRequest] /\ Answered(o, {})
        /\ lost' = lost \cup Decisions({o}) /\ UNCHANGED << queue, items, paired, sent, fetched, stranded, hurt >>
    BY <1>2 DEF RequestLost
  <2>2. Answering({})
    BY <1>1, <2>1, AnsweredTyped DEF Types, TypeOK
  <2>3. CallsKept
    BY <1>1, <2>1, <2>2, AnsweredCalls
  <2>4. \A j \in Jobs : Deciding(o, j) => j \in lost'
    BY <2>1 DEF Deciding, Decisions, Decisive
  <2>5. RequestsKept
    BY <1>1, <2>1, <2>4, DroppedRequests
  <2> QED
    BY <2>1, <2>3, <2>5, ServedSame, ServedQueue
<1>3. ASSUME NEW o \in Actors, RequestTimesOut(o)
      PROVE  QueueSafe'
  <2>1. /\ Answered(o, {}) /\ req[o].pc # "none" /\ UNCHANGED << server, items, paired, history >>
        /\ op[o].pc \in Harmless
    BY <1>3 DEF RequestTimesOut, Harmless
  <2>2. Answering({})
    BY <1>1, <2>1, AnsweredTyped DEF Types, TypeOK
  <2>3. CallsKept
    BY <1>1, <2>1, <2>2, AnsweredCalls DEF history
  <2>4. RequestsKept
    BY <2>1 DEF RequestsKept, QueueSafe, SavesOn, Deciding, server, history
  <2> QED
    BY <2>1, <2>3, <2>4, ServedSame, ServedQueue DEF server, history
<1>4. CASE Unpair
  <2>1. UNCHANGED << server, client, faults, history >>
    BY <1>4 DEF Unpair
  <2> QED
    BY <2>1 DEF QueueSafe, SavesOn, Deciding, Telling, server, client, history
<1>5. CASE ClientCrash
  <2>1. /\ op' = [o \in Actors |-> Idle] /\ items' = items
        /\ lost' = lost \cup {op[o].job : o \in {x \in Actors : op[x].pc \in {"fetching", "settling", "telling"}}}
        /\ UNCHANGED << server, paired, sent, fetched >>
    BY <1>5 DEF ClientCrash
  <2>2. CallsKept
    BY <2>1, IdleTyped DEF CallsKept, Telling
  <2>3. RequestsKept
    BY <2>1 DEF RequestsKept, QueueSafe, SavesOn, Deciding, server
  <2> QED
    BY <2>1, <2>2, <2>3, ServedSame, ServedQueue DEF server
<1>6. CASE ServerCrash
  <2>1. /\ req' = [c \in Callers |-> NoRequest] /\ op' = [o \in Actors |-> Resumed(o, {})] /\ queue' = queue
        /\ lost' = lost \cup Decisions({c \in Callers : req[c].pc # "none"})
        /\ UNCHANGED << items, paired, sent, fetched, stranded >>
    BY <1>6 DEF ServerCrash
  <2>2. Answering({})
    BY <1>1, <2>1, ResumedTyped DEF Answering, Types, TypeOK
  <2>3. CallsKept
    BY <1>1, <2>1, <2>2, AnsweredCalls
  <2>4. \A c \in Callers : req'[c].pc = "none"
    BY <2>1, IdleTyped
  <2>5. \A c \in Callers, j \in Jobs : Deciding(c, j) => j \in lost'
    BY <2>1 DEF Deciding, Decisions, Decisive
  <2>6. RequestsKept
    BY <1>1, <2>4, <2>5 DEF RequestsKept, Deciding
  <2> QED
    BY <2>1, <2>3, <2>6, ServedSame, ServedQueue
<1>7. ASSUME NEW o \in Actors, SaveFails(o)
      PROVE  QueueSafe'
  <2>1. /\ op[o].pc \in Saving /\ op' = [op EXCEPT ![o] = Rejected(o)] /\ items' = items
        /\ lost' = lost \cup (IF op[o].pc = "settling" THEN {op[o].job} ELSE {})
        /\ UNCHANGED << server, paired, sent, fetched >>
    BY <1>7 DEF SaveFails
  <2>2. Rejected(o).pc \in {"idle", "looping"} /\ Rejected(o).todo \in {{}, op[o].todo}
    BY RejectedTyped DEF Types, TypeOK
  <2>3. op'[o] = Rejected(o) /\ \A x \in Actors \ {o} : op'[x] = op[x]
    BY <2>1 DEF Types, TypeOK
  <2>4. ASSUME NEW x \in Actors
        PROVE  op'[x].todo \subseteq sent' /\ (op'[x].pc = "appending" => op'[x].job \in sent')
    BY <2>1, <2>2, <2>3 DEF QueueSafe
  <2>5. ASSUME NEW x \in Actors, NEW j \in Jobs, Telling(x, j)
        PROVE  Telling(x, j)' \/ j \in lost'
    BY <2>1, <2>3, <2>5 DEF Telling, Saving
  <2>6. CallsKept
    BY <2>4, <2>5 DEF CallsKept
  <2>7. RequestsKept
    BY <2>1 DEF RequestsKept, QueueSafe, SavesOn, Deciding, server
  <2> QED
    BY <2>1, <2>6, <2>7, ServedSame, ServedQueue DEF server
<1>8. ASSUME NEW c \in Callers, QueueSaveFails(c)
      PROVE  QueueSafe'
  <2>1. /\ req[c].pc = "saving" /\ req' = [req EXCEPT ![c] = NoRequest] /\ Answered(c, {}) /\ queue' = queue
        /\ lost' = lost \cup Decisions({c}) /\ UNCHANGED << items, paired, sent, fetched, stranded >>
    BY <1>8 DEF QueueSaveFails
  <2>2. Answering({})
    BY <1>1, <2>1, AnsweredTyped DEF Types, TypeOK
  <2>3. CallsKept
    BY <1>1, <2>1, <2>2, AnsweredCalls
  <2>4. \A x \in Callers \ {c} : req'[x] = req[x] /\ req'[x].pc # "saving"
    BY <2>1 DEF QueueSafe, SavesOn, Types, TypeOK
  <2>5. req'[c].pc = "none"
    BY <2>1, IdleTyped DEF Types, TypeOK
  <2>6. \A j \in Jobs : Deciding(c, j) => j \in lost'
    BY <2>1 DEF Deciding, Decisions, Decisive
  <2>7. ASSUME NEW x \in Callers, NEW j \in Jobs
        PROVE  /\ Deciding(x, j)' => Deciding(x, j)
               /\ Deciding(x, j) => Deciding(x, j)' \/ j \in lost'
    BY <2>4, <2>5, <2>6 DEF Deciding
  <2>8. RequestsKept
    BY <1>1, <2>4, <2>5, <2>7 DEF RequestsKept
  <2> QED
    BY <2>1, <2>3, <2>8, ServedSame, ServedQueue
<1> QED
  BY <1>2, <1>3, <1>4, <1>5, <1>6, <1>7, <1>8 DEF Fault

LEMMA NextQueue ==
  ASSUME Types, ItemsInv, QueueInv, Next
  PROVE  QueueInv'
<1> SUFFICES ASSUME hurt' = {} PROVE QueueSafe'
  BY DEF QueueInv
<1>1. hurt = {}
  BY HurtGrows
<1>2. QueueSafe
  BY <1>1 DEF QueueInv
<1>3. CASE PollOnce \/ PollStep
  BY <1>1, <1>3, ClientStepQueue DEF Actors
<1>4. CASE \E o \in Actors : ClientStep(o)
  BY <1>1, <1>4, ClientStepQueue
<1>5. CASE \E j \in Jobs, act \in {"accept", "decline"} : Click(j, act)
  BY <1>1, <1>5, ClientStepQueue DEF Actors
<1>6. CASE \E j \in Jobs : Send(j)
  BY <1>2, <1>6, SendQueue
<1>7. CASE \E c \in Callers : ServerStep(c)
  BY <1>2, <1>7, ServeListQueue, OperateQueue, QueueSavedQueue DEF ServerStep
<1>8. CASE Fault
  BY <1>1, <1>2, <1>8, FaultsQueue
<1> QED
  BY <1>3, <1>4, <1>5, <1>6, <1>7, <1>8 DEF Next, Fault

LEMMA InitQueue ==
  ASSUME Init
  PROVE  QueueInv
<1>1. /\ \A o \in Actors : op[o].pc = "idle" /\ op[o].todo = {}
      /\ \A c \in Callers : req[c].pc = "none"
      /\ \A j \in Jobs : queue[j] = "absent" /\ items[j] = "absent"
      /\ sent = {}
  BY IdleTyped DEF Init, Nothing
<1> QED
  BY <1>1 DEF QueueInv, QueueSafe, Known, Decided, Deciding

LEMMA QuietAgree ==
  ASSUME Types, QueueInv
  PROVE  QueuesAgree
<1> SUFFICES ASSUME Quiet, hurt = {}, NEW j \in sent \ lost
             PROVE  queue[j] # "absent" /\ (queue[j] = "queued" <=> items[j] \in {"absent", "pending"})
  BY DEF QueuesAgree
<1>1. QueueSafe /\ j \in Jobs /\ queue[j] \in ServerStates
  BY DEF QueueInv, Types, TypeOK
<1>2. queue[j] # "absent"
  BY <1>1 DEF QueueSafe
<1>3. \A o \in Actors : ~Telling(o, j) /\ ~Deciding(o, j)
  BY DEF Quiet, Telling, Deciding, Callers
<1>4. ~(queue[j] = "queued" /\ Decided(items, j))
  BY <1>1, <1>3 DEF QueueSafe
<1>5. queue[j] \in {"accepted", "declined"} => Decided(items, j)
  BY <1>1 DEF QueueSafe
<1> QED
  BY <1>1, <1>2, <1>4, <1>5 DEF ServerStates, Decided

\* When friend mode is at rest and neither file was damaged, every job its sender
\* was told of is in the server's queue, and undecided there exactly when the client
\* has not decided, unless the decision was lost on its way.
THEOREM QueuesKept == Spec => []QueuesAgree
<1>1. Init => QueueInv
  BY InitQueue
<1>2. Types /\ ItemsInv /\ QueueInv /\ [Next]_vars => QueueInv'
  <2>1. ASSUME QueueInv, UNCHANGED vars
        PROVE  QueueInv'
    BY <2>1 DEF vars, history, QueueInv, QueueSafe, SavesOn, Deciding, Telling
  <2> QED
    BY <2>1, NextQueue
<1>3. Types /\ QueueInv => QueuesAgree
  BY QuietAgree
<1> QED
  BY <1>1, <1>2, <1>3, ItemsKept, PTL DEF Spec
=============================================================================
