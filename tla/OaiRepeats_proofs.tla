---- MODULE OaiRepeats_proofs ----
(***************************************************************************)
(* No page is stored twice: NoPageTwice of OaiHarvest.  Unless a live run  *)
(* outlives its lease there is one run at a time (RunInv), so the tokens   *)
(* it has in memory are those of its job, and the page it stores is the    *)
(* one the row expects.                                                    *)
(*                                                                         *)
(* Within a job the check of _oai_token_error keeps the next token out of  *)
(* what the job has stored (Distinct).  Across jobs nothing is checked,    *)
(* and it is the list that must not come back: every page stored is the    *)
(* first one or the next one of a page stored (Linked), so a next token    *)
(* that is there already would be the next one of two pages (Chained).     *)
(* That is an invariant of one step; no induction along the list.          *)
(***************************************************************************)
EXTENDS OaiCoverage_proofs

\* Where the tokens in memory are at least those of the row's pages.
Reads == Loop \cup {"stored"}

\* The row says that one more page is to come.
Expected(j) == job[j].status = "running" /\ ~job[j].error /\ ~job[j].finished

\* A job that was ended short of the end of its list and may be continued.
LeftOff(j) == job[j].status \in Resumable /\ ~job[j].finished

Distinct(j) ==
    /\ IsInjective(hist[j].log)
    /\ Pages(j) \ {None} \subseteq job[j].seen
    /\ Expected(j) => job[j].token \notin Pages(j)

\* Each of the pages, and t, is the first page or comes after one of them.
Linked(next, pages, t) ==
    \A c \in pages \cup {t} : c = None \/ \E d \in pages : next[d] = c

Chained(j) ==
    Acyclic => /\ Linked(list.next, Stored(j), job[j].token)
               /\ Pages(j) \cap hist[j].before = {}
               /\ Expected(j) \/ LeftOff(j) => job[j].token \notin Stored(j)
               /\ job[j].finished => job[j].token = None

\* What the only run knows agrees with the row of its job, or of the job that
\* the one it is about to create continues.
Agrees(p) ==
    LET j == me[p].job
    IN  /\ pc[p] \in OnJob => me[p].token = job[j].token
        /\ pc[p] \in Reads => Pages(j) \ {None} \subseteq me[p].seen
        /\ pc[p] = "creating" /\ j # NoJob =>
              /\ job[j].status \in Resumable
              /\ me[p].token = job[j].token
              /\ me[p].token # None

Fresh ==
    stalls = 0 => /\ \A j \in Job : Distinct(j) /\ Chained(j)
                  /\ \A p \in Proc : Agrees(p)

RepeatInv == CoverInv /\ RunInv /\ Fresh

-----------------------------------------------------------------------------
(* Lists and sets of their pages.                                          *)

\* A sequence without repetitions has as many elements as it is long.
LEMMA CountDistinct ==
    ASSUME NEW log \in Seq(Cursor), IsInjective(log)
    PROVE  Cardinality({log[i] : i \in DOMAIN log}) = Len(log)
<1> DEFINE S == {log[i] : i \in DOMAIN log}
           n == Len(log)
<1>1. n \in Nat /\ DOMAIN log = 1..n
  OBVIOUS
<1>2. log \in [1..n -> S]
  <2>1. log \in [1..n -> Cursor]
    OBVIOUS
  <2> QED BY <1>1, <2>1
<1>3. \A a, b \in 1..n : log[a] = log[b] => a = b
  BY <1>1 DEF IsInjective
<1>4. \A c \in S : \E i \in 1..n : log[i] = c
  BY <1>1
<1>5. log \in Bijection(1..n, S)
  BY <1>2, <1>3, <1>4, <1>1 DEF Bijection, Injection, Surjection, IsInjective
<1>6. ExistsBijection(1..n, S)
  BY <1>5 DEF ExistsBijection
<1> HIDE DEF S, n
<1>7. Cardinality(S) = n
  BY <1>1, <1>6, FS_CountingElements
<1> QED BY <1>7 DEF S, n

\* A new element keeps a sequence without repetitions.
LEMMA AppendDistinct ==
    ASSUME NEW log \in Seq(Cursor), NEW t \in Cursor, IsInjective(log),
           t \notin {log[i] : i \in DOMAIN log}
    PROVE  IsInjective(Append(log, t))
<1> DEFINE more == Append(log, t)
<1>1. /\ Len(log) \in Nat /\ DOMAIN log = 1..Len(log) /\ DOMAIN more = 1..(Len(log) + 1)
      /\ \A i \in 1..Len(log) : more[i] = log[i]
      /\ more[Len(log) + 1] = t
  OBVIOUS
<1> HIDE DEF more
<1>2. \A i \in DOMAIN more : i \in DOMAIN log \/ i = Len(log) + 1
  BY <1>1
<1>3. \A i \in DOMAIN log : more[i] # t
  BY <1>1
<1>4. \A i, k \in DOMAIN more : more[i] = more[k] => i = k
  BY <1>1, <1>2, <1>3 DEF IsInjective
<1> QED BY <1>4 DEF more, IsInjective

\* On a list that does not come back, the page after t is not among the pages
\* that lead to t.
LEMMA NextIsNew ==
    ASSUME NEW pages \in SUBSET Cursor, NEW t \in Cursor, Acyclic,
           Linked(list.next, pages, t), t \notin pages,
           list.next[t] # None
    PROVE  list.next[t] \notin pages \cup {t}
<1> SUFFICES ASSUME list.next[t] \in pages \cup {t} PROVE FALSE
  OBVIOUS
<1>1. PICK d \in pages : list.next[d] = list.next[t]
  BY DEF Linked
<1>2. d \in Cursor /\ d # t
  BY <1>1
<1> QED BY <1>1, <1>2 DEF Acyclic

LEMMA LinkedOn ==
    ASSUME NEW next, NEW pages, NEW t, Linked(next, pages, t)
    PROVE  Linked(next, pages \cup {t}, next[t])
BY DEF Linked

-----------------------------------------------------------------------------
(* One step.                                                               *)

LEMMA RepeatTypes ==
    ASSUME RepeatInv
    PROVE  /\ job \in [Job -> Row] /\ hist \in [Job -> History]
           /\ pc \in [Proc -> Label] /\ me \in [Proc -> Locals]
           /\ latest \in [Mode -> Job \cup {NoJob}]
           /\ list.next \in [Cursor -> Cursor]
           /\ \A p \in Proc : pc[p] \in OnJob => me[p].job \in Job
           /\ \A j \in Job : Pages(j) \subseteq Cursor /\ Stored(j) \subseteq Cursor
<1>1. /\ job \in [Job -> Row] /\ hist \in [Job -> History]
      /\ pc \in [Proc -> Label] /\ me \in [Proc -> Locals]
      /\ latest \in [Mode -> Job \cup {NoJob}]
      /\ list \in Lists
      /\ \A p \in Proc : pc[p] \in OnJob => me[p].job \in Job
  BY DEF RepeatInv, RunInv, TypeInv, TypeOK, WorksOnJob
<1>2. list.next \in [Cursor -> Cursor]
  BY <1>1, HarvestAssumption
<1>3. ASSUME NEW j \in Job
      PROVE  Pages(j) \subseteq Cursor /\ Stored(j) \subseteq Cursor
  <2>1. hist[j].log \in Seq(Cursor) /\ hist[j].before \subseteq Cursor
    BY <1>1 DEF History
  <2>2. \A i \in DOMAIN hist[j].log : hist[j].log[i] \in Cursor
    BY <2>1
  <2> QED BY <2>1, <2>2 DEF Pages, Stored
<1> QED BY <1>1, <1>2, <1>3

\* What concerns the repeats of job j is as before.
SameRow(j) ==
    /\ job'[j].status = job[j].status
    /\ job'[j].error = job[j].error
    /\ job'[j].finished = job[j].finished
    /\ job'[j].token = job[j].token
    /\ job[j].seen \subseteq job'[j].seen
    /\ hist'[j].before = hist[j].before
    /\ hist'[j].log = hist[j].log

LEMMA SameRows ==
    ASSUME UNCHANGED <<job, hist>>
    PROVE  \A j \in Job : SameRow(j)
BY DEF SameRow

LEMMA JobFresh ==
    ASSUME RepeatInv, [Next]_vars, stalls = 0, NEW j \in Job, SameRow(j)
    PROVE  Distinct(j)' /\ Chained(j)'
<1>1. Distinct(j) /\ Chained(j)
  BY DEF RepeatInv, Fresh
<1>2. UNCHANGED list
  BY WorldMoves DEF RepeatInv
<1>3. Stored(j)' = Stored(j) /\ Pages(j)' = Pages(j)
  BY StoredKept DEF SameRow, Pages
<1>4. Acyclic' = Acyclic
  BY <1>2 DEF Acyclic
<1>5. Expected(j)' = Expected(j) /\ LeftOff(j)' = LeftOff(j)
  BY DEF SameRow, Expected, LeftOff
<1>6. Distinct(j)'
  BY <1>1, <1>3, <1>5 DEF Distinct, SameRow
<1>7. Chained(j)'
  BY <1>1, <1>2, <1>3, <1>4, <1>5 DEF Chained, SameRow
<1> QED BY <1>6, <1>7

\* A run that is under way is the only one.
LEMMA Alone ==
    ASSUME RepeatInv, stalls = 0, NEW p \in Proc, pc[p] # "idle" \/ ~scope.live
    PROVE  \A q \in Proc \ {p} : pc[q] = "idle"
BY DEF RepeatInv, RunInv, OneRun, Held

\* An idle run has nothing to agree with.
LEMMA IdleAgrees ==
    ASSUME NEW p \in Proc, pc[p] \notin OnJob \cup {"creating"}
    PROVE  Agrees(p)
BY DEF Agrees, Reads, Loop, OnJob

\* The only run moves, and no row changes.
LEMMA MoverFresh ==
    ASSUME RepeatInv, [Next]_vars, stalls = 0, NEW p \in Proc, pc[p] # "idle" \/ ~scope.live,
           NEW label, NEW mine, Goto(p, label, mine),
           \A j \in Job : Distinct(j)' /\ Chained(j)',
           label \in OnJob \cup {"creating"} => Agrees(p)'
    PROVE  Fresh'
<1>1. /\ pc'[p] = label
      /\ \A q \in Proc \ {p} : pc'[q] = "idle"
  BY Alone, RepeatTypes DEF Goto
<1>2. \A q \in Proc : Agrees(q)'
  <2>1. "idle" \notin OnJob \cup {"creating"}
    BY DEF OnJob
  <2> QED BY <1>1, <2>1 DEF Agrees, Reads, Loop, OnJob
<1> QED BY <1>2 DEF Fresh

\* The only run goes on with the same cursor.
LEMMA OnwardFresh ==
    ASSUME RepeatInv, [Next]_vars, stalls = 0, \A j \in Job : SameRow(j),
           NEW p \in Proc, pc[p] \in OnJob,
           NEW label \in OnJob, NEW mine, Goto(p, label, mine),
           mine.job = me[p].job, mine.token = me[p].token,
           label \in Reads => pc[p] \in Reads /\ mine.seen = me[p].seen
    PROVE  Fresh'
<1>1. pc'[p] = label /\ me'[p] = mine
  BY RepeatTypes DEF Goto
<1>2. PICK j \in Job : j = me[p].job
  BY RepeatTypes
<1>3. Agrees(p) /\ SameRow(j)
  BY DEF RepeatInv, Fresh
<1>4. Pages(j)' = Pages(j)
  BY <1>3 DEF SameRow, Pages
<1>5. label # "creating" /\ pc[p] # "idle"
  BY DEF OnJob
<1>6. Agrees(p)'
  BY <1>1, <1>2, <1>3, <1>4, <1>5 DEF Agrees, SameRow
<1> QED BY <1>5, <1>6, JobFresh, MoverFresh

\* The run has no job, before it or behind it.
LEMMA OutFresh ==
    ASSUME RepeatInv, [Next]_vars, stalls = 0, \A j \in Job : SameRow(j),
           NEW p \in Proc, pc[p] # "idle" \/ ~scope.live,
           NEW label \in {"idle", "looking", "continuing", "leaving"}, NEW mine,
           Goto(p, label, mine)
    PROVE  Fresh'
<1>1. label \notin OnJob \cup {"creating"}
  BY DEF OnJob
<1> QED BY <1>1, JobFresh, MoverFresh

\* The run ends its job with the cursor it has.
LEMMA EndingFresh ==
    ASSUME RepeatInv, [Next]_vars, stalls = 0, \A j \in Job : SameRow(j),
           NEW p \in Proc, pc[p] \in OnJob, NEW status, NEW pages, Ending(p, status, pages)
    PROVE  Fresh'
<1> DEFINE mine == [me[p] EXCEPT !.end = status, !.pages = pages]
<1>1. mine.job = me[p].job /\ mine.token = me[p].token
  BY RepeatTypes DEF Locals
<1>2. Goto(p, "finishing", mine)
  BY DEF Ending
<1>3. "finishing" \in OnJob /\ "finishing" \notin Reads
  BY DEF OnJob, Reads, Loop
<1> HIDE DEF mine
<1> QED BY <1>1, <1>2, <1>3, OnwardFresh

-----------------------------------------------------------------------------
(* The steps.                                                              *)

\* Leases, days and deadlines.
LEMMA WorldFresh ==
    ASSUME RepeatInv, [Next]_vars, stalls = 0,
           \/ ScopeExpires \/ UpstreamExpires \/ WorkerTakes \/ WorkerReleases
           \/ Tomorrow \/ UNCHANGED vars \/ \E i \in Job : DeadlinePasses(i)
    PROVE  Fresh'
<1>1. UNCHANGED locals /\ \A j \in Job : SameRow(j)
  <2>1. job \in [Job -> Row]
    BY RepeatTypes
  <2>2. CASE \E i \in Job : DeadlinePasses(i)
    BY <2>1, <2>2 DEF DeadlinePasses, SameRow, Row
  <2>3. CASE \/ ScopeExpires \/ UpstreamExpires \/ WorkerTakes \/ WorkerReleases
             \/ Tomorrow \/ UNCHANGED vars
    BY <2>3 DEF ScopeExpires, UpstreamExpires, WorkerTakes, WorkerReleases, Tomorrow,
                vars, rows, locals, SameRow
  <2> QED BY <2>2, <2>3
<1>2. ASSUME NEW p \in Proc
      PROVE  Agrees(p)'
  <2>1. Agrees(p) /\ pc'[p] = pc[p] /\ me'[p] = me[p]
    BY <1>1 DEF RepeatInv, Fresh, locals
  <2>2. CASE pc[p] \notin OnJob \cup {"creating"}
    BY <2>1, <2>2 DEF Agrees, Reads, Loop, OnJob
  <2>3. CASE pc[p] = "creating" /\ me[p].job = NoJob
    BY <2>1, <2>3 DEF Agrees, Reads, Loop, OnJob
  <2>4. CASE pc[p] \in OnJob \/ (pc[p] = "creating" /\ me[p].job # NoJob)
    <3>1. PICK j \in Job : j = me[p].job
      BY <2>4, RepeatTypes DEF Locals
    <3>2. SameRow(j) /\ Pages(j)' = Pages(j)
      BY <1>1 DEF SameRow, Pages
    <3> QED BY <2>1, <3>1, <3>2 DEF Agrees, SameRow
  <2> QED BY <2>2, <2>3, <2>4
<1> QED BY <1>1, <1>2, JobFresh DEF Fresh

\* A run starts, or leaves.
LEMMA StartFresh ==
    ASSUME RepeatInv, [Next]_vars, stalls = 0, NEW p \in Proc,
           \/ \E m \in Mode : Start(p, m)
           \/ FindRunning(p) \/ FindResumable(p) \/ NoJobLeft(p)
           \/ Leave(p) \/ Crash(p) \/ Interrupt(p)
    PROVE  Fresh'
<1>1. \A j \in Job : SameRow(j)
  <2>1. UNCHANGED <<job, hist>>
    BY DEF Start, FindRunning, FindResumable, NoJobLeft, Leave, Crash, Interrupt, rows
  <2> QED BY <2>1, SameRows
<1>2. CASE (\E m \in Mode : Start(p, m)) \/ NoJobLeft(p) \/ Leave(p) \/ Crash(p) \/ Interrupt(p)
  <2>1. pc[p] # "idle" \/ ~scope.live
    BY <1>2 DEF Start, NoJobLeft, Leave, Crash, Interrupt
  <2>2. \E label \in {"idle", "looking", "continuing", "leaving"} : \E mine : Goto(p, label, mine)
    BY <1>2 DEF Start, NoJobLeft, Leave, Crash, Interrupt, Leaving
  <2> QED BY <1>1, <2>1, <2>2, OutFresh
<1>3. CASE FindRunning(p)
  <2>0. pc[p] # "idle"
    BY <1>3 DEF FindRunning
  <2>1. CASE Goto(p, "continuing", me[p])
    BY <1>1, <2>0, <2>1, OutFresh
  <2>2. ASSUME NEW i \in Running(me[p].mode), Goto(p, "loading", FromRow(i))
        PROVE  Fresh'
    <3>1. i \in Job /\ FromRow(i).job = i /\ FromRow(i).token = job[i].token
      BY <2>2 DEF Running, FromRow, Blank
    <3>2. pc'[p] = "loading" /\ me'[p] = FromRow(i)
      BY <2>2, RepeatTypes DEF Goto
    <3>3. Agrees(p)'
      BY <1>1, <3>1, <3>2 DEF Agrees, Reads, Loop, SameRow
    <3> QED BY <1>1, <2>0, <2>2, <3>3, JobFresh, MoverFresh
  <2> QED BY <1>3, <2>1, <2>2 DEF FindRunning
<1>4. CASE FindResumable(p)
  <2> DEFINE m == me[p].mode
             token == ResumableToken(m)
             mine == [me[p] EXCEPT !.token = token,
                         !.job = IF token = None THEN NoJob ELSE latest[m]]
  <2>1. Goto(p, "creating", mine) /\ pc[p] # "idle"
    BY <1>4 DEF FindResumable
  <2>2. me[p] \in Locals /\ m \in Mode /\ latest[m] \in Job \cup {NoJob}
    BY RepeatTypes DEF Locals
  <2>3. mine.token = token /\ mine.job = IF token = None THEN NoJob ELSE latest[m]
    BY <2>2 DEF Locals
  <2>4. pc'[p] = "creating" /\ me'[p] = mine
    BY <2>1, RepeatTypes DEF Goto
  <2>5. "creating" \notin OnJob /\ "creating" \notin Reads
    BY DEF OnJob, Reads, Loop
  <2>6. Agrees(p)'
    <3>1. CASE token = None
      BY <2>3, <2>4, <2>5, <3>1 DEF Agrees
    <3>2. CASE token # None
      <4>1. PICK i : i = latest[m]
        OBVIOUS
      <4>2. i \in Job /\ job[i].status \in Resumable /\ token = job[i].token
        BY <2>2, <3>2, <4>1, NamesFact DEF ResumableToken
      <4>3. job'[i].status = job[i].status /\ job'[i].token = job[i].token
        BY <1>1, <4>2 DEF SameRow
      <4>4. me'[p].job = i /\ me'[p].token = token
        BY <2>3, <2>4, <3>2, <4>1
      <4> HIDE DEF token
      <4> QED BY <2>4, <2>5, <3>2, <4>2, <4>3, <4>4 DEF Agrees
    <3> QED BY <3>1, <3>2
  <2> HIDE DEF mine
  <2> QED BY <1>1, <2>1, <2>6, JobFresh, MoverFresh
<1> QED BY <1>2, <1>3, <1>4

\* From the first look at the row to the request.
LEMMA AskFresh ==
    ASSUME RepeatInv, [Next]_vars, stalls = 0, NEW p \in Proc,
           \/ Load(p) \/ RenewScope(p) \/ Ask(p) \/ RecordPage(p) \/ GiveUpWait(p)
           \/ RecordRequest(p) \/ Fence(p) \/ DeadlineStops(p) \/ Send(p)
    PROVE  Fresh'
<1>1. pc[p] \in OnJob /\ pc[p] # "idle"
  BY DEF Load, RenewScope, Ask, RecordPage, GiveUpWait, RecordRequest, Fence, DeadlineStops, Send,
         OnJob
<1>2. /\ me[p] \in Locals /\ me[p].job \in Job
      /\ job \in [Job -> Row] /\ hist \in [Job -> History]
  BY <1>1, RepeatTypes
<1>3. \A j \in Job : SameRow(j)
  <2>1. CASE RecordPage(p)
    BY <1>2, <2>1 DEF RecordPage, SameRow, Row
  <2>2. CASE RecordRequest(p)
    BY <1>2, <2>2 DEF RecordRequest, SameRow, Row
  <2>3. CASE Send(p)
    BY <1>2, <2>3 DEF Send, SameRow, History, rows
  <2>4. CASE \/ Load(p) \/ RenewScope(p) \/ Ask(p) \/ GiveUpWait(p) \/ Fence(p) \/ DeadlineStops(p)
    BY <2>4, SameRows DEF Load, RenewScope, Ask, GiveUpWait, Fence, DeadlineStops, rows
  <2> QED BY <2>1, <2>2, <2>3, <2>4
<1>4. ASSUME NEW label \in Loop, pc[p] \in Loop, Goto(p, label, me[p])
      PROVE  Fresh'
  <2>1. label \in OnJob /\ pc[p] \in Reads
    BY <1>4 DEF Loop, OnJob, Reads
  <2> QED BY <1>1, <1>3, <1>4, <2>1, OnwardFresh
<1>5. ASSUME Leaving(p)
      PROVE  Fresh'
  BY <1>1, <1>3, <1>5, OutFresh DEF Leaving
<1>6. CASE Load(p)
  <2>1. CASE me[p].error
    BY <1>1, <1>3, <1>6, <2>1, EndingFresh DEF Load
  <2>2. CASE ~me[p].error
    <3> DEFINE mine == [me[p] EXCEPT !.seen = job[me[p].job].seen]
               label == IF me[p].finished THEN "marking" ELSE "looping"
    <3>1. PICK j \in Job : j = me[p].job
      BY <1>2
    <3>2. mine.job = j /\ mine.token = me[p].token /\ mine.seen = job[j].seen
      BY <1>2, <3>1 DEF Locals
    <3>3. Goto(p, label, mine)
      BY <1>6, <2>2 DEF Load
    <3>4. pc'[p] = label /\ me'[p] = mine
      BY <3>3, RepeatTypes DEF Goto
    <3>5. label \in {"marking", "looping"}
      OBVIOUS
    <3> HIDE DEF mine, label
    <3>6. Agrees(p) /\ Distinct(j) /\ Pages(j)' = Pages(j) /\ SameRow(j)
      BY <1>3 DEF RepeatInv, Fresh, SameRow, Pages
    <3>7. Agrees(p)'
      BY <1>1, <3>1, <3>2, <3>4, <3>5, <3>6 DEF Agrees, Distinct, SameRow
    <3> QED BY <1>1, <1>3, <3>3, <3>7, JobFresh, MoverFresh
  <2> QED BY <2>1, <2>2
<1>7. CASE RenewScope(p)
  BY <1>4, <1>5, <1>7 DEF RenewScope, Loop
<1>8. CASE Ask(p)
  <2>1. ASSUME NEW status, Goto(p, "recording", [me[p] EXCEPT !.end = status])
        PROVE  Fresh'
    <3> DEFINE mine == [me[p] EXCEPT !.end = status]
    <3>1. mine.job = me[p].job /\ mine.token = me[p].token
      BY <1>2 DEF Locals
    <3>2. "recording" \in OnJob /\ "recording" \notin Reads
      BY DEF OnJob, Reads, Loop
    <3>3. Goto(p, "recording", mine)
      BY <2>1
    <3> HIDE DEF mine
    <3> QED BY <1>1, <1>3, <3>1, <3>2, <3>3, OnwardFresh
  <2>2. CASE Ending(p, "budget_exceeded", me[p].pages)
    BY <1>1, <1>3, <2>2, EndingFresh
  <2>3. CASE Goto(p, "waiting", me[p])
    BY <1>4, <1>8, <2>3 DEF Ask, Loop
  <2> QED BY <1>8, <2>1, <2>2, <2>3 DEF Ask
<1>9. CASE RecordPage(p) \/ GiveUpWait(p) \/ DeadlineStops(p)
  BY <1>1, <1>3, <1>9, EndingFresh DEF RecordPage, GiveUpWait, DeadlineStops
<1>10. CASE RecordRequest(p)
  <2>1. PICK counted : Goto(p, "fencing", [me[p] EXCEPT !.requests = counted])
    BY <1>10 DEF RecordRequest
  <2> DEFINE mine == [me[p] EXCEPT !.requests = counted]
  <2>2. mine.job = me[p].job /\ mine.token = me[p].token /\ mine.seen = me[p].seen
    BY <1>2 DEF Locals
  <2>3. "fencing" \in OnJob /\ pc[p] \in Reads
    BY <1>10 DEF RecordRequest, Reads, Loop, OnJob
  <2>4. Goto(p, "fencing", mine)
    BY <2>1
  <2> HIDE DEF mine
  <2> QED BY <1>1, <1>3, <2>2, <2>3, <2>4, OnwardFresh
<1>11. CASE Fence(p)
  BY <1>4, <1>5, <1>11 DEF Fence, Loop
<1>12. CASE Send(p)
  BY <1>4, <1>12 DEF Send, Loop
<1> QED BY <1>6, <1>7, <1>8, <1>9, <1>10, <1>11, <1>12

\* The answer, and the watermark.
LEMMA AnswerFresh ==
    ASSUME RepeatInv, [Next]_vars, stalls = 0, NEW p \in Proc,
           FetchFails(p) \/ PageArrives(p) \/ AfterSuccess(p) \/ SetWatermark(p)
    PROVE  Fresh'
<1>1. pc[p] \in OnJob
  BY DEF FetchFails, PageArrives, AfterSuccess, SetWatermark, OnJob
<1>2. me[p] \in Locals
  BY RepeatTypes
<1>3. \A j \in Job : SameRow(j)
  BY SameRows DEF FetchFails, PageArrives, AfterSuccess, SetWatermark, rows
<1>4. CASE FetchFails(p)
  <2>1. PICK status : Goto(p, "recording", [me[p] EXCEPT !.end = status])
    BY <1>4 DEF FetchFails
  <2> DEFINE mine == [me[p] EXCEPT !.end = status]
  <2>2. mine.job = me[p].job /\ mine.token = me[p].token
    BY <1>2 DEF Locals
  <2>3. "recording" \in OnJob /\ "recording" \notin Reads
    BY DEF OnJob, Reads, Loop
  <2>4. Goto(p, "recording", mine)
    BY <2>1
  <2> HIDE DEF mine
  <2> QED BY <1>1, <1>3, <2>2, <2>3, <2>4, OnwardFresh
<1>5. CASE PageArrives(p)
  <2> DEFINE mine == [me[p] EXCEPT !.response = today]
  <2>1. mine.job = me[p].job /\ mine.token = me[p].token /\ mine.seen = me[p].seen
    BY <1>2 DEF Locals
  <2>2. "fetched" \in OnJob /\ pc[p] \in Reads
    BY <1>5 DEF PageArrives, Reads, Loop, OnJob
  <2>3. Goto(p, "fetched", mine)
    BY <1>5 DEF PageArrives
  <2> HIDE DEF mine
  <2> QED BY <1>1, <1>3, <2>1, <2>2, <2>3, OnwardFresh
<1>6. CASE AfterSuccess(p)
  <2>1. CASE me[p].error
    BY <1>1, <1>3, <1>6, <2>1, EndingFresh DEF AfterSuccess
  <2>2. CASE ~me[p].error
    <3>1. PICK label \in {"marking", "looping"} : Goto(p, label, me[p])
      BY <1>6, <2>2 DEF AfterSuccess
    <3>2. label \in OnJob /\ pc[p] \in Reads
      BY <1>6, <3>1 DEF AfterSuccess, OnJob, Reads
    <3> QED BY <1>1, <1>3, <3>1, <3>2, OnwardFresh
  <2> QED BY <2>1, <2>2
<1>7. CASE SetWatermark(p)
  BY <1>1, <1>3, <1>7, EndingFresh DEF SetWatermark
<1> QED BY <1>4, <1>5, <1>6, <1>7

\* A new job expects the page that the job it continues would have stored next.
LEMMA CreateFresh ==
    ASSUME RepeatInv, [Next]_vars, stalls = 0, NEW p \in Proc, CreateJob(p)
    PROVE  Fresh'
<1>1. PICK j \in NotUsed :
         /\ job' = [job EXCEPT ![j] = [Unused EXCEPT !.status = "running",
                                          !.mode = me[p].mode, !.token = me[p].token]]
         /\ hist' = [hist EXCEPT ![j].start = me[p].token,
                        ![j].before = IF me[p].job = NoJob THEN {} ELSE Stored(me[p].job)]
         /\ Goto(p, "loading", [me[p] EXCEPT !.job = j])
  BY DEF CreateJob
<1> DEFINE before == IF me[p].job = NoJob THEN {} ELSE Stored(me[p].job)
           mine == [me[p] EXCEPT !.job = j]
<1>2. /\ job \in [Job -> Row] /\ hist \in [Job -> History] /\ hist[j] \in History
      /\ me[p] \in Locals
      /\ j \in Job /\ hist[j].log = <<>>
      /\ pc[p] = "creating" /\ Agrees(p)
      /\ me[p].job = NoJob => me[p].token = None
  <2>1. j \in Job /\ job[j].status = "none" /\ pc[p] = "creating"
    BY <1>1 DEF CreateJob, NotUsed
  <2>2. hist[j].log = <<>> /\ Continues(p)
    BY <2>1 DEF RepeatInv, CoverInv, BudgetInv, CursorInv, NothingStored
  <2> QED BY <2>1, <2>2, RepeatTypes DEF RepeatInv, Fresh, Continues
<1>3. UNCHANGED list
  BY WorldMoves DEF RepeatInv
<1>4. /\ job'[j].status = "running" /\ job'[j].token = me[p].token
      /\ job'[j].finished = FALSE /\ job'[j].error = FALSE
  BY <1>1, <1>2 DEF Unused
<1>5. hist'[j].before = before /\ hist'[j].log = <<>>
  <2> HIDE DEF before
  <2>1. hist' = [hist EXCEPT ![j].start = me[p].token, ![j].before = before]
    BY <1>1 DEF before
  <2> QED BY <1>2, <2>1 DEF History
<1>6. Pages(j)' = {} /\ Stored(j)' = before
  BY <1>5 DEF Pages, Stored
<1>7. Acyclic => Linked(list.next, before, me[p].token) /\ me[p].token \notin before
  <2>1. CASE me[p].job = NoJob
    BY <1>2, <2>1 DEF Linked
  <2>2. CASE me[p].job # NoJob
    <3>1. PICK i : i = me[p].job
      OBVIOUS
    <3>2. i \in Job
      BY <1>2, <2>2, <3>1 DEF Locals
    <3>3. job[i].status \in Resumable /\ me[p].token = job[i].token /\ me[p].token # None
      BY <1>2, <2>2, <3>1 DEF Agrees
    <3>4. Chained(i) /\ job[i] \in Row
      BY <1>2, <3>2 DEF RepeatInv, Fresh
    <3>5. before = Stored(i)
      BY <2>2, <3>1
    <3> HIDE DEF before
    <3> QED BY <3>3, <3>4, <3>5 DEF Chained, LeftOff, Row
  <2> QED BY <2>1, <2>2
<1> HIDE DEF before
<1>8. Acyclic' = Acyclic
  BY <1>3 DEF Acyclic
<1>9. Distinct(j)'
  <2>1. IsInjective(hist'[j].log)
    BY <1>5 DEF IsInjective
  <2> QED BY <1>6, <2>1 DEF Distinct
<1>10. Chained(j)'
  BY <1>3, <1>4, <1>6, <1>7, <1>8 DEF Chained
<1>11. \A i \in Job \ {j} : SameRow(i)
  <2>1. hist' = [hist EXCEPT ![j].start = me[p].token, ![j].before = before]
    BY <1>1 DEF before
  <2> QED BY <1>1, <1>2, <2>1 DEF SameRow
<1>12. mine.job = j /\ mine.token = me[p].token
  BY <1>2 DEF Locals
<1>13. pc'[p] = "loading" /\ me'[p] = mine
  BY <1>1, RepeatTypes DEF Goto
<1> HIDE DEF mine
<1>14. Agrees(p)'
  BY <1>4, <1>12, <1>13 DEF Agrees, Reads, Loop
<1>15. \A i \in Job : Distinct(i)' /\ Chained(i)'
  BY <1>9, <1>10, <1>11, JobFresh
<1> QED BY <1>1, <1>2, <1>14, <1>15, MoverFresh

\* A page is stored: it is the one the row expects, so it is new; and unless
\* its token is found out to be a bad one the next is new as well.
LEMMA CheckpointFresh ==
    ASSUME RepeatInv, [Next]_vars, stalls = 0, NEW p \in Proc, Checkpoint(p)
    PROVE  Fresh'
<1>1. CASE ~CursorMatches(p)
  <2>1. UNCHANGED <<job, hist>> /\ Leaving(p) /\ pc[p] # "idle"
    BY <1>1 DEF Checkpoint
  <2> QED BY <2>1, SameRows, OutFresh DEF Leaving
<1>2. CASE CursorMatches(p)
  <2>1. PICK j, t : j = me[p].job /\ t = me[p].token
    OBVIOUS
  <2>2. /\ pc[p] = "fetched" /\ j \in Job /\ job[j] \in Row /\ job \in [Job -> Row]
        /\ hist \in [Job -> History] /\ hist[j] \in History
        /\ me[p] \in Locals /\ t \in Cursor
    <3>1. pc[p] = "fetched"
      BY DEF Checkpoint
    <3>2. /\ j \in Job /\ job \in [Job -> Row] /\ hist \in [Job -> History] /\ me[p] \in Locals
      BY <2>1, <3>1, RepeatTypes DEF OnJob
    <3> QED BY <2>1, <3>1, <3>2 DEF Locals
  <2>3. Expected(j) /\ job[j].token = t
    <3>1. job[j].status = "running" /\ job[j].pages = me[p].pages /\ job[j].token = t
      BY <1>2, <2>1 DEF CursorMatches
    <3>2. RunCovered(p, j) /\ ~me[p].finished
      <4>1. RunCovered(p, j)
        BY <2>1, <2>2 DEF RepeatInv, CoverInv, OnJob
      <4> QED BY <2>2, <4>1 DEF RunCovered, Loop
    <3>3. ~job[j].finished
      BY <2>2, <3>1, <3>2 DEF RunCovered, Row, Locals
    <3>4. ~job[j].error
      BY <2>1, <2>2 DEF RepeatInv, RunInv, OneRun, JobState, Clean
    <3> QED BY <3>1, <3>3, <3>4 DEF Expected
  <2>4. Distinct(j) /\ Chained(j) /\ Pages(j) \ {None} \subseteq me[p].seen
    BY <2>1, <2>2 DEF RepeatInv, Fresh, Agrees, Reads, Loop
  <2> DEFINE next == list.next[t]
             last == next = None
             wrong == TokenError(p)
             seen == job[j].seen \cup ({t} \ {None})
             mySeen == me[p].seen \cup ({t} \ {None})
             pages == IF job[j].pages > me[p].pages THEN job[j].pages ELSE me[p].pages + 1
             moved == [job[j] EXCEPT !.pages = pages, !.token = next, !.finished = last,
                                     !.error = wrong, !.response = me[p].response, !.seen = seen]
             mine == [me[p] EXCEPT !.pages = @ + 1, !.token = next, !.finished = last,
                                   !.error = wrong, !.seen = mySeen]
             log == Append(hist[j].log, t)
  <2>5. /\ job' = [job EXCEPT ![j] = moved]
        /\ hist' = [hist EXCEPT ![j].log = log]
        /\ Goto(p, "stored", mine)
    BY <1>2, <2>1 DEF Checkpoint
  <2>6. /\ ~wrong => last \/ (next # t /\ next \notin me[p].seen)
        /\ last <=> next = None
        /\ seen = job[j].seen \cup ({t} \ {None})
        /\ mySeen = me[p].seen \cup ({t} \ {None})
    BY <2>1 DEF TokenError
  <2> HIDE DEF last, wrong, seen, mySeen, pages
  <2>7. /\ job'[j].status = "running" /\ job'[j].token = next /\ job'[j].finished = last
        /\ job'[j].error = wrong /\ job'[j].seen = seen
    BY <2>2, <2>3, <2>5 DEF Row, Expected
  <2>8. mine.job = j /\ mine.token = next /\ mine.seen = mySeen
    BY <2>1, <2>2 DEF Locals
  <2> HIDE DEF moved, mine
  <2>9. pc'[p] = "stored" /\ me'[p] = mine
    BY <2>5, RepeatTypes DEF Goto
  <2>10. hist'[j].log = log /\ hist'[j].before = hist[j].before
    <3> HIDE DEF log
    <3> QED BY <2>2, <2>5 DEF History
  <2>11. Pages(j)' = Pages(j) \cup {t} /\ Stored(j)' = Stored(j) \cup {t}
    <3>1. hist[j].log \in Seq(Cursor)
      BY <2>2 DEF History
    <3>2. Pages(j)' = Pages(j) \cup {t}
      BY <2>2, <2>10, <3>1, AppendRange DEF Pages
    <3> QED BY <2>10, <3>2 DEF Stored
  <2>12. \A i \in Job \ {j} : SameRow(i)
    <3> HIDE DEF log
    <3> QED BY <2>2, <2>5 DEF SameRow
  <2>13. list' = list /\ Acyclic' = Acyclic
    <3>1. list' = list
      BY WorldMoves DEF RepeatInv
    <3> QED BY <3>1 DEF Acyclic
  <2>14. t \notin Pages(j)
    BY <2>3, <2>4 DEF Distinct
  <2>15. IsInjective(log)
    <3>1. hist[j].log \in Seq(Cursor)
      BY <2>2 DEF History
    <3> QED BY <2>2, <2>4, <2>14, <3>1, AppendDistinct DEF Distinct, Pages
  <2> HIDE DEF next, log
  <2>16. Distinct(j)'
    <3>1. Pages(j)' \ {None} \subseteq job'[j].seen
      BY <2>4, <2>6, <2>7, <2>11 DEF Distinct
    <3>2. Expected(j)' => job'[j].token \notin Pages(j)'
      <4>1. Expected(j)' => next # None /\ next # t /\ next \notin me[p].seen
        BY <2>6, <2>7 DEF Expected
      <4>2. next # None /\ next # t /\ next \notin me[p].seen => next \notin Pages(j) \cup {t}
        BY <2>4
      <4> QED BY <2>7, <2>11, <4>1, <4>2
    <3> QED BY <2>10, <2>15, <3>1, <3>2 DEF Distinct
  <2>17. Chained(j)'
    <3> SUFFICES ASSUME Acyclic PROVE Chained(j)'
      BY <2>13 DEF Chained
    <3>1. /\ Linked(list.next, Stored(j), t) /\ t \notin Stored(j)
          /\ Pages(j) \cap hist[j].before = {}
      BY <2>3, <2>4 DEF Chained
    <3>2. Linked(list.next, Stored(j) \cup {t}, next)
      BY <3>1, LinkedOn DEF next
    <3>3. Pages(j)' \cap hist'[j].before = {}
      <4>1. t \notin hist[j].before
        BY <3>1 DEF Stored
      <4> QED BY <2>10, <2>11, <3>1, <4>1
    <3>4. next # None => next \notin Stored(j) \cup {t}
      <4>1. Stored(j) \in SUBSET Cursor
        BY <2>2, RepeatTypes
      <4> QED BY <2>2, <3>1, <4>1, NextIsNew DEF next
    <3>5. Expected(j)' \/ LeftOff(j)' => next # None
      BY <2>6, <2>7 DEF Expected, LeftOff
    <3>6. job'[j].finished => next = None
      BY <2>6, <2>7
    <3>7. Linked(list'.next, Stored(j)', job'[j].token)
      BY <2>7, <2>11, <2>13, <3>2
    <3> QED BY <2>7, <2>11, <2>13, <3>3, <3>4, <3>5, <3>6, <3>7 DEF Chained
  <2>18. Agrees(p)'
    <3>1. Pages(j)' \ {None} \subseteq mySeen
      BY <2>4, <2>6, <2>11
    <3> QED BY <2>7, <2>8, <2>9, <3>1 DEF Agrees
  <2>19. \A i \in Job : Distinct(i)' /\ Chained(i)'
    BY <2>12, <2>16, <2>17, JobFresh
  <2> QED BY <2>2, <2>5, <2>18, <2>19, MoverFresh
<1> QED BY <1>1, <1>2

\* A job ends where its row says, and may be continued there unless it has
\* failed or come to its end.
LEMMA FinishFresh ==
    ASSUME RepeatInv, [Next]_vars, stalls = 0, NEW p \in Proc, Finish(p)
    PROVE  Fresh'
<1>1. PICK j : j = me[p].job
  OBVIOUS
<1>2. /\ pc[p] = "finishing" /\ j \in Job /\ job[j] \in Row /\ job \in [Job -> Row]
  <2>1. pc[p] = "finishing"
    BY DEF Finish
  <2> QED BY <1>1, <2>1, RepeatTypes DEF OnJob
<1>3. /\ Agrees(p) /\ Distinct(j) /\ Chained(j)
      /\ job[j].status = "running" /\ (job[j].error => me[p].end = "failed")
      /\ me[p].end \in Terminal
  <2>1. Agrees(p) /\ Distinct(j) /\ Chained(j)
    BY <1>2 DEF RepeatInv, Fresh
  <2>2. job[j].status = "running" /\ (job[j].error => me[p].end = "failed")
    BY <1>1, <1>2 DEF RepeatInv, RunInv, OneRun, JobState
  <2>3. me[p].end \in Terminal
    BY <1>2 DEF RepeatInv, CoverInv, BudgetInv, CursorInv, EndKnown
  <2> QED BY <2>1, <2>2, <2>3
<1>4. me[p].token = job[j].token
  BY <1>1, <1>2, <1>3 DEF Agrees, OnJob
<1>5. /\ job'[j].status = me[p].end /\ job'[j].token = job[j].token
      /\ job'[j].finished = job[j].finished /\ job'[j].seen = job[j].seen
      /\ UNCHANGED hist
  BY <1>1, <1>2, <1>4 DEF Finish, Row
<1>6. \A i \in Job \ {j} : SameRow(i)
  BY <1>1, <1>2 DEF Finish, SameRow
<1>7. list' = list /\ Acyclic' = Acyclic
  <2>1. list' = list
    BY WorldMoves DEF RepeatInv
  <2> QED BY <2>1 DEF Acyclic
<1>8. Pages(j)' = Pages(j) /\ Stored(j)' = Stored(j)
  BY <1>5 DEF Pages, Stored
<1>9. ~Expected(j)'
  BY <1>3, <1>5 DEF Expected, Terminal, Resumable
<1>10. LeftOff(j)' => Expected(j)
  BY <1>3, <1>5 DEF Expected, LeftOff, Resumable
<1>11. Distinct(j)'
  BY <1>3, <1>5, <1>8, <1>9 DEF Distinct
<1>12. Chained(j)'
  BY <1>3, <1>5, <1>7, <1>8, <1>9, <1>10 DEF Chained
<1>13. \A i \in Job : Distinct(i)' /\ Chained(i)'
  BY <1>6, <1>11, <1>12, JobFresh
<1>14. "leaving" \notin OnJob \cup {"creating"}
  BY DEF OnJob
<1> QED BY <1>2, <1>13, <1>14, MoverFresh DEF Finish, Leaving

LEMMA RepeatStep == RepeatInv /\ [Next]_vars => RepeatInv'
<1> SUFFICES ASSUME RepeatInv, [Next]_vars PROVE RepeatInv'
  OBVIOUS
<1>1. CoverInv' /\ RunInv'
  BY CoverStep, RunStep DEF RepeatInv
<1>2. SUFFICES ASSUME stalls' = 0 PROVE Fresh'
  BY <1>1 DEF RepeatInv, Fresh
<1>3. stalls = 0 /\ ~Stall
  BY <1>2, StallsGrow DEF RepeatInv, RunInv
<1> QED BY <1>3, WorldFresh, StartFresh, AskFresh, AnswerFresh, CreateFresh, CheckpointFresh,
           FinishFresh DEF Next, Step

LEMMA InitRepeat == Init => RepeatInv
<1> SUFFICES ASSUME Init PROVE RepeatInv
  OBVIOUS
<1>1. /\ \A j \in Job : job[j] = Unused /\ hist[j] = NoHistory
      /\ \A p \in Proc : pc[p] = "idle"
  BY DEF Init
<1>2. \A j \in Job : Pages(j) = {} /\ Stored(j) = {} /\ IsInjective(hist[j].log)
  BY <1>1 DEF NoHistory, Pages, Stored, IsInjective
<1>3. \A j \in Job : Distinct(j) /\ Chained(j)
  BY <1>1, <1>2 DEF Distinct, Chained, Expected, LeftOff, Linked, Unused, Resumable, NoHistory
<1>4. Fresh
  BY <1>1, <1>3, IdleAgrees DEF Fresh, OnJob
<1>5. RunInv
  BY <1>1, InitTyped DEF RunInv, OneRun, JobState, Clean
<1> QED BY <1>4, <1>5, InitCover DEF RepeatInv

-----------------------------------------------------------------------------
(* The theorem.                                                            *)

\* Crashes, interrupts and resumptions make no job store a page twice,
\* whatever the server serves: the check of _oai_token_error, loaded with the
\* tokens of the row, sees to it. Nor is a page stored that a job it continues
\* has stored, if the list does not come back to a token; as long as no live
\* run outlives its lease.
THEOREM NoPageTwiceHolds == Spec => []NoPageTwice
<1>1. RepeatInv => NoPageTwice
  <2> SUFFICES ASSUME RepeatInv, stalls = 0, NEW j \in Job
               PROVE  /\ Cardinality(Pages(j)) = Len(hist[j].log)
                      /\ Acyclic => Pages(j) \cap hist[j].before = {}
    BY DEF NoPageTwice
  <2>1. Distinct(j) /\ Chained(j) /\ hist[j].log \in Seq(Cursor)
    BY RepeatTypes DEF RepeatInv, Fresh, History
  <2>2. Cardinality(Pages(j)) = Len(hist[j].log)
    BY <2>1, CountDistinct DEF Distinct, Pages
  <2> QED BY <2>1, <2>2 DEF Chained
<1> QED BY <1>1, InitRepeat, RepeatStep, PTL DEF Spec
====
