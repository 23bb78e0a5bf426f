---- MODULE OaiCoverage_proofs ----
(***************************************************************************)
(* What OaiHarvest promises of the list: a completed job has all of it,    *)
(* and the watermark moves only when all of it is stored.  Both hold       *)
(* however many runs die, are resumed or are suspended past their leases.  *)
(*                                                                         *)
(* The pages a job has stored need not be a beginning of the list: a stale *)
(* run may end a job with the token of an earlier page, and the next job   *)
(* starts there.  What holds of every job is weaker and enough: its pages  *)
(* together with all that follows its token are the whole list (Covers).   *)
(* Last, OaiHarvest implements ListMirror, the abstract specification.     *)
(***************************************************************************)
EXTENDS OaiHarvest_proofs

-----------------------------------------------------------------------------
(* Sets of pages of a list, given by its function of next cursors.         *)

\* With every page of S that has a next one, the next one.
ClosedUnder(next, S) == \A c \in S : next[c] = None \/ next[c] \in S

Whole(next, pages) == None \in pages /\ ClosedUnder(next, pages)

\* Whoever follows the list from u comes by t.
Leads(next, u, t) ==
    \A S \in SUBSET Cursor : ClosedUnder(next, S) /\ u \in S => t \in S

\* The pages, and all that follows from t, are the whole list.
Covers(next, pages, t) ==
    \A S \in SUBSET Cursor : ClosedUnder(next, S) /\ t \in S => Whole(next, pages \cup S)

LEMMA NothingCovers ==
    ASSUME NEW next
    PROVE  Covers(next, {}, None)
BY DEF Covers, Whole

\* A page of its own is stored: what follows is its next cursor, and if there
\* is none the list is whole.
LEMMA CoversMore ==
    ASSUME NEW next, NEW pages, NEW t \in Cursor, Covers(next, pages, t)
    PROVE  /\ Covers(next, pages \cup {t}, next[t])
           /\ next[t] = None => Whole(next, pages \cup {t})
<1>1. ASSUME NEW S \in SUBSET Cursor, ClosedUnder(next, S), next[t] = None \/ next[t] \in S
      PROVE  Whole(next, (pages \cup {t}) \cup S)
  <2>1. ClosedUnder(next, S \cup {t}) /\ S \cup {t} \in SUBSET Cursor
    BY <1>1 DEF ClosedUnder
  <2>2. Whole(next, pages \cup (S \cup {t}))
    BY <2>1 DEF Covers
  <2>3. pages \cup (S \cup {t}) = (pages \cup {t}) \cup S
    OBVIOUS
  <2> QED BY <2>2, <2>3
<1>2. Covers(next, pages \cup {t}, next[t])
  BY <1>1 DEF Covers
<1>3. ASSUME next[t] = None
      PROVE  Whole(next, pages \cup {t})
  <2>1. ClosedUnder(next, {})
    BY DEF ClosedUnder
  <2>2. Whole(next, (pages \cup {t}) \cup {})
    BY <1>1, <1>3, <2>1
  <2>3. (pages \cup {t}) \cup {} = pages \cup {t}
    OBVIOUS
  <2> QED BY <2>2, <2>3
<1> QED BY <1>2, <1>3

\* A page that is on the way from u is stored by somebody else.
LEMMA CoversAside ==
    ASSUME NEW next, NEW pages, NEW u, NEW t, Covers(next, pages, u), Leads(next, u, t)
    PROVE  Covers(next, pages \cup {t}, u)
<1> SUFFICES ASSUME NEW S \in SUBSET Cursor, ClosedUnder(next, S), u \in S
             PROVE  Whole(next, (pages \cup {t}) \cup S)
  BY DEF Covers
<1>1. t \in S
  BY DEF Leads
<1>2. (pages \cup {t}) \cup S = pages \cup S
  BY <1>1
<1>3. Whole(next, pages \cup S)
  BY DEF Covers
<1> QED BY <1>2, <1>3

LEMMA LeadsOn ==
    ASSUME NEW next, NEW u, NEW t, Leads(next, u, t), next[t] # None
    PROVE  Leads(next, u, next[t])
BY DEF Leads, ClosedUnder

-----------------------------------------------------------------------------
(* The invariant.                                                          *)

Loop == {"looping", "asking", "waiting", "fencing", "fenced", "fetching", "fetched"}

JobCovered(j) ==
    job[j].status # "none" =>
        /\ Covers(list.next, Stored(j), job[j].token)
        /\ job[j].finished => Whole(list.next, Stored(j)) /\ job[j].response > 0
        /\ job[j].status = "completed" => job[j].finished /\ watermark >= job[j].response

\* What run p has in its locals of job j may be old, but follows from pages of j.
RunCovered(p, j) ==
    /\ Covers(list.next, Stored(j), me[p].token)
    /\ job[j].status = "running" =>
          job[j].finished \/ Leads(list.next, me[p].token, job[j].token)
    /\ job[j].status = "running" /\ pc[p] # "finishing" =>
          /\ me[p].pages <= job[j].pages
          /\ me[p].pages = job[j].pages => me[p].finished = job[j].finished
    /\ me[p].finished => job[j].finished /\ me[p].response = job[j].response
    /\ pc[p] \in Loop => ~me[p].finished
    /\ pc[p] = "marking" => me[p].finished
    /\ pc[p] = "fetched" => me[p].response > 0
    /\ pc[p] = "recording" => me[p].end # "completed"
    /\ pc[p] = "finishing" /\ me[p].end = "completed" =>
          job[j].finished /\ watermark >= job[j].response

\* The job that a new one continues has ended, and what it has covers.
Continues(p) ==
    IF me[p].job = NoJob
    THEN me[p].token = None
    ELSE /\ job[me[p].job].status \notin {"none", "running"}
         /\ Covers(list.next, Stored(me[p].job), me[p].token)

\* A run that has no job yet starts with a blank cursor.
Starting == {"looking", "continuing", "creating"}

Begins(p) == pc[p] \in Starting => me[p].pages = 0 /\ ~me[p].finished

CoverInv ==
    /\ BudgetInv
    /\ \A j \in Job : JobCovered(j)
    /\ \A p \in Proc, j \in Job : pc[p] \in OnJob /\ me[p].job = j => RunCovered(p, j)
    /\ \A p \in Proc : Begins(p) /\ (pc[p] = "creating" => Continues(p))

\* What concerns the pages of job j is as before.
RowKept(j) ==
    /\ job'[j].status = job[j].status
    /\ job'[j].pages = job[j].pages
    /\ job'[j].token = job[j].token
    /\ job'[j].finished = job[j].finished
    /\ job'[j].response = job[j].response
    /\ hist'[j].before = hist[j].before
    /\ hist'[j].log = hist[j].log

LEMMA StoredKept ==
    ASSUME NEW j, hist'[j].before = hist[j].before, hist'[j].log = hist[j].log
    PROVE  Stored(j)' = Stored(j)
BY DEF Stored, Pages

LEMMA WatermarkSet ==
    ASSUME [Next]_vars, watermark' # watermark
    PROVE  \E p \in Proc : SetWatermark(p)
<1>1. ASSUME NEW p \in Proc, Step(p) \/ Crash(p) \/ Interrupt(p) \/ \E m \in Mode : Start(p, m)
      PROVE  UNCHANGED watermark \/ SetWatermark(p)
  BY <1>1 DEF Step, Start, FindRunning, FindResumable, CreateJob, NoJobLeft, Load, RenewScope,
              Ask, RecordPage, GiveUpWait, RecordRequest, Fence, DeadlineStops, Send, FetchFails,
              PageArrives, Checkpoint, AfterSuccess, Finish, Leave, Crash, Interrupt, rows
<1>2. ASSUME \/ ScopeExpires \/ UpstreamExpires \/ Stall \/ WorkerTakes \/ WorkerReleases
             \/ Tomorrow \/ UNCHANGED vars \/ \E i \in Job : DeadlinePasses(i)
      PROVE  UNCHANGED watermark
  BY <1>2 DEF ScopeExpires, UpstreamExpires, Stall, WorkerTakes, WorkerReleases, Tomorrow,
              DeadlinePasses, vars, rows
<1> QED BY <1>1, <1>2 DEF Next

\* No step changes the list, nor takes the watermark back.
LEMMA WorldMoves ==
    ASSUME CoverInv, [Next]_vars
    PROVE  /\ UNCHANGED list
           /\ watermark \in Nat /\ watermark' \in Nat /\ watermark' >= watermark
<1>1. watermark \in 0..MaxDay /\ watermark' \in 0..MaxDay
  BY TypeStep DEF CoverInv, BudgetInv, CursorInv, TypeInv, TypeOK
<1>2. watermark \in Nat /\ watermark' \in Nat
  BY <1>1, HarvestAssumption
<1>3. ASSUME NEW p \in Proc, Step(p) \/ Crash(p) \/ Interrupt(p) \/ \E m \in Mode : Start(p, m)
      PROVE  UNCHANGED list /\ (UNCHANGED watermark \/ SetWatermark(p))
  BY <1>3 DEF Step, Start, FindRunning, FindResumable, CreateJob, NoJobLeft, Load, RenewScope,
              Ask, RecordPage, GiveUpWait, RecordRequest, Fence, DeadlineStops, Send, FetchFails,
              PageArrives, Checkpoint, AfterSuccess, SetWatermark, Finish, Leave, Crash, Interrupt,
              world, rows
<1>4. ASSUME NEW p \in Proc, SetWatermark(p)
      PROVE  watermark' >= watermark
  <2>1. me[p].response \in Nat
    BY HarvestAssumption DEF CoverInv, BudgetInv, CursorInv, TypeInv, TypeOK, Locals
  <2> QED BY <1>2, <1>4, <2>1 DEF SetWatermark, Advanced
<1>5. ASSUME \/ ScopeExpires \/ UpstreamExpires \/ Stall \/ WorkerTakes \/ WorkerReleases
             \/ Tomorrow \/ UNCHANGED vars \/ \E i \in Job : DeadlinePasses(i)
      PROVE  UNCHANGED <<list, watermark>>
  BY <1>5 DEF ScopeExpires, UpstreamExpires, Stall, WorkerTakes, WorkerReleases, Tomorrow,
              DeadlinePasses, vars, world, rows
<1> QED BY <1>2, <1>3, <1>4, <1>5 DEF Next

\* A job that a step does not touch, and a run that it does not move.
LEMMA JobKept ==
    ASSUME CoverInv, [Next]_vars, NEW j \in Job, RowKept(j)
    PROVE  JobCovered(j)'
<1>1. UNCHANGED list /\ watermark \in Nat /\ watermark' \in Nat /\ watermark' >= watermark
  BY WorldMoves
<1>2. Stored(j)' = Stored(j)
  BY StoredKept DEF RowKept
<1>3. JobCovered(j) /\ job[j].response \in Nat
  BY HarvestAssumption DEF CoverInv, BudgetInv, CursorInv, TypeInv, TypeOK, Row
<1> QED BY <1>1, <1>2, <1>3 DEF JobCovered, RowKept

LEMMA RunKept ==
    ASSUME CoverInv, [Next]_vars, NEW q \in Proc, NEW j \in Job, RowKept(j),
           pc'[q] = pc[q], me'[q] = me[q], pc[q] \in OnJob, me[q].job = j
    PROVE  RunCovered(q, j)'
<1>1. UNCHANGED list /\ watermark \in Nat /\ watermark' \in Nat /\ watermark' >= watermark
  BY WorldMoves
<1>2. Stored(j)' = Stored(j)
  BY StoredKept DEF RowKept
<1>3. RunCovered(q, j) /\ job[j].response \in Nat
  BY HarvestAssumption DEF CoverInv, BudgetInv, CursorInv, TypeInv, TypeOK, Row
<1> QED BY <1>1, <1>2, <1>3 DEF RunCovered, RowKept

\* The jobs that others continue have ended, and no step touches their pages.
LEMMA ContinuesKept ==
    ASSUME CoverInv, [Next]_vars, NEW q \in Proc, pc[q] = "creating",
           pc'[q] = pc[q], me'[q] = me[q],
           \A j \in Job : job[j].status \notin {"none", "running"} =>
              /\ job'[j].status \notin {"none", "running"}
              /\ hist'[j].before = hist[j].before /\ hist'[j].log = hist[j].log
    PROVE  Continues(q)'
<1>1. Continues(q) /\ UNCHANGED list
  BY WorldMoves DEF CoverInv
<1>2. CASE me[q].job = NoJob
  BY <1>1, <1>2 DEF Continues
<1>3. CASE me[q].job # NoJob
  <2>1. PICK j : j = me[q].job
    OBVIOUS
  <2>2. j \in Job
    BY <1>3, <2>1 DEF CoverInv, BudgetInv, CursorInv, TypeInv, TypeOK, Locals
  <2>3. job[j].status \notin {"none", "running"} /\ Covers(list.next, Stored(j), me[q].token)
    BY <1>1, <1>3, <2>1 DEF Continues
  <2>4. Stored(j)' = Stored(j) /\ job'[j].status \notin {"none", "running"}
    BY <2>2, <2>3, StoredKept
  <2> QED BY <1>1, <1>3, <2>1, <2>3, <2>4 DEF Continues
<1> QED BY <1>2, <1>3

\* The statement of a run that leaves the pages of all jobs as they are.
LEMMA MoverStep ==
    ASSUME CoverInv, [Next]_vars, \A j \in Job : RowKept(j),
           NEW p \in Proc, NEW label, NEW mine, Goto(p, label, mine),
           label \in OnJob => \A j \in Job : mine.job = j => RunCovered(p, j)',
           label = "creating" => Continues(p)',
           label \in Starting => mine.pages = 0 /\ ~mine.finished
    PROVE  CoverInv'
<1>1. /\ pc'[p] = label /\ me'[p] = mine
      /\ \A q \in Proc \ {p} : pc'[q] = pc[q] /\ me'[q] = me[q]
  BY DEF Goto, CoverInv, BudgetInv, CursorInv, TypeInv, TypeOK
<1>2. BudgetInv'
  BY BudgetStep DEF CoverInv
<1>3. \A j \in Job : JobCovered(j)'
  BY JobKept
<1>4. ASSUME NEW q \in Proc, NEW j \in Job, pc'[q] \in OnJob, me'[q].job = j
      PROVE  RunCovered(q, j)'
  <2>1. CASE q = p
    BY <1>1, <1>4, <2>1
  <2>2. CASE q # p
    BY <1>1, <1>4, <2>2, RunKept
  <2> QED BY <2>1, <2>2
<1>5. ASSUME NEW q \in Proc, pc'[q] = "creating"
      PROVE  Continues(q)'
  <2>1. CASE q = p
    BY <1>1, <1>5, <2>1
  <2>2. CASE q # p
    BY <1>1, <1>5, <2>2, ContinuesKept DEF RowKept
  <2> QED BY <2>1, <2>2
<1>6. \A q \in Proc : Begins(q)'
  BY <1>1 DEF CoverInv, Begins
<1> QED BY <1>2, <1>3, <1>4, <1>5, <1>6 DEF CoverInv

\* A run that goes on with the cursor it has.
LEMMA OnwardStep ==
    ASSUME CoverInv, [Next]_vars, \A j \in Job : RowKept(j),
           NEW p \in Proc, pc[p] \in OnJob,
           NEW label \in OnJob, NEW mine, Goto(p, label, mine),
           mine.job = me[p].job, mine.token = me[p].token, mine.finished = me[p].finished,
           label = "finishing" \/ (pc[p] # "finishing" /\ mine.pages = me[p].pages),
           me[p].finished => mine.response = me[p].response,
           label \in Loop => ~me[p].finished,
           label = "marking" => me[p].finished,
           label = "recording" => mine.end # "completed",
           label = "fetched" => mine.response > 0,
           label = "finishing" /\ mine.end = "completed" =>
              job[me[p].job].finished /\ watermark' >= job[me[p].job].response
    PROVE  CoverInv'
<1>1. pc'[p] = label /\ me'[p] = mine
  BY DEF Goto, CoverInv, BudgetInv, CursorInv, TypeInv, TypeOK
<1>2. ASSUME NEW j \in Job, mine.job = j
      PROVE  RunCovered(p, j)'
  <2>1. UNCHANGED list
    BY WorldMoves
  <2>2. Stored(j)' = Stored(j)
    BY StoredKept DEF RowKept
  <2>3. RunCovered(p, j) /\ me[p].job = j
    BY <1>2 DEF CoverInv
  <2>4. RowKept(j)
    OBVIOUS
  <2>5. Covers(list'.next, Stored(j)', mine.token)
    BY <2>1, <2>2, <2>3 DEF RunCovered
  <2>6. job'[j].status = "running" =>
           job'[j].finished \/ Leads(list'.next, mine.token, job'[j].token)
    BY <2>1, <2>3, <2>4 DEF RunCovered, RowKept
  <2>7. job'[j].status = "running" /\ label # "finishing" =>
           /\ mine.pages <= job'[j].pages
           /\ mine.pages = job'[j].pages => mine.finished = job'[j].finished
    BY <2>3, <2>4 DEF RunCovered, RowKept
  <2>8. /\ mine.finished => job'[j].finished /\ mine.response = job'[j].response
        /\ label = "finishing" /\ mine.end = "completed" =>
              job'[j].finished /\ watermark' >= job'[j].response
    BY <2>3, <2>4 DEF RunCovered, RowKept
  <2> QED BY <1>1, <2>5, <2>6, <2>7, <2>8 DEF RunCovered
<1>3. label # "creating" /\ label \notin Starting
  BY DEF OnJob, Starting
<1> QED BY <1>2, <1>3, MoverStep

\* A run that leaves its job, or has none yet.
LEMMA OutStep ==
    ASSUME CoverInv, [Next]_vars, \A j \in Job : RowKept(j),
           NEW p \in Proc, NEW label \in {"idle", "looking", "continuing", "leaving"}, NEW mine,
           Goto(p, label, mine),
           label \in Starting => mine.pages = 0 /\ ~mine.finished
    PROVE  CoverInv'
<1>1. label \notin OnJob /\ label # "creating"
  BY DEF OnJob
<1> QED BY <1>1, MoverStep

\* What else moves: leases, days, deadlines.
LEMMA WorldStep ==
    ASSUME CoverInv, [Next]_vars,
           \/ ScopeExpires \/ UpstreamExpires \/ Stall \/ WorkerTakes \/ WorkerReleases
           \/ Tomorrow \/ UNCHANGED vars \/ \E i \in Job : DeadlinePasses(i)
    PROVE  CoverInv'
<1>1. BudgetInv'
  BY BudgetStep DEF CoverInv
<1>2. UNCHANGED locals /\ \A j \in Job : RowKept(j)
  <2>1. job \in [Job -> Row]
    BY DEF CoverInv, BudgetInv, CursorInv, TypeInv, TypeOK
  <2>2. CASE \E i \in Job : DeadlinePasses(i)
    BY <2>1, <2>2 DEF DeadlinePasses, RowKept, Row, locals
  <2>3. CASE \/ ScopeExpires \/ UpstreamExpires \/ Stall \/ WorkerTakes \/ WorkerReleases
             \/ Tomorrow \/ UNCHANGED vars
    BY <2>3 DEF ScopeExpires, UpstreamExpires, Stall, WorkerTakes, WorkerReleases, Tomorrow,
                vars, rows, locals, RowKept
  <2> QED BY <2>2, <2>3
<1>3. \A j \in Job : JobCovered(j)'
  BY <1>2, JobKept
<1>4. \A q \in Proc : pc'[q] = pc[q] /\ me'[q] = me[q]
  BY <1>2 DEF locals
<1>5. \A q \in Proc, j \in Job : pc'[q] \in OnJob /\ me'[q].job = j => RunCovered(q, j)'
  BY <1>2, <1>4, RunKept
<1>6. \A q \in Proc : pc'[q] = "creating" => Continues(q)'
  BY <1>2, <1>4, ContinuesKept DEF RowKept
<1>7. \A q \in Proc : Begins(q)'
  BY <1>4 DEF CoverInv, Begins
<1> QED BY <1>1, <1>3, <1>5, <1>6, <1>7 DEF CoverInv

-----------------------------------------------------------------------------
(* The steps.                                                              *)

\* Statements that leave all rows as they are.
LEMMA RowsKept ==
    ASSUME UNCHANGED <<job, hist>>
    PROVE  \A j \in Job : RowKept(j)
BY DEF RowKept

\* A run starts: it finds the running job, or the one that it continues.
LEMMA StartCovers ==
    ASSUME CoverInv, [Next]_vars, NEW p \in Proc,
           \/ \E m \in Mode : Start(p, m)
           \/ FindRunning(p) \/ FindResumable(p) \/ NoJobLeft(p)
           \/ Leave(p) \/ Crash(p) \/ Interrupt(p)
    PROVE  CoverInv'
<1>1. \A j \in Job : RowKept(j)
  <2>1. UNCHANGED <<job, hist>>
    BY DEF Start, FindRunning, FindResumable, NoJobLeft, Leave, Crash, Interrupt, rows
  <2> QED BY <2>1, RowsKept
<1>2. CASE (\E m \in Mode : Start(p, m)) \/ NoJobLeft(p) \/ Leave(p) \/ Crash(p) \/ Interrupt(p)
  <2>1. \A m : [Blank EXCEPT !.mode = m].pages = 0 /\ ~[Blank EXCEPT !.mode = m].finished
    BY DEF Blank
  <2> QED BY <1>1, <1>2, <2>1, OutStep DEF Start, NoJobLeft, Leave, Crash, Interrupt, Leaving,
                                           Starting
<1>3. CASE FindRunning(p)
  <2>1. CASE Goto(p, "continuing", me[p])
    <3>1. me[p].pages = 0 /\ ~me[p].finished
      BY <1>3 DEF FindRunning, CoverInv, Begins, Starting
    <3> QED BY <1>1, <2>1, <3>1, OutStep
  <2>2. ASSUME NEW i \in Running(me[p].mode), Goto(p, "loading", FromRow(i))
        PROVE  CoverInv'
    <3>1. i \in Job /\ job[i].status = "running"
      BY <2>2 DEF Running
    <3>2. /\ FromRow(i).job = i /\ FromRow(i).token = job[i].token
          /\ FromRow(i).pages = job[i].pages /\ FromRow(i).finished = job[i].finished
          /\ FromRow(i).response = job[i].response
      BY DEF FromRow, Blank
    <3>3. pc'[p] = "loading" /\ me'[p] = FromRow(i)
      BY <2>2 DEF Goto, CoverInv, BudgetInv, CursorInv, TypeInv, TypeOK
    <3>4. RunCovered(p, i)'
      <4>1. Stored(i)' = Stored(i) /\ UNCHANGED list
        BY <1>1, <3>1, StoredKept, WorldMoves DEF RowKept
      <4>2. Covers(list.next, Stored(i), job[i].token)
        BY <3>1 DEF CoverInv, JobCovered
      <4>3. Leads(list.next, job[i].token, job[i].token)
        BY DEF Leads
      <4>4. RowKept(i) /\ job[i].pages \in Nat
        BY <1>1, <3>1 DEF CoverInv, BudgetInv, CursorInv, TypeInv, TypeOK, Row
      <4> QED BY <3>2, <3>3, <4>1, <4>2, <4>3, <4>4 DEF RunCovered, RowKept, Loop
    <3> QED BY <1>1, <2>2, <3>2, <3>4, MoverStep DEF Starting
  <2> QED BY <1>3, <2>1, <2>2 DEF FindRunning
<1>4. CASE FindResumable(p)
  <2> DEFINE m == me[p].mode
             token == ResumableToken(m)
             mine == [me[p] EXCEPT !.token = token,
                         !.job = IF token = None THEN NoJob ELSE latest[m]]
  <2>1. Goto(p, "creating", mine)
    BY <1>4 DEF FindResumable
  <2>2. me[p] \in Locals /\ m \in Mode /\ latest[m] \in Job \cup {NoJob}
    BY DEF CoverInv, BudgetInv, CursorInv, TypeInv, TypeOK, Locals
  <2>3. mine.token = token /\ mine.job = IF token = None THEN NoJob ELSE latest[m]
    BY <2>2 DEF Locals
  <2>4. pc'[p] = "creating" /\ me'[p] = mine
    BY <2>1 DEF Goto, CoverInv, BudgetInv, CursorInv, TypeInv, TypeOK
  <2>5. Continues(p)'
    <3>1. CASE token = None
      BY <2>3, <2>4, <3>1 DEF Continues
    <3>2. CASE token # None
      <4>1. PICK i : i = latest[m]
        OBVIOUS
      <4>2. i \in Job /\ i # NoJob /\ job[i].status \in Resumable /\ token = job[i].token
        BY <2>2, <3>2, <4>1, NamesFact DEF ResumableToken
      <4>3. job[i].status \notin {"none", "running"}
        BY <4>2 DEF Resumable
      <4>4. Covers(list.next, Stored(i), token)
        BY <4>2, <4>3 DEF CoverInv, JobCovered
      <4>5. Stored(i)' = Stored(i) /\ UNCHANGED list /\ job'[i].status = job[i].status
        BY <1>1, <4>2, StoredKept, WorldMoves DEF RowKept
      <4>6. me'[p].job = i /\ me'[p].token = token
        BY <2>3, <2>4, <3>2, <4>1
      <4> HIDE DEF token
      <4> QED BY <4>2, <4>3, <4>4, <4>5, <4>6 DEF Continues
    <3> QED BY <3>1, <3>2
  <2>6. "creating" \notin OnJob
    BY DEF OnJob
  <2>7. mine.pages = 0 /\ ~mine.finished
    BY <1>4, <2>2 DEF FindResumable, CoverInv, Begins, Starting, Locals
  <2> HIDE DEF mine
  <2> QED BY <1>1, <2>1, <2>5, <2>6, <2>7, MoverStep
<1> QED BY <1>2, <1>3, <1>4

\* Statements that write in a row nothing that concerns its pages.
LEMMA OtherColumns ==
    ASSUME CoverInv, NEW p \in Proc, RecordPage(p) \/ RecordRequest(p) \/ Send(p)
    PROVE  \A j \in Job : RowKept(j)
<1>1. job \in [Job -> Row] /\ hist \in [Job -> History] /\ me[p].job \in Job
  <2>1. pc[p] \in OnJob
    BY DEF RecordPage, RecordRequest, Send, OnJob
  <2> QED BY <2>1 DEF CoverInv, BudgetInv, CursorInv, TypeInv, TypeOK, WorksOnJob
<1>2. CASE RecordPage(p)
  BY <1>1, <1>2 DEF RecordPage, RowKept, Row
<1>3. CASE RecordRequest(p)
  BY <1>1, <1>3 DEF RecordRequest, RowKept, Row
<1>4. CASE Send(p)
  BY <1>1, <1>4 DEF Send, RowKept, History, rows
<1> QED BY <1>2, <1>3, <1>4

\* The run ends its job without having come to the end of the list.
LEMMA GiveUpStep ==
    ASSUME CoverInv, [Next]_vars, \A j \in Job : RowKept(j),
           NEW p \in Proc, pc[p] \in OnJob,
           NEW status, status # "completed", NEW pages, Ending(p, status, pages)
    PROVE  CoverInv'
<1> DEFINE mine == [me[p] EXCEPT !.end = status, !.pages = pages]
<1>1. /\ mine.job = me[p].job /\ mine.token = me[p].token /\ mine.finished = me[p].finished
      /\ mine.response = me[p].response /\ mine.end = status
  BY DEF CoverInv, BudgetInv, CursorInv, TypeInv, TypeOK, Locals
<1>2. Goto(p, "finishing", mine)
  BY DEF Ending
<1>3. "finishing" \in OnJob /\ "finishing" \notin Loop
  BY DEF OnJob, Loop
<1> HIDE DEF mine
<1> QED BY <1>1, <1>2, <1>3, OnwardStep

\* From the first look at the row to the request.
LEMMA AskCovers ==
    ASSUME CoverInv, [Next]_vars, NEW p \in Proc,
           \/ Load(p) \/ RenewScope(p) \/ Ask(p) \/ RecordPage(p) \/ GiveUpWait(p)
           \/ RecordRequest(p) \/ Fence(p) \/ DeadlineStops(p) \/ Send(p)
    PROVE  CoverInv'
<1>1. \A j \in Job : RowKept(j)
  <2>1. CASE RecordPage(p) \/ RecordRequest(p) \/ Send(p)
    BY <2>1, OtherColumns
  <2>2. CASE \/ Load(p) \/ RenewScope(p) \/ Ask(p) \/ GiveUpWait(p) \/ Fence(p) \/ DeadlineStops(p)
    BY <2>2, RowsKept DEF Load, RenewScope, Ask, GiveUpWait, Fence, DeadlineStops, rows
  <2> QED BY <2>1, <2>2
<1>2. pc[p] \in OnJob /\ pc[p] # "finishing"
  BY DEF Load, RenewScope, Ask, RecordPage, GiveUpWait, RecordRequest, Fence, DeadlineStops, Send,
         OnJob
<1>3. me[p] \in Locals /\ me[p].job \in Job
  BY <1>2 DEF CoverInv, BudgetInv, CursorInv, TypeInv, TypeOK, WorksOnJob
<1>4. RunCovered(p, me[p].job)
  BY <1>2, <1>3 DEF CoverInv
<1>5. ASSUME NEW label \in Loop, label # "fetched", pc[p] \in Loop, Goto(p, label, me[p])
      PROVE  CoverInv'
  <2>1. label \in OnJob /\ label \notin {"finishing", "marking", "recording"} /\ ~me[p].finished
    BY <1>4, <1>5 DEF Loop, OnJob, RunCovered
  <2> QED BY <1>1, <1>2, <1>5, <2>1, OnwardStep
<1>6. ASSUME Leaving(p)
      PROVE  CoverInv'
  BY <1>1, <1>6, OutStep DEF Leaving, Starting
<1>7. CASE Load(p)
  <2>1. CASE me[p].error
    BY <1>1, <1>2, <1>7, <2>1, GiveUpStep DEF Load
  <2>2. CASE ~me[p].error
    <3> DEFINE mine == [me[p] EXCEPT !.seen = job[me[p].job].seen]
               label == IF me[p].finished THEN "marking" ELSE "looping"
    <3>1. /\ mine.job = me[p].job /\ mine.token = me[p].token /\ mine.finished = me[p].finished
          /\ mine.pages = me[p].pages /\ mine.response = me[p].response
      BY <1>3 DEF Locals
    <3>2. Goto(p, label, mine)
      BY <1>7, <2>2 DEF Load
    <3>3. /\ label \in OnJob /\ label \notin {"finishing", "recording"}
          /\ label \in Loop => ~me[p].finished
          /\ label = "marking" => me[p].finished
          /\ label # "fetched"
      BY DEF OnJob, Loop
    <3> HIDE DEF mine, label
    <3> QED BY <1>1, <1>2, <3>1, <3>2, <3>3, OnwardStep
  <2> QED BY <2>1, <2>2
<1>8. CASE RenewScope(p)
  BY <1>5, <1>6, <1>8 DEF RenewScope, Loop
<1>9. CASE Ask(p)
  <2>1. pc[p] = "asking" /\ ~me[p].finished
    BY <1>4, <1>9 DEF Ask, RunCovered, Loop
  <2>2. ASSUME NEW status \in {"cooling_down", "blocked"},
               Goto(p, "recording", [me[p] EXCEPT !.end = status])
        PROVE  CoverInv'
    <3> DEFINE mine == [me[p] EXCEPT !.end = status]
    <3>1. /\ mine.job = me[p].job /\ mine.token = me[p].token /\ mine.finished = me[p].finished
          /\ mine.pages = me[p].pages /\ mine.end = status
      BY <1>3 DEF Locals
    <3>2. "recording" \in OnJob /\ "recording" \notin Loop
      BY DEF OnJob, Loop
    <3>3. Goto(p, "recording", mine)
      BY <2>2
    <3> HIDE DEF mine
    <3> QED BY <1>1, <1>2, <2>1, <2>2, <3>1, <3>2, <3>3, OnwardStep
  <2>3. CASE Ending(p, "budget_exceeded", me[p].pages)
    BY <1>1, <1>2, <2>3, GiveUpStep
  <2>4. CASE Goto(p, "waiting", me[p])
    BY <1>5, <2>1, <2>4 DEF Loop
  <2> QED BY <1>9, <2>2, <2>3, <2>4 DEF Ask
<1>10. CASE RecordPage(p)
  <2>1. me[p].end # "completed"
    BY <1>4, <1>10 DEF RecordPage, RunCovered
  <2> QED BY <1>1, <1>2, <1>10, <2>1, GiveUpStep DEF RecordPage
<1>11. CASE GiveUpWait(p) \/ DeadlineStops(p)
  BY <1>1, <1>2, <1>11, GiveUpStep DEF GiveUpWait, DeadlineStops
<1>12. CASE RecordRequest(p)
  <2>1. PICK counted : Goto(p, "fencing", [me[p] EXCEPT !.requests = counted])
    BY <1>12 DEF RecordRequest
  <2> DEFINE mine == [me[p] EXCEPT !.requests = counted]
  <2>2. /\ mine.job = me[p].job /\ mine.token = me[p].token /\ mine.finished = me[p].finished
        /\ mine.pages = me[p].pages /\ mine.response = me[p].response
    BY <1>3 DEF Locals
  <2>3. ~me[p].finished /\ "fencing" \in OnJob
    BY <1>4, <1>12 DEF RecordRequest, RunCovered, Loop, OnJob
  <2>4. Goto(p, "fencing", mine)
    BY <2>1
  <2> HIDE DEF mine
  <2> QED BY <1>1, <1>2, <2>2, <2>3, <2>4, OnwardStep
<1>13. CASE Fence(p)
  BY <1>5, <1>6, <1>13 DEF Fence, Loop
<1>14. CASE Send(p)
  BY <1>5, <1>14 DEF Send, Loop
<1> QED BY <1>7, <1>8, <1>9, <1>10, <1>11, <1>12, <1>13, <1>14

\* The answer, and the watermark once the list has ended.
LEMMA AnswerCovers ==
    ASSUME CoverInv, [Next]_vars, NEW p \in Proc,
           FetchFails(p) \/ PageArrives(p) \/ AfterSuccess(p) \/ SetWatermark(p)
    PROVE  CoverInv'
<1>1. \A j \in Job : RowKept(j)
  BY RowsKept DEF FetchFails, PageArrives, AfterSuccess, SetWatermark, rows
<1>2. pc[p] \in OnJob /\ pc[p] # "finishing"
  BY DEF FetchFails, PageArrives, AfterSuccess, SetWatermark, OnJob
<1>3. me[p] \in Locals /\ me[p].job \in Job
  BY <1>2 DEF CoverInv, BudgetInv, CursorInv, TypeInv, TypeOK, WorksOnJob
<1>4. RunCovered(p, me[p].job)
  BY <1>2, <1>3 DEF CoverInv
<1>5. CASE FetchFails(p)
  <2>1. PICK status \in {"rate_limited", "transient_failure", "failed"} :
           Goto(p, "recording", [me[p] EXCEPT !.end = status])
    BY <1>5 DEF FetchFails
  <2> DEFINE mine == [me[p] EXCEPT !.end = status]
  <2>2. /\ mine.job = me[p].job /\ mine.token = me[p].token /\ mine.finished = me[p].finished
        /\ mine.pages = me[p].pages /\ mine.response = me[p].response /\ mine.end = status
    BY <1>3 DEF Locals
  <2>3. "recording" \in OnJob /\ "recording" \notin Loop
    BY DEF OnJob, Loop
  <2>4. Goto(p, "recording", mine)
    BY <2>1
  <2> HIDE DEF mine
  <2> QED BY <1>1, <1>2, <2>1, <2>2, <2>3, <2>4, OnwardStep
<1>6. CASE PageArrives(p)
  <2> DEFINE mine == [me[p] EXCEPT !.response = today]
  <2>1. /\ mine.job = me[p].job /\ mine.token = me[p].token /\ mine.finished = me[p].finished
        /\ mine.pages = me[p].pages /\ mine.response = today
    BY <1>3 DEF Locals
  <2>2. ~me[p].finished /\ "fetched" \in OnJob /\ today > 0
    BY <1>4, <1>6, HarvestAssumption
    DEF PageArrives, RunCovered, Loop, OnJob, CoverInv, BudgetInv, CursorInv, TypeInv, TypeOK
  <2>3. Goto(p, "fetched", mine)
    BY <1>6 DEF PageArrives
  <2> HIDE DEF mine
  <2> QED BY <1>1, <1>2, <2>1, <2>2, <2>3, OnwardStep
<1>7. CASE AfterSuccess(p)
  <2>1. CASE me[p].error
    BY <1>1, <1>2, <1>7, <2>1, GiveUpStep DEF AfterSuccess
  <2>2. CASE ~me[p].error
    <3> DEFINE label == IF me[p].finished THEN "marking" ELSE "looping"
    <3>1. Goto(p, label, me[p])
      BY <1>7, <2>2 DEF AfterSuccess
    <3>2. /\ label \in OnJob /\ label \notin {"finishing", "recording"}
          /\ label \in Loop => ~me[p].finished
          /\ label = "marking" => me[p].finished
          /\ label # "fetched"
      BY DEF OnJob, Loop
    <3> HIDE DEF label
    <3> QED BY <1>1, <1>2, <3>1, <3>2, OnwardStep
  <2> QED BY <2>1, <2>2
<1>8. CASE SetWatermark(p)
  <2>1. PICK i : i = me[p].job
    OBVIOUS
  <2>2. job[i].finished /\ me[p].response = job[i].response
    BY <1>4, <1>8, <2>1 DEF SetWatermark, RunCovered
  <2>3. watermark' >= job[i].response
    <3>1. me[p].response \in Nat /\ watermark \in Nat
      BY <1>3, HarvestAssumption, WorldMoves DEF Locals
    <3> QED BY <1>8, <2>2, <3>1 DEF SetWatermark, Advanced
  <2> DEFINE mine == [me[p] EXCEPT !.end = "completed", !.pages = me[p].pages]
  <2>4. /\ mine.job = me[p].job /\ mine.token = me[p].token /\ mine.finished = me[p].finished
        /\ mine.response = me[p].response
    BY <1>3 DEF Locals
  <2>5. "finishing" \in OnJob /\ "finishing" \notin Loop
    BY DEF OnJob, Loop
  <2>6. Goto(p, "finishing", mine)
    BY <1>8 DEF SetWatermark, Ending
  <2> HIDE DEF mine
  <2> QED BY <1>1, <1>2, <2>1, <2>2, <2>3, <2>4, <2>5, <2>6, OnwardStep
<1> QED BY <1>5, <1>6, <1>7, <1>8

\* A new job: its pages are those of the job it continues, and its token is
\* where that one was left.
LEMMA CreateCovers ==
    ASSUME CoverInv, [Next]_vars, NEW p \in Proc, CreateJob(p)
    PROVE  CoverInv'
<1>1. PICK j \in NotUsed :
         /\ job' = [job EXCEPT ![j] = [Unused EXCEPT !.status = "running",
                                          !.mode = me[p].mode, !.token = me[p].token]]
         /\ hist' = [hist EXCEPT ![j].start = me[p].token,
                        ![j].before = IF me[p].job = NoJob THEN {} ELSE Stored(me[p].job)]
         /\ Goto(p, "loading", [me[p] EXCEPT !.job = j])
  BY DEF CreateJob
<1> DEFINE before == IF me[p].job = NoJob THEN {} ELSE Stored(me[p].job)
           mine == [me[p] EXCEPT !.job = j]
<1>2. /\ job \in [Job -> Row] /\ hist \in [Job -> History] /\ hist[j] \in History /\ me[p] \in Locals
      /\ j \in Job /\ job[j].status = "none" /\ hist[j].log = <<>>
      /\ pc[p] = "creating" /\ Continues(p) /\ me[p].pages = 0 /\ ~me[p].finished
  BY <1>1 DEF CreateJob, NotUsed, CoverInv, Begins, Starting, BudgetInv, CursorInv, NothingStored,
              TypeInv, TypeOK
<1>3. UNCHANGED list
  BY WorldMoves
<1>4. /\ job'[j].status = "running" /\ job'[j].pages = 0 /\ job'[j].token = me[p].token
      /\ job'[j].finished = FALSE
  BY <1>1, <1>2 DEF Unused
<1>5. Stored(j)' = before
  <2> HIDE DEF before
  <2>1. hist' = [hist EXCEPT ![j].start = me[p].token, ![j].before = before]
    BY <1>1 DEF before
  <2>2. hist'[j].before = before /\ hist'[j].log = <<>>
    BY <1>2, <2>1 DEF History
  <2> QED BY <2>2 DEF Stored, Pages
<1>6. Covers(list'.next, Stored(j)', me[p].token)
  BY <1>2, <1>3, <1>5, NothingCovers DEF Continues
<1> HIDE DEF before
<1>7. \A i \in Job \ {j} : RowKept(i)
  <2>1. hist' = [hist EXCEPT ![j].start = me[p].token, ![j].before = before]
    BY <1>1 DEF before
  <2> QED BY <1>1, <1>2, <2>1 DEF RowKept
<1>8. /\ mine.job = j /\ mine.token = me[p].token /\ mine.pages = 0 /\ mine.finished = FALSE
  BY <1>2 DEF Locals
<1>9. /\ pc'[p] = "loading" /\ me'[p] = mine
      /\ \A q \in Proc \ {p} : pc'[q] = pc[q] /\ me'[q] = me[q]
  BY <1>1 DEF Goto, CoverInv, BudgetInv, CursorInv, TypeInv, TypeOK
<1> HIDE DEF mine
<1>10. BudgetInv'
  BY BudgetStep DEF CoverInv
<1>11. \A i \in Job : JobCovered(i)'
  <2>1. JobCovered(j)'
    BY <1>4, <1>6 DEF JobCovered
  <2> QED BY <1>7, <2>1, JobKept
<1>12. ASSUME NEW q \in Proc, NEW i \in Job, pc'[q] \in OnJob, me'[q].job = i
       PROVE  RunCovered(q, i)'
  <2>1. CASE q = p
    <3>1. i = j
      BY <1>8, <1>9, <1>12, <2>1
    <3>2. Leads(list'.next, me[p].token, me[p].token)
      BY DEF Leads
    <3>3. /\ pc'[p] = "loading" /\ me'[p].token = me[p].token
          /\ me'[p].pages = 0 /\ me'[p].finished = FALSE
      BY <1>8, <1>9
    <3>4. Covers(list'.next, Stored(j)', me'[p].token)
      BY <1>6, <3>3
    <3>5. Leads(list'.next, me'[p].token, job'[j].token)
      BY <1>4, <3>2, <3>3
    <3>6. RunCovered(p, j)'
      <4>1. me'[p].pages <= job'[j].pages /\ me'[p].finished = job'[j].finished
        <5>1. me'[p].pages = 0 /\ job'[j].pages = 0
          BY <1>4, <3>3
        <5>2. me'[p].finished = FALSE /\ job'[j].finished = FALSE
          BY <1>4, <3>3
        <5>3. me'[p].pages <= job'[j].pages
          BY <5>1
        <5> QED BY <5>2, <5>3
      <4>2. ~me'[p].finished
        BY <3>3
      <4>3. pc'[p] \notin Loop \cup {"marking", "fetched", "recording", "finishing"}
        BY <3>3 DEF Loop
      <4> QED BY <3>4, <3>5, <4>1, <4>2, <4>3 DEF RunCovered
    <3> QED BY <2>1, <3>1, <3>6
  <2>2. CASE q # p
    <3>1. pc'[q] = pc[q] /\ me'[q] = me[q]
      BY <1>9, <2>2
    <3>2. i # j
      BY <1>2, <1>12, <3>1 DEF CoverInv, BudgetInv, OnUsedJob
    <3> QED BY <1>7, <1>12, <3>1, <3>2, RunKept
  <2> QED BY <2>1, <2>2
<1>13. ASSUME NEW q \in Proc, pc'[q] = "creating"
       PROVE  Continues(q)'
  <2>1. q # p
    BY <1>9, <1>13
  <2>2. \A i \in Job : job[i].status \notin {"none", "running"} => RowKept(i)
    BY <1>2, <1>7
  <2> QED BY <1>9, <1>13, <2>1, <2>2, ContinuesKept DEF RowKept
<1>14. \A q \in Proc : Begins(q)'
  BY <1>9 DEF CoverInv, Begins, Starting
<1> QED BY <1>10, <1>11, <1>12, <1>13, <1>14 DEF CoverInv

LEMMA AppendRange ==
    ASSUME NEW log \in Seq(Cursor), NEW t \in Cursor
    PROVE  LET more == Append(log, t)
           IN  {more[i] : i \in DOMAIN more} = {log[i] : i \in DOMAIN log} \cup {t}
<1> DEFINE more == Append(log, t)
<1>1. /\ Len(log) \in Nat /\ DOMAIN log = 1..Len(log) /\ DOMAIN more = 1..(Len(log) + 1)
      /\ \A i \in 1..Len(log) : more[i] = log[i]
      /\ more[Len(log) + 1] = t
  OBVIOUS
<1> HIDE DEF more
<1>2. \A i \in DOMAIN more : i \in DOMAIN log \/ i = Len(log) + 1
  BY <1>1
<1>3. \A i \in DOMAIN log : i \in DOMAIN more
  BY <1>1
<1>4. Len(log) + 1 \in DOMAIN more
  BY <1>1
<1>5. {more[i] : i \in DOMAIN more} = {log[i] : i \in DOMAIN log} \cup {t}
  BY <1>1, <1>2, <1>3, <1>4
<1> QED BY <1>5 DEF more

\* A page is stored: the cursor moves past it. Where the next cursor is none
\* the list is whole; and for other runs of the job the page was on their way.
LEMMA CheckpointCovers ==
    ASSUME CoverInv, [Next]_vars, NEW p \in Proc, Checkpoint(p)
    PROVE  CoverInv'
<1>1. CASE ~CursorMatches(p)
  <2>1. UNCHANGED <<job, hist>> /\ Leaving(p)
    BY <1>1 DEF Checkpoint
  <2> QED BY <2>1, RowsKept, OutStep DEF Leaving, Starting
<1>2. CASE CursorMatches(p)
  <2>1. PICK j : j = me[p].job
    OBVIOUS
  <2>2. PICK t, next : t = me[p].token /\ next = list.next
    OBVIOUS
  <2>3. /\ pc[p] = "fetched" /\ j \in Job /\ job[j] \in Row /\ job \in [Job -> Row]
        /\ hist \in [Job -> History] /\ hist[j] \in History
        /\ me[p] \in Locals /\ t \in Cursor
        /\ job[j].pages \in Nat
    <3>1. pc[p] = "fetched"
      BY DEF Checkpoint
    <3>2. /\ j \in Job /\ job \in [Job -> Row] /\ hist \in [Job -> History] /\ me[p] \in Locals
      BY <2>1, <3>1 DEF OnJob, CoverInv, BudgetInv, CursorInv, TypeInv, TypeOK, WorksOnJob
    <3> QED BY <2>2, <3>1, <3>2 DEF Row, Locals
  <2>4. job[j].status = "running" /\ job[j].pages = me[p].pages /\ job[j].token = t
    BY <1>2, <2>1, <2>2 DEF CursorMatches
  <2>5. RunCovered(p, j) /\ ~me[p].finished /\ ~job[j].finished
    <3>1. RunCovered(p, j)
      BY <2>1, <2>3 DEF CoverInv, OnJob
    <3> QED BY <2>3, <2>4, <3>1 DEF RunCovered, Loop, Row, Locals
  <2> DEFINE last == next[t] = None
             wrong == TokenError(p)
             seen == job[j].seen \cup ({t} \ {None})
             mySeen == me[p].seen \cup ({t} \ {None})
             pages == me[p].pages + 1
             response == me[p].response
             moved == [job[j] EXCEPT !.pages = pages, !.token = next[t], !.finished = last,
                                     !.error = wrong, !.response = response, !.seen = seen]
             mine == [me[p] EXCEPT !.pages = pages, !.token = next[t], !.finished = last,
                                   !.error = wrong, !.seen = mySeen]
             log == Append(hist[j].log, t)
  <2>6. /\ job' = [job EXCEPT ![j] = moved]
        /\ hist' = [hist EXCEPT ![j] = [hist[j] EXCEPT !.log = log]]
        /\ Goto(p, "stored", mine)
    <3>1. /\ job' = [job EXCEPT ![j] =
                [job[j] EXCEPT !.pages = IF @ > me[p].pages THEN @ ELSE me[p].pages + 1,
                               !.token = next[t], !.finished = last, !.error = wrong,
                               !.response = response, !.seen = seen]]
          /\ hist' = [hist EXCEPT ![j].log = Append(@, t)]
          /\ Goto(p, "stored", mine)
      BY <1>2, <2>1, <2>2 DEF Checkpoint
    <3>2. (IF job[j].pages > me[p].pages THEN job[j].pages ELSE me[p].pages + 1) = pages
      BY <2>3, <2>4
    <3> HIDE DEF last, wrong, seen, pages, mine, response
    <3> QED BY <3>1, <3>2
  <2>7. last \in BOOLEAN /\ log \in Seq(Cursor) /\ response > 0 /\ (last <=> next[t] = None)
    <3>1. hist[j].log \in Seq(Cursor)
      BY <2>3 DEF History
    <3>2. response > 0
      BY <2>3, <2>5 DEF RunCovered
    <3> QED BY <2>3, <3>1, <3>2
  <2>8. Stored(j)' = Stored(j) \cup {t}
    <3>1. hist[j].log \in Seq(Cursor)
      BY <2>3 DEF History
    <3>2. hist'[j].before = hist[j].before /\ hist'[j].log = log
      <4> HIDE DEF log, moved, mine
      <4> QED BY <2>3, <2>6 DEF History
    <3>3. Pages(j)' = Pages(j) \cup {t}
      BY <2>3, <3>1, <3>2, AppendRange DEF Pages
    <3> QED BY <3>2, <3>3 DEF Stored
  <2> HIDE DEF last, wrong, seen, mySeen, log, response
  <2>9. /\ job'[j].status = "running" /\ job'[j].pages = pages /\ job'[j].token = next[t]
        /\ job'[j].finished = last /\ job'[j].response = response
    BY <2>3, <2>4, <2>6 DEF Row
  <2>10. /\ mine.job = j /\ mine.token = next[t] /\ mine.pages = pages
         /\ mine.finished = last /\ mine.response = response
    BY <2>1, <2>3 DEF Locals, response
  <2> HIDE DEF moved, mine
  <2>11. \A i \in Job \ {j} : RowKept(i)
    BY <2>3, <2>6 DEF RowKept
  <2>12. /\ pc'[p] = "stored" /\ me'[p] = mine
         /\ \A q \in Proc \ {p} : pc'[q] = pc[q] /\ me'[q] = me[q]
    BY <2>6 DEF Goto, CoverInv, BudgetInv, CursorInv, TypeInv, TypeOK
  <2>13. list'.next = next
    BY <2>2, WorldMoves
  <2>14. /\ Covers(next, Stored(j) \cup {t}, next[t])
         /\ next[t] = None => Whole(next, Stored(j) \cup {t})
    <3>1. Covers(next, Stored(j), t)
      BY <2>2, <2>5 DEF RunCovered
    <3> QED BY <2>3, <3>1, CoversMore
  <2>15. BudgetInv'
    BY BudgetStep DEF CoverInv
  <2>16. \A i \in Job : JobCovered(i)'
    <3>1. JobCovered(j)'
      BY <2>7, <2>8, <2>9, <2>13, <2>14 DEF JobCovered
    <3> QED BY <2>11, <3>1, JobKept
  <2>17. RunCovered(p, j)'
    <3>1. Leads(next, next[t], next[t])
      BY DEF Leads
    <3>2. pages \in Nat
      BY <2>3, <2>4
    <3> QED BY <2>7, <2>8, <2>9, <2>10, <2>12, <2>13, <2>14, <3>1, <3>2 DEF RunCovered, Loop
  <2>18. ASSUME NEW q \in Proc \ {p}, pc[q] \in OnJob, me[q].job = j
         PROVE  RunCovered(q, j)'
    <3>1. RunCovered(q, j)
      BY <2>3, <2>18 DEF CoverInv
    <3>2. Leads(next, me[q].token, t) /\ Covers(next, Stored(j), me[q].token)
      BY <2>2, <2>4, <2>5, <3>1 DEF RunCovered
    <3>3. Covers(next, Stored(j) \cup {t}, me[q].token)
      BY <3>2, CoversAside
    <3>4. last \/ Leads(next, me[q].token, next[t])
      BY <2>7, <3>2, LeadsOn
    <3>5. ~me[q].finished
      BY <2>5, <3>1 DEF RunCovered
    <3>6. pc[q] # "finishing" => me[q].pages < pages
      <4>1. me[q].pages \in Nat
        BY DEF CoverInv, BudgetInv, CursorInv, TypeInv, TypeOK, Locals
      <4> QED BY <2>3, <2>4, <3>1, <4>1 DEF RunCovered
    <3>7. ~(pc[q] = "finishing" /\ me[q].end = "completed")
      BY <2>5, <3>1 DEF RunCovered
    <3>8. pc'[q] = pc[q] /\ me'[q] = me[q] /\ me[q].pages \in Nat /\ pages \in Nat
      BY <2>3, <2>4, <2>12, <2>18 DEF CoverInv, BudgetInv, CursorInv, TypeInv, TypeOK, Locals
    <3> HIDE DEF pages
    <3>9. Covers(list'.next, Stored(j)', me'[q].token)
      BY <2>8, <2>13, <3>3, <3>8
    <3>10. job'[j].finished \/ Leads(list'.next, me'[q].token, job'[j].token)
      BY <2>9, <2>13, <3>4, <3>8
    <3>11. pc'[q] # "finishing" => /\ me'[q].pages <= job'[j].pages
                                   /\ me'[q].pages # job'[j].pages
      BY <2>9, <3>6, <3>8
    <3> QED BY <3>1, <3>5, <3>7, <3>8, <3>9, <3>10, <3>11 DEF RunCovered
  <2>19. \A q \in Proc, i \in Job : pc'[q] \in OnJob /\ me'[q].job = i => RunCovered(q, i)'
    <3> SUFFICES ASSUME NEW q \in Proc, NEW i \in Job, pc'[q] \in OnJob, me'[q].job = i
                 PROVE  RunCovered(q, i)'
      OBVIOUS
    <3>1. CASE q = p
      BY <2>10, <2>12, <2>17, <3>1
    <3>2. CASE q # p /\ i = j
      BY <2>12, <2>18, <3>2
    <3>3. CASE q # p /\ i # j
      BY <2>11, <2>12, <3>3, RunKept
    <3> QED BY <3>1, <3>2, <3>3
  <2>20. ASSUME NEW q \in Proc, pc'[q] = "creating"
         PROVE  Continues(q)'
    <3>1. q # p
      BY <2>12, <2>20
    <3>2. \A i \in Job : job[i].status \notin {"none", "running"} => RowKept(i)
      BY <2>4, <2>11
    <3> QED BY <2>12, <2>20, <3>1, <3>2, ContinuesKept DEF RowKept
  <2>21. \A q \in Proc : Begins(q)'
    BY <2>12 DEF CoverInv, Begins, Starting
  <2> QED BY <2>15, <2>16, <2>19, <2>20, <2>21 DEF CoverInv
<1> QED BY <1>1, <1>2

\* A job ends. Its token may be an old one, but what follows from it still covers.
LEMMA FinishCovers ==
    ASSUME CoverInv, [Next]_vars, NEW p \in Proc, Finish(p)
    PROVE  CoverInv'
<1>1. PICK j : j = me[p].job
  OBVIOUS
<1>2. /\ pc[p] = "finishing" /\ j \in Job /\ job[j] \in Row /\ job \in [Job -> Row]
      /\ me[p].end \in Terminal
  <2>1. pc[p] = "finishing"
    BY DEF Finish
  <2> QED BY <1>1, <2>1 DEF OnJob, CoverInv, BudgetInv, CursorInv, EndKnown, TypeInv, TypeOK, WorksOnJob
<1>3. /\ job'[j].status = me[p].end /\ job'[j].token = me[p].token
      /\ job'[j].finished = job[j].finished /\ job'[j].response = job[j].response
  BY <1>1, <1>2 DEF Finish, Row
<1>4. (\A i \in Job \ {j} : RowKept(i)) /\ UNCHANGED hist /\ UNCHANGED watermark
  BY <1>1, <1>2 DEF Finish, RowKept
<1>5. /\ pc'[p] = "leaving"
      /\ \A q \in Proc \ {p} : pc'[q] = pc[q] /\ me'[q] = me[q]
  BY DEF Finish, Leaving, Goto, CoverInv, BudgetInv, CursorInv, TypeInv, TypeOK
<1>6. UNCHANGED list /\ \A i \in Job : Stored(i)' = Stored(i)
  BY <1>4, WorldMoves, StoredKept
<1>7. job'[j].status \notin {"none", "running"}
  BY <1>2, <1>3 DEF Terminal, Resumable
<1>8. RunCovered(p, j)
  BY <1>1, <1>2 DEF CoverInv, OnJob
<1>9. BudgetInv'
  BY BudgetStep DEF CoverInv
<1>10. \A i \in Job : JobCovered(i)'
  <2>1. job[j].status # "none"
    BY <1>1, <1>2 DEF CoverInv, BudgetInv, OnUsedJob, OnJob
  <2>2. JobCovered(j)
    BY <1>2 DEF CoverInv
  <2>3. JobCovered(j)'
    BY <1>2, <1>3, <1>4, <1>6, <1>8, <2>1, <2>2 DEF JobCovered, RunCovered
  <2> QED BY <1>4, <2>3, JobKept
<1>11. ASSUME NEW q \in Proc, NEW i \in Job, pc'[q] \in OnJob, me'[q].job = i
       PROVE  RunCovered(q, i)'
  <2>1. q # p /\ pc'[q] = pc[q] /\ me'[q] = me[q]
    BY <1>5, <1>11 DEF OnJob
  <2>2. CASE i # j
    BY <1>4, <1>11, <2>1, <2>2, RunKept
  <2>3. CASE i = j
    <3>1. RunCovered(q, j)
      BY <1>2, <1>11, <2>1, <2>3 DEF CoverInv
    <3> QED BY <1>3, <1>4, <1>6, <1>7, <2>1, <2>3, <3>1 DEF RunCovered
  <2> QED BY <2>2, <2>3
<1>12. ASSUME NEW q \in Proc, pc'[q] = "creating"
       PROVE  Continues(q)'
  <2>1. q # p
    BY <1>5, <1>12
  <2>2. \A i \in Job : job[i].status \notin {"none", "running"} =>
           job'[i].status \notin {"none", "running"}
    BY <1>4, <1>7 DEF RowKept
  <2> QED BY <1>4, <1>5, <1>12, <2>1, <2>2, ContinuesKept
<1>13. \A q \in Proc : Begins(q)'
  BY <1>5 DEF CoverInv, Begins, Starting
<1> QED BY <1>9, <1>10, <1>11, <1>12, <1>13 DEF CoverInv

LEMMA CoverStep == CoverInv /\ [Next]_vars => CoverInv'
  BY WorldStep, StartCovers, CreateCovers, AskCovers, AnswerCovers, CheckpointCovers, FinishCovers
  DEF Next, Step

LEMMA InitCover == Init => CoverInv
<1> SUFFICES ASSUME Init PROVE CoverInv
  OBVIOUS
<1>1. /\ \A j \in Job : job[j].status = "none"
      /\ \A p \in Proc : pc[p] = "idle"
  BY DEF Init, Unused
<1> QED BY <1>1, InitBudget DEF CoverInv, JobCovered, Begins, Starting, OnJob

-----------------------------------------------------------------------------
(* The theorems.                                                           *)

LEMMA WholeIsWhole == \A pages : Whole(list.next, pages) <=> WholeList(pages)
BY DEF Whole, WholeList, ClosedUnder

\* A completed job has stored the whole list, with the pages of the jobs that
\* it continues, and the watermark is no earlier than the date of its last
\* page; also where a stale run has ended one of them with an old token.
THEOREM CompletedCovered == Spec => []CompletedIsCovered
<1>1. CoverInv => CompletedIsCovered
  <2> SUFFICES ASSUME CoverInv, NEW j \in Job, job[j].status = "completed"
               PROVE  /\ WholeList(Stored(j))
                      /\ job[j].response > 0
                      /\ watermark >= job[j].response
    BY DEF CompletedIsCovered
  <2>1. JobCovered(j)
    BY DEF CoverInv
  <2> QED BY <2>1, WholeIsWhole DEF JobCovered
<1> QED BY <1>1, InitCover, CoverStep, PTL DEF Spec

\* Whoever moves the watermark moves it forward, has come to the end of the
\* list, and all of it is stored.
THEOREM WatermarkIsHonest == Spec => WatermarkHonest
<1> DEFINE Honest ==
             watermark' # watermark =>
                /\ watermark' > watermark
                /\ \E p \in Proc : /\ pc[p] = "marking"
                                   /\ pc'[p] # pc[p]
                                   /\ WholeList(Stored(me[p].job))
<1>1. CoverInv /\ [Next]_vars => [Honest]_vars
  <2> SUFFICES ASSUME CoverInv, [Next]_vars, watermark' # watermark
               PROVE  Honest
    OBVIOUS
  <2>1. watermark' > watermark
    BY WorldMoves
  <2>2. PICK p \in Proc : SetWatermark(p)
    BY WatermarkSet
  <2>3. pc[p] = "marking" /\ pc'[p] = "finishing"
    BY <2>2 DEF SetWatermark, Ending, Goto, CoverInv, BudgetInv, CursorInv, TypeInv, TypeOK
  <2>4. PICK j : j = me[p].job
    OBVIOUS
  <2>5. j \in Job /\ job[j].status # "none"
    BY <2>3, <2>4 DEF OnJob, CoverInv, BudgetInv, CursorInv, OnUsedJob, TypeInv, WorksOnJob
  <2>6. job[j].finished
    BY <2>3, <2>4, <2>5 DEF CoverInv, RunCovered, OnJob
  <2>7. WholeList(Stored(j))
    BY <2>5, <2>6, WholeIsWhole DEF CoverInv, JobCovered
  <2> QED BY <2>1, <2>3, <2>4, <2>7
<1>2. Spec => [][Honest]_vars
  <2> HIDE DEF Honest
  <2> QED BY <1>1, InitCover, CoverStep, PTL DEF Spec
<1> QED BY <1>2 DEF WatermarkHonest

-----------------------------------------------------------------------------
(* The abstract specification: OaiHarvest implements ListMirror.           *)
(*                                                                         *)
(* That the watermark waits for all that is stored, and not only for what  *)
(* the job that moves it has stored, needs that nothing else is stored:    *)
(* every page and every cursor, of jobs that are over and of runs that are *)
(* late as well, is on the way from the first page, and so it is in every  *)
(* list that is whole.                                                     *)

\* On the way from the first page, and the next one of a page that is there.
OnWalk(c) ==
    /\ Leads(list.next, None, c)
    /\ c = None \/ \E d \in Copied : list.next[d] = c

RowWalks(j) ==
    /\ OnWalk(job[j].token)
    /\ job[j].response <= today
    /\ hist[j].before \subseteq Copied

RunWalks(p) == OnWalk(me[p].token) /\ me[p].response <= today

WalkInv ==
    /\ CoverInv
    /\ \A c \in Copied : Leads(list.next, None, c)
    /\ \A j \in Job : RowWalks(j)
    /\ \A p \in Proc : RunWalks(p)

LEMMA WalkTypes ==
    ASSUME WalkInv
    PROVE  /\ job \in [Job -> Row] /\ hist \in [Job -> History]
           /\ pc \in [Proc -> Label] /\ me \in [Proc -> Locals]
           /\ latest \in [Mode -> Job \cup {NoJob}]
           /\ \A p \in Proc : pc[p] \in OnJob => me[p].job \in Job
           /\ today \in Nat
           /\ list.next \in [Cursor -> Cursor]
<1>1. /\ TypeOK /\ WorksOnJob
  BY DEF WalkInv, CoverInv, BudgetInv, CursorInv, TypeInv
<1>2. today \in 1..MaxDay /\ list \in Lists
  BY <1>1 DEF TypeOK
<1>3. today \in Nat /\ list.next \in [Cursor -> Cursor]
  BY <1>2, HarvestAssumption
<1> QED BY <1>1, <1>3 DEF TypeOK, WorksOnJob

\* Days only pass.
LEMMA DaysPass ==
    ASSUME WalkInv, [Next]_vars
    PROVE  today' = today \/ Tomorrow
<1>1. ASSUME NEW p \in Proc, Step(p) \/ Crash(p) \/ Interrupt(p) \/ \E m \in Mode : Start(p, m)
      PROVE  UNCHANGED today
  BY <1>1 DEF Step, Start, FindRunning, FindResumable, CreateJob, NoJobLeft, Load, RenewScope,
              Ask, RecordPage, GiveUpWait, RecordRequest, Fence, DeadlineStops, Send, FetchFails,
              PageArrives, Checkpoint, AfterSuccess, SetWatermark, Finish, Leave, Crash, Interrupt,
              world
<1>2. ASSUME \/ ScopeExpires \/ UpstreamExpires \/ Stall \/ WorkerTakes \/ WorkerReleases
             \/ UNCHANGED vars \/ \E i \in Job : DeadlinePasses(i)
      PROVE  UNCHANGED today
  BY <1>2 DEF ScopeExpires, UpstreamExpires, Stall, WorkerTakes, WorkerReleases, DeadlinePasses,
              vars, world
<1> QED BY <1>1, <1>2 DEF Next

LEMMA TodayMoves ==
    ASSUME WalkInv, [Next]_vars
    PROVE  today \in Nat /\ today' \in Nat /\ today <= today'
BY WalkTypes, DaysPass DEF Tomorrow

LEMMA StartWalks == OnWalk(None)
BY DEF OnWalk, Leads

\* What was on the walk still is.
LEMMA WalkGrows ==
    ASSUME WalkInv, [Next]_vars, Copied \subseteq Copied', NEW c, OnWalk(c)
    PROVE  OnWalk(c)'
BY WorldMoves DEF OnWalk, WalkInv

LEMMA CopiedKept ==
    ASSUME \A j \in Job : hist'[j].log = hist[j].log
    PROVE  Copied' = Copied
<1>1. \A j \in Job : Pages(j)' = Pages(j)
  BY DEF Pages
<1> QED BY <1>1 DEF Copied

\* A step after which every row and every run either knows what it knew or
\* something that is on the walk.
LEMMA WalkKept ==
    ASSUME WalkInv, [Next]_vars, Copied \subseteq Copied',
           \A c \in Copied' : Leads(list.next, None, c),
           \A j \in Job : RowKept(j) \/ RowWalks(j)',
           \A q \in Proc : \/ me'[q].token = me[q].token /\ me'[q].response = me[q].response
                           \/ RunWalks(q)'
    PROVE  WalkInv'
<1>1. CoverInv' /\ list' = list
  BY CoverStep, WorldMoves DEF WalkInv
<1>2. today \in Nat /\ today' \in Nat /\ today <= today'
  BY TodayMoves
<1>3. ASSUME NEW j \in Job, RowKept(j)
      PROVE  RowWalks(j)'
  <2>1. RowWalks(j) /\ job[j].response \in Nat
    BY WalkTypes, HarvestAssumption DEF WalkInv, Row
  <2>2. OnWalk(job[j].token)'
    <3>1. PICK c : c = job[j].token
      OBVIOUS
    <3>2. OnWalk(c)'
      BY <2>1, <3>1, WalkGrows DEF RowWalks
    <3> QED BY <1>3, <3>1, <3>2 DEF RowKept, OnWalk
  <2>3. job'[j].response <= today'
    BY <1>2, <1>3, <2>1 DEF RowWalks, RowKept
  <2> QED BY <1>3, <2>1, <2>2, <2>3 DEF RowWalks, RowKept
<1>4. ASSUME NEW q \in Proc, me'[q].token = me[q].token, me'[q].response = me[q].response
      PROVE  RunWalks(q)'
  <2>1. RunWalks(q) /\ me[q].response \in Nat
    BY WalkTypes, HarvestAssumption DEF WalkInv, Locals
  <2>2. PICK c : c = me[q].token
    OBVIOUS
  <2>3. OnWalk(c)'
    BY <2>1, <2>2, WalkGrows DEF RunWalks
  <2>4. OnWalk(me[q].token)'
    BY <1>4, <2>2, <2>3 DEF OnWalk
  <2>5. me'[q].response <= today'
    BY <1>2, <1>4, <2>1 DEF RunWalks
  <2> QED BY <2>4, <2>5 DEF RunWalks
<1>5. \A c \in Copied' : Leads(list.next, None, c)'
  BY <1>1 DEF Leads, ClosedUnder
<1> QED BY <1>1, <1>3, <1>4, <1>5 DEF WalkInv

\* A run moves, and no page is stored.
LEMMA RunWalksOn ==
    ASSUME WalkInv, [Next]_vars, \A j \in Job : RowKept(j),
           NEW p \in Proc, NEW label, NEW mine, Goto(p, label, mine),
           OnWalk(mine.token), mine.response <= today, mine.response \in Nat
    PROVE  WalkInv'
<1>1. me'[p] = mine /\ \A q \in Proc \ {p} : me'[q] = me[q]
  BY WalkTypes DEF Goto
<1>2. Copied' = Copied
  BY CopiedKept DEF RowKept
<1>3. today \in Nat /\ today' \in Nat /\ today <= today'
  BY TodayMoves
<1>4. RunWalks(p)'
  <2>1. PICK c : c = mine.token
    OBVIOUS
  <2>2. OnWalk(c)'
    BY <1>2, <2>1, WalkGrows
  <2> QED BY <1>1, <1>3, <2>1, <2>2 DEF RunWalks, OnWalk
<1> QED BY <1>1, <1>2, <1>4, WalkKept DEF WalkInv

\* ... with the cursor it has.
LEMMA OnwardWalk ==
    ASSUME WalkInv, [Next]_vars, \A j \in Job : RowKept(j),
           NEW p \in Proc, NEW label, NEW mine, Goto(p, label, mine),
           mine.token = me[p].token, mine.response = me[p].response
    PROVE  WalkInv'
<1>1. RunWalks(p) /\ me[p].response \in Nat
  BY WalkTypes, HarvestAssumption DEF WalkInv, Locals
<1> QED BY <1>1, RunWalksOn DEF RunWalks

\* ... with no cursor.
LEMMA BlankWalk ==
    ASSUME WalkInv, [Next]_vars, \A j \in Job : RowKept(j),
           NEW p \in Proc, NEW label, NEW mine, Goto(p, label, mine),
           mine.token = None, mine.response = 0
    PROVE  WalkInv'
BY WalkTypes, StartWalks, RunWalksOn

LEMMA LeavingWalk ==
    ASSUME WalkInv, [Next]_vars, \A j \in Job : RowKept(j), NEW p \in Proc, Leaving(p)
    PROVE  WalkInv'
<1>1. Blank.token = None /\ Blank.response = 0
  BY DEF Blank
<1> QED BY <1>1, BlankWalk DEF Leaving

LEMMA EndingWalk ==
    ASSUME WalkInv, [Next]_vars, \A j \in Job : RowKept(j),
           NEW p \in Proc, NEW status, NEW pages, Ending(p, status, pages)
    PROVE  WalkInv'
<1> DEFINE mine == [me[p] EXCEPT !.end = status, !.pages = pages]
<1>1. mine.token = me[p].token /\ mine.response = me[p].response
  BY WalkTypes DEF Locals
<1>2. Goto(p, "finishing", mine)
  BY DEF Ending
<1> HIDE DEF mine
<1> QED BY <1>1, <1>2, OnwardWalk

\* Leases, days and deadlines.
LEMMA WorldWalk ==
    ASSUME WalkInv, [Next]_vars,
           \/ ScopeExpires \/ UpstreamExpires \/ Stall \/ WorkerTakes \/ WorkerReleases
           \/ Tomorrow \/ UNCHANGED vars \/ \E i \in Job : DeadlinePasses(i)
    PROVE  WalkInv'
<1>1. UNCHANGED me /\ \A j \in Job : RowKept(j)
  <2>1. CASE \E i \in Job : DeadlinePasses(i)
    BY <2>1, WalkTypes DEF DeadlinePasses, RowKept, Row, locals
  <2>2. CASE \/ ScopeExpires \/ UpstreamExpires \/ Stall \/ WorkerTakes \/ WorkerReleases
             \/ Tomorrow \/ UNCHANGED vars
    BY <2>2 DEF ScopeExpires, UpstreamExpires, Stall, WorkerTakes, WorkerReleases, Tomorrow,
                vars, rows, locals, RowKept
  <2> QED BY <2>1, <2>2
<1>2. Copied' = Copied
  BY <1>1, CopiedKept DEF RowKept
<1> QED BY <1>1, <1>2, WalkKept DEF WalkInv

\* A run starts, and takes its cursor from a row.
LEMMA StartWalk ==
    ASSUME WalkInv, [Next]_vars, NEW p \in Proc,
           \/ \E m \in Mode : Start(p, m)
           \/ FindRunning(p) \/ FindResumable(p) \/ NoJobLeft(p)
           \/ Leave(p) \/ Crash(p) \/ Interrupt(p)
    PROVE  WalkInv'
<1>1. \A j \in Job : RowKept(j)
  <2>1. UNCHANGED <<job, hist>>
    BY DEF Start, FindRunning, FindResumable, NoJobLeft, Leave, Crash, Interrupt, rows
  <2> QED BY <2>1, RowsKept
<1>2. CASE (\E m \in Mode : Start(p, m)) \/ NoJobLeft(p) \/ Leave(p) \/ Crash(p) \/ Interrupt(p)
  <2>1. PICK label, mine : /\ Goto(p, label, mine)
                           /\ mine = Blank \/ \E m : mine = [Blank EXCEPT !.mode = m]
    BY <1>2 DEF Start, NoJobLeft, Leave, Crash, Interrupt, Leaving
  <2>2. mine.token = None /\ mine.response = 0
    BY <2>1 DEF Blank
  <2> QED BY <1>1, <2>1, <2>2, BlankWalk
<1>3. CASE FindRunning(p)
  <2>1. CASE Goto(p, "continuing", me[p])
    BY <1>1, <2>1, OnwardWalk
  <2>2. ASSUME NEW i \in Running(me[p].mode), Goto(p, "loading", FromRow(i))
        PROVE  WalkInv'
    <3>1. i \in Job /\ FromRow(i).token = job[i].token /\ FromRow(i).response = job[i].response
      BY <2>2 DEF Running, FromRow, Blank
    <3>2. RowWalks(i) /\ job[i].response \in Nat
      BY <3>1, WalkTypes, HarvestAssumption DEF WalkInv, Row
    <3> QED BY <1>1, <2>2, <3>1, <3>2, RunWalksOn DEF RowWalks
  <2> QED BY <1>3, <2>1, <2>2 DEF FindRunning
<1>4. CASE FindResumable(p)
  <2> DEFINE m == me[p].mode
             token == ResumableToken(m)
             mine == [me[p] EXCEPT !.token = token,
                         !.job = IF token = None THEN NoJob ELSE latest[m]]
  <2>1. Goto(p, "creating", mine)
    BY <1>4 DEF FindResumable
  <2>2. me[p] \in Locals /\ m \in Mode /\ latest[m] \in Job \cup {NoJob}
    BY WalkTypes DEF Locals
  <2>3. mine.token = token /\ mine.response = me[p].response
    BY <2>2 DEF Locals
  <2>4. OnWalk(token)
    <3>1. CASE token = None
      BY <3>1, StartWalks
    <3>2. CASE token # None
      <4>1. PICK i : i = latest[m]
        OBVIOUS
      <4>2. i \in Job /\ token = job[i].token
        BY <2>2, <3>2, <4>1 DEF ResumableToken
      <4> QED BY <4>2 DEF WalkInv, RowWalks
    <3> QED BY <3>1, <3>2
  <2>5. RunWalks(p) /\ me[p].response \in Nat
    BY <2>2, HarvestAssumption DEF WalkInv, Locals
  <2> HIDE DEF mine, token
  <2> QED BY <1>1, <2>1, <2>3, <2>4, <2>5, RunWalksOn DEF RunWalks
<1> QED BY <1>2, <1>3, <1>4

\* From the first look at the row to the request.
LEMMA AskWalk ==
    ASSUME WalkInv, [Next]_vars, NEW p \in Proc,
           \/ Load(p) \/ RenewScope(p) \/ Ask(p) \/ RecordPage(p) \/ GiveUpWait(p)
           \/ RecordRequest(p) \/ Fence(p) \/ DeadlineStops(p) \/ Send(p)
    PROVE  WalkInv'
<1>1. \A j \in Job : RowKept(j)
  <2>1. CASE RecordPage(p) \/ RecordRequest(p) \/ Send(p)
    BY <2>1, OtherColumns DEF WalkInv
  <2>2. CASE \/ Load(p) \/ RenewScope(p) \/ Ask(p) \/ GiveUpWait(p) \/ Fence(p) \/ DeadlineStops(p)
    BY <2>2, RowsKept DEF Load, RenewScope, Ask, GiveUpWait, Fence, DeadlineStops, rows
  <2> QED BY <2>1, <2>2
<1>2. me[p] \in Locals
  BY WalkTypes
<1>3. CASE Load(p)
  <2>1. CASE me[p].error
    BY <1>1, <1>3, <2>1, EndingWalk DEF Load
  <2>2. CASE ~me[p].error
    <3> DEFINE mine == [me[p] EXCEPT !.seen = job[me[p].job].seen]
    <3>1. mine.token = me[p].token /\ mine.response = me[p].response
      BY <1>2 DEF Locals
    <3>2. \E label : Goto(p, label, mine)
      BY <1>3, <2>2 DEF Load
    <3> HIDE DEF mine
    <3> QED BY <1>1, <3>1, <3>2, OnwardWalk
  <2> QED BY <2>1, <2>2
<1>4. CASE RenewScope(p) \/ Fence(p) \/ Send(p)
  <2>1. Leaving(p) \/ \E label : Goto(p, label, me[p])
    BY <1>4 DEF RenewScope, Fence, Send
  <2> QED BY <1>1, <2>1, OnwardWalk, LeavingWalk
<1>5. CASE Ask(p)
  <2>1. ASSUME NEW status, Goto(p, "recording", [me[p] EXCEPT !.end = status])
        PROVE  WalkInv'
    <3> DEFINE mine == [me[p] EXCEPT !.end = status]
    <3>1. mine.token = me[p].token /\ mine.response = me[p].response
      BY <1>2 DEF Locals
    <3>2. Goto(p, "recording", mine)
      BY <2>1
    <3> HIDE DEF mine
    <3> QED BY <1>1, <3>1, <3>2, OnwardWalk
  <2>2. CASE Ending(p, "budget_exceeded", me[p].pages)
    BY <1>1, <2>2, EndingWalk
  <2>3. CASE Goto(p, "waiting", me[p])
    BY <1>1, <2>3, OnwardWalk
  <2> QED BY <1>5, <2>1, <2>2, <2>3 DEF Ask
<1>6. CASE RecordPage(p) \/ GiveUpWait(p) \/ DeadlineStops(p)
  <2>1. \E status, pages : Ending(p, status, pages)
    BY <1>6 DEF RecordPage, GiveUpWait, DeadlineStops
  <2> QED BY <1>1, <2>1, EndingWalk
<1>7. CASE RecordRequest(p)
  <2>1. PICK counted : Goto(p, "fencing", [me[p] EXCEPT !.requests = counted])
    BY <1>7 DEF RecordRequest
  <2> DEFINE mine == [me[p] EXCEPT !.requests = counted]
  <2>2. mine.token = me[p].token /\ mine.response = me[p].response
    BY <1>2 DEF Locals
  <2>3. Goto(p, "fencing", mine)
    BY <2>1
  <2> HIDE DEF mine
  <2> QED BY <1>1, <2>2, <2>3, OnwardWalk
<1> QED BY <1>3, <1>4, <1>5, <1>6, <1>7

\* The answer, which carries the day.
LEMMA AnswerWalk ==
    ASSUME WalkInv, [Next]_vars, NEW p \in Proc,
           FetchFails(p) \/ PageArrives(p) \/ AfterSuccess(p) \/ SetWatermark(p)
    PROVE  WalkInv'
<1>1. \A j \in Job : RowKept(j)
  BY RowsKept DEF FetchFails, PageArrives, AfterSuccess, SetWatermark, rows
<1>2. me[p] \in Locals
  BY WalkTypes
<1>3. CASE FetchFails(p)
  <2>1. PICK status : Goto(p, "recording", [me[p] EXCEPT !.end = status])
    BY <1>3 DEF FetchFails
  <2> DEFINE mine == [me[p] EXCEPT !.end = status]
  <2>2. mine.token = me[p].token /\ mine.response = me[p].response
    BY <1>2 DEF Locals
  <2>3. Goto(p, "recording", mine)
    BY <2>1
  <2> HIDE DEF mine
  <2> QED BY <1>1, <2>2, <2>3, OnwardWalk
<1>4. CASE PageArrives(p)
  <2> DEFINE mine == [me[p] EXCEPT !.response = today]
  <2>1. mine.token = me[p].token /\ mine.response = today
    BY <1>2 DEF Locals
  <2>2. OnWalk(me[p].token) /\ today \in Nat
    BY WalkTypes DEF WalkInv, RunWalks
  <2>3. Goto(p, "fetched", mine)
    BY <1>4 DEF PageArrives
  <2> HIDE DEF mine
  <2> QED BY <1>1, <2>1, <2>2, <2>3, RunWalksOn
<1>5. CASE AfterSuccess(p) \/ SetWatermark(p)
  <2>1. (\E status, pages : Ending(p, status, pages)) \/ \E label : Goto(p, label, me[p])
    BY <1>5 DEF AfterSuccess, SetWatermark
  <2> QED BY <1>1, <2>1, EndingWalk, OnwardWalk
<1> QED BY <1>3, <1>4, <1>5

\* A new job, where the run that makes it has got to.
LEMMA CreateWalk ==
    ASSUME WalkInv, [Next]_vars, NEW p \in Proc, CreateJob(p)
    PROVE  WalkInv'
<1>1. PICK j \in NotUsed :
         /\ job' = [job EXCEPT ![j] = [Unused EXCEPT !.status = "running",
                                          !.mode = me[p].mode, !.token = me[p].token]]
         /\ hist' = [hist EXCEPT ![j].start = me[p].token,
                        ![j].before = IF me[p].job = NoJob THEN {} ELSE Stored(me[p].job)]
         /\ Goto(p, "loading", [me[p] EXCEPT !.job = j])
  BY DEF CreateJob
<1> DEFINE before == IF me[p].job = NoJob THEN {} ELSE Stored(me[p].job)
<1>2. /\ job \in [Job -> Row] /\ hist \in [Job -> History] /\ me[p] \in Locals /\ j \in Job
      /\ OnWalk(me[p].token) /\ today \in Nat /\ today' \in Nat
  BY WalkTypes, TodayMoves DEF NotUsed, WalkInv, RunWalks
<1>3. before \subseteq Copied
  <2>1. CASE me[p].job = NoJob
    BY <2>1
  <2>2. CASE me[p].job # NoJob
    <3>1. PICK i \in Job : i = me[p].job
      BY <1>2, <2>2 DEF Locals
    <3>2. hist[i].before \subseteq Copied
      BY DEF WalkInv, RowWalks
    <3>3. Pages(i) \subseteq Copied
      BY DEF Copied
    <3> QED BY <2>2, <3>1, <3>2, <3>3 DEF Stored
  <2> QED BY <2>1, <2>2
<1> HIDE DEF before
<1>4. hist' = [hist EXCEPT ![j].start = me[p].token, ![j].before = before]
  BY <1>1 DEF before
<1>5. /\ \A i \in Job : hist'[i].log = hist[i].log
      /\ hist'[j].before = before
      /\ \A i \in Job \ {j} : RowKept(i)
  BY <1>1, <1>2, <1>4 DEF History, RowKept
<1>6. job'[j].token = me[p].token /\ job'[j].response = 0
  BY <1>1, <1>2 DEF Unused
<1>7. Copied' = Copied
  BY <1>5, CopiedKept
<1>8. RowWalks(j)'
  <2>1. PICK c : c = me[p].token
    OBVIOUS
  <2>2. OnWalk(c)'
    BY <1>2, <1>7, <2>1, WalkGrows
  <2>3. OnWalk(job[j].token)'
    BY <1>6, <2>1, <2>2 DEF OnWalk
  <2> QED BY <1>2, <1>3, <1>5, <1>6, <1>7, <2>3 DEF RowWalks
<1>9. \A q \in Proc : me'[q].token = me[q].token /\ me'[q].response = me[q].response
  BY <1>1, <1>2, WalkTypes DEF Goto, Locals
<1> QED BY <1>5, <1>7, <1>8, <1>9, WalkKept DEF WalkInv

\* A page is stored: its cursor is on the walk, and so is the next one.
LEMMA CheckpointWrites ==
    ASSUME WalkInv, NEW p \in Proc, Checkpoint(p), CursorMatches(p)
    PROVE  \E j \in Job, t \in Cursor :
              /\ OnWalk(t)
              /\ Copied' = Copied \cup {t}
              /\ job'[j].token = list.next[t] /\ job'[j].response = me[p].response
              /\ hist'[j].before = hist[j].before
              /\ \A i \in Job : job'[i].status = job[i].status /\ hist'[i].sent = hist[i].sent
              /\ \A i \in Job \ {j} : RowKept(i)
              /\ me'[p].token = list.next[t] /\ me'[p].response = me[p].response
              /\ \A q \in Proc \ {p} : me'[q] = me[q]
<1>1. PICK j, t : j = me[p].job /\ t = me[p].token
  OBVIOUS
<1>2. /\ j \in Job /\ t \in Cursor /\ me[p] \in Locals
      /\ job \in [Job -> Row] /\ hist \in [Job -> History] /\ hist[j] \in History
      /\ me \in [Proc -> Locals] /\ OnWalk(t)
  <2>1. pc[p] \in OnJob
    BY DEF Checkpoint, OnJob
  <2>2. /\ j \in Job /\ me[p] \in Locals
        /\ job \in [Job -> Row] /\ hist \in [Job -> History] /\ me \in [Proc -> Locals]
    BY <1>1, <2>1, WalkTypes
  <2> QED BY <1>1, <2>2 DEF Locals, WalkInv, RunWalks
<1> DEFINE next == list.next[t]
           last == next = None
           wrong == TokenError(p)
           seen == job[j].seen \cup ({t} \ {None})
           mySeen == me[p].seen \cup ({t} \ {None})
           pages == IF job[j].pages > me[p].pages THEN job[j].pages ELSE me[p].pages + 1
           moved == [job[j] EXCEPT !.pages = pages, !.token = next, !.finished = last,
                                   !.error = wrong, !.response = me[p].response, !.seen = seen]
           mine == [me[p] EXCEPT !.pages = @ + 1, !.token = next, !.finished = last,
                                 !.error = wrong, !.seen = mySeen]
           log == Append(hist[j].log, t)
<1>3. /\ job' = [job EXCEPT ![j] = moved]
      /\ hist' = [hist EXCEPT ![j].log = log]
      /\ Goto(p, "stored", mine)
  BY <1>1 DEF Checkpoint
<1> HIDE DEF last, wrong, seen, mySeen, pages
<1>4. /\ job'[j].token = list.next[t] /\ job'[j].response = me[p].response
      /\ \A i \in Job : job'[i].status = job[i].status
      /\ \A i \in Job \ {j} : job'[i] = job[i]
  <2>1. moved.token = next /\ moved.response = me[p].response /\ moved.status = job[j].status
    BY <1>2 DEF Row
  <2> HIDE DEF moved
  <2> QED BY <1>2, <1>3, <2>1
<1>5. /\ hist'[j].before = hist[j].before /\ hist'[j].log = log
      /\ \A i \in Job : hist'[i].sent = hist[i].sent
      /\ \A i \in Job \ {j} : hist'[i] = hist[i]
  <2>1. hist' = [hist EXCEPT ![j].log = log]
    BY <1>3
  <2> HIDE DEF log
  <2> QED BY <1>2, <2>1 DEF History
<1>6. /\ me'[p].token = list.next[t] /\ me'[p].response = me[p].response
      /\ \A q \in Proc \ {p} : me'[q] = me[q]
  <2>1. mine.token = next /\ mine.response = me[p].response
    BY <1>2 DEF Locals
  <2> HIDE DEF mine
  <2> QED BY <1>2, <1>3, <2>1 DEF Goto
<1>7. Copied' = Copied \cup {t}
  <2>1. hist[j].log \in Seq(Cursor)
    BY <1>2 DEF History
  <2>2. Pages(j)' = Pages(j) \cup {t}
    <3>1. hist'[j].log = log
      BY <1>5
    <3>2. {log[i] : i \in DOMAIN log}
             = {hist[j].log[i] : i \in DOMAIN hist[j].log} \cup {t}
      BY <1>2, <2>1, AppendRange
    <3> HIDE DEF log
    <3> QED BY <3>1, <3>2 DEF Pages
  <2>3. \A i \in Job \ {j} : Pages(i)' = Pages(i)
    BY <1>5 DEF Pages
  <2> HIDE DEF log
  <2>4. ASSUME NEW c
        PROVE  c \in Copied' <=> c \in Copied \/ c = t
    BY <1>2, <2>2, <2>3 DEF Copied
  <2> QED BY <2>4
<1>8. \A i \in Job \ {j} : RowKept(i)
  BY <1>4, <1>5 DEF RowKept
<1> QED BY <1>2, <1>4, <1>5, <1>6, <1>7, <1>8

LEMMA CheckpointWalk ==
    ASSUME WalkInv, [Next]_vars, NEW p \in Proc, Checkpoint(p)
    PROVE  WalkInv'
<1>1. CASE ~CursorMatches(p)
  <2>1. UNCHANGED <<job, hist>> /\ Leaving(p)
    BY <1>1 DEF Checkpoint
  <2> QED BY <2>1, RowsKept, LeavingWalk
<1>2. CASE CursorMatches(p)
  <2>1. PICK j \in Job, t \in Cursor :
          /\ OnWalk(t)
          /\ Copied' = Copied \cup {t}
          /\ job'[j].token = list.next[t] /\ job'[j].response = me[p].response
          /\ hist'[j].before = hist[j].before
          /\ \A i \in Job \ {j} : RowKept(i)
          /\ me'[p].token = list.next[t] /\ me'[p].response = me[p].response
          /\ \A q \in Proc \ {p} : me'[q] = me[q]
    BY <1>2, CheckpointWrites
  <2>2. list' = list
    BY WorldMoves DEF WalkInv
  <2>3. PICK c : c = list.next[t]
    OBVIOUS
  <2>4. OnWalk(c)'
    <3>1. Leads(list.next, None, None)
      BY DEF Leads
    <3>2. Leads(list.next, None, c)
      BY <2>1, <2>3, <3>1, LeadsOn DEF OnWalk
    <3>3. t \in Copied' /\ list'.next[t] = c
      BY <2>1, <2>2, <2>3
    <3> QED BY <2>2, <3>2, <3>3 DEF OnWalk
  <2>5. /\ me[p].response <= today /\ me[p].response \in Nat
        /\ today \in Nat /\ today' \in Nat /\ today <= today'
        /\ hist[j].before \subseteq Copied
    BY WalkTypes, TodayMoves, HarvestAssumption DEF WalkInv, RunWalks, RowWalks, Locals
  <2>6. RunWalks(p)'
    BY <2>1, <2>3, <2>4, <2>5 DEF RunWalks, OnWalk
  <2>7. RowWalks(j)'
    BY <2>1, <2>3, <2>4, <2>5 DEF RowWalks, OnWalk
  <2>8. \A d \in Copied' : Leads(list.next, None, d)
    BY <2>1 DEF WalkInv, OnWalk
  <2> QED BY <2>1, <2>6, <2>7, <2>8, WalkKept
<1> QED BY <1>1, <1>2

\* A job ends with the cursor of the run that ends it.
LEMMA FinishWalk ==
    ASSUME WalkInv, [Next]_vars, NEW p \in Proc, Finish(p)
    PROVE  WalkInv'
<1>1. PICK j : j = me[p].job
  OBVIOUS
<1>2. /\ j \in Job /\ job[j] \in Row /\ job \in [Job -> Row] /\ me \in [Proc -> Locals]
      /\ OnWalk(me[p].token) /\ RowWalks(j)
      /\ today \in Nat /\ today' \in Nat /\ today <= today'
  <2>1. pc[p] \in OnJob
    BY DEF Finish, OnJob
  <2> QED BY <1>1, <2>1, WalkTypes, TodayMoves DEF WalkInv, RunWalks
<1>3. /\ job'[j].token = me[p].token /\ job'[j].response = job[j].response
      /\ \A i \in Job \ {j} : RowKept(i)
      /\ UNCHANGED hist
  BY <1>1, <1>2 DEF Finish, Row, RowKept
<1>4. Copied' = Copied
  BY <1>3, CopiedKept
<1>5. RowWalks(j)'
  <2>1. PICK c : c = me[p].token
    OBVIOUS
  <2>2. OnWalk(c)'
    BY <1>2, <1>4, <2>1, WalkGrows
  <2>3. OnWalk(job[j].token)'
    BY <1>3, <2>1, <2>2 DEF OnWalk
  <2>4. job[j].response \in Nat
    BY <1>2, HarvestAssumption DEF Row
  <2> QED BY <1>2, <1>3, <1>4, <2>3, <2>4 DEF RowWalks
<1>6. RunWalks(p)'
  <2>1. me'[p] = Blank
    BY <1>2 DEF Finish, Leaving, Goto
  <2>2. OnWalk(None)'
    BY <1>4, WalkGrows, StartWalks
  <2> QED BY <1>2, <2>1, <2>2 DEF RunWalks, OnWalk, Blank
<1>7. \A q \in Proc \ {p} : me'[q] = me[q]
  BY <1>2 DEF Finish, Leaving, Goto
<1> QED BY <1>3, <1>4, <1>5, <1>6, <1>7, WalkKept DEF WalkInv

LEMMA WalkStep == WalkInv /\ [Next]_vars => WalkInv'
  BY WorldWalk, StartWalk, CreateWalk, AskWalk, AnswerWalk, CheckpointWalk, FinishWalk
  DEF Next, Step

LEMMA InitWalk == Init => WalkInv
<1> SUFFICES ASSUME Init PROVE WalkInv
  OBVIOUS
<1>1. /\ \A j \in Job : job[j].token = None /\ job[j].response = 0 /\ hist[j].before = {}
      /\ \A j \in Job : hist[j].log = <<>>
      /\ \A p \in Proc : me[p].token = None /\ me[p].response = 0
      /\ today = 1
  BY DEF Init, Unused, Blank, NoHistory
<1>2. Copied = {}
  BY <1>1 DEF Copied, Pages
<1> QED BY <1>1, <1>2, InitCover, StartWalks DEF WalkInv, RowWalks, RunWalks

-----------------------------------------------------------------------------
(* Steps of the abstract specification.                                    *)

Done == {j \in Job : job[j].status = "completed"}
Sent == [j \in Job |-> hist[j].sent]

\* What a list needs to be whole is all that is stored.
LEMMA CopiedWhole ==
    ASSUME WalkInv, NEW j \in Job, Whole(list.next, Stored(j))
    PROVE  Whole(list.next, Copied)
<1>1. Stored(j) \subseteq Copied
  <2>1. hist[j].before \subseteq Copied /\ Pages(j) \subseteq Copied
    BY DEF WalkInv, RowWalks, Copied
  <2> QED BY <2>1 DEF Stored
<1>2. Stored(j) \in SUBSET Cursor
  <2>1. hist[j] \in History
    BY WalkTypes
  <2>2. hist[j].before \subseteq Cursor /\ hist[j].log \in Seq(Cursor)
    BY <2>1 DEF History
  <2>3. \A i \in DOMAIN hist[j].log : hist[j].log[i] \in Cursor
    BY <2>2
  <2> QED BY <2>2, <2>3 DEF Stored, Pages
<1>3. Copied \subseteq Stored(j)
  BY <1>2 DEF WalkInv, Leads, Whole
<1>4. Copied = Stored(j)
  BY <1>1, <1>3
<1> QED BY <1>4

LEMMA MirrorSame ==
    ASSUME UNCHANGED <<list, today, watermark>>,
           \A j \in Job : /\ hist'[j].log = hist[j].log /\ hist'[j].sent = hist[j].sent
                          /\ job'[j].status = "completed" <=> job[j].status = "completed"
    PROVE  UNCHANGED LM!vars
<1>1. Copied' = Copied
  BY CopiedKept
<1>2. Done' = Done /\ Sent' = Sent
  BY DEF Done, Sent
<1> QED BY <1>1, <1>2 DEF LM!vars, Done, Sent

\* The request.
LEMMA SendRefines ==
    ASSUME WalkInv, WalkInv', [Next]_vars, NEW p \in Proc, Send(p)
    PROVE  LM!Next
<1>1. PICK j : j = me[p].job
  OBVIOUS
<1>2. j \in Job /\ hist \in [Job -> History] /\ hist[j] \in History /\ hist[j].sent \in Nat
  <2>1. pc[p] \in OnJob
    BY DEF Send, OnJob
  <2> QED BY <1>1, <2>1, WalkTypes DEF History
<1>3. /\ UNCHANGED <<list, today, watermark, job>>
      /\ hist' = [hist EXCEPT ![j].sent = @ + 1]
  BY <1>1 DEF Send, world, rows
<1>4. /\ hist'[j].sent = hist[j].sent + 1
      /\ \A i \in Job : hist'[i].log = hist[i].log
      /\ \A i \in Job \ {j} : hist'[i].sent = hist[i].sent
  BY <1>2, <1>3 DEF History
<1>5. hist'[j].sent <= MaxRequests
  <2>1. BudgetInv'
    BY DEF WalkInv, CoverInv
  <2>2. BudgetHolds'
    BY <2>1, WithinBudget, PTL
  <2> QED BY <1>2, <2>2 DEF BudgetHolds
<1>6. Copied' = Copied /\ Done' = Done
  BY <1>3, <1>4, CopiedKept DEF Done
<1>7. /\ Sent[j] < MaxRequests
      /\ Sent' = [Sent EXCEPT ![j] = @ + 1]
  <2>1. MaxRequests \in Nat
    BY HarvestAssumption
  <2>2. Sent[j] = hist[j].sent
    BY <1>2 DEF Sent
  <2>3. Sent[j] < MaxRequests
    BY <1>2, <1>4, <1>5, <2>1, <2>2
  <2>4. \A i \in Job : Sent'[i] = IF i = j THEN Sent[j] + 1 ELSE Sent[i]
    BY <1>2, <1>4 DEF Sent
  <2> QED BY <1>2, <2>3, <2>4 DEF Sent
<1>8. LM!Request(j)
  BY <1>3, <1>6, <1>7 DEF LM!Request, Done, Sent
<1> QED BY <1>2, <1>8 DEF LM!Next

\* A page.
LEMMA CheckpointRefines ==
    ASSUME WalkInv, [Next]_vars, NEW p \in Proc, Checkpoint(p)
    PROVE  [LM!Next]_LM!vars
<1>1. UNCHANGED <<list, today, watermark>>
  BY DEF Checkpoint, world
<1>2. CASE ~CursorMatches(p)
  <2>1. UNCHANGED <<job, hist>>
    BY <1>2 DEF Checkpoint
  <2> QED BY <1>1, <2>1, MirrorSame
<1>3. CASE CursorMatches(p)
  <2>1. PICK t \in Cursor :
          /\ OnWalk(t) /\ Copied' = Copied \cup {t}
          /\ \A i \in Job : job'[i].status = job[i].status /\ hist'[i].sent = hist[i].sent
    BY <1>3, CheckpointWrites
  <2>2. Done' = Done /\ Sent' = Sent
    BY <2>1 DEF Done, Sent
  <2>3. LM!StorePage(t)
    BY <1>1, <2>1, <2>2 DEF LM!StorePage, OnWalk, Done, Sent
  <2> QED BY <2>3 DEF LM!Next
<1> QED BY <1>2, <1>3

\* The watermark.
LEMMA WatermarkRefines ==
    ASSUME WalkInv, [Next]_vars, NEW p \in Proc, SetWatermark(p)
    PROVE  [LM!Next]_LM!vars
<1>1. UNCHANGED <<list, today, job, hist>> /\ pc[p] = "marking"
  BY DEF SetWatermark, world
<1>2. CASE watermark' = watermark
  BY <1>1, <1>2, MirrorSame
<1>3. CASE watermark' # watermark
  <2>1. watermark' = me[p].response /\ watermark \in Nat /\ watermark' >= watermark
    BY <1>3, WorldMoves DEF SetWatermark, Advanced, WalkInv
  <2>2. watermark < watermark' /\ watermark' <= today
    BY <1>3, <2>1, WorldMoves DEF WalkInv, RunWalks
  <2>3. PICK j \in Job : j = me[p].job
    BY <1>1, WalkTypes DEF OnJob
  <2>4. Whole(list.next, Stored(j))
    <3>1. job[j].status # "none" /\ RunCovered(p, j) /\ JobCovered(j)
      BY <1>1, <2>3 DEF OnJob, WalkInv, CoverInv, BudgetInv, OnUsedJob
    <3> QED BY <1>1, <3>1 DEF RunCovered, JobCovered
  <2>5. Whole(list.next, Copied)
    BY <2>4, CopiedWhole
  <2>6. LM!Whole
    BY <2>5 DEF LM!Whole, Whole, ClosedUnder
  <2>7. Copied' = Copied /\ Done' = Done /\ Sent' = Sent
    BY <1>1, CopiedKept DEF Done, Sent
  <2>8. LM!Advance
    BY <1>1, <2>2, <2>6, <2>7 DEF LM!Advance, Done, Sent
  <2> QED BY <2>8 DEF LM!Next
<1> QED BY <1>2, <1>3

\* The status.
LEMMA FinishRefines ==
    ASSUME WalkInv, WalkInv', [Next]_vars, NEW p \in Proc, Finish(p)
    PROVE  LM!Next
<1>1. PICK j : j = me[p].job
  OBVIOUS
<1>2. j \in Job /\ job \in [Job -> Row] /\ job[j] \in Row
  <2>1. pc[p] \in OnJob
    BY DEF Finish, OnJob
  <2> QED BY <1>1, <2>1, WalkTypes
<1>3. /\ UNCHANGED <<list, today, watermark, hist>>
      /\ \A i \in Job \ {j} : job'[i] = job[i]
  BY <1>1, <1>2 DEF Finish, world
<1>4. Copied' = Copied /\ Sent' = Sent
  BY <1>3, CopiedKept DEF Sent
<1>5. CASE job'[j].status # "completed"
  <2>1. Done' = Done \ {j}
    BY <1>2, <1>3, <1>5 DEF Done
  <2>2. LM!Overwrite(j)
    BY <1>3, <1>4, <2>1 DEF LM!Overwrite, Done, Sent
  <2> QED BY <1>2, <2>2 DEF LM!Next
<1>6. CASE job'[j].status = "completed"
  <2>1. Done' = Done \cup {j}
    BY <1>2, <1>3, <1>6 DEF Done
  <2>2. me[p].end = "completed" /\ pc[p] = "finishing"
    BY <1>1, <1>2, <1>6 DEF Finish, Row
  <2>3. /\ job[j].status # "none" /\ RunCovered(p, j) /\ JobCovered(j)
        /\ watermark \in Nat /\ job[j].response \in Nat
    BY <1>1, <1>2, <2>2, WorldMoves, HarvestAssumption
    DEF OnJob, WalkInv, CoverInv, BudgetInv, OnUsedJob, Row
  <2>4. Whole(list.next, Stored(j)) /\ watermark > 0
    BY <2>2, <2>3 DEF RunCovered, JobCovered
  <2>5. Whole(list.next, Copied)
    BY <1>2, <2>4, CopiedWhole
  <2>6. LM!Whole
    BY <2>5 DEF LM!Whole, Whole, ClosedUnder
  <2>7. LM!Complete(j)
    BY <1>3, <1>4, <2>1, <2>4, <2>6 DEF LM!Complete, Done, Sent
  <2> QED BY <1>2, <2>7 DEF LM!Next
<1> QED BY <1>5, <1>6

\* What else a run does is not seen there, nor is anything else but the days.
LEMMA OthersRefine ==
    ASSUME WalkInv, [Next]_vars, NEW p \in Proc,
           \/ \E m \in Mode : Start(p, m)
           \/ FindRunning(p) \/ FindResumable(p) \/ CreateJob(p) \/ NoJobLeft(p) \/ Load(p)
           \/ RenewScope(p) \/ Ask(p) \/ RecordPage(p) \/ GiveUpWait(p) \/ RecordRequest(p)
           \/ Fence(p) \/ DeadlineStops(p) \/ FetchFails(p) \/ PageArrives(p)
           \/ AfterSuccess(p) \/ Leave(p) \/ Crash(p) \/ Interrupt(p)
    PROVE  UNCHANGED LM!vars
<1>1. UNCHANGED <<list, today, watermark>>
  BY DEF Start, FindRunning, FindResumable, CreateJob, NoJobLeft, Load, RenewScope, Ask,
         RecordPage, GiveUpWait, RecordRequest, Fence, DeadlineStops, FetchFails, PageArrives,
         AfterSuccess, Leave, Crash, Interrupt, world, rows
<1>2. CASE CreateJob(p)
  <2>1. PICK j \in NotUsed :
          /\ job' = [job EXCEPT ![j] = [Unused EXCEPT !.status = "running",
                                           !.mode = me[p].mode, !.token = me[p].token]]
          /\ hist' = [hist EXCEPT ![j].start = me[p].token,
                         ![j].before = IF me[p].job = NoJob THEN {} ELSE Stored(me[p].job)]
    BY <1>2 DEF CreateJob
  <2> DEFINE before == IF me[p].job = NoJob THEN {} ELSE Stored(me[p].job)
  <2>2. hist' = [hist EXCEPT ![j].start = me[p].token, ![j].before = before]
    BY <2>1
  <2> HIDE DEF before
  <2>3. hist \in [Job -> History] /\ job \in [Job -> Row] /\ j \in Job /\ job[j].status = "none"
    BY WalkTypes DEF NotUsed
  <2>4. \A i \in Job : hist'[i].log = hist[i].log /\ hist'[i].sent = hist[i].sent
    BY <2>2, <2>3 DEF History
  <2>5. \A i \in Job : job'[i].status = "completed" <=> job[i].status = "completed"
    <3>1. job'[j].status = "running"
      BY <2>1, <2>3 DEF Unused
    <3>2. \A i \in Job \ {j} : job'[i] = job[i]
      BY <2>1, <2>3
    <3> QED BY <2>3, <3>1, <3>2
  <2> QED BY <1>1, <2>4, <2>5, MirrorSame
<1>3. CASE RecordPage(p) \/ RecordRequest(p)
  <2>1. \A j \in Job : RowKept(j)
    BY <1>3, OtherColumns DEF WalkInv
  <2>2. UNCHANGED hist
    BY <1>3 DEF RecordPage, RecordRequest
  <2> QED BY <1>1, <2>1, <2>2, MirrorSame DEF RowKept
<1>4. CASE \/ \E m \in Mode : Start(p, m)
           \/ FindRunning(p) \/ FindResumable(p) \/ NoJobLeft(p) \/ Load(p)
           \/ RenewScope(p) \/ Ask(p) \/ GiveUpWait(p)
           \/ Fence(p) \/ DeadlineStops(p) \/ FetchFails(p) \/ PageArrives(p)
           \/ AfterSuccess(p) \/ Leave(p) \/ Crash(p) \/ Interrupt(p)
  <2>1. UNCHANGED <<job, hist>>
    BY <1>4 DEF Start, FindRunning, FindResumable, NoJobLeft, Load, RenewScope, Ask, GiveUpWait,
                Fence, DeadlineStops, FetchFails, PageArrives, AfterSuccess, Leave, Crash,
                Interrupt, rows
  <2> QED BY <1>1, <2>1, MirrorSame
<1> QED BY <1>2, <1>3, <1>4

LEMMA WorldRefines ==
    ASSUME WalkInv, [Next]_vars,
           \/ ScopeExpires \/ UpstreamExpires \/ Stall \/ WorkerTakes \/ WorkerReleases
           \/ Tomorrow \/ UNCHANGED vars \/ \E i \in Job : DeadlinePasses(i)
    PROVE  [LM!Next]_LM!vars
<1>1. UNCHANGED <<list, watermark, hist>> /\ \A j \in Job : job'[j].status = job[j].status
  <2>1. CASE \E i \in Job : DeadlinePasses(i)
    BY <2>1, WalkTypes DEF DeadlinePasses, Row, world
  <2>2. CASE \/ ScopeExpires \/ UpstreamExpires \/ Stall \/ WorkerTakes \/ WorkerReleases
             \/ Tomorrow \/ UNCHANGED vars
    BY <2>2 DEF ScopeExpires, UpstreamExpires, Stall, WorkerTakes, WorkerReleases, Tomorrow,
                vars, rows, world
  <2> QED BY <2>1, <2>2
<1>2. CASE today' = today
  BY <1>1, <1>2, MirrorSame
<1>3. CASE Tomorrow
  <2>1. Copied' = Copied /\ Done' = Done /\ Sent' = Sent
    BY <1>1, CopiedKept DEF Done, Sent
  <2>2. LM!Tomorrow
    BY <1>1, <1>3, <2>1 DEF Tomorrow, LM!Tomorrow, Done, Sent
  <2> QED BY <2>2 DEF LM!Next
<1> QED BY <1>2, <1>3, DaysPass

LEMMA MirrorStep == WalkInv /\ WalkInv' /\ [Next]_vars => [LM!Next]_LM!vars
  BY SendRefines, CheckpointRefines, WatermarkRefines, FinishRefines, OthersRefine, WorldRefines
  DEF Next, Step

LEMMA MirrorInit == Init => LM!Init
<1> SUFFICES ASSUME Init PROVE LM!Init
  OBVIOUS
<1>1. /\ \A j \in Job : job[j].status = "none" /\ hist[j].sent = 0 /\ hist[j].log = <<>>
      /\ list \in Lists /\ today = 1 /\ watermark = 0
  BY DEF Init, Unused, NoHistory
<1>2. Copied = {} /\ Done = {}
  BY <1>1 DEF Copied, Pages, Done
<1>3. Sent = [j \in Job |-> 0]
  BY <1>1 DEF Sent
<1> QED BY <1>1, <1>2, <1>3 DEF LM!Init, Done, Sent

\* The harvests implement ListMirror, whatever dies, is resumed or overlaps:
\* what is stored is a walk from the first page, and neither the watermark
\* nor a completed job says more than what is stored.
THEOREM MirrorHolds == Spec => Mirrored
<1>1. LM!Init /\ [][LM!Next]_LM!vars => LM!Spec
  BY DEF LM!Spec
<1> QED BY <1>1, InitWalk, WalkStep, MirrorInit, MirrorStep, PTL DEF Spec, Mirrored, LM!Spec
====
