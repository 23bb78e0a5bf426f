---- MODULE OaiHarvest_proofs ----
(***************************************************************************)
(* Theorems about OaiHarvest under Spec, for every number of processes,    *)
(* jobs and tokens, every set of lists and every bound.                    *)
(*                                                                         *)
(* TypeCorrect, CursorHolds and BudgetIsHeld hold however many runs are    *)
(* suspended past their leases.  BadTokenStops says nothing of such        *)
(* behaviours: its proof rests on the exclusion by the scope lease         *)
(* (OneRun), which they lose.                                              *)
(***************************************************************************)
EXTENDS OaiHarvest, FiniteSetTheorems, TLAPS

\* Where a run works on a job.
OnJob == {"loading", "looping", "asking", "waiting", "fencing", "fenced",
          "fetching", "fetched", "stored", "marking", "recording", "finishing"}

WorksOnJob == \A p \in Proc : pc[p] \in OnJob => me[p].job \in Job

TypeInv == TypeOK /\ WorksOnJob

-----------------------------------------------------------------------------
(* Types.                                                                  *)

LEMMA NamesFact ==
    /\ None \notin Proc /\ Gone \notin Proc /\ Gone # None
    /\ None \in Cursor /\ Token \subseteq Cursor
    /\ NoJob \notin Job /\ Job \subseteq Nat
    /\ Worker \notin Job /\ None \notin Job
  BY HarvestAssumption DEF Cursor, NoJob, Job

\* The rows and locals a job or a run starts with are well typed.
LEMMA ConstantsTyped ==
    /\ Unused \in Row
    /\ Blank \in Locals
    /\ NoHistory \in History
  BY HarvestAssumption, NamesFact
  DEF Unused, Row, Blank, Locals, NoHistory, History, Cursor, NoJob

\* Goto keeps the types, given a label, locals and a job where one is needed.
LEMMA GotoTyped ==
    ASSUME TypeInv, NEW p \in Proc, NEW label \in Label, NEW mine \in Locals,
           label \in OnJob => mine.job \in Job,
           Goto(p, label, mine)
    PROVE  pc' \in [Proc -> Label] /\ me' \in [Proc -> Locals] /\ WorksOnJob'
  BY DEF TypeInv, TypeOK, WorksOnJob, Goto

LEMMA InitTyped == Init => TypeInv
<1> SUFFICES ASSUME Init PROVE TypeInv
  OBVIOUS
<1>1. TypeOK
  BY HarvestAssumption, NamesFact, ConstantsTyped
  DEF Init, TypeOK, Free, Label
<1>2. WorksOnJob
  BY DEF Init, WorksOnJob, OnJob
<1> QED BY <1>1, <1>2 DEF TypeInv

\* Goto with the locals as they are, and the two ways out.
LEMMA MovesTyped ==
    ASSUME TypeInv, NEW p \in Proc
    PROVE  /\ \A label \in Label :
                (pc[p] \in OnJob \/ label \notin OnJob) /\ Goto(p, label, me[p]) =>
                   pc' \in [Proc -> Label] /\ me' \in [Proc -> Locals] /\ WorksOnJob'
           /\ Leaving(p) =>
                pc' \in [Proc -> Label] /\ me' \in [Proc -> Locals] /\ WorksOnJob'
           /\ \A status \in Terminal, n \in Nat : pc[p] \in OnJob /\ Ending(p, status, n) =>
                pc' \in [Proc -> Label] /\ me' \in [Proc -> Locals] /\ WorksOnJob'
<1>1. me[p] \in Locals /\ (pc[p] \in OnJob => me[p].job \in Job)
  BY DEF TypeInv, TypeOK, WorksOnJob
<1>2. ASSUME NEW label \in Label, pc[p] \in OnJob \/ label \notin OnJob, Goto(p, label, me[p])
      PROVE  pc' \in [Proc -> Label] /\ me' \in [Proc -> Locals] /\ WorksOnJob'
  BY <1>1, <1>2, GotoTyped
<1>3. ASSUME Leaving(p)
      PROVE  pc' \in [Proc -> Label] /\ me' \in [Proc -> Locals] /\ WorksOnJob'
  <2>1. "leaving" \in Label /\ "leaving" \notin OnJob
    BY DEF Label, OnJob
  <2> QED BY <1>3, <2>1, ConstantsTyped, GotoTyped DEF Leaving
<1>4. ASSUME NEW status \in Terminal, NEW n \in Nat, pc[p] \in OnJob, Ending(p, status, n)
      PROVE  pc' \in [Proc -> Label] /\ me' \in [Proc -> Locals] /\ WorksOnJob'
  <2> DEFINE mine == [me[p] EXCEPT !.end = status, !.pages = n]
  <2>1. mine \in Locals /\ mine.job \in Job
    BY <1>1, <1>4 DEF Locals
  <2>2. "finishing" \in Label
    BY DEF Label
  <2>3. Goto(p, "finishing", mine)
    BY <1>4 DEF Ending
  <2> QED BY <2>1, <2>2, <2>3, GotoTyped
<1> QED BY <1>2, <1>3, <1>4

\* What a step of a run leaves alone, as far as it only moves leases.
LEMMA LeasesTyped ==
    ASSUME TypeInv, NEW p \in Proc
    PROVE  /\ Held(p) \in [owner : Proc \cup {None, Gone}, live : BOOLEAN]
           /\ Free \in [owner : Proc \cup {None, Gone}, live : BOOLEAN]
           /\ Free \in [owner : Job \cup {None, Worker}, live : BOOLEAN]
           /\ Held(Worker) \in [owner : Job \cup {None, Worker}, live : BOOLEAN]
           /\ pc[p] \in OnJob =>
                /\ Held(me[p].job) \in [owner : Job \cup {None, Worker}, live : BOOLEAN]
                /\ Released(p) \in [owner : Job \cup {None, Worker}, live : BOOLEAN]
  BY DEF TypeInv, TypeOK, WorksOnJob, Held, Free, Released

\* The actions before a job is worked on.
LEMMA StartTyped ==
    ASSUME TypeInv, NEW p \in Proc,
           \/ \E m \in Mode : Start(p, m)
           \/ FindRunning(p) \/ FindResumable(p) \/ CreateJob(p) \/ NoJobLeft(p)
    PROVE  TypeInv'
<1> USE DEF Label, OnJob
<1>1. ASSUME NEW m \in Mode, Start(p, m)
      PROVE  TypeInv'
  <2>1. [Blank EXCEPT !.mode = m] \in Locals
    BY ConstantsTyped DEF Locals
  <2>2. pc' \in [Proc -> Label] /\ me' \in [Proc -> Locals] /\ WorksOnJob'
    BY <1>1, <2>1, GotoTyped DEF Start
  <2> QED BY <1>1, <2>2, LeasesTyped DEF Start, TypeInv, TypeOK, world, rows
<1>2. CASE FindRunning(p)
  <2>1. ASSUME NEW j \in Running(me[p].mode)
        PROVE  FromRow(j) \in Locals /\ FromRow(j).job \in Job
    <3>1. j \in Job /\ job[j] \in Row
      BY <2>1 DEF Running, TypeInv, TypeOK
    <3> QED BY <3>1, ConstantsTyped DEF FromRow, Locals, Row
  <2>2. pc' \in [Proc -> Label] /\ me' \in [Proc -> Locals] /\ WorksOnJob'
    <3>1. CASE Running(me[p].mode) = {}
      BY <1>2, <3>1, MovesTyped DEF FindRunning
    <3>2. CASE Running(me[p].mode) # {}
      <4>1. PICK j \in Running(me[p].mode) : Goto(p, "loading", FromRow(j))
        BY <1>2, <3>2 DEF FindRunning
      <4> QED BY <2>1, <4>1, GotoTyped
    <3> QED BY <3>1, <3>2
  <2> QED BY <1>2, <2>2 DEF FindRunning, TypeInv, TypeOK, world, rows
<1>3. CASE FindResumable(p)
  <2> DEFINE token == ResumableToken(me[p].mode)
             mine == [me[p] EXCEPT !.token = token,
                         !.job = IF token = None THEN NoJob ELSE latest[me[p].mode]]
  <2>1. me[p] \in Locals /\ latest[me[p].mode] \in Job \cup {NoJob}
    BY DEF TypeInv, TypeOK, Locals
  <2>2. token \in Cursor
    BY <2>1, NamesFact DEF TypeInv, TypeOK, ResumableToken, Row
  <2>3. mine \in Locals
    BY <2>1, <2>2 DEF Locals
  <2>4. Goto(p, "creating", mine)
    BY <1>3 DEF FindResumable
  <2>5. pc' \in [Proc -> Label] /\ me' \in [Proc -> Locals] /\ WorksOnJob'
    <3> HIDE DEF mine
    <3> QED BY <2>3, <2>4, GotoTyped
  <2> QED BY <1>3, <2>5 DEF FindResumable, TypeInv, TypeOK, world, rows
<1>4. CASE CreateJob(p)
  <2> DEFINE before == IF me[p].job = NoJob THEN {} ELSE Stored(me[p].job)
  <2>1. me[p] \in Locals
    BY DEF TypeInv, TypeOK
  <2>2. before \in SUBSET Cursor
    <3>1. ASSUME NEW j \in Job PROVE Stored(j) \in SUBSET Cursor
      BY DEF TypeInv, TypeOK, History, Stored, Pages
    <3> QED BY <2>1, <3>1 DEF Locals
  <2>3. PICK j \in NotUsed :
           /\ job' = [job EXCEPT ![j] = [Unused EXCEPT !.status = "running",
                                            !.mode = me[p].mode, !.token = me[p].token]]
           /\ hist' = [hist EXCEPT ![j].start = me[p].token, ![j].before = before]
           /\ Goto(p, "loading", [me[p] EXCEPT !.job = j])
    BY <1>4 DEF CreateJob
  <2>4. j \in Job
    BY DEF NotUsed
  <2>5. job' \in [Job -> Row]
    BY <2>1, <2>3, <2>4, ConstantsTyped DEF Row, Locals, TypeInv, TypeOK
  <2>6. hist' \in [Job -> History]
    <3> DEFINE new == [hist[j] EXCEPT !.start = me[p].token, !.before = before]
    <3> HIDE DEF before
    <3>1. new \in History
      <4>1. hist[j] \in History
        BY <2>4 DEF TypeInv, TypeOK
      <4>2. me[p].token \in Cursor
        BY <2>1 DEF Locals
      <4>3. before \in SUBSET Cursor
        BY <2>2
      <4> QED BY ONLY <4>1, <4>2, <4>3 DEF History
    <3>2. hist' = [i \in Job |-> IF i = j THEN new ELSE hist[i]]
      BY <2>3, <2>4 DEF TypeInv, TypeOK, History
    <3> QED BY <2>4, <3>1, <3>2 DEF TypeInv, TypeOK
  <2>7. [me[p] EXCEPT !.job = j] \in Locals /\ [me[p] EXCEPT !.job = j].job \in Job
    BY <2>1, <2>4 DEF Locals
  <2>8. pc' \in [Proc -> Label] /\ me' \in [Proc -> Locals] /\ WorksOnJob'
    BY <2>3, <2>7, GotoTyped
  <2> QED BY <1>4, <2>5, <2>6, <2>8 DEF CreateJob, TypeInv, TypeOK, world
<1>5. CASE NoJobLeft(p)
  <2>1. pc' \in [Proc -> Label] /\ me' \in [Proc -> Locals] /\ WorksOnJob'
    BY <1>5, MovesTyped DEF NoJobLeft
  <2> QED BY <1>5, <2>1 DEF NoJobLeft, TypeInv, TypeOK, world, rows
<1> QED BY <1>1, <1>2, <1>3, <1>4, <1>5

\* A turn of the loop up to the fetch.
LEMMA AskTyped ==
    ASSUME TypeInv, NEW p \in Proc,
           \/ Load(p) \/ RenewScope(p) \/ Ask(p) \/ RecordPage(p) \/ GiveUpWait(p)
           \/ RecordRequest(p) \/ Fence(p) \/ DeadlineStops(p) \/ Send(p)
    PROVE  TypeInv'
<1> USE DEF Label, OnJob
<1> DEFINE Moved == pc' \in [Proc -> Label] /\ me' \in [Proc -> Locals] /\ WorksOnJob'
<1>a. pc[p] \in OnJob => /\ me[p] \in Locals /\ me[p].job \in Job
                         /\ job[me[p].job] \in Row /\ hist[me[p].job] \in History
  BY DEF TypeInv, TypeOK, WorksOnJob
<1>b. me[p].pages \in Nat /\ me[p].pages + 1 \in Nat /\ me[p].token \in Cursor
  BY DEF TypeInv, TypeOK, Locals
<1>c. {"budget_exceeded", "failed", "completed", "blocked", "cooling_down"} \subseteq Terminal
  BY DEF Terminal, Resumable
<1>1. CASE Load(p)
  <2>1. [me[p] EXCEPT !.seen = job[me[p].job].seen] \in Locals
    BY <1>1, <1>a DEF Load, Locals, Row
  <2>2. [me[p] EXCEPT !.seen = job[me[p].job].seen].job \in Job
    BY <1>1, <1>a DEF Load, Locals
  <2>3. Moved
    BY <1>1, <1>b, <1>c, <2>1, <2>2, GotoTyped, MovesTyped DEF Load
  <2> QED BY <1>1, <2>3 DEF Load, TypeInv, TypeOK, world, rows
<1>2. CASE RenewScope(p)
  <2>1. Moved
    BY <1>2, MovesTyped DEF RenewScope
  <2> QED BY <1>2, <2>1, LeasesTyped DEF RenewScope, TypeInv, TypeOK, world, rows
<1>3. CASE Ask(p)
  <2>1. ASSUME NEW status \in {"cooling_down", "blocked"}
        PROVE  /\ [me[p] EXCEPT !.end = status] \in Locals
               /\ [me[p] EXCEPT !.end = status].job \in Job
    BY <1>3, <1>a, <1>c DEF Ask, Locals
  <2>2. Moved
    <3>1. CASE Ending(p, "budget_exceeded", me[p].pages)
      BY <1>3, <1>b, <1>c, <3>1, MovesTyped DEF Ask
    <3>2. CASE Goto(p, "waiting", me[p])
      BY <1>3, <3>2, MovesTyped DEF Ask
    <3>3. CASE \E status \in {"cooling_down", "blocked"} :
                  Goto(p, "recording", [me[p] EXCEPT !.end = status])
      BY <2>1, <3>3, GotoTyped
    <3> QED BY <1>3, <3>1, <3>2, <3>3 DEF Ask
  <2> QED BY <1>3, <2>2, LeasesTyped DEF Ask, TypeInv, TypeOK, world, rows
<1>4. CASE RecordPage(p)
  <2> DEFINE noted == [job[me[p].job] EXCEPT !.seen = @ \cup ({me[p].token} \ {None})]
  <2>1. noted \in Row
    BY <1>4, <1>a, <1>b DEF RecordPage, Row, Cursor
  <2>2. job' \in [Job -> Row]
    BY <1>4, <1>a, <2>1 DEF RecordPage, TypeInv, TypeOK
  <2>3. Moved
    <3>1. CASE me[p].end \in Terminal
      BY <1>4, <1>b, <3>1, MovesTyped DEF RecordPage
    <3>2. CASE me[p].end \notin Terminal
      <4>1. [me[p] EXCEPT !.end = me[p].end, !.pages = me[p].pages + 1] \in Locals
        BY <1>4, <1>a, <1>b DEF RecordPage, Locals
      <4>2. [me[p] EXCEPT !.end = me[p].end, !.pages = me[p].pages + 1].job \in Job
        BY <1>4, <1>a DEF RecordPage, Locals
      <4> QED BY <1>4, <4>1, <4>2, GotoTyped DEF RecordPage, Ending
    <3> QED BY <3>1, <3>2
  <2> QED BY <1>4, <2>2, <2>3 DEF RecordPage, TypeInv, TypeOK, world
<1>5. CASE GiveUpWait(p)
  <2>1. Moved
    BY <1>5, <1>b, <1>c, MovesTyped DEF GiveUpWait
  <2> QED BY <1>5, <2>1, LeasesTyped DEF GiveUpWait, TypeInv, TypeOK, world, rows
<1>6. CASE RecordRequest(p)
  <2> DEFINE counted == job[me[p].job].requests
                          + IF job[me[p].job].status = "running" THEN 1 ELSE 0
             row == [job[me[p].job] EXCEPT !.requests = counted]
             mine == [me[p] EXCEPT !.requests = counted]
  <2>1. counted \in Nat
    BY <1>6, <1>a DEF RecordRequest, Row
  <2>2. row \in Row /\ mine \in Locals /\ mine.job \in Job
    <3> HIDE DEF counted
    <3> QED BY <1>6, <1>a, <2>1 DEF RecordRequest, Row, Locals
  <2>3. /\ job' = [job EXCEPT ![me[p].job].requests = counted]
        /\ Goto(p, "fencing", mine)
    BY <1>6 DEF RecordRequest
  <2>4. job' = [job EXCEPT ![me[p].job] = row]
    BY <2>3
  <2>5. job' \in [Job -> Row] /\ Moved
    <3> HIDE DEF row, mine
    <3> QED BY <1>6, <1>a, <2>2, <2>3, <2>4, GotoTyped DEF RecordRequest, TypeInv, TypeOK
  <2> QED BY <1>6, <2>5 DEF RecordRequest, TypeInv, TypeOK, world
<1>7. CASE Fence(p)
  <2>1. Moved
    BY <1>7, MovesTyped DEF Fence
  <2> QED BY <1>7, <2>1, LeasesTyped DEF Fence, TypeInv, TypeOK, world, rows
<1>8. CASE DeadlineStops(p)
  <2>1. Moved
    BY <1>8, <1>b, <1>c, MovesTyped DEF DeadlineStops
  <2> QED BY <1>8, <2>1, LeasesTyped DEF DeadlineStops, TypeInv, TypeOK, world, rows
<1>9. CASE Send(p)
  <2>1. [hist[me[p].job] EXCEPT !.sent = @ + 1] \in History
    BY <1>9, <1>a DEF Send, History
  <2>2. hist' \in [Job -> History]
    BY <1>9, <1>a, <2>1 DEF Send, TypeInv, TypeOK
  <2>3. Moved
    BY <1>9, MovesTyped DEF Send
  <2> QED BY <1>9, <2>2, <2>3 DEF Send, TypeInv, TypeOK, world, rows
<1> QED BY <1>1, <1>2, <1>3, <1>4, <1>5, <1>6, <1>7, <1>8, <1>9

\* What a checkpoint writes in a row is well typed.
LEMMA RowMoves ==
    ASSUME NEW r \in Row, NEW pages \in Nat, NEW next \in Cursor,
           NEW finished \in BOOLEAN, NEW error \in BOOLEAN,
           NEW response \in 0..MaxDay, NEW seen \in SUBSET Token
    PROVE  [r EXCEPT !.pages = pages, !.token = next, !.finished = finished,
                     !.error = error, !.response = response, !.seen = seen] \in Row
BY DEF Row

\* From the answer to the end of a harvest.
LEMMA AnswerTyped ==
    ASSUME TypeInv, NEW p \in Proc,
           \/ FetchFails(p) \/ PageArrives(p) \/ Checkpoint(p) \/ AfterSuccess(p)
           \/ SetWatermark(p) \/ Finish(p) \/ Leave(p)
    PROVE  TypeInv'
<1> USE DEF Label, OnJob
<1> DEFINE Moved == pc' \in [Proc -> Label] /\ me' \in [Proc -> Locals] /\ WorksOnJob'
<1>a. pc[p] \in OnJob => /\ me[p] \in Locals /\ me[p].job \in Job
                         /\ job[me[p].job] \in Row /\ hist[me[p].job] \in History
  BY DEF TypeInv, TypeOK, WorksOnJob
<1>b. me[p].pages \in Nat /\ me[p].pages + 1 \in Nat /\ me[p].token \in Cursor
  BY DEF TypeInv, TypeOK, Locals
<1>c. {"failed", "completed", "rate_limited", "transient_failure"} \subseteq Terminal
  BY DEF Terminal, Resumable
<1>1. CASE FetchFails(p)
  <2>1. PICK status \in {"rate_limited", "transient_failure", "failed"} :
           Goto(p, "recording", [me[p] EXCEPT !.end = status])
    BY <1>1 DEF FetchFails
  <2>2. /\ [me[p] EXCEPT !.end = status] \in Locals
        /\ [me[p] EXCEPT !.end = status].job \in Job
    BY <1>1, <1>a, <1>c DEF FetchFails, Locals
  <2>3. Moved
    BY <2>1, <2>2, GotoTyped
  <2> QED BY <1>1, <2>3, LeasesTyped DEF FetchFails, TypeInv, TypeOK, world, rows
<1>2. CASE PageArrives(p)
  <2>1. today \in 0..MaxDay
    BY HarvestAssumption DEF TypeInv, TypeOK
  <2>2. /\ [me[p] EXCEPT !.response = today] \in Locals
        /\ [me[p] EXCEPT !.response = today].job \in Job
    BY <1>2, <1>a, <2>1 DEF PageArrives, Locals
  <2>3. Moved
    BY <1>2, <2>2, GotoTyped DEF PageArrives
  <2> QED BY <1>2, <2>3 DEF PageArrives, TypeInv, TypeOK, world, rows
<1>3. CASE Checkpoint(p)
  <2> DEFINE j == me[p].job
             next == list.next[me[p].token]
             consumed == {me[p].token} \ {None}
             moved == [job[j] EXCEPT !.pages = IF @ > me[p].pages THEN @ ELSE me[p].pages + 1,
                                     !.token = next,
                                     !.finished = next = None,
                                     !.error = TokenError(p),
                                     !.response = me[p].response,
                                     !.seen = @ \cup consumed]
             mine == [me[p] EXCEPT !.pages = @ + 1, !.token = next,
                                   !.finished = next = None,
                                   !.error = TokenError(p),
                                   !.seen = @ \cup consumed]
             longer == [hist[j] EXCEPT !.log = Append(@, me[p].token)]
  <2>1. pc[p] \in OnJob /\ j \in Job /\ UNCHANGED <<world, scope, latest, watermark>>
    BY <1>3, <1>a DEF Checkpoint
  <2>2. next \in Cursor /\ consumed \in SUBSET Token
    BY <1>b, HarvestAssumption DEF TypeInv, TypeOK, Cursor
  <2>3. TokenError(p) \in BOOLEAN
    BY DEF TokenError
  <2>4. moved \in Row
    <3> DEFINE pages == IF job[j].pages > me[p].pages THEN job[j].pages ELSE me[p].pages + 1
               seen == job[j].seen \cup consumed
    <3>1. job[j] \in Row
      BY <1>a, <1>b, <2>1
    <3>2. me[p].pages \in Nat /\ me[p].response \in 0..MaxDay
      <4> HIDE DEF j, next, consumed, moved, mine, longer, pages, seen, Moved
      <4>1. me[p] \in Locals
        BY <1>a, <2>1
      <4> QED BY <4>1 DEF Locals
    <3>3. job[j].pages \in Nat /\ job[j].seen \in SUBSET Token
      BY <3>1 DEF Row
    <3>4. pages \in Nat /\ seen \in SUBSET Token
      <4> HIDE DEF consumed, j
      <4> QED BY <3>2, <3>3, <2>2
    <3>5. moved = [job[j] EXCEPT !.pages = pages, !.token = next,
                                 !.finished = next = None, !.error = TokenError(p),
                                 !.response = me[p].response, !.seen = seen]
      <4> HIDE DEF next, consumed, j
      <4> QED BY <3>1 DEF Row
    <3> HIDE DEF next, consumed, pages, seen, j, moved
    <3> DEFINE finished == next = None
    <3>6. finished \in BOOLEAN
      OBVIOUS
    <3> HIDE DEF finished
    <3>7. [job[j] EXCEPT !.pages = pages, !.token = next, !.finished = finished,
                         !.error = TokenError(p), !.response = me[p].response,
                         !.seen = seen] \in Row
      BY <3>1, <3>2, <3>4, <3>6, <2>2, <2>3, RowMoves
    <3> QED BY <3>5, <3>7 DEF finished
  <2>5. mine \in Locals /\ mine.job \in Job
    <3> HIDE DEF next, consumed
    <3> QED BY <1>a, <1>b, <2>1, <2>2, <2>3 DEF Locals
  <2>6. longer \in History
    <3> DEFINE log == Append(hist[j].log, me[p].token)
    <3>1. hist[j] \in History /\ me[p].token \in Cursor
      BY <1>a, <1>b, <2>1 DEF Locals
    <3>2. hist[j].log \in Seq(Cursor)
      BY <3>1 DEF History
    <3>3. log \in Seq(Cursor)
      BY <3>1, <3>2
    <3>4. longer = [hist[j] EXCEPT !.log = log]
      OBVIOUS
    <3>5. [hist[j] EXCEPT !.log = log] \in History
      <4> HIDE DEF log, j
      <4> QED BY <3>1, <3>3 DEF History
    <3> QED BY <3>4, <3>5
  <2>7. CASE CursorMatches(p)
    <3>1. /\ job' = [job EXCEPT ![j] = moved]
          /\ hist' = [hist EXCEPT ![j].log = Append(@, me[p].token)]
          /\ Goto(p, "stored", mine)
          /\ UNCHANGED upstream
      BY <1>3, <2>7 DEF Checkpoint
    <3>2. hist' = [hist EXCEPT ![j] = longer]
      BY <3>1
    <3>3. job' \in [Job -> Row] /\ hist' \in [Job -> History]
      <4> HIDE DEF moved, longer
      <4> QED BY <2>1, <2>4, <2>6, <3>1, <3>2 DEF TypeInv, TypeOK
    <3>4. Moved
      <4> HIDE DEF mine
      <4> QED BY <2>5, <3>1, GotoTyped
    <3> QED BY <2>1, <3>1, <3>3, <3>4 DEF TypeInv, TypeOK, world
  <2>8. CASE ~CursorMatches(p)
    <3>1. upstream' = Released(p) /\ Leaving(p) /\ UNCHANGED <<job, hist>>
      BY <1>3, <2>8 DEF Checkpoint
    <3>2. Moved
      BY <3>1, MovesTyped
    <3> QED BY <2>1, <3>1, <3>2, LeasesTyped DEF TypeInv, TypeOK, world
  <2> QED BY <2>7, <2>8
<1>4. CASE AfterSuccess(p)
  <2>1. Moved
    BY <1>4, <1>b, <1>c, MovesTyped DEF AfterSuccess
  <2> QED BY <1>4, <2>1, LeasesTyped DEF AfterSuccess, TypeInv, TypeOK, world, rows
<1>5. CASE SetWatermark(p)
  <2>1. Moved
    BY <1>5, <1>b, <1>c, MovesTyped DEF SetWatermark
  <2>2. watermark' \in 0..MaxDay
    BY <1>5, <1>a DEF SetWatermark, Advanced, Locals, TypeInv, TypeOK
  <2> QED BY <1>5, <2>1, <2>2 DEF SetWatermark, TypeInv, TypeOK, world
<1>6. CASE Finish(p)
  <2> DEFINE j == me[p].job
             ended == [job[j] EXCEPT !.status = me[p].end, !.pages = me[p].pages,
                                     !.token = me[p].token,
                                     !.error = me[p].end # "completed"]
  <2>1. pc[p] \in OnJob /\ j \in Job /\ Leaving(p)
    BY <1>6, <1>a DEF Finish
  <2>2. ended \in Row
    BY <1>a, <1>b, <2>1 DEF Row, Locals
  <2>3. /\ job' = [job EXCEPT ![j] = ended]
        /\ latest' = [latest EXCEPT ![job[j].mode] = j]
    BY <1>6, <2>1 DEF Finish, TypeInv, TypeOK
  <2>4. job' \in [Job -> Row] /\ latest' \in [Mode -> Job \cup {NoJob}]
    <3> HIDE DEF ended
    <3> QED BY <2>1, <2>2, <2>3, <1>a DEF TypeInv, TypeOK, Row
  <2>5. Moved
    BY <2>1, MovesTyped
  <2> QED BY <1>6, <2>4, <2>5 DEF Finish, TypeInv, TypeOK, world
<1>7. CASE Leave(p)
  <2>1. Moved
    BY <1>7, ConstantsTyped, GotoTyped DEF Leave
  <2> QED BY <1>7, <2>1, LeasesTyped DEF Leave, TypeInv, TypeOK, world, rows
<1> QED BY <1>1, <1>2, <1>3, <1>4, <1>5, <1>6, <1>7

\* What happens to runs, leases and the world.
LEMMA WorldTyped ==
    ASSUME TypeInv,
           \/ \E p \in Proc : Crash(p) \/ Interrupt(p)
           \/ ScopeExpires \/ UpstreamExpires \/ Stall
           \/ WorkerTakes \/ WorkerReleases \/ Tomorrow
           \/ \E j \in Job : DeadlinePasses(j)
    PROVE  TypeInv'
<1>1. ASSUME NEW p \in Proc, Crash(p) \/ Interrupt(p)
      PROVE  TypeInv'
  <2>1. pc' \in [Proc -> Label] /\ me' \in [Proc -> Locals] /\ WorksOnJob'
    <3>1. "idle" \in Label /\ "idle" \notin OnJob
      BY DEF Label, OnJob
    <3> QED BY <1>1, <3>1, MovesTyped, ConstantsTyped, GotoTyped DEF Crash, Interrupt
  <2>2. crashes' \in 0..MaxCrashes
    BY <1>1, HarvestAssumption DEF Crash, Interrupt, TypeInv, TypeOK
  <2> QED BY <1>1, <2>1, <2>2 DEF Crash, Interrupt, TypeInv, TypeOK, rows
<1>2. CASE ScopeExpires \/ UpstreamExpires \/ WorkerTakes \/ WorkerReleases
  <2>1. scope' \in [owner : Proc \cup {None, Gone}, live : BOOLEAN]
    BY <1>2 DEF ScopeExpires, UpstreamExpires, WorkerTakes, WorkerReleases,
                TypeInv, TypeOK
  <2>2. upstream' \in [owner : Job \cup {None, Worker}, live : BOOLEAN]
    <3> DEFINE Lease == [owner : Job \cup {None, Worker}, live : BOOLEAN]
    <3>1. Held(Worker) \in Lease /\ Free \in Lease
      BY DEF Held, Free
    <3>2. upstream \in Lease /\ [upstream EXCEPT !.live = FALSE] \in Lease
      BY DEF TypeInv, TypeOK
    <3>3. upstream' \in {upstream, [upstream EXCEPT !.live = FALSE], Held(Worker), Free}
      BY <1>2 DEF ScopeExpires, UpstreamExpires, WorkerTakes, WorkerReleases
    <3> QED BY <3>1, <3>2, <3>3
  <2>3. UNCHANGED <<world, rows, locals, hist>>
    BY <1>2 DEF ScopeExpires, UpstreamExpires, WorkerTakes, WorkerReleases
  <2> QED BY <2>1, <2>2, <2>3 DEF TypeInv, TypeOK, WorksOnJob, world, rows, locals
<1>3. CASE Stall
  <2>1. stalls' \in 0..MaxStalls
    BY <1>3, HarvestAssumption DEF Stall, TypeInv, TypeOK
  <2> QED BY <1>3, <2>1 DEF Stall, TypeInv, TypeOK, WorksOnJob, rows, locals
<1>4. CASE Tomorrow
  BY <1>4, HarvestAssumption DEF Tomorrow, TypeInv, TypeOK, WorksOnJob, rows, locals
<1>5. ASSUME NEW j \in Job, DeadlinePasses(j)
      PROVE  TypeInv'
  <2>1. [job[j] EXCEPT !.late = TRUE] \in Row
    <3>1. job[j] \in Row
      BY DEF TypeInv, TypeOK
    <3> QED BY <3>1 DEF Row
  <2>2. job' \in [Job -> Row]
    BY <1>5, <2>1 DEF DeadlinePasses, TypeInv, TypeOK
  <2> QED BY <1>5, <2>2 DEF DeadlinePasses, TypeInv, TypeOK, WorksOnJob, world, locals
<1> QED BY <1>1, <1>2, <1>3, <1>4, <1>5

LEMMA TypeStep == TypeInv /\ [Next]_vars => TypeInv'
<1> SUFFICES ASSUME TypeInv, [Next]_vars PROVE TypeInv'
  OBVIOUS
<1>1. CASE UNCHANGED vars
  BY <1>1 DEF vars, TypeInv, TypeOK, WorksOnJob
<1> QED BY <1>1, StartTyped, AskTyped, AnswerTyped, WorldTyped DEF Next, Step

\* Rows, leases and the locals of every run stay well typed, and who works on
\* a job knows which.
THEOREM TypeCorrect == Spec => []TypeOK
<1>1. Spec => []TypeInv
  BY InitTyped, TypeStep, PTL DEF Spec
<1>2. TypeInv => TypeOK
  BY DEF TypeInv
<1> QED BY <1>1, <1>2, PTL

-----------------------------------------------------------------------------
(* The durable cursor.                                                     *)

\* A row not inserted has stored nothing, and a run that is about to end a
\* job knows in which terminal status.
NothingStored == \A j \in Job : job[j].status = "none" => hist[j].log = <<>>

EndKnown ==
    \A p \in Proc : pc[p] \in {"recording", "finishing"} => me[p].end \in Terminal

CursorInv == TypeInv /\ CursorExact /\ NothingStored /\ EndKnown

\* What concerns the cursor of job j is as before.
CursorKept(j) ==
    /\ job'[j].status = job[j].status
    /\ job'[j].pages = job[j].pages
    /\ job'[j].token = job[j].token
    /\ hist'[j].start = hist[j].start
    /\ hist'[j].log = hist[j].log

LEMMA KeptCursor ==
    ASSUME CursorInv, UNCHANGED list,
           \A j \in Job : CursorKept(j)
    PROVE  CursorExact' /\ NothingStored'
<1>1. CursorExact'
  BY DEF CursorInv, CursorExact, CursorKept
<1>2. NothingStored'
  BY DEF CursorInv, NothingStored, CursorKept
<1> QED BY <1>1, <1>2

LEMMA EndStep ==
    ASSUME TypeInv, EndKnown, [Next]_vars
    PROVE  EndKnown'
<1> USE DEF EndKnown
<1>a. \A p \in Proc : \A label, mine :
         Goto(p, label, mine) /\ (label \in {"recording", "finishing"} => mine.end \in Terminal)
            => EndKnown'
  BY DEF Goto, TypeInv, TypeOK
<1>b. \A p \in Proc : Leaving(p) => EndKnown'
  BY <1>a DEF Leaving
<1>c. \A p \in Proc : \A status \in Terminal : \A n : Ending(p, status, n) => EndKnown'
  <2> SUFFICES ASSUME NEW p \in Proc, NEW status \in Terminal, NEW n, Ending(p, status, n)
               PROVE  EndKnown'
    OBVIOUS
  <2>1. [me[p] EXCEPT !.end = status, !.pages = n].end = status
    BY DEF TypeInv, TypeOK, Locals
  <2> QED BY <1>a, <2>1 DEF Ending
<1>d. \A p \in Proc : \A label \in Label \ {"recording", "finishing"} : \A mine :
         Goto(p, label, mine) => EndKnown'
  BY <1>a
<1>1. CASE UNCHANGED locals
  BY <1>1 DEF locals
<1>2. ASSUME NEW p \in Proc, Step(p) \/ Crash(p) \/ Interrupt(p) \/ \E m \in Mode : Start(p, m)
      PROVE  EndKnown'
  <2> USE DEF Label
  <2>a. me[p] \in Locals
    BY DEF TypeInv, TypeOK
  <2>b. {"failed", "completed", "budget_exceeded", "cooling_down", "blocked",
         "rate_limited", "transient_failure"} \subseteq Terminal
    BY DEF Terminal, Resumable
  <2>1. CASE (\E m \in Mode : Start(p, m)) \/ FindRunning(p)
             \/ FindResumable(p) \/ CreateJob(p)
    BY <2>1, <1>d DEF Start, FindRunning, FindResumable, CreateJob
  <2>2. CASE NoJobLeft(p) \/ Interrupt(p) \/ Finish(p)
    BY <2>2, <1>b DEF NoJobLeft, Interrupt, Finish
  <2>3. CASE Load(p) \/ RenewScope(p) \/ GiveUpWait(p) \/ RecordRequest(p) \/ Fence(p)
             \/ DeadlineStops(p)
    BY <2>3, <2>b, <1>b, <1>c, <1>d
    DEF Load, RenewScope, GiveUpWait, RecordRequest, Fence, DeadlineStops
  <2>4. CASE Send(p) \/ PageArrives(p) \/ Checkpoint(p) \/ AfterSuccess(p)
             \/ SetWatermark(p) \/ Leave(p) \/ Crash(p)
    BY <2>4, <2>b, <1>b, <1>c, <1>d
    DEF Send, PageArrives, Checkpoint, AfterSuccess, SetWatermark, Leave, Crash
  <2>5. CASE Ask(p)
    <3>1. \A status \in Terminal : [me[p] EXCEPT !.end = status].end \in Terminal
      BY <2>a DEF Locals
    <3> QED BY <2>5, <2>b, <3>1, <1>a, <1>c, <1>d DEF Ask
  <2>6. CASE FetchFails(p)
    <3>1. \A status \in Terminal : [me[p] EXCEPT !.end = status].end \in Terminal
      BY <2>a DEF Locals
    <3> QED BY <2>6, <2>b, <3>1, <1>a DEF FetchFails
  <2>7. CASE RecordPage(p)
    BY <2>7, <1>c DEF RecordPage
  <2> QED BY <1>2, <2>1, <2>2, <2>3, <2>4, <2>5, <2>6, <2>7 DEF Step
<1>3. CASE UNCHANGED vars
  BY <1>1, <1>3 DEF vars, locals
<1>4. CASE \/ ScopeExpires \/ UpstreamExpires \/ Stall \/ WorkerTakes \/ WorkerReleases
           \/ Tomorrow \/ \E j \in Job : DeadlinePasses(j)
  BY <1>1, <1>4 DEF ScopeExpires, UpstreamExpires, Stall, WorkerTakes, WorkerReleases,
                    Tomorrow, DeadlinePasses
<1> QED BY <1>2, <1>3, <1>4 DEF Next

\* A run that inserts a job: its cursor is where the job starts.
LEMMA CreateCursor ==
    ASSUME CursorInv, NEW p \in Proc, CreateJob(p)
    PROVE  CursorExact' /\ NothingStored'
<1>1. PICK i \in NotUsed :
         /\ job' = [job EXCEPT ![i] = [Unused EXCEPT !.status = "running",
                                          !.mode = me[p].mode, !.token = me[p].token]]
         /\ hist' = [hist EXCEPT ![i].start = me[p].token,
                        ![i].before = IF me[p].job = NoJob THEN {} ELSE Stored(me[p].job)]
  BY DEF CreateJob
<1>2. i \in Job /\ job[i].status = "none" /\ hist[i].log = <<>>
  BY DEF NotUsed, CursorInv, NothingStored
<1>3. /\ job'[i].status = "running" /\ job'[i].pages = 0 /\ job'[i].token = me[p].token
      /\ hist'[i].start = me[p].token /\ hist'[i].log = <<>>
  BY <1>1, <1>2 DEF Unused, CursorInv, TypeInv, TypeOK, History
<1>4. \A j \in Job \ {i} : CursorKept(j)
  BY <1>1, <1>2 DEF CursorKept, CursorInv, TypeInv, TypeOK
<1>5. UNCHANGED list
  BY DEF CreateJob, world
<1>6. CursorExact'
  <2> SUFFICES ASSUME NEW j \in Job, job'[j].status = "running"
               PROVE  LET log == hist'[j].log
                          n == Len(log)
                      IN  /\ job'[j].pages = n
                          /\ job'[j].token = IF n = 0 THEN hist'[j].start
                                                      ELSE list'.next[log[n]]
                          /\ n > 0 => log[1] = hist'[j].start
                          /\ \A k \in 2..n : log[k] = list'.next[log[k - 1]]
    BY DEF CursorExact
  <2>1. CASE j = i
    BY <2>1, <1>3
  <2>2. CASE j # i
    BY <2>2, <1>4, <1>5 DEF CursorInv, CursorExact, CursorKept
  <2> QED BY <2>1, <2>2
<1>7. NothingStored'
  BY <1>3, <1>4 DEF CursorInv, NothingStored, CursorKept
<1> QED BY <1>6, <1>7

\* A checkpoint: the page is appended and the cursor is what follows it.
LEMMA CheckpointCursor ==
    ASSUME CursorInv, NEW p \in Proc, Checkpoint(p)
    PROVE  CursorExact' /\ NothingStored'
<1> DEFINE i == me[p].job
           token == me[p].token
           old == hist[i].log
           new == hist'[i].log
<1>a. UNCHANGED list
  BY DEF Checkpoint, world
<1>1. i \in Job /\ token \in Cursor /\ me[p].pages \in Nat /\ old \in Seq(Cursor)
  BY DEF CursorInv, TypeInv, TypeOK, WorksOnJob, OnJob, Checkpoint, Locals, History
<1>2. CASE ~CursorMatches(p)
  <2>1. \A j \in Job : CursorKept(j)
    BY <1>2 DEF Checkpoint, CursorKept
  <2> QED BY <2>1, <1>a, KeptCursor
<1>3. CASE CursorMatches(p)
  <2>1. /\ job[i].status = "running" /\ job[i].pages = me[p].pages /\ job[i].token = token
    BY <1>3 DEF CursorMatches
  <2>2. /\ job'[i].status = "running"
        /\ job'[i].pages = me[p].pages + 1
        /\ job'[i].token = list.next[token]
        /\ new = Append(old, token)
        /\ hist'[i].start = hist[i].start
        /\ \A j \in Job \ {i} : CursorKept(j)
    <3>1. job[i] \in Row /\ hist[i] \in History
      BY <1>1 DEF CursorInv, TypeInv, TypeOK
    <3>2. /\ \A j \in Job \ {i} : job'[j] = job[j] /\ hist'[j] = hist[j]
          /\ hist' = [hist EXCEPT ![i].log = Append(@, token)]
      BY <1>3, <1>1 DEF Checkpoint, CursorInv, TypeInv, TypeOK
    <3>3. hist'[i] = [hist[i] EXCEPT !.log = Append(@, token)]
      BY <3>2, <1>1 DEF CursorInv, TypeInv, TypeOK
    <3>4. new = Append(old, token) /\ hist'[i].start = hist[i].start
      BY <3>1, <3>3 DEF History
    <3>5. /\ job'[i].status = job[i].status
          /\ job'[i].pages = IF job[i].pages > me[p].pages THEN job[i].pages
                                                           ELSE me[p].pages + 1
          /\ job'[i].token = list.next[token]
      <4> DEFINE next == list.next[token]
                 pages == IF job[i].pages > me[p].pages THEN job[i].pages ELSE me[p].pages + 1
                 seen == job[i].seen \cup ({token} \ {None})
      <4>1. job' = [job EXCEPT ![i] = [job[i] EXCEPT !.pages = pages,
                                                     !.token = next,
                                                     !.finished = next = None,
                                                     !.error = TokenError(p),
                                                     !.response = me[p].response,
                                                     !.seen = seen]]
        BY <1>3 DEF Checkpoint
      <4>2. job'[i] = [job[i] EXCEPT !.pages = pages,
                                     !.token = next,
                                     !.finished = next = None,
                                     !.error = TokenError(p),
                                     !.response = me[p].response,
                                     !.seen = seen]
        <5> HIDE DEF next, pages, seen
        <5> QED BY <4>1, <1>1 DEF CursorInv, TypeInv, TypeOK
      <4> HIDE DEF next, pages, seen
      <4>3. /\ job'[i].status = job[i].status
            /\ job'[i].pages = pages
            /\ job'[i].token = next
        BY <4>2, <3>1 DEF Row
      <4> QED BY <4>3 DEF next, pages
    <3> HIDE DEF old, new, token
    <3>6. \A j \in Job \ {i} : CursorKept(j)
      BY <3>2 DEF CursorKept
    <3>7. job'[i].pages = me[p].pages + 1
      BY <1>1, <2>1, <3>5
    <3> QED BY <2>1, <3>4, <3>5, <3>6, <3>7
  <2>3. /\ Len(new) = Len(old) + 1
        /\ new[Len(old) + 1] = token
        /\ \A k \in 1..Len(old) : new[k] = old[k]
    <3>1. new = Append(old, token)
      BY <2>2
    <3> HIDE DEF old, new, token
    <3> QED BY <1>1, <3>1
  <2>4. /\ me[p].pages = Len(old)
        /\ token = IF Len(old) = 0 THEN hist[i].start ELSE list.next[old[Len(old)]]
        /\ Len(old) > 0 => old[1] = hist[i].start
        /\ \A k \in 2..Len(old) : old[k] = list.next[old[k - 1]]
    BY <1>1, <2>1 DEF CursorInv, CursorExact
  <2>5. Len(old) \in Nat
    BY <1>1
  <2>6. \A k \in 2..Len(new) : new[k] = list.next[new[k - 1]]
    <3> SUFFICES ASSUME NEW k \in 2..Len(new) PROVE new[k] = list.next[new[k - 1]]
      OBVIOUS
    <3> HIDE DEF new, old, token
    <3>1. CASE k = Len(old) + 1
      BY <3>1, <2>3, <2>4, <2>5
    <3>2. CASE k \in 2..Len(old)
      BY <3>2, <2>3, <2>4, <2>5
    <3> QED BY <3>1, <3>2, <2>3, <2>5
  <2>7. /\ job'[i].pages = Len(new)
        /\ job'[i].token = IF Len(new) = 0 THEN hist'[i].start
                                           ELSE list.next[new[Len(new)]]
        /\ Len(new) > 0 => new[1] = hist'[i].start
    <3> HIDE DEF new, old, token
    <3>1. job'[i].pages = Len(new) /\ Len(new) # 0
      BY <2>2, <2>3, <2>4, <2>5
    <3>2. job'[i].token = list.next[new[Len(new)]]
      BY <2>2, <2>3
    <3>3. new[1] = hist'[i].start
      BY <2>2, <2>3, <2>4, <2>5
    <3> QED BY <3>1, <3>2, <3>3
  <2>8. CursorExact'
    <3> SUFFICES ASSUME NEW j \in Job, job'[j].status = "running"
                 PROVE  LET log == hist'[j].log
                            n == Len(log)
                        IN  /\ job'[j].pages = n
                            /\ job'[j].token = IF n = 0 THEN hist'[j].start
                                                        ELSE list'.next[log[n]]
                            /\ n > 0 => log[1] = hist'[j].start
                            /\ \A k \in 2..n : log[k] = list'.next[log[k - 1]]
      BY DEF CursorExact
    <3>1. CASE j = i
      <4>1. /\ \A k \in 2..Len(new) : new[k] = list'.next[new[k - 1]]
            /\ job'[i].token = IF Len(new) = 0 THEN hist'[i].start
                                               ELSE list'.next[new[Len(new)]]
        <5> HIDE DEF new
        <5> QED BY <2>6, <2>7, <1>a
      <4> HIDE DEF i, token, old
      <4> QED BY <3>1, <4>1, <2>7
    <3>2. CASE j # i
      <4>1. CursorKept(j)
        <5> HIDE DEF i, token, old, new, CursorKept
        <5> QED BY <3>2, <2>2
      <4>2. CursorExact /\ list' = list
        BY <1>a DEF CursorInv
      <4> HIDE DEF i, token, old, new
      <4> QED BY <4>1, <4>2 DEF CursorExact, CursorKept
    <3> QED BY <3>1, <3>2
  <2>9. NothingStored'
    BY <2>2 DEF CursorInv, NothingStored, CursorKept
  <2> QED BY <2>8, <2>9
<1> QED BY <1>2, <1>3

\* The end of a job: it is no longer running, and the others are as before.
LEMMA FinishCursor ==
    ASSUME CursorInv, NEW p \in Proc, Finish(p)
    PROVE  CursorExact' /\ NothingStored'
<1> DEFINE i == me[p].job
<1>1. i \in Job /\ me[p].end \in Terminal
  BY DEF Finish, CursorInv, TypeInv, WorksOnJob, OnJob, EndKnown
<1>2. UNCHANGED <<list, hist>>
  BY DEF Finish, world
<1>3. \A j \in Job \ {i} : job'[j] = job[j]
  BY DEF Finish, CursorInv, TypeInv, TypeOK
<1>4. job'[i].status = me[p].end
  BY <1>1 DEF Finish, CursorInv, TypeInv, TypeOK, Row
<1>5. job'[i].status \notin {"none", "running"}
  BY <1>1, <1>4 DEF Terminal, Resumable
<1>6. CursorExact'
  BY <1>2, <1>3, <1>5 DEF CursorInv, CursorExact
<1>7. NothingStored'
  BY <1>2, <1>3, <1>5 DEF CursorInv, NothingStored
<1> QED BY <1>6, <1>7

LEMMA CursorStep == CursorInv /\ [Next]_vars => CursorInv'
<1> SUFFICES ASSUME CursorInv, [Next]_vars PROVE CursorInv'
  OBVIOUS
<1>a. TypeInv' /\ EndKnown'
  BY TypeStep, EndStep DEF CursorInv
<1>1. CASE UNCHANGED <<list, job, hist>>
  <2>1. \A j \in Job : CursorKept(j)
    BY <1>1 DEF CursorKept
  <2> QED BY <1>1, <1>a, <2>1, KeptCursor DEF CursorInv
<1>2. ASSUME NEW p \in Proc,
             RecordPage(p) \/ RecordRequest(p) \/ Send(p)
      PROVE  CursorInv'
  <2>1. pc[p] \in OnJob /\ me[p].job \in Job /\ UNCHANGED list
    BY <1>2 DEF RecordPage, RecordRequest, Send, OnJob, CursorInv, TypeInv, WorksOnJob, world
  <2>2. \A j \in Job : CursorKept(j)
    <3> USE DEF CursorKept, CursorInv, TypeInv, TypeOK
    <3>1. CASE RecordPage(p)
      BY <3>1, <2>1 DEF RecordPage, Row
    <3>2. CASE RecordRequest(p)
      BY <3>2, <2>1 DEF RecordRequest, Row
    <3>3. CASE Send(p)
      BY <3>3, <2>1 DEF Send, History, rows
    <3> QED BY <1>2, <3>1, <3>2, <3>3
  <2> QED BY <1>a, <2>1, <2>2, KeptCursor DEF CursorInv
<1>3. ASSUME NEW i \in Job, DeadlinePasses(i)
      PROVE  CursorInv'
  <2>1. (\A j \in Job : CursorKept(j)) /\ UNCHANGED list
    BY <1>3 DEF DeadlinePasses, CursorKept, CursorInv, TypeInv, TypeOK, Row, world
  <2> QED BY <1>a, <2>1, KeptCursor DEF CursorInv
<1>4. ASSUME NEW p \in Proc, CreateJob(p) \/ Checkpoint(p) \/ Finish(p)
      PROVE  CursorInv'
  BY <1>4, <1>a, CreateCursor, CheckpointCursor, FinishCursor DEF CursorInv
<1>5. ASSUME NEW p \in Proc,
             \/ (\E m \in Mode : Start(p, m)) \/ FindRunning(p) \/ FindResumable(p)
             \/ NoJobLeft(p) \/ Load(p) \/ RenewScope(p) \/ Ask(p) \/ GiveUpWait(p)
             \/ Fence(p) \/ DeadlineStops(p) \/ FetchFails(p) \/ PageArrives(p)
             \/ AfterSuccess(p) \/ SetWatermark(p) \/ Leave(p) \/ Crash(p) \/ Interrupt(p)
      PROVE  UNCHANGED <<list, job, hist>>
  BY <1>5 DEF Start, FindRunning, FindResumable, NoJobLeft, Load, RenewScope, Ask, GiveUpWait,
              Fence, DeadlineStops, FetchFails, PageArrives, AfterSuccess, SetWatermark,
              Leave, Crash, Interrupt, world, rows
<1>6. CASE \/ ScopeExpires \/ UpstreamExpires \/ Stall \/ WorkerTakes \/ WorkerReleases
           \/ Tomorrow \/ UNCHANGED vars
  BY <1>1, <1>6 DEF ScopeExpires, UpstreamExpires, Stall, WorkerTakes, WorkerReleases,
                    Tomorrow, vars, world, rows
<1> QED BY <1>1, <1>2, <1>3, <1>4, <1>5, <1>6 DEF Next, Step

LEMMA InitCursor == Init => CursorInv
<1> SUFFICES ASSUME Init PROVE CursorInv
  OBVIOUS
<1>1. \A j \in Job : job[j].status = "none" /\ hist[j].log = <<>>
  BY DEF Init, Unused, NoHistory
<1>2. CursorExact /\ NothingStored
  BY <1>1 DEF CursorExact, NothingStored
<1>3. EndKnown
  BY DEF Init, EndKnown
<1> QED BY <1>2, <1>3, InitTyped DEF CursorInv

\* The cursor of a running job is exactly what the job has stored, also when
\* runs are suspended past their leases and checkpoint beside a successor:
\* checkpoint_oai_page compares the whole cursor before it writes.
THEOREM CursorHolds == Spec => []CursorExact
<1>1. CursorInv => CursorExact
  BY DEF CursorInv
<1> QED BY <1>1, InitCursor, CursorStep, PTL DEF Spec

-----------------------------------------------------------------------------
(* Bad tokens.                                                             *)

\* Where a run goes on only because no stored page was a bad one.
Clean == {"looping", "asking", "waiting", "fencing", "fenced", "fetching", "fetched",
          "recording", "marking"}

\* What a run that alone holds the scope knows of its job.
JobState(p) ==
    LET j == me[p].job
    IN  /\ pc[p] \in {"looking", "continuing", "creating"} => ~me[p].error
        /\ pc[p] \in Clean => job[j].status = "running" /\ ~job[j].error
        /\ pc[p] \in {"loading", "stored"} =>
              job[j].status = "running" /\ me[p].error = job[j].error
        /\ pc[p] = "finishing" =>
              job[j].status = "running" /\ (job[j].error => me[p].end = "failed")

\* Unless a live run outlived its lease, the scope lease excludes.
OneRun ==
    stalls = 0 => \A p \in Proc : /\ pc[p] # "idle" => scope = Held(p)
                                  /\ JobState(p)

RunInv == TypeInv /\ OneRun

\* A statement of a run that keeps or renews its scope lease: the other runs
\* are idle, so what it knows is all there is to know.
LEMMA RunMoves ==
    ASSUME RunInv, stalls = 0, NEW p \in Proc, pc[p] # "idle",
           NEW label, NEW mine, Goto(p, label, mine),
           scope' = Held(p), JobState(p)'
    PROVE  OneRun'
<1>1. scope = Held(p) /\ \A q \in Proc \ {p} : pc[q] = "idle"
  BY DEF RunInv, OneRun, Held
<1>2. \A q \in Proc \ {p} : pc'[q] = "idle"
  BY <1>1 DEF Goto, RunInv, TypeInv, TypeOK
<1>3. \A q \in Proc \ {p} : JobState(q)'
  BY <1>2 DEF JobState, Clean
<1> QED BY <1>2, <1>3 DEF OneRun

\* When a run goes to "leaving" or "idle" there is nothing left to know.
LEMMA RunEnds ==
    ASSUME RunInv, stalls = 0, NEW p \in Proc, pc[p] # "idle",
           NEW label \in {"leaving", "idle"}, NEW mine, Goto(p, label, mine),
           label = "leaving" => UNCHANGED scope
    PROVE  OneRun'
<1>1. scope = Held(p) /\ \A q \in Proc \ {p} : pc[q] = "idle"
  BY DEF RunInv, OneRun, Held
<1>2. pc'[p] = label /\ \A q \in Proc \ {p} : pc'[q] = "idle"
  BY <1>1 DEF Goto, RunInv, TypeInv, TypeOK
<1>3. \A q \in Proc : JobState(q)'
  BY <1>2 DEF JobState, Clean
<1> QED BY <1>1, <1>2, <1>3 DEF OneRun, RunInv, OneRun

LEMMA StartRun ==
    ASSUME RunInv, stalls = 0, NEW p \in Proc,
           \/ \E m \in Mode : Start(p, m)
           \/ FindRunning(p) \/ FindResumable(p) \/ CreateJob(p)
    PROVE  OneRun'
<1>a. /\ pc[p] # "idle" => scope = Held(p)
      /\ JobState(p)
  BY DEF RunInv, OneRun
<1>1. ASSUME NEW m \in Mode, Start(p, m)
      PROVE  OneRun'
  <2>1. \A q \in Proc : pc[q] = "idle"
    BY <1>1 DEF Start, RunInv, OneRun, Held
  <2>2. /\ pc'[p] = "looking" /\ me'[p] = [Blank EXCEPT !.mode = m] /\ scope' = Held(p)
        /\ \A q \in Proc \ {p} : pc'[q] = "idle"
    BY <1>1, <2>1 DEF Start, Goto, RunInv, TypeInv, TypeOK
  <2>3. \A q \in Proc : JobState(q)'
    BY <2>2 DEF JobState, Clean, Blank
  <2> QED BY <2>2, <2>3 DEF OneRun
<1>2. CASE FindRunning(p)
  <2>1. pc[p] = "looking" /\ scope' = Held(p) /\ ~me[p].error
    BY <1>2, <1>a DEF FindRunning, JobState
  <2>2. CASE Running(me[p].mode) = {}
    <3>1. Goto(p, "continuing", me[p])
      BY <1>2, <2>2 DEF FindRunning
    <3>2. JobState(p)'
      BY <2>1, <3>1 DEF Goto, JobState, Clean, RunInv, TypeInv, TypeOK
    <3> QED BY <2>1, <3>1, <3>2, RunMoves
  <2>3. ASSUME NEW j \in Running(me[p].mode), Goto(p, "loading", FromRow(j))
        PROVE  OneRun'
    <3>1. j \in Job /\ job[j].status = "running" /\ UNCHANGED job
      BY <1>2, <2>3 DEF Running, FindRunning, rows
    <3>2. FromRow(j).job = j /\ FromRow(j).error = job[j].error
      BY DEF FromRow, Blank
    <3>3. JobState(p)'
      BY <2>3, <3>1, <3>2 DEF Goto, JobState, Clean, RunInv, TypeInv, TypeOK
    <3> QED BY <2>1, <2>3, <3>3, RunMoves
  <2> QED BY <1>2, <2>2, <2>3 DEF FindRunning
<1>3. CASE FindResumable(p)
  <2> DEFINE token == ResumableToken(me[p].mode)
             mine == [me[p] EXCEPT !.token = token,
                         !.job = IF token = None THEN NoJob ELSE latest[me[p].mode]]
  <2>1. pc[p] = "continuing" /\ scope' = Held(p) /\ ~me[p].error
    BY <1>3, <1>a DEF FindResumable, JobState
  <2>2. Goto(p, "creating", mine)
    BY <1>3 DEF FindResumable
  <2>3. ~mine.error
    BY <2>1 DEF RunInv, TypeInv, TypeOK, Locals
  <2>4. JobState(p)'
    BY <2>2, <2>3 DEF Goto, JobState, Clean, RunInv, TypeInv, TypeOK
  <2> QED BY <2>1, <2>2, <2>4, RunMoves
<1>4. CASE CreateJob(p)
  <2>1. pc[p] = "creating" /\ scope' = Held(p) /\ ~me[p].error
    BY <1>4, <1>a DEF CreateJob, JobState
  <2>2. PICK j \in NotUsed :
           /\ job' = [job EXCEPT ![j] = [Unused EXCEPT !.status = "running",
                                            !.mode = me[p].mode, !.token = me[p].token]]
           /\ Goto(p, "loading", [me[p] EXCEPT !.job = j])
    BY <1>4 DEF CreateJob
  <2>3. j \in Job /\ job'[j].status = "running" /\ job'[j].error = FALSE
    BY <2>2 DEF NotUsed, Unused, RunInv, TypeInv, TypeOK
  <2>4. [me[p] EXCEPT !.job = j].job = j /\ [me[p] EXCEPT !.job = j].error = FALSE
    BY <2>1 DEF RunInv, TypeInv, TypeOK, Locals
  <2>5. pc'[p] = "loading" /\ me'[p].job = j /\ me'[p].error = FALSE
    BY <2>2, <2>4 DEF Goto, RunInv, TypeInv, TypeOK
  <2>6. JobState(p)'
    BY <2>3, <2>5 DEF JobState, Clean
  <2> QED BY <2>1, <2>2, <2>6, RunMoves
<1> QED BY <1>1, <1>2, <1>3, <1>4

\* What the next lemmas need of a run that moves on with its job, or ends it.
LEMMA RunFacts ==
    ASSUME RunInv, stalls = 0, NEW p \in Proc
    PROVE  /\ pc[p] # "idle" => scope = Held(p)
           /\ JobState(p)
           /\ me[p] \in Locals
           /\ pc[p] \in OnJob => me[p].job \in Job /\ job[me[p].job] \in Row
           /\ \A label, mine : Goto(p, label, mine) => pc'[p] = label /\ me'[p] = mine
           /\ \A label \in Clean : \A mine :
                 Goto(p, label, mine) /\ UNCHANGED job /\ mine.job = me[p].job /\ pc[p] \in Clean
                    => JobState(p)'
           /\ \A status, pages :
                 /\ Ending(p, status, pages)
                 /\ UNCHANGED job
                 /\ \/ pc[p] \in Clean
                    \/ pc[p] \in {"loading", "stored"} /\ status = "failed"
              => JobState(p)' /\ \E mine : Goto(p, "finishing", mine)
<1> DEFINE j == me[p].job
<1>1. /\ pc[p] # "idle" => scope = Held(p)
      /\ JobState(p)
      /\ me[p] \in Locals
      /\ pc[p] \in OnJob => j \in Job /\ job[j] \in Row
  BY DEF RunInv, OneRun, TypeInv, TypeOK, WorksOnJob
<1>2. \A label, mine : Goto(p, label, mine) => pc'[p] = label /\ me'[p] = mine
  BY DEF Goto, RunInv, TypeInv, TypeOK
<1>3. ASSUME NEW label \in Clean, NEW mine, Goto(p, label, mine), UNCHANGED job,
             mine.job = j, pc[p] \in Clean
      PROVE  JobState(p)'
  <2>1. pc'[p] = label /\ me'[p].job = j
    BY <1>2, <1>3
  <2> QED BY <1>1, <1>3, <2>1 DEF JobState, Clean
<1>4. ASSUME NEW status, NEW pages, Ending(p, status, pages), UNCHANGED job,
             \/ pc[p] \in Clean
             \/ pc[p] \in {"loading", "stored"} /\ status = "failed"
      PROVE  JobState(p)' /\ \E mine : Goto(p, "finishing", mine)
  <2> DEFINE mine == [me[p] EXCEPT !.end = status, !.pages = pages]
  <2>1. Goto(p, "finishing", mine)
    BY <1>4 DEF Ending
  <2>2. mine.job = j /\ mine.end = status
    BY <1>1 DEF Locals
  <2>3. pc'[p] = "finishing" /\ me'[p].job = j /\ me'[p].end = status
    BY <1>2, <2>1, <2>2
  <2> QED BY <1>1, <1>4, <2>1, <2>3 DEF JobState, Clean
<1> QED BY <1>1, <1>2, <1>3, <1>4

\* From the loop to the answer.
LEMMA AskRun ==
    ASSUME RunInv, stalls = 0, NEW p \in Proc,
           \/ Load(p) \/ RenewScope(p) \/ Ask(p) \/ RecordPage(p) \/ GiveUpWait(p)
           \/ RecordRequest(p) \/ Fence(p) \/ DeadlineStops(p) \/ Send(p)
    PROVE  OneRun'
<1> DEFINE j == me[p].job
<1>a. /\ pc[p] # "idle" => scope = Held(p)
      /\ JobState(p)
      /\ me[p] \in Locals
      /\ pc[p] \in OnJob => j \in Job /\ job[j] \in Row
  BY RunFacts
<1>b. \A label \in Clean : \A mine :
         Goto(p, label, mine) /\ UNCHANGED job /\ mine.job = j /\ pc[p] \in Clean => JobState(p)'
  BY RunFacts
<1>c. \A status, pages :
         /\ Ending(p, status, pages)
         /\ UNCHANGED job
         /\ \/ pc[p] \in Clean
            \/ pc[p] \in {"loading", "stored"} /\ status = "failed"
      => JobState(p)' /\ \E mine : Goto(p, "finishing", mine)
  BY RunFacts
<1>d. \A label, mine : Goto(p, label, mine) => pc'[p] = label /\ me'[p] = mine
  BY RunFacts
<1>1. CASE Load(p)
  <2>1. pc[p] = "loading" /\ pc[p] # "idle" /\ scope' = Held(p) /\ UNCHANGED job
    BY <1>1, <1>a DEF Load, rows
  <2>2. CASE me[p].error
    BY <1>1, <2>1, <2>2, <1>c, RunMoves DEF Load
  <2>3. CASE ~me[p].error
    <3> DEFINE mine == [me[p] EXCEPT !.seen = job[me[p].job].seen]
               label == IF me[p].finished THEN "marking" ELSE "looping"
    <3>1. Goto(p, label, mine)
      BY <1>1, <2>3 DEF Load
    <3>2. mine.job = j /\ label \in Clean
      BY <1>a DEF Locals, Clean
    <3>3. pc'[p] = label /\ me'[p].job = j
      BY <1>d, <3>1, <3>2
    <3>4. JobState(p)'
      BY <1>a, <2>1, <2>3, <3>2, <3>3 DEF JobState, Clean
    <3> QED BY <2>1, <3>1, <3>4, RunMoves
  <2> QED BY <2>2, <2>3
<1>2. CASE RenewScope(p)
  <2>1. pc[p] = "looping" /\ pc[p] # "idle" /\ scope = Held(p) /\ UNCHANGED job
    BY <1>2, <1>a DEF RenewScope, rows
  <2>2. scope' = Held(p) /\ Goto(p, "asking", me[p])
    BY <1>2, <2>1 DEF RenewScope, Held
  <2>3. JobState(p)'
    BY <1>b, <2>1, <2>2 DEF Clean
  <2> QED BY <2>1, <2>2, <2>3, RunMoves
<1>3. CASE Ask(p)
  <2>1. pc[p] = "asking" /\ pc[p] # "idle" /\ scope' = Held(p) /\ UNCHANGED job
    BY <1>3, <1>a DEF Ask, rows
  <2>2. CASE Ending(p, "budget_exceeded", me[p].pages)
    BY <2>1, <2>2, <1>c, RunMoves DEF Clean
  <2>3. CASE Goto(p, "waiting", me[p])
    <3>1. JobState(p)'
      BY <1>b, <2>1, <2>3 DEF Clean
    <3> QED BY <2>1, <2>3, <3>1, RunMoves
  <2>4. ASSUME NEW status, Goto(p, "recording", [me[p] EXCEPT !.end = status])
        PROVE  OneRun'
    <3> DEFINE mine == [me[p] EXCEPT !.end = status]
    <3>1. mine.job = j
      BY <1>a DEF Locals
    <3>2. JobState(p)'
      BY <1>b, <2>1, <2>4, <3>1 DEF Clean
    <3> QED BY <2>1, <2>4, <3>2, RunMoves
  <2> QED BY <1>3, <2>2, <2>3, <2>4 DEF Ask
<1>4. CASE RecordPage(p)
  <2> DEFINE mine == [me[p] EXCEPT !.end = me[p].end, !.pages = me[p].pages + 1]
  <2>1. pc[p] = "recording" /\ pc[p] # "idle" /\ scope' = Held(p) /\ j \in Job
    BY <1>4, <1>a DEF RecordPage, OnJob
  <2>2. job'[j].status = job[j].status /\ job'[j].error = job[j].error
    BY <1>4, <1>a, <2>1 DEF RecordPage, Row, RunInv, TypeInv, TypeOK
  <2>3. Goto(p, "finishing", mine) /\ mine.job = j
    BY <1>4, <1>a DEF RecordPage, Ending, Locals
  <2>4. pc'[p] = "finishing" /\ me'[p].job = j
    BY <1>d, <2>3
  <2>5. JobState(p)'
    BY <1>a, <2>1, <2>2, <2>4 DEF JobState, Clean
  <2> QED BY <2>1, <2>3, <2>5, RunMoves
<1>5. CASE GiveUpWait(p) \/ DeadlineStops(p)
  <2>1. pc[p] \in Clean /\ pc[p] # "idle" /\ scope' = Held(p) /\ UNCHANGED job
    BY <1>5, <1>a DEF GiveUpWait, DeadlineStops, Clean, rows
  <2>2. Ending(p, "budget_exceeded", me[p].pages)
    BY <1>5 DEF GiveUpWait, DeadlineStops
  <2> QED BY <2>1, <2>2, <1>c, RunMoves
<1>6. CASE RecordRequest(p)
  <2> DEFINE counted == job[j].requests + IF job[j].status = "running" THEN 1 ELSE 0
             mine == [me[p] EXCEPT !.requests = counted]
  <2>1. pc[p] = "waiting" /\ pc[p] # "idle" /\ scope' = Held(p) /\ j \in Job
    BY <1>6, <1>a DEF RecordRequest, OnJob
  <2>2. job'[j].status = job[j].status /\ job'[j].error = job[j].error
    BY <1>6, <1>a, <2>1 DEF RecordRequest, Row, RunInv, TypeInv, TypeOK
  <2>3. Goto(p, "fencing", mine) /\ mine.job = j
    BY <1>6, <1>a DEF RecordRequest, Locals
  <2>4. pc'[p] = "fencing" /\ me'[p].job = j
    BY <1>d, <2>3
  <2>5. JobState(p)'
    BY <1>a, <2>1, <2>2, <2>4 DEF JobState, Clean
  <2> QED BY <2>1, <2>3, <2>5, RunMoves
<1>7. CASE Fence(p)
  <2>1. pc[p] = "fencing" /\ pc[p] # "idle" /\ scope = Held(p) /\ UNCHANGED job
    BY <1>7, <1>a DEF Fence, rows
  <2>2. CASE scope' = Held(p) /\ Goto(p, "fenced", me[p])
    <3>1. JobState(p)'
      BY <1>b, <2>1, <2>2 DEF Clean
    <3> QED BY <2>1, <2>2, <3>1, RunMoves
  <2>3. CASE Leaving(p) /\ UNCHANGED scope
    BY <2>1, <2>3, RunEnds DEF Leaving
  <2> QED BY <1>7, <2>2, <2>3 DEF Fence
<1>8. CASE Send(p)
  <2>1. pc[p] = "fenced" /\ pc[p] # "idle" /\ scope' = Held(p) /\ UNCHANGED job
    BY <1>8, <1>a DEF Send, rows
  <2>2. Goto(p, "fetching", me[p])
    BY <1>8 DEF Send
  <2>3. JobState(p)'
    BY <1>b, <2>1, <2>2 DEF Clean
  <2> QED BY <2>1, <2>2, <2>3, RunMoves
<1> QED BY <1>1, <1>2, <1>3, <1>4, <1>5, <1>6, <1>7, <1>8

\* From the answer to the end of a harvest.
LEMMA AnswerRun ==
    ASSUME RunInv, stalls = 0, NEW p \in Proc,
           \/ FetchFails(p) \/ PageArrives(p) \/ Checkpoint(p) \/ AfterSuccess(p)
           \/ SetWatermark(p) \/ Finish(p) \/ Leave(p) \/ Crash(p) \/ Interrupt(p)
           \/ NoJobLeft(p)
    PROVE  OneRun'
<1> DEFINE j == me[p].job
<1>a. /\ pc[p] # "idle" => scope = Held(p)
      /\ JobState(p)
      /\ me[p] \in Locals
      /\ pc[p] \in OnJob => j \in Job /\ job[j] \in Row
  BY RunFacts
<1>b. \A label \in Clean : \A mine :
         Goto(p, label, mine) /\ UNCHANGED job /\ mine.job = j /\ pc[p] \in Clean => JobState(p)'
  BY RunFacts
<1>c. \A status, pages :
         /\ Ending(p, status, pages)
         /\ UNCHANGED job
         /\ \/ pc[p] \in Clean
            \/ pc[p] \in {"loading", "stored"} /\ status = "failed"
      => JobState(p)' /\ \E mine : Goto(p, "finishing", mine)
  BY RunFacts
<1>d. \A label, mine : Goto(p, label, mine) => pc'[p] = label /\ me'[p] = mine
  BY RunFacts
<1>1. CASE FetchFails(p)
  <2>1. PICK status : Goto(p, "recording", [me[p] EXCEPT !.end = status])
    BY <1>1 DEF FetchFails
  <2>2. pc[p] = "fetching" /\ pc[p] # "idle" /\ scope' = Held(p) /\ UNCHANGED job
    BY <1>1, <1>a DEF FetchFails, rows
  <2>3. [me[p] EXCEPT !.end = status].job = j
    BY <1>a DEF Locals
  <2>4. JobState(p)'
    BY <1>b, <2>1, <2>2, <2>3 DEF Clean
  <2> QED BY <2>1, <2>2, <2>4, RunMoves
<1>2. CASE PageArrives(p)
  <2>1. pc[p] = "fetching" /\ pc[p] # "idle" /\ scope' = Held(p) /\ UNCHANGED job
    BY <1>2, <1>a DEF PageArrives, rows
  <2>2. Goto(p, "fetched", [me[p] EXCEPT !.response = today])
    BY <1>2 DEF PageArrives
  <2>3. [me[p] EXCEPT !.response = today].job = j
    BY <1>a DEF Locals
  <2>4. JobState(p)'
    BY <1>b, <2>1, <2>2, <2>3 DEF Clean
  <2> QED BY <2>1, <2>2, <2>4, RunMoves
<1>3. CASE Checkpoint(p)
  <2> DEFINE next == list.next[me[p].token]
             consumed == {me[p].token} \ {None}
             pages == IF job[j].pages > me[p].pages THEN job[j].pages ELSE me[p].pages + 1
             wrong == TokenError(p)
             seen == job[j].seen \cup consumed
             mine == [me[p] EXCEPT !.pages = @ + 1, !.token = next,
                                   !.finished = next = None,
                                   !.error = wrong,
                                   !.seen = @ \cup consumed]
  <2>1. pc[p] = "fetched" /\ pc[p] # "idle" /\ scope' = Held(p) /\ j \in Job
    BY <1>3, <1>a DEF Checkpoint, OnJob, world
  <2>2. CASE ~CursorMatches(p)
    BY <1>3, <1>a, <2>1, <2>2, RunEnds DEF Checkpoint, Leaving
  <2>3. CASE CursorMatches(p)
    <3>1. /\ job' = [job EXCEPT ![j] = [job[j] EXCEPT !.pages = pages,
                                                      !.token = next,
                                                      !.finished = next = None,
                                                      !.error = wrong,
                                                      !.response = me[p].response,
                                                      !.seen = seen]]
          /\ Goto(p, "stored", mine)
      BY <1>3, <2>3 DEF Checkpoint
    <3>2. wrong \in BOOLEAN
      BY DEF TokenError
    <3> HIDE DEF next, consumed, pages, wrong, seen
    <3>3. mine.job = j /\ mine.error = wrong
      BY <1>a DEF Locals
    <3>4. job'[j].status = job[j].status /\ job'[j].error = wrong
      BY <1>a, <2>1, <3>1 DEF OnJob, Row, RunInv, TypeInv, TypeOK
    <3> HIDE DEF mine
    <3>5. pc'[p] = "stored" /\ me'[p].job = j /\ me'[p].error = wrong
      BY <1>d, <3>1, <3>3
    <3>6. JobState(p)'
      BY <1>a, <2>1, <3>4, <3>5 DEF JobState, Clean
    <3> QED BY <2>1, <3>1, <3>6, RunMoves
  <2> QED BY <2>2, <2>3
<1>4. CASE AfterSuccess(p)
  <2>1. pc[p] = "stored" /\ pc[p] # "idle" /\ scope' = Held(p) /\ UNCHANGED job
    BY <1>4, <1>a DEF AfterSuccess, rows
  <2>2. CASE me[p].error
    BY <1>4, <2>1, <2>2, <1>c, RunMoves DEF AfterSuccess
  <2>3. CASE ~me[p].error
    <3> DEFINE label == IF me[p].finished THEN "marking" ELSE "looping"
    <3>1. Goto(p, label, me[p])
      BY <1>4, <2>3 DEF AfterSuccess
    <3>2. pc'[p] = label /\ me'[p] = me[p] /\ label \in {"marking", "looping"}
      BY <1>d, <3>1
    <3>3. JobState(p)'
      BY <1>a, <2>1, <2>3, <3>2 DEF JobState, Clean
    <3> QED BY <2>1, <3>1, <3>3, RunMoves
  <2> QED BY <2>2, <2>3
<1>5. CASE SetWatermark(p)
  <2>1. pc[p] = "marking" /\ pc[p] # "idle" /\ scope' = Held(p) /\ UNCHANGED job
    BY <1>5, <1>a DEF SetWatermark
  <2>2. Ending(p, "completed", me[p].pages)
    BY <1>5 DEF SetWatermark
  <2> QED BY <2>1, <2>2, <1>c, RunMoves DEF Clean
<1>6. CASE Finish(p) \/ Interrupt(p) \/ NoJobLeft(p)
  BY <1>6, RunEnds DEF Finish, Interrupt, NoJobLeft, Leaving
<1>7. CASE Leave(p) \/ Crash(p)
  BY <1>7, RunEnds DEF Leave, Crash
<1> QED BY <1>1, <1>2, <1>3, <1>4, <1>5, <1>6, <1>7

\* Suspensions past a lease are counted, and nothing resets the count.
LEMMA StallsGrow ==
    ASSUME RunInv, [Next]_vars, stalls' = 0
    PROVE  stalls = 0 /\ ~Stall
<1>1. ~Stall
  BY DEF Stall, RunInv, TypeInv, TypeOK
<1>2. ASSUME NEW p \in Proc, Step(p) \/ \E m \in Mode : Start(p, m)
      PROVE  UNCHANGED stalls
  BY <1>2 DEF Step, world, Start, FindRunning, FindResumable, CreateJob, NoJobLeft, Load,
              RenewScope, Ask, RecordPage, GiveUpWait, RecordRequest, Fence, DeadlineStops,
              Send, FetchFails, PageArrives, Checkpoint, AfterSuccess, SetWatermark, Finish,
              Leave
<1>3. ASSUME \/ ScopeExpires \/ UpstreamExpires \/ WorkerTakes \/ WorkerReleases
             \/ Tomorrow \/ UNCHANGED vars
             \/ (\E j \in Job : DeadlinePasses(j))
             \/ \E p \in Proc : Crash(p) \/ Interrupt(p)
      PROVE  UNCHANGED stalls
  BY <1>3 DEF ScopeExpires, UpstreamExpires, WorkerTakes, WorkerReleases, Tomorrow,
              vars, world, DeadlinePasses, Crash, Interrupt
<1>4. UNCHANGED stalls
  BY <1>1, <1>2, <1>3 DEF Next
<1> QED BY <1>1, <1>4

LEMMA RunStep == RunInv /\ [Next]_vars => RunInv'
<1> SUFFICES ASSUME RunInv, [Next]_vars PROVE RunInv'
  OBVIOUS
<1>a. TypeInv'
  BY TypeStep DEF RunInv
<1>b. SUFFICES ASSUME stalls' = 0 PROVE OneRun'
  BY <1>a DEF RunInv, OneRun
<1>c. stalls = 0 /\ ~Stall
  BY <1>b, StallsGrow
<1>1. CASE UNCHANGED <<scope, job, locals>>
  BY <1>1, <1>c DEF locals, RunInv, OneRun, JobState, Clean
<1>2. CASE ScopeExpires
  <2>1. \A p \in Proc : pc[p] = "idle"
    BY <1>2, <1>c, NamesFact DEF ScopeExpires, RunInv, OneRun, Held
  <2>2. \A p \in Proc : pc'[p] = "idle" /\ JobState(p)'
    BY <1>2, <2>1 DEF ScopeExpires, locals, JobState, Clean
  <2> QED BY <2>2 DEF OneRun
<1>3. ASSUME NEW i \in Job, DeadlinePasses(i)
      PROVE  OneRun'
  <2>1. \A j \in Job : job'[j].status = job[j].status /\ job'[j].error = job[j].error
    BY <1>3 DEF DeadlinePasses, RunInv, TypeInv, TypeOK, Row
  <2>2. UNCHANGED <<scope, locals>>
    BY <1>3 DEF DeadlinePasses
  <2>3. \A p \in Proc : JobState(p)'
    BY <1>c, <2>1, <2>2 DEF locals, RunInv, OneRun, TypeInv, WorksOnJob, OnJob, JobState, Clean
  <2> QED BY <1>c, <2>2, <2>3 DEF locals, RunInv, OneRun
<1>4. CASE UpstreamExpires \/ WorkerTakes \/ WorkerReleases \/ Tomorrow \/ UNCHANGED vars
  BY <1>1, <1>4 DEF UpstreamExpires, WorkerTakes, WorkerReleases, Tomorrow, vars, rows, locals
<1> QED BY <1>c, <1>2, <1>3, <1>4, StartRun, AskRun, AnswerRun DEF Next, Step, RunInv

\* Once a page with a bad token is stored the job asks for nothing more, also
\* after a crash and a resumption, and the only status it can end in is failed;
\* as long as no live run outlives its scope lease.
THEOREM BadTokenStopsHolds == Spec => BadTokenStops
<1>1. Init => RunInv
  <2> SUFFICES ASSUME Init PROVE RunInv
    OBVIOUS
  <2>1. OneRun
    BY DEF Init, OneRun, JobState, Clean
  <2> QED BY <2>1, InitTyped DEF RunInv
<1> DEFINE Stops(j) == job[j].status = "running" /\ job[j].error /\ stalls = 0 =>
                          /\ hist'[j].sent = hist[j].sent
                          /\ job'[j].status \in {"running", "failed"}
<1>2. RunInv /\ [Next]_vars => [\A j \in Job : Stops(j)]_vars
  <2> SUFFICES ASSUME RunInv, Next,
                      NEW j \in Job, job[j].status = "running", job[j].error, stalls = 0
               PROVE  hist'[j].sent = hist[j].sent /\ job'[j].status \in {"running", "failed"}
    OBVIOUS
  <2>a. job[j] \in Row /\ hist[j] \in History
    BY DEF RunInv, TypeInv, TypeOK
  <2>1. CASE UNCHANGED <<job, hist>>
    BY <2>1
  <2>2. ASSUME NEW p \in Proc, CreateJob(p)
        PROVE  hist'[j].sent = hist[j].sent /\ job'[j].status \in {"running", "failed"}
    <3>1. PICK i \in NotUsed :
             /\ job' = [job EXCEPT ![i] = job'[i]]
             /\ hist' = [hist EXCEPT ![i] = hist'[i]]
      <4>1. PICK i \in NotUsed :
               /\ job' = [job EXCEPT ![i] = [Unused EXCEPT !.status = "running",
                                                !.mode = me[p].mode, !.token = me[p].token]]
               /\ hist' = [hist EXCEPT ![i].start = me[p].token,
                             ![i].before = IF me[p].job = NoJob THEN {} ELSE Stored(me[p].job)]
        BY <2>2 DEF CreateJob
      <4>2. i \in Job /\ job \in [Job -> Row] /\ hist \in [Job -> History]
        BY DEF NotUsed, RunInv, TypeInv, TypeOK
      <4> QED BY <4>1, <4>2
    <3>2. i # j
      BY DEF NotUsed
    <3>3. job'[j] = job[j] /\ hist'[j] = hist[j]
      BY <3>1, <3>2 DEF RunInv, TypeInv, TypeOK
    <3> QED BY <3>3
  <2>3. ASSUME NEW p \in Proc, RecordPage(p) \/ RecordRequest(p)
        PROVE  hist'[j].sent = hist[j].sent /\ job'[j].status \in {"running", "failed"}
    <3>1. \/ job' = [job EXCEPT ![me[p].job].seen = @ \cup ({me[p].token} \ {None})]
          \/ \E counted : job' = [job EXCEPT ![me[p].job].requests = counted]
      BY <2>3 DEF RecordPage, RecordRequest
    <3>2. job \in [Job -> Row]
      BY DEF RunInv, TypeInv, TypeOK
    <3>3. \/ job'[j] = job[j]
          \/ \E seen : job'[j] = [job[j] EXCEPT !.seen = seen]
          \/ \E counted : job'[j] = [job[j] EXCEPT !.requests = counted]
      <4>1. CASE me[p].job # j
        BY <4>1, <3>1, <3>2
      <4>2. CASE job' = [job EXCEPT ![j].seen = @ \cup ({me[p].token} \ {None})]
        BY <4>2, <3>2
      <4>3. ASSUME NEW counted, job' = [job EXCEPT ![j].requests = counted]
            PROVE  job'[j] = [job[j] EXCEPT !.requests = counted]
        BY <4>3, <3>2
      <4> QED BY <4>1, <4>2, <4>3, <3>1
    <3>5. job'[j].status = job[j].status
      BY <3>3, <2>a DEF Row
    <3>4. hist' = hist
      BY <2>3 DEF RecordPage, RecordRequest
    <3> QED BY <3>4, <3>5
  <2>4. ASSUME NEW p \in Proc, Send(p)
        PROVE  hist'[j].sent = hist[j].sent /\ job'[j].status \in {"running", "failed"}
    <3>1. me[p].job # j
      BY <2>4, RunFacts DEF Send, JobState, Clean
    <3> QED BY <2>4, <3>1 DEF Send, rows, RunInv, TypeInv, TypeOK
  <2>5. ASSUME NEW p \in Proc, Checkpoint(p)
        PROVE  hist'[j].sent = hist[j].sent /\ job'[j].status \in {"running", "failed"}
    <3>1. me[p].job # j
      BY <2>5, RunFacts DEF Checkpoint, JobState, Clean
    <3>2. job'[j] = job[j] /\ hist'[j] = hist[j]
      BY <2>5, <3>1 DEF Checkpoint, RunInv, TypeInv, TypeOK
    <3> QED BY <3>2
  <2>6. ASSUME NEW p \in Proc, Finish(p)
        PROVE  hist'[j].sent = hist[j].sent /\ job'[j].status \in {"running", "failed"}
    <3>1. me[p].job = j => me[p].end = "failed"
      BY <2>6, RunFacts DEF Finish, JobState
    <3> QED BY <2>6, <2>a, <3>1 DEF Finish, RunInv, TypeInv, TypeOK, Row
  <2>7. ASSUME NEW i \in Job, DeadlinePasses(i)
        PROVE  hist'[j].sent = hist[j].sent /\ job'[j].status \in {"running", "failed"}
    BY <2>7, <2>a DEF DeadlinePasses, RunInv, TypeInv, TypeOK, Row
  <2>8. ASSUME NEW p \in Proc,
               \/ (\E m \in Mode : Start(p, m)) \/ FindRunning(p) \/ FindResumable(p)
               \/ NoJobLeft(p) \/ Load(p) \/ RenewScope(p) \/ Ask(p) \/ GiveUpWait(p)
               \/ Fence(p) \/ DeadlineStops(p) \/ FetchFails(p) \/ PageArrives(p)
               \/ AfterSuccess(p) \/ SetWatermark(p) \/ Leave(p) \/ Crash(p) \/ Interrupt(p)
        PROVE  UNCHANGED <<job, hist>>
    BY <2>8 DEF Start, FindRunning, FindResumable, NoJobLeft, Load, RenewScope, Ask, GiveUpWait,
                Fence, DeadlineStops, FetchFails, PageArrives, AfterSuccess, SetWatermark,
                Leave, Crash, Interrupt, rows
  <2>9. CASE \/ ScopeExpires \/ UpstreamExpires \/ Stall \/ WorkerTakes \/ WorkerReleases
             \/ Tomorrow
    BY <2>9 DEF ScopeExpires, UpstreamExpires, Stall, WorkerTakes, WorkerReleases,
                Tomorrow, rows
  <2> QED BY <2>1, <2>2, <2>3, <2>4, <2>5, <2>6, <2>7, <2>8, <2>9 DEF Next, Step
<1> QED BY <1>1, <1>2, RunStep, PTL DEF Spec, BadTokenStops

-----------------------------------------------------------------------------
(* Requests.                                                               *)

\* The runs that will send the request they have counted for job j, unless
\* they end: those past the fence, and the owner of the scope before it.
Committed(j) ==
    {p \in Proc : /\ me[p].job = j
                  /\ \/ pc[p] = "fenced"
                     \/ pc[p] = "fencing" /\ scope.owner = p}

\* Requests of job j that are sent or will be.
Due(j) == hist[j].sent + Cardinality(Committed(j))

OnUsedJob == \A p \in Proc : pc[p] \in OnJob => job[me[p].job].status # "none"

NothingSent == \A j \in Job : job[j].status = "none" => hist[j].sent = 0

\* The row of a running job has counted what is due.
Counted ==
    \A j \in Job : /\ IsFiniteSet(Committed(j))
                   /\ Due(j) <= MaxRequests
                   /\ job[j].status = "running" => Due(j) <= job[j].requests

\* Where run p, on job j, knows a count that covers what is due: before it
\* counts a request whatever the status, and after that if the job still runs.
Sure == {"loading", "looping", "asking", "waiting", "stored"}
SureIfRunning == {"fencing", "fenced", "fetching", "fetched"}

Knows(p, j) ==
    /\ pc[p] \in Sure => Due(j) <= me[p].requests
    /\ pc[p] \in SureIfRunning /\ job[j].status = "running" => Due(j) <= me[p].requests

OwnerKnows ==
    \A p \in Proc, j \in Job : scope.owner = p /\ me[p].job = j => Knows(p, j)

BudgetInv == CursorInv /\ OnUsedJob /\ NothingSent /\ Counted /\ OwnerKnows

LEMMA SumOfSubset ==
    ASSUME NEW S, IsFiniteSet(S), NEW T \in SUBSET S, NEW n \in Nat
    PROVE  /\ IsFiniteSet(T)
           /\ n + Cardinality(T) \in Nat /\ n + Cardinality(S) \in Nat
           /\ n <= n + Cardinality(S)
           /\ n + Cardinality(T) <= n + Cardinality(S)
<1>1. IsFiniteSet(T) /\ Cardinality(T) <= Cardinality(S)
  BY FS_Subset
<1>2. Cardinality(S) \in Nat /\ Cardinality(T) \in Nat
  BY <1>1, FS_CardinalityType
<1> QED BY <1>1, <1>2

\* What is due is a number, and nothing of a job not yet inserted.
LEMMA DueFact ==
    ASSUME BudgetInv, NEW j \in Job
    PROVE  /\ Due(j) \in Nat /\ hist[j].sent \in Nat /\ hist[j].sent <= Due(j)
           /\ job[j].status = "none" => Due(j) = 0
<1>1. hist[j].sent \in Nat
  BY DEF BudgetInv, CursorInv, TypeInv, TypeOK, History
<1>2. IsFiniteSet(Committed(j))
  BY DEF BudgetInv, Counted
<1>3. Due(j) \in Nat /\ hist[j].sent <= Due(j)
  BY <1>1, <1>2, SumOfSubset DEF Due
<1>4. ASSUME job[j].status = "none"
      PROVE  Due(j) = 0
  <2>1. Committed(j) = {}
    BY <1>4 DEF Committed, BudgetInv, OnUsedJob, OnJob
  <2>2. hist[j].sent = 0
    BY <1>4 DEF BudgetInv, NothingSent
  <2> QED BY <2>1, <2>2, FS_EmptySet DEF Due
<1> QED BY <1>1, <1>3, <1>4

\* Where no run is committed anew and nothing is sent, no more is due.
LEMMA DueShrinks ==
    ASSUME BudgetInv, NEW j \in Job,
           Committed(j)' \subseteq Committed(j), hist'[j].sent = hist[j].sent
    PROVE  IsFiniteSet(Committed(j)') /\ Due(j)' \in Nat /\ Due(j)' <= Due(j)
<1>1. hist[j].sent \in Nat /\ IsFiniteSet(Committed(j))
  BY DEF BudgetInv, CursorInv, TypeInv, TypeOK, History, Counted
<1>2. Due(j)' = hist[j].sent + Cardinality(Committed(j)')
  BY DEF Due
<1>3. Due(j) = hist[j].sent + Cardinality(Committed(j))
  BY DEF Due
<1>4. PICK S, T : S = Committed(j) /\ T = Committed(j)'
  OBVIOUS
<1>5. IsFiniteSet(T) /\ hist[j].sent + Cardinality(T) \in Nat
      /\ hist[j].sent + Cardinality(T) <= hist[j].sent + Cardinality(S)
  <2>1. IsFiniteSet(S) /\ T \in SUBSET S
    BY <1>1, <1>4
  <2> QED BY <1>1, <2>1, SumOfSubset
<1> QED BY <1>2, <1>3, <1>4, <1>5

\* A row's status moves from none to running to its end, and the count of a
\* running row does not fall.
LEMMA StatusStep ==
    ASSUME CursorInv, [Next]_vars, NEW j \in Job
    PROVE  /\ job'[j].status = "none" => job[j].status = "none"
           /\ job'[j].status = "running" =>
                 \/ job[j].status = "none"
                 \/ job[j].status = "running" /\ job[j].requests <= job'[j].requests
<1>a. job \in [Job -> Row] /\ job[j] \in Row /\ job[j].requests \in Nat
  BY DEF CursorInv, TypeInv, TypeOK, Row
<1>b. \A p \in Proc : pc[p] \in OnJob => me[p].job \in Job
  BY DEF CursorInv, TypeInv, WorksOnJob
<1>2. ASSUME NEW p \in Proc, CreateJob(p)
      PROVE  \/ job'[j].status = "running" /\ job[j].status = "none"
             \/ job'[j] = job[j]
  BY <1>2, <1>a DEF CreateJob, NotUsed, Unused
<1>3. ASSUME NEW p \in Proc, RecordPage(p)
      PROVE  job'[j].status = job[j].status /\ job'[j].requests = job[j].requests
  BY <1>3, <1>a DEF RecordPage, Row
<1>4. ASSUME NEW p \in Proc, RecordRequest(p)
      PROVE  job'[j].status = job[j].status /\ job'[j].requests >= job[j].requests
  BY <1>4, <1>a DEF RecordRequest, Row
<1>5. ASSUME NEW p \in Proc, Checkpoint(p)
      PROVE  job'[j].status = job[j].status /\ job'[j].requests = job[j].requests
  <2>1. CASE UNCHANGED job
    BY <2>1
  <2>2. CASE CursorMatches(p)
    <3> DEFINE i == me[p].job
               next == list.next[me[p].token]
               pages == IF job[i].pages > me[p].pages THEN job[i].pages ELSE me[p].pages + 1
               finished == next = None
               wrong == TokenError(p)
               seen == job[i].seen \cup ({me[p].token} \ {None})
               moved == [job[i] EXCEPT !.pages = pages, !.token = next,
                                       !.finished = finished, !.error = wrong,
                                       !.response = me[p].response, !.seen = seen]
    <3>1. job' = [job EXCEPT ![i] = moved] /\ i \in Job
      BY <1>5, <1>b, <2>2 DEF Checkpoint, OnJob
    <3>2. job[i] \in Row
      BY <1>a, <3>1
    <3> HIDE DEF next, pages, finished, wrong, seen, i
    <3>3. moved.status = job[i].status /\ moved.requests = job[i].requests
      BY <3>2 DEF Row
    <3> HIDE DEF moved
    <3> QED BY <3>1, <3>3, <1>a
  <2> QED BY <1>5, <1>a, <2>1, <2>2 DEF Checkpoint
<1>6. ASSUME NEW p \in Proc, Finish(p)
      PROVE  job'[j].status \in Terminal \/ job'[j] = job[j]
  BY <1>6, <1>a DEF Finish, CursorInv, EndKnown, Row
<1>7. ASSUME NEW i \in Job, DeadlinePasses(i)
      PROVE  job'[j].status = job[j].status /\ job'[j].requests = job[j].requests
  BY <1>7, <1>a DEF DeadlinePasses, Row
<1>8. ASSUME NEW p \in Proc,
             \/ (\E m \in Mode : Start(p, m)) \/ FindRunning(p) \/ FindResumable(p)
             \/ NoJobLeft(p) \/ Load(p) \/ RenewScope(p) \/ Ask(p) \/ GiveUpWait(p)
             \/ Fence(p) \/ DeadlineStops(p) \/ Send(p) \/ FetchFails(p) \/ PageArrives(p)
             \/ AfterSuccess(p) \/ SetWatermark(p) \/ Leave(p) \/ Crash(p) \/ Interrupt(p)
      PROVE  UNCHANGED job
  BY <1>8 DEF Start, FindRunning, FindResumable, NoJobLeft, Load, RenewScope, Ask, GiveUpWait,
              Fence, DeadlineStops, Send, FetchFails, PageArrives, AfterSuccess, SetWatermark,
              Leave, Crash, Interrupt, rows
<1>9. ASSUME \/ ScopeExpires \/ UpstreamExpires \/ Stall \/ WorkerTakes \/ WorkerReleases
             \/ Tomorrow \/ UNCHANGED vars
      PROVE  UNCHANGED job
  BY <1>9 DEF ScopeExpires, UpstreamExpires, Stall, WorkerTakes, WorkerReleases,
                    Tomorrow, vars, rows
<1>c. \A x \in Terminal : x # "none" /\ x # "running"
  BY DEF Terminal, Resumable
<1> DEFINE Moves ==
             \/ job'[j] = job[j]
             \/ job'[j].status = "running" /\ job[j].status = "none"
             \/ job'[j].status = job[j].status /\ job'[j].requests >= job[j].requests
             \/ job'[j].status \in Terminal
<1>d. ASSUME NEW p \in Proc, Step(p) \/ Crash(p) \/ Interrupt(p) \/ \E m \in Mode : Start(p, m)
      PROVE  Moves
  <2>1. CASE \/ CreateJob(p) \/ RecordPage(p) \/ RecordRequest(p) \/ Checkpoint(p) \/ Finish(p)
    BY <2>1, <1>a, <1>2, <1>3, <1>4, <1>5, <1>6
  <2>2. CASE UNCHANGED job
    BY <2>2
  <2> QED BY <1>d, <1>8, <2>1, <2>2 DEF Step
<1>e. ASSUME \/ ScopeExpires \/ UpstreamExpires \/ Stall \/ WorkerTakes \/ WorkerReleases
             \/ Tomorrow \/ UNCHANGED vars \/ \E i \in Job : DeadlinePasses(i)
      PROVE  Moves
  BY <1>a, <1>e, <1>7, <1>9
<1>f. Moves
  <2> HIDE DEF Moves
  <2> QED BY <1>d, <1>e DEF Next
<1> QED BY <1>a, <1>c, <1>f

\* Only Send adds to what a job has sent.
LEMMA SentStep ==
    ASSUME CursorInv, [Next]_vars, NEW j \in Job
    PROVE  \/ hist'[j].sent = hist[j].sent
           \/ \E p \in Proc : Send(p) /\ me[p].job = j
<1>a. hist \in [Job -> History] /\ hist[j] \in History
  BY DEF CursorInv, TypeInv, TypeOK
<1>1. ASSUME NEW p \in Proc, CreateJob(p)
      PROVE  hist'[j].sent = hist[j].sent
  BY <1>1, <1>a DEF CreateJob, History
<1>2. ASSUME NEW p \in Proc, Checkpoint(p)
      PROVE  hist'[j].sent = hist[j].sent
  <2> DEFINE log == Append(hist[me[p].job].log, me[p].token)
  <2>1. \/ UNCHANGED hist
        \/ hist' = [hist EXCEPT ![me[p].job] = [hist[me[p].job] EXCEPT !.log = log]]
    BY <1>2 DEF Checkpoint
  <2> HIDE DEF log
  <2> QED BY <2>1, <1>a DEF History
<1>3. ASSUME NEW p \in Proc, Send(p), me[p].job # j
      PROVE  hist'[j].sent = hist[j].sent
  BY <1>3, <1>a DEF Send, History
<1>4. ASSUME NEW p \in Proc,
             \/ (\E m \in Mode : Start(p, m)) \/ FindRunning(p) \/ FindResumable(p)
             \/ NoJobLeft(p) \/ Load(p) \/ RenewScope(p) \/ Ask(p) \/ RecordPage(p) \/ GiveUpWait(p)
             \/ RecordRequest(p) \/ Fence(p) \/ DeadlineStops(p) \/ FetchFails(p) \/ PageArrives(p)
             \/ AfterSuccess(p) \/ SetWatermark(p) \/ Finish(p) \/ Leave(p) \/ Crash(p)
             \/ Interrupt(p)
      PROVE  UNCHANGED hist
  BY <1>4 DEF Start, FindRunning, FindResumable, NoJobLeft, Load, RenewScope, Ask, RecordPage,
              GiveUpWait, RecordRequest, Fence, DeadlineStops, FetchFails, PageArrives,
              AfterSuccess, SetWatermark, Finish, Leave, Crash, Interrupt
<1>5. ASSUME \/ ScopeExpires \/ UpstreamExpires \/ Stall \/ WorkerTakes \/ WorkerReleases
             \/ Tomorrow \/ UNCHANGED vars \/ \E i \in Job : DeadlinePasses(i)
      PROVE  UNCHANGED hist
  BY <1>5 DEF ScopeExpires, UpstreamExpires, Stall, WorkerTakes, WorkerReleases, Tomorrow,
              DeadlinePasses, vars
<1> QED BY <1>1, <1>2, <1>3, <1>4, <1>5 DEF Next, Step

LEMMA UsedStep ==
    ASSUME BudgetInv, TypeInv', [Next]_vars
    PROVE  OnUsedJob' /\ NothingSent'
<1>a. \A j \in Job : job'[j].status = "none" => job[j].status = "none"
  BY StatusStep DEF BudgetInv
<1>b. /\ pc \in [Proc -> Label] /\ me \in [Proc -> Locals] /\ job \in [Job -> Row]
      /\ \A p \in Proc : pc[p] \in OnJob => me[p].job \in Job
      /\ \A p \in Proc : pc'[p] \in OnJob => me'[p].job \in Job
  BY DEF BudgetInv, CursorInv, TypeInv, TypeOK, WorksOnJob
<1> DEFINE Same(p) == (pc'[p] \in OnJob => pc[p] \in OnJob) /\ me'[p].job = me[p].job
           Known(p) == pc'[p] \in OnJob => job'[me'[p].job].status # "none"
<1>c. \A p \in Proc : Same(p) => Known(p)
  BY <1>a, <1>b DEF BudgetInv, OnUsedJob
<1>d. \A p \in Proc : \A label, mine :
         Goto(p, label, mine) => /\ pc'[p] = label /\ me'[p] = mine
                                 /\ \A q \in Proc \ {p} : pc'[q] = pc[q] /\ me'[q] = me[q]
  BY <1>b DEF Goto
<1>1. ASSUME NEW p \in Proc, pc[p] \in OnJob, NEW label, NEW mine, Goto(p, label, mine),
             mine.job = me[p].job \/ label \notin OnJob
      PROVE  OnUsedJob'
  <2>1. \A q \in Proc \ {p} : Known(q)
    BY <1>1, <1>c, <1>d
  <2>2. Known(p)
    BY <1>1, <1>c, <1>d
  <2> QED BY <2>1, <2>2 DEF OnUsedJob
<1>2. ASSUME NEW p \in Proc, NEW label, NEW mine, Goto(p, label, mine),
             label \in OnJob => job'[mine.job].status # "none"
      PROVE  OnUsedJob'
  <2>1. \A q \in Proc \ {p} : Known(q)
    BY <1>2, <1>c, <1>d
  <2>2. Known(p)
    BY <1>2, <1>d
  <2> QED BY <2>1, <2>2 DEF OnUsedJob
<1>3. ASSUME NEW p \in Proc, Leaving(p)
      PROVE  OnUsedJob'
  BY <1>2, <1>3 DEF Leaving, OnJob
<1>4. ASSUME UNCHANGED locals
      PROVE  OnUsedJob'
  BY <1>4, <1>c DEF locals, OnUsedJob
<1>5. ASSUME NEW p \in Proc, FindRunning(p)
      PROVE  OnUsedJob'
  <2>1. ASSUME NEW j \in Running(me[p].mode), Goto(p, "loading", FromRow(j))
        PROVE  OnUsedJob'
    <3>1. FromRow(j).job = j /\ job'[j].status = "running"
      BY <1>5, <2>1 DEF FromRow, Blank, Running, FindRunning, rows
    <3> QED BY <2>1, <3>1, <1>2
  <2>2. ASSUME Goto(p, "continuing", me[p])
        PROVE  OnUsedJob'
    BY <2>2, <1>2 DEF OnJob
  <2> QED BY <1>5, <2>1, <2>2 DEF FindRunning
<1>6. ASSUME NEW p \in Proc, CreateJob(p)
      PROVE  OnUsedJob'
  <2>1. PICK j \in NotUsed :
           /\ job' = [job EXCEPT ![j] = [Unused EXCEPT !.status = "running",
                                            !.mode = me[p].mode, !.token = me[p].token]]
           /\ Goto(p, "loading", [me[p] EXCEPT !.job = j])
    BY <1>6 DEF CreateJob
  <2>2. j \in Job /\ job'[j].status = "running"
    BY <1>b, <2>1 DEF NotUsed, Unused
  <2>3. [me[p] EXCEPT !.job = j].job = j
    BY <1>b DEF Locals
  <2> QED BY <2>1, <2>2, <2>3, <1>2
<1>7. ASSUME NEW p \in Proc, (\E m \in Mode : Start(p, m)) \/ FindResumable(p) \/ Leave(p) \/ Crash(p)
      PROVE  OnUsedJob'
  BY <1>7, <1>2 DEF Start, FindResumable, Leave, Crash, OnJob
<1>8. ASSUME NEW p \in Proc,
             \/ Load(p) \/ RenewScope(p) \/ Ask(p) \/ RecordPage(p) \/ GiveUpWait(p)
             \/ RecordRequest(p) \/ Fence(p) \/ DeadlineStops(p) \/ Send(p) \/ FetchFails(p)
             \/ PageArrives(p) \/ AfterSuccess(p) \/ SetWatermark(p) \/ Checkpoint(p)
      PROVE  OnUsedJob'
  <2>a. me[p] \in Locals
    BY <1>b
  <2>b. \A status, n : [me[p] EXCEPT !.end = status, !.pages = n].job = me[p].job
    BY <2>a DEF Locals
  <2>c. \A status : [me[p] EXCEPT !.end = status].job = me[p].job
    BY <2>a DEF Locals
  <2>d. /\ \A n : [me[p] EXCEPT !.requests = n].job = me[p].job
        /\ \A n : [me[p] EXCEPT !.response = n].job = me[p].job
        /\ \A n : [me[p] EXCEPT !.seen = n].job = me[p].job
    BY <2>a DEF Locals
  <2>e. pc[p] \in OnJob
    BY <1>8 DEF Load, RenewScope, Ask, RecordPage, GiveUpWait, RecordRequest, Fence, DeadlineStops,
                Send, FetchFails, PageArrives, AfterSuccess, SetWatermark, Checkpoint, OnJob
  <2>1. ASSUME NEW status, NEW n, Ending(p, status, n)
        PROVE  OnUsedJob'
    BY <2>1, <2>b, <2>e, <1>1 DEF Ending
  <2>2. ASSUME NEW label, NEW status, Goto(p, label, [me[p] EXCEPT !.end = status])
        PROVE  OnUsedJob'
    BY <2>2, <2>c, <2>e, <1>1
  <2>3. ASSUME NEW label, Goto(p, label, me[p])
        PROVE  OnUsedJob'
    BY <2>3, <2>e, <1>1
  <2>4. CASE Load(p)
    BY <2>4, <2>1, <2>d, <2>e, <1>1 DEF Load
  <2>5. CASE RenewScope(p) \/ Ask(p) \/ RecordPage(p) \/ GiveUpWait(p) \/ Fence(p)
    BY <2>5, <2>1, <2>2, <2>3, <1>3 DEF RenewScope, Ask, RecordPage, GiveUpWait, Fence
  <2>6. CASE RecordRequest(p) \/ PageArrives(p)
    BY <2>6, <2>d, <2>e, <1>1 DEF RecordRequest, PageArrives
  <2>7. CASE DeadlineStops(p) \/ Send(p) \/ FetchFails(p) \/ AfterSuccess(p) \/ SetWatermark(p)
    BY <2>7, <2>1, <2>2, <2>3 DEF DeadlineStops, Send, FetchFails, AfterSuccess, SetWatermark
  <2>8. CASE Checkpoint(p)
    <3>1. CASE CursorMatches(p)
      <4> DEFINE next == list.next[me[p].token]
                 finished == next = None
                 wrong == TokenError(p)
                 pages == me[p].pages + 1
                 seen == me[p].seen \cup ({me[p].token} \ {None})
                 mine == [me[p] EXCEPT !.pages = pages, !.token = next, !.finished = finished,
                                       !.error = wrong, !.seen = seen]
      <4>1. Goto(p, "stored", mine)
        BY <2>8, <3>1 DEF Checkpoint
      <4> HIDE DEF next, finished, wrong, pages, seen
      <4>2. mine.job = me[p].job
        BY <2>a DEF Locals
      <4> HIDE DEF mine
      <4> QED BY <4>1, <4>2, <2>e, <1>1
    <3> QED BY <2>8, <3>1, <1>3 DEF Checkpoint
  <2> QED BY <1>8, <2>4, <2>5, <2>6, <2>7, <2>8
<1>9. ASSUME NEW p \in Proc, NoJobLeft(p) \/ Finish(p) \/ Interrupt(p)
      PROVE  OnUsedJob'
  BY <1>9, <1>3 DEF NoJobLeft, Finish, Interrupt
<1>10. OnUsedJob'
  <2>1. CASE \/ ScopeExpires \/ UpstreamExpires \/ Stall \/ WorkerTakes \/ WorkerReleases
             \/ Tomorrow \/ UNCHANGED vars \/ \E i \in Job : DeadlinePasses(i)
    BY <2>1, <1>4 DEF ScopeExpires, UpstreamExpires, Stall, WorkerTakes, WorkerReleases,
                      Tomorrow, DeadlinePasses, vars, locals
  <2> QED BY <2>1, <1>5, <1>6, <1>7, <1>8, <1>9 DEF Next, Step
<1>11. NothingSent'
  <2> SUFFICES ASSUME NEW j \in Job, job'[j].status = "none"
               PROVE  hist'[j].sent = 0
    BY DEF NothingSent
  <2>1. job[j].status = "none" /\ hist[j].sent = 0
    BY <1>a DEF BudgetInv, NothingSent
  <2>2. hist'[j].sent = hist[j].sent \/ \E p \in Proc : Send(p) /\ me[p].job = j
    BY SentStep DEF BudgetInv
  <2>3. ASSUME NEW p \in Proc, Send(p)
        PROVE  me[p].job # j
    BY <2>1, <2>3 DEF Send, BudgetInv, OnUsedJob, OnJob
  <2> QED BY <2>1, <2>2, <2>3
<1> QED BY <1>10, <1>11

\* The leases that a statement of `who` takes or leaves are its own.
Others(who) ==
    /\ \A q \in Proc \ {who} : pc'[q] = pc[q] /\ me'[q] = me[q]
    /\ scope'.owner \in {scope.owner, who, None, Gone}

LEMMA MovesAlone ==
    ASSUME TypeInv, NEW p \in Proc, NEW label, NEW mine, Goto(p, label, mine)
    PROVE  /\ pc'[p] = label /\ me'[p] = mine
           /\ scope'.owner \in {scope.owner, p, None, Gone} => Others(p)
BY DEF Goto, TypeInv, TypeOK, Others

\* A step after which no more is due keeps the counts, if `who` knows of one
\* that covers what it is about to do.
LEMMA NoMoreDue ==
    ASSUME BudgetInv, [Next]_vars, NEW who, Others(who),
           \A j \in Job : IsFiniteSet(Committed(j)') /\ Due(j)' \in Nat /\ Due(j)' <= Due(j),
           who \in Proc => \A j \in Job : scope'.owner = who /\ me'[who].job = j => Knows(who, j)'
    PROVE  Counted' /\ OwnerKnows'
<1>a. \A j \in Job :
         /\ job'[j].status = "running" =>
               \/ job[j].status = "none"
               \/ job[j].status = "running" /\ job[j].requests <= job'[j].requests
         /\ job[j].requests \in Nat
         /\ job'[j].requests \in Nat
  BY TypeStep, StatusStep DEF BudgetInv, CursorInv, TypeInv, TypeOK, Row
<1>b. \A j \in Job : Due(j) \in Nat /\ (job[j].status = "none" => Due(j) = 0)
  BY DueFact
<1>c. MaxRequests \in Nat
  BY HarvestAssumption
<1>1. Counted'
  <2> SUFFICES ASSUME NEW j \in Job
               PROVE  /\ IsFiniteSet(Committed(j)')
                      /\ Due(j)' <= MaxRequests
                      /\ job'[j].status = "running" => Due(j)' <= job'[j].requests
    BY DEF Counted
  <2>1. Due(j) <= MaxRequests /\ (job[j].status = "running" => Due(j) <= job[j].requests)
    BY DEF BudgetInv, Counted
  <2> QED BY <2>1, <1>a, <1>b, <1>c
<1>2. ASSUME NEW q \in Proc \ {who}, NEW j \in Job, scope'.owner = q, me'[q].job = j
      PROVE  Knows(q, j)'
  <2>1. scope.owner = q /\ pc'[q] = pc[q] /\ me'[q] = me[q] /\ me[q].job = j
    BY <1>2, NamesFact DEF Others
  <2>2. Knows(q, j)
    BY <1>2, <2>1 DEF BudgetInv, OwnerKnows
  <2>3. me[q].requests \in Nat
    BY DEF BudgetInv, CursorInv, TypeInv, TypeOK, Locals
  <2>4. Due(j)' \in Nat /\ Due(j)' <= Due(j) /\ Due(j) \in Nat
    BY <1>b
  <2>5. ASSUME Due(j) <= me[q].requests
        PROVE  Due(j)' <= me'[q].requests
    BY <2>1, <2>3, <2>4, <2>5
  <2>6. pc[q] \in SureIfRunning /\ job'[j].status = "running" => job[j].status = "running"
    BY <1>a, <2>1 DEF SureIfRunning, OnJob, BudgetInv, OnUsedJob
  <2> QED BY <2>1, <2>2, <2>5, <2>6 DEF Knows
<1>3. OwnerKnows'
  BY <1>2 DEF OwnerKnows
<1> QED BY <1>1, <1>3

\* A statement of a run that is not about to send, or was already: nothing is
\* committed anew.
LEMMA NothingCommitted ==
    ASSUME BudgetInv, NEW who, Others(who), NEW j \in Job,
           hist'[j].sent = hist[j].sent,
           \/ who \notin Proc
           \/ pc'[who] \notin {"fencing", "fenced"}
           \/ pc'[who] = "fencing" /\ scope'.owner # who
           \/ pc'[who] = "fenced" /\ pc[who] = "fencing" /\ scope.owner = who
                 /\ me'[who].job = me[who].job
    PROVE  IsFiniteSet(Committed(j)') /\ Due(j)' \in Nat /\ Due(j)' <= Due(j)
<1>1. Committed(j)' \subseteq Committed(j)
  BY NamesFact DEF Committed, Others
<1> QED BY <1>1, DueShrinks

\* A statement that neither counts nor sends, and after which the run is not
\* about to send.
LEMMA QuietStep ==
    ASSUME BudgetInv, [Next]_vars, NEW p \in Proc, NEW label, NEW mine, Goto(p, label, mine),
           label \notin {"fencing", "fenced"},
           scope'.owner \in {scope.owner, p, None, Gone},
           \A j \in Job : hist'[j].sent = hist[j].sent,
           \A j \in Job : /\ scope'.owner = p /\ mine.job = j
                         /\ \/ label \in Sure
                            \/ label \in SureIfRunning /\ job'[j].status = "running"
                         => Due(j) <= mine.requests
    PROVE  Counted' /\ OwnerKnows'
<1>1. pc'[p] = label /\ me'[p] = mine /\ Others(p)
  BY MovesAlone DEF BudgetInv, CursorInv
<1>2. \A j \in Job : IsFiniteSet(Committed(j)') /\ Due(j)' \in Nat /\ Due(j)' <= Due(j)
  BY <1>1, NothingCommitted
<1>3. ASSUME NEW j \in Job, scope'.owner = p, me'[p].job = j
      PROVE  Knows(p, j)'
  <2>1. Due(j) \in Nat /\ Due(j)' \in Nat /\ Due(j)' <= Due(j)
    BY <1>2, DueFact
  <2>2. me'[p].requests \in Nat
    BY TypeStep DEF BudgetInv, CursorInv, TypeInv, TypeOK, Locals
  <2> QED BY <1>1, <1>3, <2>1, <2>2 DEF Knows
<1> QED BY <1>1, <1>2, <1>3, NoMoreDue

\* The run leaves, ends its job or records a page: it knows nothing.
LEMMA QuietEnd ==
    ASSUME BudgetInv, [Next]_vars, NEW p \in Proc,
           NEW label \in Label \ (Sure \cup SureIfRunning), NEW mine, Goto(p, label, mine),
           scope'.owner \in {scope.owner, p, None, Gone},
           \A j \in Job : hist'[j].sent = hist[j].sent
    PROVE  Counted' /\ OwnerKnows'
<1>1. label \notin {"fencing", "fenced"} /\ label \notin Sure /\ label \notin SureIfRunning
  BY DEF SureIfRunning
<1> QED BY <1>1, QuietStep

\* The run goes on with the count it has.
LEMMA QuietMove ==
    ASSUME BudgetInv, [Next]_vars, NEW p \in Proc, NEW label, NEW mine, Goto(p, label, mine),
           label \notin {"fencing", "fenced"},
           scope'.owner = p => scope.owner = p,
           scope'.owner \in {scope.owner, p, None, Gone},
           \A j \in Job : hist'[j].sent = hist[j].sent,
           mine.job = me[p].job, mine.requests = me[p].requests,
           \/ pc[p] \in Sure
           \/ pc[p] \in SureIfRunning /\ label \in SureIfRunning /\ UNCHANGED job
           \/ pc[p] \in SureIfRunning /\ job[me[p].job].status = "running"
    PROVE  Counted' /\ OwnerKnows'
<1>1. ASSUME NEW j \in Job, scope'.owner = p, mine.job = j,
             \/ label \in Sure
             \/ label \in SureIfRunning /\ job'[j].status = "running"
      PROVE  Due(j) <= mine.requests
  <2>1. Knows(p, j)
    BY <1>1 DEF BudgetInv, OwnerKnows
  <2>2. pc[p] \in Sure \/ (pc[p] \in SureIfRunning /\ job[j].status = "running")
    BY <1>1 DEF Sure, SureIfRunning
  <2> QED BY <2>1, <2>2 DEF Knows
<1> QED BY <1>1, QuietStep

\* What else moves leases, days and deadlines.
LEMMA WorldQuiet ==
    ASSUME BudgetInv, [Next]_vars,
           \/ ScopeExpires \/ UpstreamExpires \/ Stall \/ WorkerTakes \/ WorkerReleases
           \/ Tomorrow \/ UNCHANGED vars \/ \E i \in Job : DeadlinePasses(i)
    PROVE  Counted' /\ OwnerKnows'
<1>1. /\ UNCHANGED <<locals, hist>>
      /\ scope'.owner = scope.owner
  <2>1. scope \in [owner : Proc \cup {None, Gone}, live : BOOLEAN]
    BY DEF BudgetInv, CursorInv, TypeInv, TypeOK
  <2> QED BY <2>1 DEF ScopeExpires, UpstreamExpires, Stall, WorkerTakes, WorkerReleases, Tomorrow,
                      DeadlinePasses, vars, locals
<1>2. Others(None) /\ None \notin Proc
  BY <1>1, NamesFact DEF Others, locals
<1>3. \A j \in Job : IsFiniteSet(Committed(j)') /\ Due(j)' \in Nat /\ Due(j)' <= Due(j)
  BY <1>1, <1>2, NothingCommitted
<1> QED BY <1>2, <1>3, NoMoreDue

LEMMA NothingIsSent ==
    ASSUME BudgetInv, [Next]_vars, NEW p \in Proc,
           NEW label, label # "fetching", NEW mine, Goto(p, label, mine)
    PROVE  \A j \in Job : hist'[j].sent = hist[j].sent
<1>1. pc'[p] = label /\ \A q \in Proc \ {p} : pc'[q] = pc[q]
  BY DEF Goto, BudgetInv, CursorInv, TypeInv, TypeOK
<1>2. ASSUME NEW q \in Proc, Send(q)
      PROVE  FALSE
  <2>1. pc[q] = "fenced" /\ pc'[q] = "fetching"
    BY <1>2 DEF Send, Goto, BudgetInv, CursorInv, TypeInv, TypeOK
  <2> QED BY <1>1, <2>1
<1> QED BY <1>2, SentStep DEF BudgetInv

\* A run that starts finds a count that covers what is due of its job.
LEMMA StartCounts ==
    ASSUME BudgetInv, [Next]_vars, NEW p \in Proc,
           \/ \E m \in Mode : Start(p, m)
           \/ FindRunning(p) \/ FindResumable(p) \/ CreateJob(p) \/ NoJobLeft(p)
    PROVE  Counted' /\ OwnerKnows'
<1>a. {"looking", "continuing", "creating", "leaving"} \subseteq Label \ (Sure \cup SureIfRunning)
  BY DEF Label, Sure, SureIfRunning
<1>1. ASSUME NEW m \in Mode, Start(p, m)
      PROVE  Counted' /\ OwnerKnows'
  <2>1. scope'.owner = p /\ UNCHANGED hist
    BY <1>1 DEF Start, Held
  <2> QED BY <1>1, <1>a, <2>1, QuietEnd DEF Start
<1>2. CASE FindRunning(p)
  <2>1. UNCHANGED <<scope, hist, job>>
    BY <1>2 DEF FindRunning, rows
  <2>2. ASSUME Goto(p, "continuing", me[p])
        PROVE  Counted' /\ OwnerKnows'
    BY <2>1, <2>2, <1>a, QuietEnd
  <2>3. ASSUME NEW i \in Running(me[p].mode), Goto(p, "loading", FromRow(i))
        PROVE  Counted' /\ OwnerKnows'
    <3>1. i \in Job /\ job[i].status = "running"
      BY <2>3 DEF Running
    <3>2. FromRow(i).job = i /\ FromRow(i).requests = job[i].requests
      BY DEF FromRow, Blank
    <3>3. Due(i) <= job[i].requests
      BY <3>1 DEF BudgetInv, Counted
    <3> QED BY <2>1, <2>3, <3>2, <3>3, QuietStep
  <2> QED BY <1>2, <2>2, <2>3 DEF FindRunning
<1>3. CASE FindResumable(p)
  <2>1. UNCHANGED <<scope, hist>>
    BY <1>3 DEF FindResumable
  <2> QED BY <1>3, <1>a, <2>1, QuietEnd DEF FindResumable
<1>4. CASE CreateJob(p)
  <2>1. PICK i \in NotUsed : Goto(p, "loading", [me[p] EXCEPT !.job = i])
    BY <1>4 DEF CreateJob
  <2>2. i \in Job /\ Due(i) = 0
    BY <2>1, DueFact DEF NotUsed
  <2>3. /\ [me[p] EXCEPT !.job = i].job = i
        /\ [me[p] EXCEPT !.job = i].requests \in Nat
    BY DEF BudgetInv, CursorInv, TypeInv, TypeOK, Locals
  <2>4. UNCHANGED scope /\ \A j \in Job : hist'[j].sent = hist[j].sent
    BY <1>4, <2>1, NothingIsSent DEF CreateJob
  <2> DEFINE mine == [me[p] EXCEPT !.job = i]
  <2>5. mine.job = i /\ Due(i) <= mine.requests
    BY <2>2, <2>3
  <2>6. Goto(p, "loading", mine)
    BY <2>1
  <2> HIDE DEF mine
  <2> QED BY <2>4, <2>5, <2>6, QuietStep
<1>5. CASE NoJobLeft(p)
  <2>1. UNCHANGED <<scope, hist>>
    BY <1>5 DEF NoJobLeft
  <2> QED BY <1>5, <1>a, <2>1, QuietEnd DEF NoJobLeft, Leaving
<1> QED BY <1>1, <1>2, <1>3, <1>4, <1>5

\* Ways for a run to end, from wherever it is.
LEMMA EndCounts ==
    ASSUME BudgetInv, [Next]_vars, NEW p \in Proc, UNCHANGED hist,
           scope'.owner \in {scope.owner, p, None, Gone},
           \/ Leaving(p)
           \/ \E mine : Goto(p, "idle", mine) \/ Goto(p, "recording", mine) \/ Goto(p, "marking", mine)
           \/ \E status, n : Ending(p, status, n)
    PROVE  Counted' /\ OwnerKnows'
<1>a. {"idle", "recording", "marking", "leaving", "finishing"}
         \subseteq Label \ (Sure \cup SureIfRunning)
  BY DEF Label, Sure, SureIfRunning
<1> QED BY <1>a, QuietEnd DEF Leaving, Ending

\* From the loop to the request, but for the count.
LEMMA AskCounts ==
    ASSUME BudgetInv, [Next]_vars, NEW p \in Proc,
           \/ Load(p) \/ RenewScope(p) \/ Ask(p) \/ RecordPage(p) \/ GiveUpWait(p)
           \/ DeadlineStops(p)
    PROVE  Counted' /\ OwnerKnows'
<1>a. me[p] \in Locals
  BY DEF BudgetInv, CursorInv, TypeInv, TypeOK
<1>b. UNCHANGED hist
  BY DEF Load, RenewScope, Ask, RecordPage, GiveUpWait, DeadlineStops
<1>1. CASE Load(p)
  <2>1. pc[p] = "loading" /\ UNCHANGED scope
    BY <1>1 DEF Load
  <2>2. CASE me[p].error
    BY <1>1, <1>b, <2>1, <2>2, EndCounts DEF Load
  <2>3. CASE ~me[p].error
    <3> DEFINE mine == [me[p] EXCEPT !.seen = job[me[p].job].seen]
    <3>1. mine.job = me[p].job /\ mine.requests = me[p].requests
      BY <1>a DEF Locals
    <3>2. Goto(p, "marking", mine) \/ Goto(p, "looping", mine)
      BY <1>1, <2>3 DEF Load
    <3> HIDE DEF mine
    <3> QED BY <1>b, <2>1, <3>1, <3>2, QuietMove DEF Sure
  <2> QED BY <2>2, <2>3
<1>2. CASE RenewScope(p)
  <2>1. CASE Leaving(p) /\ UNCHANGED scope
    BY <1>b, <2>1, EndCounts
  <2>2. CASE scope.owner = p /\ scope' = Held(p) /\ Goto(p, "asking", me[p])
    <3>1. pc[p] \in Sure /\ scope'.owner = p
      BY <1>2, <2>2 DEF RenewScope, Sure, Held
    <3> QED BY <1>b, <2>2, <3>1, QuietMove
  <2> QED BY <1>2, <2>1, <2>2 DEF RenewScope
<1>3. CASE Ask(p)
  <2>1. pc[p] \in Sure /\ UNCHANGED scope
    BY <1>3 DEF Ask, Sure
  <2>2. CASE Goto(p, "waiting", me[p])
    BY <1>b, <2>1, <2>2, QuietMove
  <2>3. CASE \/ \E status, n : Ending(p, status, n)
             \/ \E mine : Goto(p, "recording", mine)
    BY <1>b, <2>1, <2>3, EndCounts
  <2> QED BY <1>3, <2>2, <2>3 DEF Ask
<1>4. CASE RecordPage(p) \/ GiveUpWait(p) \/ DeadlineStops(p)
  <2>1. UNCHANGED scope /\ \E status, n : Ending(p, status, n)
    BY <1>4 DEF RecordPage, GiveUpWait, DeadlineStops
  <2> QED BY <1>b, <2>1, EndCounts
<1> QED BY <1>1, <1>2, <1>3, <1>4

\* The count: the owner of the scope, still within its budget, commits itself.
\* Any other run will be stopped by the fence.
LEMMA RequestCounts ==
    ASSUME BudgetInv, [Next]_vars, NEW p \in Proc, RecordRequest(p)
    PROVE  Counted' /\ OwnerKnows'
<1>1. PICK i : i = me[p].job
  OBVIOUS
<1> DEFINE counted == job[i].requests + IF job[i].status = "running" THEN 1 ELSE 0
           mine == [me[p] EXCEPT !.requests = counted]
<1>2. /\ pc[p] = "waiting" /\ i \in Job /\ me[p] \in Locals /\ job[i] \in Row
      /\ job[i].requests \in Nat /\ me[p].requests \in Nat
      /\ job \in [Job -> Row]
  <2>1. pc[p] = "waiting"
    BY DEF RecordRequest
  <2>2. i \in Job /\ me[p] \in Locals /\ job \in [Job -> Row]
    BY <1>1, <2>1 DEF OnJob, BudgetInv, CursorInv, TypeInv, TypeOK, WorksOnJob
  <2> QED BY <2>1, <2>2 DEF Row, Locals
<1>3. /\ UNCHANGED <<scope, hist>> /\ Goto(p, "fencing", mine)
      /\ job' = [job EXCEPT ![i].requests = counted]
      /\ me[p].requests < MaxRequests
  BY <1>1, <1>2, HarvestAssumption DEF RecordRequest, OverBudget
<1>4. mine.job = i /\ mine.requests = counted
  BY <1>1, <1>2 DEF Locals
<1>5. job'[i].requests = counted /\ job'[i].status = job[i].status
  BY <1>2, <1>3 DEF Row
<1> HIDE DEF mine
<1>6. pc'[p] = "fencing" /\ me'[p].job = i /\ me'[p].requests = counted /\ Others(p)
  BY <1>3, <1>4, MovesAlone DEF BudgetInv, CursorInv
<1>7. CASE scope.owner # p
  <2>1. \A j \in Job : IsFiniteSet(Committed(j)') /\ Due(j)' \in Nat /\ Due(j)' <= Due(j)
    BY <1>3, <1>6, <1>7, NothingCommitted
  <2> QED BY <1>3, <1>6, <1>7, <2>1, NoMoreDue
<1>8. CASE scope.owner = p
  <2>1. Due(i) \in Nat /\ Due(i) <= me[p].requests
    BY <1>1, <1>2, <1>8, DueFact DEF BudgetInv, OwnerKnows, Knows, Sure
  <2>2. IsFiniteSet(Committed(i)') /\ Due(i)' \in Nat /\ Due(i)' <= Due(i) + 1
    <3>1. Committed(i)' \subseteq Committed(i) \cup {p}
      BY <1>3, <1>6 DEF Committed, Others
    <3>2. PICK S, T, n : S = Committed(i) /\ T = Committed(i)' /\ n = hist[i].sent
      OBVIOUS
    <3>3. IsFiniteSet(S) /\ n \in Nat
      BY <1>2, <3>2, DueFact DEF BudgetInv, Counted
    <3>4. IsFiniteSet(S \cup {p}) /\ Cardinality(S \cup {p}) <= Cardinality(S) + 1
          /\ Cardinality(S) \in Nat
      <4>1. /\ IsFiniteSet(S \cup {p})
            /\ Cardinality(S \cup {p}) = IF p \in S THEN Cardinality(S) ELSE Cardinality(S) + 1
        BY <3>3, FS_AddElement
      <4>2. Cardinality(S) \in Nat
        BY <3>3, FS_CardinalityType
      <4> QED BY <4>1, <4>2
    <3>5. IsFiniteSet(T) /\ n + Cardinality(T) \in Nat
          /\ n + Cardinality(T) <= n + Cardinality(S \cup {p})
      <4>1. T \in SUBSET (S \cup {p})
        BY <3>1, <3>2
      <4> QED BY <3>3, <3>4, <4>1, SumOfSubset
    <3>6. n + Cardinality(T) <= n + Cardinality(S) + 1
      <4>1. Cardinality(S \cup {p}) \in Nat
        BY <3>4, FS_CardinalityType
      <4> QED BY <3>3, <3>4, <3>5, <4>1
    <3>7. Due(i) = n + Cardinality(S) /\ Due(i)' = n + Cardinality(T)
      BY <1>3, <3>2 DEF Due
    <3> QED BY <3>2, <3>5, <3>6, <3>7
  <2>3. \A j \in Job \ {i} : IsFiniteSet(Committed(j)') /\ Due(j)' \in Nat /\ Due(j)' <= Due(j)
    <3>1. \A j \in Job \ {i} : Committed(j)' \subseteq Committed(j)
      BY <1>3, <1>6 DEF Committed, Others
    <3> QED BY <1>3, <3>1, DueShrinks
  <2>4. Counted'
    <3> SUFFICES ASSUME NEW j \in Job
                 PROVE  /\ IsFiniteSet(Committed(j)')
                        /\ Due(j)' <= MaxRequests
                        /\ job'[j].status = "running" => Due(j)' <= job'[j].requests
      BY DEF Counted
    <3>1. /\ Due(j) \in Nat /\ Due(j) <= MaxRequests
          /\ job[j].status = "running" => Due(j) <= job[j].requests
      BY DueFact DEF BudgetInv, Counted
    <3>2. CASE j = i
      BY <1>2, <1>3, <1>5, <2>1, <2>2, <3>1, <3>2, HarvestAssumption
    <3>3. CASE j # i
      <4>1. job'[j] = job[j] /\ job[j].requests \in Nat
        BY <1>2, <1>3, <3>3 DEF Row
      <4> QED BY <2>3, <3>1, <3>3, <4>1, HarvestAssumption
    <3> QED BY <3>2, <3>3
  <2>5. OwnerKnows'
    <3> SUFFICES ASSUME NEW q \in Proc, NEW j \in Job, scope'.owner = q, me'[q].job = j
                 PROVE  Knows(q, j)'
      BY DEF OwnerKnows
    <3>1. q = p /\ j = i
      BY <1>3, <1>6, <1>8
    <3>2. job'[i].status = "running" => Due(i)' <= me'[p].requests
      <4>1. job[i].status = "running" => Due(i) <= job[i].requests
        BY <1>2 DEF BudgetInv, Counted
      <4> QED BY <1>2, <1>5, <1>6, <2>1, <2>2, <4>1
    <3> QED BY <1>6, <3>1, <3>2 DEF Knows, Sure
  <2> QED BY <2>4, <2>5
<1> QED BY <1>7, <1>8

\* The fence, the request, and what becomes of the answer.
LEMMA AnswerCounts ==
    ASSUME BudgetInv, [Next]_vars, NEW p \in Proc,
           \/ Fence(p) \/ Send(p) \/ FetchFails(p) \/ PageArrives(p) \/ Checkpoint(p)
           \/ AfterSuccess(p) \/ SetWatermark(p) \/ Finish(p) \/ Leave(p)
           \/ Crash(p) \/ Interrupt(p)
    PROVE  Counted' /\ OwnerKnows'
<1>a. /\ me[p] \in Locals /\ me[p].requests \in Nat
      /\ pc[p] \in OnJob => me[p].job \in Job
  BY DEF BudgetInv, CursorInv, TypeInv, TypeOK, WorksOnJob, Locals
<1>1. CASE Fence(p)
  <2>1. UNCHANGED <<hist, job>> /\ pc[p] = "fencing"
    BY <1>1 DEF Fence, rows
  <2>2. CASE Leaving(p) /\ UNCHANGED scope
    BY <2>1, <2>2, EndCounts
  <2>3. CASE scope.owner = p /\ scope' = Held(p) /\ Goto(p, "fenced", me[p])
    <3>1. scope'.owner = p
      BY <2>3 DEF Held
    <3>2. pc'[p] = "fenced" /\ me'[p] = me[p] /\ Others(p)
      BY <2>3, <3>1, MovesAlone DEF BudgetInv, CursorInv
    <3>3. \A j \in Job : IsFiniteSet(Committed(j)') /\ Due(j)' \in Nat /\ Due(j)' <= Due(j)
      BY <2>1, <2>3, <3>2, NothingCommitted
    <3>4. ASSUME NEW j \in Job, me'[p].job = j
          PROVE  Knows(p, j)'
      <4>1. Knows(p, j)
        BY <2>3, <3>2, <3>4 DEF BudgetInv, OwnerKnows
      <4>2. Due(j) \in Nat /\ Due(j)' \in Nat /\ Due(j)' <= Due(j)
        BY <3>3, DueFact
      <4> QED BY <1>a, <2>1, <3>2, <4>1, <4>2 DEF Knows, Sure, SureIfRunning
    <3> QED BY <3>2, <3>3, <3>4, NoMoreDue
  <2> QED BY <1>1, <2>2, <2>3 DEF Fence
<1>2. CASE Send(p)
  <2>1. PICK i : i = me[p].job
    OBVIOUS
  <2>2. /\ pc[p] = "fenced" /\ i \in Job /\ UNCHANGED <<scope, job>>
        /\ hist' = [hist EXCEPT ![i].sent = @ + 1]
        /\ Goto(p, "fetching", me[p])
    BY <1>2, <1>a, <2>1 DEF Send, OnJob, rows
  <2>3. pc'[p] = "fetching" /\ me'[p] = me[p] /\ Others(p)
    BY <2>2, MovesAlone DEF BudgetInv, CursorInv
  <2>4. hist'[i].sent = hist[i].sent + 1 /\ hist[i].sent \in Nat
        /\ \A j \in Job \ {i} : hist'[j].sent = hist[j].sent
    <3>1. hist \in [Job -> History] /\ hist[i] \in History
      BY <2>2 DEF BudgetInv, CursorInv, TypeInv, TypeOK
    <3> QED BY <2>2, <3>1 DEF History
  <2>5. IsFiniteSet(Committed(i)') /\ Due(i)' \in Nat /\ Due(i)' <= Due(i)
    <3>1. p \in Committed(i) /\ Committed(i)' \subseteq Committed(i) \ {p}
      BY <2>1, <2>2, <2>3 DEF Committed, Others
    <3>2. PICK S, T, n : S = Committed(i) /\ T = Committed(i)' /\ n = hist[i].sent
      OBVIOUS
    <3>3. IsFiniteSet(S) /\ n \in Nat
      BY <2>2, <2>4, <3>2 DEF BudgetInv, Counted
    <3>4. IsFiniteSet(S \ {p}) /\ Cardinality(S \ {p}) = Cardinality(S) - 1
      BY <3>1, <3>2, <3>3, FS_RemoveElement
    <3>5. IsFiniteSet(T) /\ n + 1 + Cardinality(T) \in Nat
          /\ n + 1 + Cardinality(T) <= n + 1 + Cardinality(S \ {p})
      <4>1. T \in SUBSET (S \ {p}) /\ n + 1 \in Nat
        BY <3>1, <3>2, <3>3
      <4> QED BY <3>4, <4>1, SumOfSubset
    <3>6. Cardinality(S) \in Nat /\ Cardinality(T) \in Nat
      BY <3>3, <3>5, FS_CardinalityType
    <3>7. Due(i) = n + Cardinality(S) /\ Due(i)' = n + 1 + Cardinality(T)
      BY <2>4, <3>2 DEF Due
    <3> QED BY <3>2, <3>3, <3>4, <3>5, <3>6, <3>7
  <2>6. \A j \in Job \ {i} : IsFiniteSet(Committed(j)') /\ Due(j)' \in Nat /\ Due(j)' <= Due(j)
    <3>1. \A j \in Job \ {i} : Committed(j)' \subseteq Committed(j)
      BY <2>2, <2>3 DEF Committed, Others
    <3> QED BY <2>4, <3>1, DueShrinks
  <2>7. ASSUME scope'.owner = p
        PROVE  Knows(p, i)'
    <3>1. Knows(p, i)
      BY <2>1, <2>2, <2>7 DEF BudgetInv, OwnerKnows
    <3>2. Due(i) \in Nat
      BY <2>2, DueFact
    <3> QED BY <1>a, <2>2, <2>3, <2>5, <3>1, <3>2 DEF Knows, Sure, SureIfRunning
  <2>8. \A j \in Job : IsFiniteSet(Committed(j)') /\ Due(j)' \in Nat /\ Due(j)' <= Due(j)
    BY <2>5, <2>6
  <2> QED BY <2>1, <2>3, <2>7, <2>8, NoMoreDue
<1>3. CASE FetchFails(p)
  <2>1. UNCHANGED <<hist, scope>> /\ \E mine : Goto(p, "recording", mine)
    BY <1>3 DEF FetchFails
  <2> QED BY <2>1, EndCounts
<1>4. CASE PageArrives(p)
  <2>1. UNCHANGED <<hist, scope, job>> /\ pc[p] \in SureIfRunning /\ "fetched" \in SureIfRunning
    BY <1>4 DEF PageArrives, SureIfRunning, rows
  <2> DEFINE mine == [me[p] EXCEPT !.response = today]
  <2>2. Goto(p, "fetched", mine) /\ mine.job = me[p].job /\ mine.requests = me[p].requests
    BY <1>4, <1>a DEF PageArrives, Locals
  <2> HIDE DEF mine
  <2> QED BY <2>1, <2>2, QuietMove
<1>5. CASE Checkpoint(p)
  <2>1. CASE CursorMatches(p)
    <3> DEFINE next == list.next[me[p].token]
               finished == next = None
               wrong == TokenError(p)
               pages == me[p].pages + 1
               seen == me[p].seen \cup ({me[p].token} \ {None})
               mine == [me[p] EXCEPT !.pages = pages, !.token = next, !.finished = finished,
                                     !.error = wrong, !.seen = seen]
    <3>1. Goto(p, "stored", mine) /\ UNCHANGED scope
      BY <1>5, <2>1 DEF Checkpoint, world
    <3> HIDE DEF next, finished, wrong, pages, seen
    <3>2. mine.job = me[p].job /\ mine.requests = me[p].requests
      BY <1>a DEF Locals
    <3>3. pc[p] \in SureIfRunning /\ job[me[p].job].status = "running"
      BY <1>5, <2>1 DEF Checkpoint, SureIfRunning, CursorMatches
    <3> HIDE DEF mine
    <3>4. \A j \in Job : hist'[j].sent = hist[j].sent
      BY <3>1, NothingIsSent
    <3> QED BY <3>1, <3>2, <3>3, <3>4, QuietMove
  <2>2. CASE Leaving(p) /\ UNCHANGED hist
    BY <1>5, <2>2, EndCounts DEF Checkpoint, world
  <2> QED BY <1>5, <2>1, <2>2 DEF Checkpoint
<1>6. CASE AfterSuccess(p)
  <2>1. UNCHANGED <<hist, scope>> /\ pc[p] \in Sure
    BY <1>6 DEF AfterSuccess, Sure
  <2>2. CASE \E status, n : Ending(p, status, n)
    BY <2>1, <2>2, EndCounts
  <2>3. CASE Goto(p, "marking", me[p]) \/ Goto(p, "looping", me[p])
    BY <2>1, <2>3, QuietMove
  <2> QED BY <1>6, <2>2, <2>3 DEF AfterSuccess
<1>7. CASE SetWatermark(p)
  BY <1>7, EndCounts DEF SetWatermark
<1>8. CASE Finish(p) \/ Interrupt(p)
  BY <1>8, EndCounts DEF Finish, Interrupt
<1>9. CASE Leave(p) \/ Crash(p)
  <2>1. UNCHANGED hist /\ Goto(p, "idle", Blank)
    BY <1>9 DEF Leave, Crash
  <2>2. scope'.owner \in {scope.owner, p, None, Gone}
    <3>1. scope \in [owner : Proc \cup {None, Gone}, live : BOOLEAN]
      BY DEF BudgetInv, CursorInv, TypeInv, TypeOK
    <3> QED BY <1>9, <3>1 DEF Leave, Crash, Free
  <2> QED BY <2>1, <2>2, EndCounts
<1> QED BY <1>1, <1>2, <1>3, <1>4, <1>5, <1>6, <1>7, <1>8, <1>9

LEMMA BudgetStep == BudgetInv /\ [Next]_vars => BudgetInv'
<1> SUFFICES ASSUME BudgetInv, [Next]_vars PROVE BudgetInv'
  OBVIOUS
<1>1. CursorInv' /\ TypeInv'
  BY CursorStep DEF BudgetInv, CursorInv
<1>2. OnUsedJob' /\ NothingSent'
  BY <1>1, UsedStep
<1>3. Counted' /\ OwnerKnows'
  BY WorldQuiet, StartCounts, AskCounts, RequestCounts, AnswerCounts DEF Next, Step
<1> QED BY <1>1, <1>2, <1>3 DEF BudgetInv

LEMMA InitBudget == Init => BudgetInv
<1> SUFFICES ASSUME Init PROVE BudgetInv
  OBVIOUS
<1>1. CursorInv
  BY InitCursor
<1>2. /\ \A j \in Job : job[j].status = "none" /\ hist[j].sent = 0
      /\ \A p \in Proc : pc[p] = "idle"
  BY DEF Init, Unused, NoHistory
<1>3. \A j \in Job : Committed(j) = {}
  BY <1>2 DEF Committed
<1>4. \A j \in Job : IsFiniteSet(Committed(j)) /\ Due(j) = 0
  BY <1>2, <1>3, FS_EmptySet DEF Due
<1>5. Counted
  BY <1>2, <1>4, HarvestAssumption DEF Counted
<1>6. OnUsedJob /\ NothingSent /\ OwnerKnows
  BY <1>2 DEF OnUsedJob, NothingSent, OwnerKnows, Knows, OnJob, Sure, SureIfRunning
<1> QED BY <1>1, <1>5, <1>6 DEF BudgetInv

LEMMA WithinBudget == BudgetInv => BudgetHolds
<1> SUFFICES ASSUME BudgetInv, NEW j \in Job
             PROVE  hist[j].sent <= MaxRequests
  BY DEF BudgetHolds
<1>1. Due(j) <= MaxRequests
  BY DEF BudgetInv, Counted
<1> QED BY <1>1, DueFact, HarvestAssumption

\* A job never sends more requests than its budget, however often its runs die
\* or are resumed and even if runs that are suspended past their leases work
\* on it beside each other: the count is durable before the request goes out,
\* and the fence stops a run whose count was not in time.
THEOREM BudgetIsHeld == Spec => []BudgetHolds
BY WithinBudget, InitBudget, BudgetStep, PTL DEF Spec
====
