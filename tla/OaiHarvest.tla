---- MODULE OaiHarvest ----
(***************************************************************************)
(* OAI-PMH harvests: harvest_oai (src/src/huldra/broker.py) over the rows  *)
(* of oai_harvest_jobs, oai_pages, oai_watermarks and leases (src/src/     *)
(* huldra/db.py).  A harvest follows the resumption tokens of a list,      *)
(* stores every page with the next cursor in one transaction, and at the   *)
(* end moves the watermark of its scope and completes its job.             *)
(*                                                                         *)
(* The harvests here are those of one scope without datestamp bounds and   *)
(* without an explicit token, in their modes; they share the scope lease   *)
(* and the watermark.  One transaction is one action.  A page is named by  *)
(* the cursor that requests it: None for the first one, else a token.      *)
(***************************************************************************)
EXTENDS Integers, Sequences, FiniteSets

CONSTANTS
    Proc,         \* processes that may run a harvest
    Mode,         \* "initial" and "incremental"
    Token,        \* resumption tokens
    None,         \* no token, no lease owner
    Gone,         \* owner of a lease that a dead process left
    Worker,       \* owner of the upstream lease when it is not a harvest's
    Lists,        \* [next, empty]: lists a server may serve
    MaxPages,     \* request.max_pages
    MaxRequests,  \* request.max_requests
    MaxJobs,      \* bound on the jobs of a behaviour
    MaxDay,       \* bound on the days, the granularity of watermarks
    Timed,        \* jobs whose deadline may pass
    MaxCrashes,   \* bound on crashes and interrupts
    MaxStalls,    \* bound on the leases that live processes outlive
    MaxMishaps    \* bound on all of these together

Cursor == Token \cup {None}
Job == 1..MaxJobs
NoJob == 0

ASSUME HarvestAssumption ==
    /\ "initial" \in Mode
    /\ Timed \subseteq Job
    /\ {None, Gone, Worker} \cap (Proc \cup Token \cup Int) = {}
    /\ None # Gone /\ None # Worker /\ Gone # Worker
    /\ \A l \in Lists : /\ l.next \in [Cursor -> Cursor]
                        /\ l.empty \subseteq Cursor
    /\ MaxPages \in Nat \ {0}
    /\ MaxRequests \in Nat \ {0}
    /\ MaxDay \in Nat \ {0}
    /\ {MaxJobs, MaxCrashes, MaxStalls, MaxMishaps} \subseteq Nat

VARIABLES
    list,       \* the list the server serves: next cursors, empty pages
    today,      \* the server's day: the responseDate of a page
    scope,      \* lease `oai_harvest:...`; its owner is a run of a process
    upstream,   \* lease `upstream_fetch`; its owner is `oai:<harvest_id>`
    job,        \* rows of oai_harvest_jobs, with the tokens of their oai_pages
    latest,     \* the job of a mode that was finished last
    watermark,  \* last_response_date of the scope, 0 when there is none
    pc,         \* where each process is in harvest_oai
    me,         \* its locals
    hist,       \* ghost: what each job fetched and stored
    crashes,    \* ghost: crashes and interrupts so far
    stalls      \* ghost: leases that ran out under a live process

locals == <<pc, me>>
rows == <<job, latest, watermark>>
world == <<list, today, crashes, stalls>>
vars == <<list, today, scope, upstream, job, latest, watermark, pc, me, hist,
          crashes, stalls>>

Resumable ==
    {"rate_limited", "cooling_down", "blocked", "transient_failure", "budget_exceeded"}
Terminal == Resumable \cup {"failed", "completed"}

\* A row not yet inserted.
Unused ==
    [status |-> "none", mode |-> "initial", token |-> None, pages |-> 0,
     requests |-> 0, finished |-> FALSE,
     error |-> FALSE,    \* error_category is set
     response |-> 0,     \* last_response_date
     seen |-> {},        \* tokens whose hash is in oai_pages
     late |-> FALSE]     \* deadline_at has passed

Blank ==
    [mode |-> "initial", job |-> NoJob, token |-> None, pages |-> 0,
     requests |-> 0, finished |-> FALSE, error |-> FALSE, response |-> 0,
     seen |-> {}, end |-> "none"]

NoHistory == [start |-> None, before |-> {}, log |-> <<>>, sent |-> 0]

Free == [owner |-> None, live |-> FALSE]
Held(owner) == [owner |-> owner, live |-> TRUE]

Init ==
    /\ list \in Lists
    /\ today = 1
    /\ scope = Free
    /\ upstream = Free
    /\ job = [j \in Job |-> Unused]
    /\ latest = [m \in Mode |-> NoJob]
    /\ watermark = 0
    /\ pc = [p \in Proc |-> "idle"]
    /\ me = [p \in Proc |-> Blank]
    /\ hist = [j \in Job |-> NoHistory]
    /\ crashes = 0
    /\ stalls = 0

-----------------------------------------------------------------------------
(* Starting or resuming a job.                                             *)

Goto(p, label, mine) ==
    /\ pc' = [pc EXCEPT ![p] = label]
    /\ me' = [me EXCEPT ![p] = mine]

\* On the way out only the `finally` of harvest_oai is left to run.
Leaving(p) == Goto(p, "leaving", Blank)

Running(m) == {j \in Job : job[j].status = "running" /\ job[j].mode = m}
NotUsed == {j \in Job : job[j].status = "none"}

\* Mutant: a scope lease blocks for as long as its row exists.
StartIfFree(p, m) ==
    /\ pc[p] = "idle"
    /\ scope = Free
    /\ Running(m) \cup NotUsed # {}
    /\ scope' = Held(p)
    /\ Goto(p, "looking", [Blank EXCEPT !.mode = m])
    /\ UNCHANGED <<world, upstream, rows, hist>>

\* harvest_oai: acquire_lease of the scope. A run that is refused returns
\* `blocked` and changes nothing.
Start(p, m) ==
    /\ pc[p] = "idle"
    /\ ~scope.live
    /\ Running(m) \cup NotUsed # {}
    /\ scope' = Held(p)
    /\ Goto(p, "looking", [Blank EXCEPT !.mode = m])
    /\ UNCHANGED <<world, upstream, rows, hist>>

\* The locals of a run that resumes job j.
FromRow(j) ==
    [Blank EXCEPT !.mode = job[j].mode, !.job = j, !.token = job[j].token,
                  !.pages = job[j].pages, !.requests = job[j].requests,
                  !.finished = job[j].finished, !.error = job[j].error,
                  !.response = job[j].response]

\* get_running_oai_harvest: the running job of the same mode, if any.
FindRunning(p) ==
    /\ pc[p] = "looking"
    /\ IF Running(me[p].mode) = {}
       THEN Goto(p, "continuing", me[p])
       ELSE \E j \in Running(me[p].mode) : Goto(p, "loading", FromRow(j))
    /\ UNCHANGED <<world, scope, upstream, rows, hist>>

\* get_latest_resumable_oai_harvest_token
ResumableToken(m) ==
    IF latest[m] # NoJob /\ job[latest[m]].status \in Resumable
    THEN job[latest[m]].token
    ELSE None

FindResumable(p) ==
    /\ pc[p] = "continuing"
    /\ LET token == ResumableToken(me[p].mode)
       IN  Goto(p, "creating", [me[p] EXCEPT !.token = token,
                   !.job = IF token = None THEN NoJob ELSE latest[me[p].mode]])
    /\ UNCHANGED <<world, scope, upstream, rows, hist>>

Pages(j) == {hist[j].log[i] : i \in DOMAIN hist[j].log}

\* The pages stored by job j and the jobs it continues.
Stored(j) == hist[j].before \cup Pages(j)

\* create_oai_harvest_job. Until here me[p].job is the job continued.
CreateJob(p) ==
    /\ pc[p] = "creating"
    /\ \E j \in NotUsed :
          /\ \A i \in NotUsed : j <= i
          /\ job' = [job EXCEPT ![j] = [Unused EXCEPT !.status = "running",
                                            !.mode = me[p].mode, !.token = me[p].token]]
          /\ hist' = [hist EXCEPT ![j].start = me[p].token,
                        ![j].before = IF me[p].job = NoJob THEN {} ELSE Stored(me[p].job)]
          /\ Goto(p, "loading", [me[p] EXCEPT !.job = j])
    /\ UNCHANGED <<world, scope, upstream, latest, watermark>>

\* The supply of jobs is used up: a bound of the model.
NoJobLeft(p) ==
    /\ pc[p] = "creating"
    /\ NotUsed = {}
    /\ Leaving(p)
    /\ UNCHANGED <<world, scope, upstream, rows, hist>>

\* finish(status): the locals go to complete_oai_harvest_job.
Ending(p, status, pages) ==
    Goto(p, "finishing", [me[p] EXCEPT !.end = status, !.pages = pages])

\* Mutant: a pending error of the resumed job is overlooked.
LoadUnchecked(p) ==
    /\ pc[p] = "loading"
    /\ Goto(p, IF me[p].finished THEN "marking" ELSE "looping",
               [me[p] EXCEPT !.seen = job[me[p].job].seen])
    /\ UNCHANGED <<world, scope, upstream, rows, hist>>

\* get_oai_consumed_token_hashes, and the check of a pending error.
Load(p) ==
    /\ pc[p] = "loading"
    /\ IF me[p].error
       THEN Ending(p, "failed", me[p].pages)
       ELSE Goto(p, IF me[p].finished THEN "marking" ELSE "looping",
                    [me[p] EXCEPT !.seen = job[me[p].job].seen])
    /\ UNCHANGED <<world, scope, upstream, rows, hist>>

-----------------------------------------------------------------------------
(* One turn of the loop: fence, budgets, limiter, request, checkpoint.     *)

\* renew_lease_if_owned looks at the owner, not at the expiry.
RenewScope(p) ==
    /\ pc[p] = "looping"
    /\ IF scope.owner = p
       THEN scope' = Held(p) /\ Goto(p, "asking", me[p])
       ELSE UNCHANGED scope /\ Leaving(p)   \* ownership_lost
    /\ UNCHANGED <<world, upstream, rows, hist>>

\* Mutant: the limit itself is still within the budget.
OverBudgetLate(p) ==
    \/ me[p].pages >= MaxPages
    \/ me[p].requests > MaxRequests
    \/ job[me[p].job].late

\* _oai_budget_error
OverBudget(p) ==
    \/ me[p].pages >= MaxPages
    \/ me[p].requests >= MaxRequests
    \/ job[me[p].job].late

\* The budget check and limiter.before_request. In a cooldown it gives the
\* lease back. Refused, the attempt is recorded as a page.
Ask(p) ==
    /\ pc[p] = "asking"
    /\ LET mine == upstream.owner = me[p].job
       IN  \/ /\ OverBudget(p)
              /\ Ending(p, "budget_exceeded", me[p].pages)
              /\ UNCHANGED upstream
           \/ /\ ~OverBudget(p)
              /\ mine \/ ~upstream.live
              /\ \/ upstream' = Held(me[p].job) /\ Goto(p, "waiting", me[p])
                 \/ upstream' = Free /\ Goto(p, "recording", [me[p] EXCEPT !.end = "cooling_down"])
           \/ /\ ~OverBudget(p)
              /\ ~mine /\ upstream.live
              /\ Goto(p, "recording", [me[p] EXCEPT !.end = "blocked"])
              /\ UNCHANGED upstream
    /\ UNCHANGED <<world, scope, rows, hist>>

\* record_oai_page for a page that was not fetched: its token counts among
\* the consumed ones from now on, and finish gets one page more.
RecordPage(p) ==
    /\ pc[p] = "recording"
    /\ job' = [job EXCEPT ![me[p].job].seen = @ \cup ({me[p].token} \ {None})]
    /\ Ending(p, me[p].end, me[p].pages + 1)
    /\ UNCHANGED <<world, scope, upstream, latest, watermark, hist>>

\* release_lease("upstream_fetch"), by any run of the same job.
Released(p) == IF upstream.owner = me[p].job THEN Free ELSE upstream

\* The sleep would outlast the deadline (which may pass right here), or it
\* did: the budgets are checked around it.
GiveUpWait(p) ==
    /\ pc[p] = "waiting"
    /\ OverBudget(p)
    /\ upstream' = Released(p)
    /\ Ending(p, "budget_exceeded", me[p].pages)
    /\ UNCHANGED <<world, scope, rows, hist>>

\* After the sleep: record_oai_request_started. The row of a job that is no
\* longer running is read but not changed.
RecordRequest(p) ==
    /\ pc[p] = "waiting"
    /\ ~OverBudget(p)
    /\ LET j == me[p].job
           counted == job[j].requests + IF job[j].status = "running" THEN 1 ELSE 0
       IN  /\ job' = [job EXCEPT ![j].requests = counted]
           /\ Goto(p, "fencing", [me[p] EXCEPT !.requests = counted])
    /\ UNCHANGED <<world, scope, upstream, latest, watermark, hist>>

\* renew_leases_if_owned on both leases, between two looks at the deadline.
Fence(p) ==
    /\ pc[p] = "fencing"
    /\ ~job[me[p].job].late
    /\ IF scope.owner = p /\ upstream.owner = me[p].job
       THEN /\ scope' = Held(p)
            /\ upstream' = Held(me[p].job)
            /\ Goto(p, "fenced", me[p])
       ELSE /\ upstream' = Released(p)   \* ownership_lost
            /\ Leaving(p)
            /\ UNCHANGED scope
    /\ UNCHANGED <<world, rows, hist>>

DeadlineStops(p) ==
    /\ pc[p] \in {"fencing", "fenced"}
    /\ job[me[p].job].late
    /\ upstream' = Released(p)
    /\ Ending(p, "budget_exceeded", me[p].pages)
    /\ UNCHANGED <<world, scope, rows, hist>>

\* fetcher.list_records: the request goes out.
Send(p) ==
    /\ pc[p] = "fenced"
    /\ ~job[me[p].job].late
    /\ hist' = [hist EXCEPT ![me[p].job].sent = @ + 1]
    /\ Goto(p, "fetching", me[p])
    /\ UNCHANGED <<world, scope, upstream, rows>>

\* RateLimitedError, TransientFetchError, NonRetryableFetchError: after_429
\* or after_failure, which release the upstream lease.
FetchFails(p) ==
    /\ pc[p] = "fetching"
    /\ \E status \in {"rate_limited", "transient_failure", "failed"} :
          Goto(p, "recording", [me[p] EXCEPT !.end = status])
    /\ upstream' = Released(p)
    /\ UNCHANGED <<world, scope, rows, hist>>

\* A page arrives; the next response date is that of the server's day.
PageArrives(p) ==
    /\ pc[p] = "fetching"
    /\ Goto(p, "fetched", [me[p] EXCEPT !.response = today])
    /\ UNCHANGED <<world, scope, upstream, rows, hist>>

\* Mutant: only an immediate repetition is an error.
TokenErrorForgetful(p) ==
    LET next == list.next[me[p].token]
    IN  /\ next # None
        /\ \/ next = me[p].token
           \/ me[p].token \in list.empty

\* _oai_token_error
TokenError(p) ==
    LET next == list.next[me[p].token]
    IN  /\ next # None
        /\ \/ next = me[p].token
           \/ next \in me[p].seen
           \/ me[p].token \in list.empty

\* Mutant: any running job takes the page.
CursorMatchesAny(p) == job[me[p].job].status = "running"

CursorMatches(p) ==
    /\ job[me[p].job].status = "running"
    /\ job[me[p].job].pages = me[p].pages
    /\ job[me[p].job].token = me[p].token

\* checkpoint_oai_page: the page and the next cursor in one transaction. If
\* the durable cursor has moved it raises, and the run unwinds.
Checkpoint(p) ==
    /\ pc[p] = "fetched"
    /\ LET j == me[p].job
           next == list.next[me[p].token]
           consumed == {me[p].token} \ {None}
           moved == [job[j] EXCEPT !.pages = IF @ > me[p].pages THEN @ ELSE me[p].pages + 1,
                                   !.token = next,
                                   !.finished = next = None,
                                   !.error = TokenError(p),
                                   !.response = me[p].response,
                                   !.seen = @ \cup consumed]
       IN  IF CursorMatches(p)
           THEN /\ job' = [job EXCEPT ![j] = moved]
                /\ hist' = [hist EXCEPT ![j].log = Append(@, me[p].token)]
                /\ Goto(p, "stored",
                        [me[p] EXCEPT !.pages = @ + 1, !.token = next,
                                      !.finished = next = None,
                                      !.error = TokenError(p),
                                      !.seen = @ \cup consumed])
                /\ UNCHANGED upstream
           ELSE /\ upstream' = Released(p)   \* after_failure
                /\ Leaving(p)
                /\ UNCHANGED <<job, hist>>
    /\ UNCHANGED <<world, scope, latest, watermark>>

\* Mutant: a run that has all the pages it may ask for is at its end.
AfterSuccessFull(p) ==
    /\ pc[p] = "stored"
    /\ upstream' = Released(p)
    /\ IF me[p].error
       THEN Ending(p, "failed", me[p].pages)
       ELSE Goto(p, IF me[p].finished \/ me[p].pages >= MaxPages THEN "marking" ELSE "looping",
                    me[p])
    /\ UNCHANGED <<world, scope, rows, hist>>

\* after_success, and the end of the turn.
AfterSuccess(p) ==
    /\ pc[p] = "stored"
    /\ upstream' = Released(p)
    /\ IF me[p].error
       THEN Ending(p, "failed", me[p].pages)
       ELSE Goto(p, IF me[p].finished THEN "marking" ELSE "looping", me[p])
    /\ UNCHANGED <<world, scope, rows, hist>>

-----------------------------------------------------------------------------
(* The end of a harvest.                                                   *)

\* Mutant: the watermark is set to the day after the response.
AdvancedPastDay(day) == IF day >= watermark THEN day + 1 ELSE watermark

\* Mutant: the watermark takes whatever date comes last.
AdvancedBlind(day) == day

\* set_oai_watermark never goes back.
Advanced(day) == IF day >= watermark THEN day ELSE watermark

\* Mutant: the job completes and the watermark is left to a later run.
SetNoWatermark(p) ==
    /\ pc[p] = "marking"
    /\ Ending(p, "completed", me[p].pages)
    /\ UNCHANGED <<world, scope, upstream, rows, hist>>

SetWatermark(p) ==
    /\ pc[p] = "marking"
    /\ watermark' = Advanced(me[p].response)
    /\ Ending(p, "completed", me[p].pages)
    /\ UNCHANGED <<world, scope, upstream, job, latest, hist>>

\* complete_oai_harvest_job writes the row whatever its state is.
Finish(p) ==
    /\ pc[p] = "finishing"
    /\ LET j == me[p].job
       IN  /\ job' = [job EXCEPT ![j].status = me[p].end,
                                 ![j].pages = me[p].pages,
                                 ![j].token = me[p].token,
                                 ![j].error = me[p].end # "completed"]
           /\ latest' = [latest EXCEPT ![job[j].mode] = j]
    /\ Leaving(p)
    /\ UNCHANGED <<world, scope, upstream, watermark, hist>>

\* The `finally` of harvest_oai releases the scope lease if it is still ours.
Leave(p) ==
    /\ pc[p] = "leaving"
    /\ scope' = IF scope.owner = p THEN Free ELSE scope
    /\ Goto(p, "idle", Blank)
    /\ UNCHANGED <<world, upstream, rows, hist>>

-----------------------------------------------------------------------------
(* What happens to a harvest.                                              *)

\* The process dies: its leases stay until they run out.
Crash(p) ==
    /\ pc[p] # "idle"
    /\ crashes < MaxCrashes /\ crashes + stalls < MaxMishaps
    /\ crashes' = crashes + 1
    /\ scope' = IF scope.owner = p THEN [scope EXCEPT !.owner = Gone] ELSE scope
    /\ Goto(p, "idle", Blank)
    /\ UNCHANGED <<list, today, stalls, upstream, rows, hist>>

\* An exception no handler catches, or Ctrl-C: only the `finally` runs.
Interrupt(p) ==
    /\ pc[p] \notin {"idle", "leaving"}
    /\ crashes < MaxCrashes /\ crashes + stalls < MaxMishaps
    /\ crashes' = crashes + 1
    /\ Leaving(p)
    /\ UNCHANGED <<list, today, stalls, scope, upstream, rows, hist>>

\* Some process works on the job and keeps its upstream lease in mind.
Attended(j) ==
    \E p \in Proc : me[p].job = j /\ pc[p] \in {"waiting", "fencing", "fenced",
                                                "fetching", "fetched", "stored"}

\* A lease nobody renews any more runs out.
ScopeExpires ==
    /\ scope = Held(Gone)
    /\ scope' = [scope EXCEPT !.live = FALSE]
    /\ UNCHANGED <<world, upstream, rows, locals, hist>>

UpstreamExpires ==
    /\ upstream.live
    /\ upstream.owner # Worker
    /\ ~Attended(upstream.owner)
    /\ upstream' = [upstream EXCEPT !.live = FALSE]
    /\ UNCHANGED <<world, scope, rows, locals, hist>>

\* A live process is suspended for longer than a lease it holds lives.
Stall ==
    /\ stalls < MaxStalls /\ crashes + stalls < MaxMishaps
    /\ stalls' = stalls + 1
    /\ \/ /\ scope.live /\ scope.owner \in Proc
          /\ scope' = [scope EXCEPT !.live = FALSE]
          /\ UNCHANGED upstream
       \/ /\ upstream.live /\ upstream.owner # Worker /\ Attended(upstream.owner)
          /\ upstream' = [upstream EXCEPT !.live = FALSE]
          /\ UNCHANGED scope
    /\ UNCHANGED <<list, today, crashes, rows, locals, hist>>

\* A queue worker takes the upstream lease, and gives it back. That it takes
\* it only where a harvest is about to look at it loses no behaviour.
WorkerTakes ==
    /\ ~upstream.live
    /\ \E p \in Proc : pc[p] \in {"asking", "waiting", "fencing"}
    /\ upstream' = Held(Worker)
    /\ UNCHANGED <<world, scope, rows, locals, hist>>

WorkerReleases ==
    /\ upstream.owner = Worker
    /\ upstream' = Free
    /\ UNCHANGED <<world, scope, rows, locals, hist>>

Tomorrow ==
    /\ today < MaxDay
    /\ today' = today + 1
    /\ UNCHANGED <<list, crashes, stalls, scope, upstream, rows, locals, hist>>

DeadlinePasses(j) ==
    /\ j \in Timed
    /\ job[j].status = "running"
    /\ ~job[j].late
    /\ job' = [job EXCEPT ![j].late = TRUE]
    /\ UNCHANGED <<world, scope, upstream, latest, watermark, locals, hist>>

\* The next statement of a run.
Step(p) ==
    \/ FindRunning(p) \/ FindResumable(p) \/ CreateJob(p) \/ NoJobLeft(p) \/ Load(p)
    \/ RenewScope(p) \/ Ask(p) \/ RecordPage(p) \/ GiveUpWait(p) \/ RecordRequest(p)
    \/ Fence(p) \/ DeadlineStops(p) \/ Send(p) \/ FetchFails(p) \/ PageArrives(p)
    \/ Checkpoint(p) \/ AfterSuccess(p) \/ SetWatermark(p) \/ Finish(p) \/ Leave(p)

Next ==
    \/ \E p \in Proc :
          \/ Step(p) \/ Crash(p) \/ Interrupt(p)
          \/ \E m \in Mode : Start(p, m)
    \/ ScopeExpires \/ UpstreamExpires \/ Stall
    \/ WorkerTakes \/ WorkerReleases
    \/ Tomorrow
    \/ \E j \in Job : DeadlinePasses(j)

Spec == Init /\ [][Next]_vars

\* Runs go on to their end, leases of dead owners run out, and the user (or
\* the scheduler) runs a harvest of each mode again.
FairSpec ==
    /\ Spec
    /\ \A p \in Proc : WF_vars(Step(p))
    /\ WF_vars(ScopeExpires)
    /\ \A m \in Mode : WF_vars(\E p \in Proc : Start(p, m))

-----------------------------------------------------------------------------
(* Properties.                                                             *)

Label == {"idle", "looking", "continuing", "creating", "loading", "looping",
          "asking", "waiting", "fencing", "fenced", "fetching", "fetched",
          "stored", "marking", "recording", "finishing", "leaving"}

Row ==
    [status : Terminal \cup {"none", "running"}, mode : Mode, token : Cursor,
     pages : Nat, requests : Nat, finished : BOOLEAN, error : BOOLEAN,
     response : 0..MaxDay, seen : SUBSET Token, late : BOOLEAN]

Locals ==
    [mode : Mode, job : Job \cup {NoJob}, token : Cursor, pages : Nat,
     requests : Nat, finished : BOOLEAN, error : BOOLEAN, response : 0..MaxDay,
     seen : SUBSET Token, end : Terminal \cup {"none"}]

History ==
    [start : Cursor, before : SUBSET Cursor, log : Seq(Cursor), sent : Nat]

\* Every row, lease and local has its type; the counters stay in Nat.
TypeOK ==
    /\ list \in Lists
    /\ today \in 1..MaxDay
    /\ scope \in [owner : Proc \cup {None, Gone}, live : BOOLEAN]
    /\ upstream \in [owner : Job \cup {None, Worker}, live : BOOLEAN]
    /\ job \in [Job -> Row]
    /\ latest \in [Mode -> Job \cup {NoJob}]
    /\ watermark \in 0..MaxDay
    /\ pc \in [Proc -> Label]
    /\ me \in [Proc -> Locals]
    /\ hist \in [Job -> History]
    /\ crashes \in 0..MaxCrashes
    /\ stalls \in 0..MaxStalls

\* The durable cursor of a running job is exactly what it stored: the count
\* of its pages, and the token that follows the last of them. It holds also
\* when a suspended run checkpoints beside its successor (db.py:1293).
CursorExact ==
    \A j \in Job : job[j].status = "running" =>
        LET log == hist[j].log
            n == Len(log)
        IN  /\ job[j].pages = n
            /\ job[j].token = IF n = 0 THEN hist[j].start ELSE list.next[log[n]]
            /\ n > 0 => log[1] = hist[j].start
            /\ \A i \in 2..n : log[i] = list.next[log[i - 1]]

\* No token is served twice on the way through the list.
Acyclic ==
    \A c, d \in Cursor : c # d /\ list.next[c] = list.next[d] => list.next[c] = None

\* "resumes the running job without refetching committed pages" (README.md:287),
\* and token cycles end a job (README.md:289): without suspensions a job stores
\* no page twice whatever the server serves, nor, if the list ends, one that
\* a job it continues has stored. A circle wider than the pages of one job is
\* not noticed: the tokens seen are those of the job.
NoPageTwice ==
    stalls = 0 =>
        \A j \in Job :
            /\ Cardinality(Pages(j)) = Len(hist[j].log)
            /\ Acyclic => Pages(j) \cap hist[j].before = {}

\* A job never sends more requests than its budget, across crashes, resumed
\* runs and suspended ones (db.py:1193).
BudgetHolds == \A j \in Job : hist[j].sent <= MaxRequests

\* The first page is there, and with every page the next one.
WholeList(pages) ==
    /\ None \in pages
    /\ \A c \in pages : list.next[c] = None \/ list.next[c] \in pages

\* A completed job has stored the whole list and has moved the watermark:
\* both come before the terminal status.
CompletedIsCovered ==
    \A j \in Job : job[j].status = "completed" =>
        /\ WholeList(Stored(j))
        /\ job[j].response > 0
        /\ watermark >= job[j].response

\* "Watermarks advance only after all pages in the harvest succeed", "watermark
\* updates are monotonic" (README.md:285, 291), whoever writes them and when.
WatermarkHonest ==
    [][watermark' # watermark =>
          /\ watermark' > watermark
          /\ \E p \in Proc : /\ pc[p] = "marking"
                             /\ pc'[p] # pc[p]
                             /\ WholeList(Stored(me[p].job))]_vars

\* Whatever dies, is resumed or overlaps, the harvests copy the list as
\* ListMirror promises: what they store is a walk from its first page.
Copied == UNION {Pages(j) : j \in Job}

LM == INSTANCE ListMirror WITH
        stored    <- Copied,
        sent      <- [j \in Job |-> hist[j].sent],
        completed <- {j \in Job : job[j].status = "completed"}

Mirrored == LM!Spec

\* "repeated tokens, token cycles, and no-progress pages fail
\* deterministically" (README.md:289): once such a page is stored the job
\* asks for nothing more, also after a restart, and it can only fail.
BadTokenStops ==
    [][\A j \in Job : job[j].status = "running" /\ job[j].error /\ stalls = 0 =>
          /\ hist'[j].sent = hist[j].sent
          /\ job'[j].status \in {"running", "failed"}]_vars

\* Rerun, an interrupted harvest comes to an end: no lease left behind and
\* no cursor blocks it for ever.
EveryHarvestSettles ==
    \A j \in Job : job[j].status = "running" ~> job[j].status \in Terminal
====
