---- MODULE CompleteWindow ----
(***************************************************************************)
(* One window of HuldraBroker.sync_windows in complete_window mode (src/   *)
(* src/huldra/broker.py): its first page, the plan and the admission of    *)
(* the pages that follow, their enqueues, the drain, and the job that is   *)
(* completed from whatever the cache then holds.  The window moves at      *)
(* arXiv meanwhile, and other callers fetch and refresh the same pages.    *)
(*                                                                         *)
(* The call is one process; a step of it is one transaction, or several    *)
(* with nothing in between that others could change.  Fetches are those of *)
(* QueueWork in short: an item is charged when it goes out, answered or    *)
(* failed.  Pages are named by their start; time is the deadline, which    *)
(* passes at any moment.                                                   *)
(***************************************************************************)
EXTENDS Integers, SequencesExt

CONSTANTS
    MaxPapers,    \* bound on the papers of the window
    Start,        \* start of the target request
    PageSize,     \* its max_results
    Cap,          \* legacy_search_window_result_cap
    MaxPages,     \* max_pages_per_window
    MaxRequests,  \* max_requests_total
    MaxMishaps    \* bound on new papers, failed fetches, short pages, and what
                  \* other callers ask for, together

ASSUME WindowAssumption ==
    /\ MaxPapers \in Nat
    /\ Start \in 0 .. MaxPapers /\ PageSize \in Nat \ {0} /\ Cap \in Nat
    /\ MaxPages \in Nat \ {0} /\ MaxRequests \in Nat \ {0}
    /\ MaxMishaps \in Nat

VARIABLES
    list,     \* external: the window at arXiv, in its order; papers are
              \* numbered as they come in
    cache,    \* cache_entries with their papers, by page
    item,     \* queue_items, by page: the row that is pending
    loose,    \* pages fetched by a worker whose row was failed meanwhile
    used,     \* requests_started of the budget of the call
    overdue,  \* the deadline of the call has passed
    gone,     \* the budget of the call has been collected
    pc,       \* where the call is
    plan,     \* what it knows of its first page, and the pages it needs
    todo,     \* pages of the loop it is in
    tally,    \* sums of _finalize_complete_window_target
    job,      \* sync_jobs
    rows,     \* sync_job_pages
    denied,   \* ghost: a page was refused because the budget was spent
    retried,  \* ghost: a request of the budget has failed
    mishaps   \* ghost: mishaps so far

arxiv == <<list, mishaps>>
work == <<cache, item, loose, used, denied, retried>>
limits == <<overdue, gone>>
local == <<pc, plan, todo, tally>>
report == <<job, rows>>
vars == <<list, cache, item, loose, used, overdue, gone, pc, plan, todo, tally, job, rows,
          denied, retried, mishaps>>

Paper == 1 .. MaxPapers
Page == 0 .. MaxPapers

Nothing == [status |-> "none", papers |-> <<>>, total |-> 0]

\* ours: the budget of the call is a member; demand: somebody else wants it;
\* ended: a row has come to its end since the call asked for the page.
NoItem == [status |-> "none", ours |-> FALSE, demand |-> FALSE, ended |-> FALSE]
Ended == [NoItem EXCEPT !.ended = TRUE]

NoTally == [seen |-> {}, sum |-> 0, read |-> 0, count |-> 0]

Init ==
    /\ list \in {[i \in 1 .. n |-> i] : n \in 0 .. MaxPapers}
    /\ cache = [s \in Page |-> Nothing]
    /\ item = [s \in Page |-> NoItem]
    /\ loose = {}
    /\ used = 0
    /\ overdue = FALSE
    /\ gone = FALSE
    /\ pc = "begin"
    /\ plan = [total |-> 0, pages |-> {}, missing |-> {}]
    /\ todo = {}
    /\ tally = NoTally
    /\ job = [status |-> "none", pages |-> 0, completed |-> 0, error |-> "none"]
    /\ rows = [s \in Page |-> "none"]
    /\ denied = FALSE
    /\ retried = FALSE
    /\ mishaps = 0

Mishap == mishaps < MaxMishaps /\ mishaps' = mishaps + 1

Least(S) == CHOOSE s \in S : \A t \in S : s <= t

-----------------------------------------------------------------------------
(* arXiv, and the workers.                                                 *)

\* A paper comes in, anywhere: papers are announced after others that were
\* submitted later.
Grow ==
    /\ Len(list) < MaxPapers
    /\ \E i \in 0 .. Len(list) : list' = InsertAt(list, i + 1, Len(list) + 1)
    /\ Mishap
    /\ UNCHANGED <<work, limits, local, report>>

Slice(s) == SubSeq(list, s + 1, IF s + PageSize < Len(list) THEN s + PageSize ELSE Len(list))

\* The answer to page s as it is now; arXiv may leave entries out at the end.
Serve(s) ==
    \E n \in 0 .. Len(Slice(s)) :
        /\ cache' = [cache EXCEPT ![s] = [status |-> "completed", total |-> Len(list),
                                          papers |-> SubSeq(Slice(s), 1, n)]]
        /\ IF n < Len(Slice(s)) THEN Mishap ELSE UNCHANGED mishaps

Pending(s) == item[s].status # "none"

Joined(s, call) ==
    [status |-> IF Pending(s) THEN item[s].status ELSE "queued",
     ours |-> item[s].ours \/ call,
     demand |-> item[s].demand \/ ~call,
     ended |-> item[s].ended /\ ~call]

\* Another caller asks for a page it does not find.
OthersAsk(s) ==
    /\ cache[s].status # "completed"
    /\ Mishap
    /\ item' = [item EXCEPT ![s] = Joined(s, FALSE)]
    /\ UNCHANGED <<list, cache, loose, used, limits, local, report, denied, retried>>

\* Another caller finds a stale page, and it is fetched again.
OthersRefresh(s) ==
    /\ cache[s].status = "completed"
    /\ cache' = [cache EXCEPT ![s] = [status |-> "completed", total |-> Len(list),
                                      papers |-> Slice(s)]]
    /\ Mishap
    /\ UNCHANGED <<list, item, loose, used, limits, local, report, denied, retried>>

FailedEntry(s) == [cache[s] EXCEPT !.status = IF @ = "completed" THEN @ ELSE "failed"]

\* Mutant: one request more.
SpentLate == used > MaxRequests

Spent == used >= MaxRequests

\* A worker takes the item: it may find the answer in the cache, or the
\* budget of the call out of time or spent, and is charged otherwise.
TakeItem(s) ==
    /\ item[s].status = "queued"
    /\ LET barred == item[s].ours /\ (overdue \/ Spent)
       IN  IF cache[s].status = "completed"
           THEN /\ item' = [item EXCEPT ![s] = Ended]
                /\ UNCHANGED <<cache, used, denied>>
           ELSE IF barred /\ ~item[s].demand
           THEN /\ item' = [item EXCEPT ![s] = Ended]
                /\ cache' = [cache EXCEPT ![s] = FailedEntry(s)]
                /\ denied' = (denied \/ ~overdue)
                /\ UNCHANGED used
           ELSE /\ item' = [item EXCEPT ![s].status = "fetching",
                                        ![s].ours = @ /\ ~barred]
                /\ used' = used + IF item[s].ours /\ ~barred THEN 1 ELSE 0
                /\ UNCHANGED <<cache, denied>>
    /\ UNCHANGED <<list, loose, limits, local, report, retried, mishaps>>

Answer(s) ==
    /\ item[s].status = "fetching"
    /\ Serve(s)
    /\ item' = [item EXCEPT ![s] = Ended]
    /\ UNCHANGED <<list, loose, used, limits, local, report, denied, retried>>

\* The request fails for good, or is put off.
FetchFails(s) ==
    /\ item[s].status = "fetching"
    /\ Mishap
    /\ \/ item' = [item EXCEPT ![s] = Ended]
       \/ item' = [item EXCEPT ![s].status = "delayed"]
    /\ cache' = [cache EXCEPT ![s] = FailedEntry(s)]
    /\ retried' = TRUE
    /\ UNCHANGED <<list, loose, used, limits, local, report, denied>>

RetryDue(s) ==
    /\ item[s].status = "delayed"
    /\ item' = [item EXCEPT ![s].status = "queued"]
    /\ UNCHANGED <<list, cache, loose, used, limits, local, report, denied, retried, mishaps>>

\* The answer for a row that is failed already is stored like any other.
LateAnswer(s) ==
    /\ s \in loose
    /\ loose' = loose \ {s}
    /\ Serve(s)
    /\ UNCHANGED <<list, item, used, limits, local, report, denied, retried>>

-----------------------------------------------------------------------------
(* The call: its first page.                                               *)

Readable(s) == cache[s].status = "completed"

\* Mutant: a window waits for answers only.
TerminalAnswered(s) == Readable(s)

\* _target_terminal: an answer, a row that has ended, or a retry that is not
\* yet due.
Terminal(s) ==
    \/ Readable(s)
    \/ item[s].ended
    \/ item[s].status = "delayed" /\ cache[s].status = "failed"

\* fail_active_upstream_budget_items. An item that is being fetched loses its
\* row, not its worker.
FailActive ==
    LET Alone == {s \in Page : item[s].ours /\ ~item[s].demand}
    IN  /\ item' = [s \in Page |-> IF s \in Alone THEN Ended
                                  ELSE [item[s] EXCEPT !.ours = FALSE]]
        /\ loose' = loose \cup {s \in Alone : item[s].status = "fetching"}

\* The row of a page, as refresh_sync_job_page_from_cache makes it.
RowOf(s) == IF cache[s].status = "none" THEN "missing" ELSE cache[s].status

JobEnds(status, pages, completed, error) ==
    /\ job' = [status |-> status, pages |-> pages, completed |-> completed, error |-> error]
    /\ pc' = "done"
    /\ todo' = {}

\* The initial plan and the budget: is there an answer for the first page?
Begin ==
    /\ pc = "begin"
    /\ pc' = "budgeted"
    /\ todo' = IF Readable(Start) THEN {} ELSE {Start}
    /\ UNCHANGED <<arxiv, work, limits, plan, tally, report>>

\* The job and its first page.
CreateJob ==
    /\ pc = "budgeted"
    /\ pc' = IF todo = {} THEN "drain" ELSE "enqueue"
    /\ todo' = {}
    /\ job' = [job EXCEPT !.status = "running"]
    /\ rows' = [rows EXCEPT ![Start] = IF todo = {} THEN RowOf(Start) ELSE "planned"]
    /\ UNCHANGED <<arxiv, work, limits, plan, tally>>

\* Mutant: a job is no reference.
ReferencedByItems == \E s \in Page : item[s].ours

Referenced == job.status # "none" \/ \E s \in Page : item[s].ours

\* A collection (store gc --apply) deletes budgets that nothing refers to,
\* whatever their age.
Collect ==
    /\ pc # "begin" /\ ~gone /\ ~Referenced
    /\ gone' = TRUE
    /\ UNCHANGED <<arxiv, work, overdue, local, report>>

\* The membership of an item in a budget that is gone violates a foreign key,
\* and nobody handles that: the job stays as it is.
Raise == pc' = "raised" /\ UNCHANGED <<item, loose, todo, job, rows>>

\* The first page is enqueued, unless the time is up already.
EnqueueFirst ==
    /\ pc = "enqueue"
    /\ IF overdue
       THEN /\ FailActive
            /\ JobEnds("partial", 1, 0, "deadline")
            /\ UNCHANGED rows
       ELSE IF gone
       THEN Raise
       ELSE /\ item' = [item EXCEPT ![Start] = Joined(Start, TRUE)]
            /\ rows' = [rows EXCEPT ![Start] = "queued"]
            /\ pc' = "drain"
            /\ UNCHANGED <<loose, job, todo>>
    /\ UNCHANGED <<arxiv, cache, used, denied, retried, limits, plan, tally>>

\* _drain_targets_until_deadline for the first page.
DrainFirst ==
    /\ pc = "drain"
    /\ Terminal(Start) \/ overdue
    /\ IF overdue THEN FailActive ELSE UNCHANGED <<item, loose>>
    /\ IF Terminal(Start)
       THEN pc' = "first" /\ UNCHANGED <<job, todo>>
       ELSE JobEnds("partial", 1, 0, "deadline")
    /\ UNCHANGED <<arxiv, cache, used, denied, retried, limits, plan, tally, rows>>

\* Where the pages start that follow a first page of count papers.
FollowUps(count, total) ==
    {s \in Page : s < total /\ s >= Start + count /\ (s - Start - count) % PageSize = 0}

\* _plan_and_drain_complete_window_target, up to the list of pages.
PlanPages ==
    /\ pc = "first"
    /\ rows' = [rows EXCEPT ![Start] = RowOf(Start)]
    /\ LET count == Len(cache[Start].papers)
           total == cache[Start].total
           pages == FollowUps(count, total)
       IN  IF ~Readable(Start)
           THEN JobEnds("partial", 1, 0, "unread") /\ UNCHANGED plan
           ELSE IF total > Cap
           THEN JobEnds("overflow", 1, 1, "overflow") /\ UNCHANGED plan
           ELSE IF count = 0 /\ Start < total
           THEN JobEnds("partial", 1, 1, "empty_page") /\ UNCHANGED plan
           ELSE IF 1 + Cardinality(pages) > MaxPages
           THEN JobEnds("partial", 1, 1, "page_budget") /\ UNCHANGED plan
           ELSE /\ plan' = [total |-> total, pages |-> pages,
                            missing |-> {s \in pages : ~Readable(s)}]
                /\ pc' = "admit"
                /\ UNCHANGED <<job, todo>>
    /\ UNCHANGED <<arxiv, work, limits, tally>>

-----------------------------------------------------------------------------
(* ... the pages that follow,                                              *)

\* Mutant: what the first page has cost is forgotten.
AdmissibleFresh == Cardinality(plan.missing) <= MaxRequests

\* The reconciliation with get_upstream_request_budget_requests_started.
Admissible == used + Cardinality(plan.missing) <= MaxRequests

\* The budget has to be there still, and the pages that were not in the cache
\* have to fit into it and into the time left.
Admit ==
    /\ pc = "admit"
    /\ \/ /\ gone \/ ~Admissible
          /\ JobEnds("partial", 1, 1, "request_budget")
       \/ /\ ~gone /\ Admissible /\ plan.missing # {}
          /\ JobEnds("partial", 1, 1, "deadline")
       \/ /\ ~gone /\ Admissible /\ (plan.missing # {} => ~overdue)
          /\ pc' = "follow"
          /\ todo' = plan.pages
          /\ UNCHANGED job
    /\ UNCHANGED <<arxiv, work, limits, plan, tally, rows>>

\* Mutant: the rows of pages that were planned stay.
FollowUpDeadlineKeepsRows ==
    /\ FailActive
    /\ UNCHANGED rows
    /\ JobEnds("partial", 1, 1, "deadline")

\* _complete_followup_deadline_budget_failure
FollowUpDeadline ==
    /\ FailActive
    /\ rows' = [s \in Page |-> IF s = Start THEN rows[s] ELSE "none"]
    /\ JobEnds("partial", 1, 1, "deadline")

\* One page after the other: its row,
RecordPage ==
    /\ pc = "follow" /\ todo # {}
    /\ LET s == Least(todo)
       IN  IF s \in plan.missing /\ overdue
           THEN FollowUpDeadline
           ELSE /\ rows' = [rows EXCEPT ![s] = "planned"]
                /\ IF s \in plan.missing
                   THEN pc' = "join" /\ UNCHANGED todo
                   ELSE todo' = todo \ {s} /\ UNCHANGED pc
                /\ UNCHANGED <<item, loose, job>>
    /\ UNCHANGED <<arxiv, cache, used, denied, retried, limits, plan, tally>>

\* its item,
EnqueuePage ==
    /\ pc = "join"
    /\ IF overdue
       THEN FollowUpDeadline
       ELSE /\ item' = [item EXCEPT ![Least(todo)] = Joined(Least(todo), TRUE)]
            /\ pc' = "joined"
            /\ UNCHANGED <<loose, todo, job, rows>>
    /\ UNCHANGED <<arxiv, cache, used, denied, retried, limits, plan, tally>>

\* and the time once more.
PageEnqueued ==
    /\ pc = "joined"
    /\ IF overdue
       THEN FollowUpDeadline
       ELSE /\ todo' = todo \ {Least(todo)}
            /\ pc' = "follow"
            /\ UNCHANGED <<item, loose, job, rows>>
    /\ UNCHANGED <<arxiv, cache, used, denied, retried, limits, plan, tally>>

\* _drain_targets_until_deadline for the others.
DrainPages ==
    /\ pc = "follow" /\ todo = {}
    /\ (\A s \in plan.pages : Terminal(s)) \/ overdue
    /\ IF overdue /\ plan.pages # {} THEN FailActive ELSE UNCHANGED <<item, loose>>
    /\ pc' = "finalize"
    /\ todo' = plan.pages \cup {Start}
    /\ UNCHANGED <<arxiv, cache, used, denied, retried, limits, plan, tally, report>>

-----------------------------------------------------------------------------
(* ... and what is reported of them.                                       *)

\* refresh_sync_job_page_from_cache
RefreshRow ==
    /\ pc = "finalize" /\ todo # {}
    /\ rows' = [rows EXCEPT ![Least(todo)] = RowOf(Least(todo))]
    /\ pc' = "entry"
    /\ UNCHANGED <<arxiv, work, limits, plan, todo, tally, job>>

NextPage ==
    /\ todo' = todo \ {Least(todo)}
    /\ pc' = "finalize"

\* get_readable_completed_cache: first the entry,
ReadEntry ==
    /\ pc = "entry"
    /\ IF Readable(Least(todo))
       THEN /\ tally' = [tally EXCEPT !.count = Len(cache[Least(todo)].papers)]
            /\ pc' = "integrity"
            /\ UNCHANGED todo
       ELSE NextPage /\ UNCHANGED tally
    /\ UNCHANGED <<arxiv, work, limits, plan, report>>

\* and then the matches, which another answer may have replaced.
CheckIntegrity ==
    /\ pc = "integrity"
    /\ IF Len(cache[Least(todo)].papers) = tally.count
       THEN /\ tally' = [tally EXCEPT !.sum = @ + tally.count, !.read = @ + 1]
            /\ pc' = "papers"
            /\ UNCHANGED todo
       ELSE NextPage /\ UNCHANGED tally
    /\ UNCHANGED <<arxiv, work, limits, plan, report>>

\* get_cached_papers
ReadPapers ==
    /\ pc = "papers"
    /\ tally' = [tally EXCEPT !.seen = @ \cup ToSet(cache[Least(todo)].papers)]
    /\ NextPage
    /\ UNCHANGED <<arxiv, work, limits, plan, report>>

\* Mutant: the papers of all pages are added up.
WholeBySum == tally.sum >= plan.total - Start

\* Every page was read, none of their papers came twice, and there are
\* enough of them.
Whole ==
    /\ tally.read = 1 + Cardinality(plan.pages)
    /\ tally.sum = Cardinality(tally.seen)
    /\ Cardinality(tally.seen) >= plan.total - Start

Finalize ==
    /\ pc = "finalize" /\ todo = {}
    /\ JobEnds(IF Whole THEN "completed" ELSE "partial", 1 + Cardinality(plan.pages),
               tally.read, IF Whole THEN "none" ELSE "incomplete")
    /\ UNCHANGED <<arxiv, work, limits, plan, tally, rows>>

DeadlinePasses ==
    /\ pc # "begin" /\ ~overdue
    /\ overdue' = TRUE
    /\ UNCHANGED <<arxiv, work, gone, local, report>>

Call ==
    \/ Begin \/ CreateJob \/ EnqueueFirst \/ DrainFirst \/ PlanPages \/ Admit
    \/ RecordPage \/ EnqueuePage \/ PageEnqueued \/ DrainPages \/ RefreshRow \/ ReadEntry
    \/ CheckIntegrity \/ ReadPapers \/ Finalize

Over == pc \in {"done", "raised"}

\* What happens after the call is not looked at.
Next ==
    \/ Call
    \/ /\ ~Over
       /\ \/ DeadlinePasses \/ Collect \/ Grow
          \/ \E s \in Page :
                \/ OthersAsk(s) \/ OthersRefresh(s) \/ TakeItem(s) \/ Answer(s)
                \/ FetchFails(s) \/ RetryDue(s) \/ LateAnswer(s)

Spec == Init /\ [][Next]_vars

\* The call runs, also as the worker of its own items, and retries come due.
\* Nothing is assumed of the deadline.
FairSpec ==
    /\ Spec
    /\ WF_vars(Call)
    /\ \A s \in Page : WF_vars(TakeItem(s)) /\ WF_vars(Answer(s) \/ FetchFails(s))
                       /\ WF_vars(RetryDue(s))

-----------------------------------------------------------------------------
(* Properties.                                                             *)

TypeOK ==
    /\ ToSet(list) = 1 .. Len(list) /\ Len(list) <= MaxPapers
    /\ \A s \in Page :
          /\ cache[s].status \in {"none", "failed", "completed"}
          /\ ToSet(cache[s].papers) \subseteq Paper /\ cache[s].total \in 0 .. Len(list)
    /\ item \in [Page -> [status : {"none", "queued", "delayed", "fetching"},
                          ours : BOOLEAN, demand : BOOLEAN, ended : BOOLEAN]]
    /\ loose \subseteq Page
    /\ used \in 0 .. MaxRequests
    /\ {overdue, gone, denied, retried} \subseteq BOOLEAN
    /\ pc \in {"begin", "budgeted", "enqueue", "drain", "first", "admit", "follow", "join",
               "joined", "finalize", "entry", "integrity", "papers", "done", "raised"}
    /\ plan.total \in 0 .. Cap
    /\ plan.missing \subseteq plan.pages /\ plan.pages \subseteq Page
    /\ todo \subseteq Page
    /\ tally.seen \subseteq Paper /\ tally.read \in 0 .. MaxPages
    /\ job.status \in {"none", "running", "completed", "partial", "overflow"}
    /\ job.completed <= job.pages
    /\ rows \in [Page -> {"none", "missing", "planned", "queued", "failed", "completed"}]
    /\ mishaps \in 0 .. MaxMishaps

\* "Mark the logical job complete only when all planned pages are readable and
\* contiguous" (docs/design/arxiv-full-sync-proposal.md:208-209). The pages may
\* be of different ages and be replaced while they are read: if the window is
\* what it was when its total was read, a completed job has seen all of it.
CompleteCovers ==
    job.status = "completed" /\ plan.total = Len(list)
        => ToSet(SubSeq(list, Start + 1, Len(list))) \subseteq tally.seen

\* The pages a job reports are the pages it has rows for, by whatever exit it
\* ended.
PagesAccounted ==
    pc = "done" => Cardinality({s \in Page : rows[s] # "none"}) = job.pages

\* A window that was admitted can be paid for: its budget runs out before its
\* pages are fetched only if requests had to be repeated.
AdmittedIsPaid == denied => retried

\* Retention deletes only what no call needs (db.py:2932-2946): once something
\* was asked for on account of the budget, the account stays, also while none of its
\* items is pending, as the requests it has counted decide on the pages to come.
AccountKept == gone => used = 0 /\ \A s \in Page : ~item[s].ours

\* A call ends without its deadline: it waits for nothing that does not come.
CallReturns == pc # "begin" ~> Over
====
