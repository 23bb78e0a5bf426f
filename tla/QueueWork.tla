---- MODULE QueueWork ----
(***************************************************************************)
(* The durable queue and the workers that drain it: HuldraWorker.run_once  *)
(* (src/src/huldra/worker.py) over queue_items, the upstream request       *)
(* budgets and the completed cache (src/src/huldra/db.py), with the        *)
(* enqueues of HuldraBroker.ensure and sync_windows and the reconciliation *)
(* of an expired maintenance budget (src/src/huldra/broker.py).            *)
(*                                                                         *)
(* Each store method is a transaction and so one action.  A worker keeps   *)
(* only the row it claimed, as it was when it claimed it: its request id   *)
(* (job) and its work_kind (snap).  The writes that end a pass             *)
(* (complete_queue_item, release_or_delay_queue_item) name the row and     *)
(* nothing else.                                                           *)
(*                                                                         *)
(* Time is left out: a delayed item may be claimed at once, a deadline     *)
(* passes at any moment, and a claim or lease whose owner is gone runs out *)
(* eventually.  `steady` tells the behaviours in which no live process     *)
(* has been suspended past a TTL it had renewed (UpstreamLimiter shows     *)
(* when that is so).  The limiter is the lease it guards; ID-list          *)
(* reservations are not part of this module.                               *)
(***************************************************************************)
EXTENDS Integers, FiniteSets

CONSTANTS
    Worker,
    Item,        \* request ids, a bounded supply
    Key,         \* cache keys
    Budget,      \* upstream_request_budgets rows, all created
    Timed,       \* those with a deadline (complete_window mode)
    MaxRequests, \* max_requests of every budget
    Nobody,      \* no owner
    Gone,        \* the token of a dead process
    NoItem,      \* a worker between two passes
    NoBudget,    \* an ordinary request
    MaxAttempts, \* bound on the claims of an item
    MaxCrashes   \* bound on the deaths of workers

ASSUME QueueAssumption ==
    /\ Timed \subseteq Budget
    /\ MaxRequests \in Nat \ {0}
    /\ NoBudget \notin Budget
    /\ NoItem \notin Item
    /\ Key # {}
    /\ Nobody \notin Worker /\ Gone \notin Worker /\ Nobody # Gone
    /\ MaxAttempts \in Nat /\ MaxCrashes \in Nat

VARIABLES
    row,      \* queue_items
    first,    \* first_attempt_number of each membership; 0: no membership
    charged,  \* last_charged_attempt of each membership
    started,  \* requests_started of each budget
    overdue,  \* the budgets whose deadline has passed
    cache,    \* status of each cache entry
    upstream, \* owner of the lease `upstream_fetch`
    pc, job, snap, round, \* the workers
    sent,     \* ghost: requests put on the wire while the budget was active
    steady,   \* ghost: no live process has lost a lease or a fenced claim
    crashes   \* ghost: deaths so far

queue == <<row, first, charged>>
budgets == <<started, overdue>>
workers == <<pc, job, snap, round>>
ghost == <<sent, steady, crashes>>
vars == <<queue, budgets, cache, upstream, workers, ghost>>

Statuses == {"absent", "queued", "delayed", "claimed", "completed", "failed"}

PC == {"idle", "claimed", "hit", "asking", "fence", "recheck", "refence",
       "reserve", "deadline", "ready", "go", "inflight", "stored", "closing",
       "delaying", "rejecting", "spending"}

Absent ==
    [status |-> "absent", key |-> CHOOSE k \in Key : TRUE, kind |-> "missing",
     by |-> Nobody, demand |-> FALSE, attempts |-> 0, gate |-> FALSE]

Init ==
    /\ row = [r \in Item |-> Absent]
    /\ first = [r \in Item |-> [b \in Budget |-> 0]]
    /\ charged = [r \in Item |-> [b \in Budget |-> 0]]
    /\ started = [b \in Budget |-> 0]
    /\ overdue = {}
    /\ cache = [k \in Key |-> "none"]
    /\ upstream = Nobody
    /\ pc = [w \in Worker |-> "idle"]
    /\ job = [w \in Worker |-> NoItem]
    /\ snap = [w \in Worker |-> "missing"]
    /\ round = [w \in Worker |-> 0]
    /\ sent = [b \in Budget |-> 0]
    /\ steady = TRUE
    /\ crashes = 0

-----------------------------------------------------------------------------
(* The queue rows and their budgets.                                       *)

Pending(r) == row[r].status \in {"queued", "delayed", "claimed"}

Members(r) == {b \in Budget : first[r][b] > 0}

\* The parts of _queue_item_upstream_budget_attempt_state_conn.
Active(r) == {b \in Members(r) : first[r][b] <= row[r].attempts}

\* Mutant: a budget pays for the first attempt it wants and for no retry.
UnchargedEver(r) == {b \in Active(r) : charged[r][b] = 0}

Uncharged(r) == {b \in Active(r) : charged[r][b] < row[r].attempts}
Future(r) == Members(r) \ Active(r)

\* Mutant: one request too many.
ExhaustedLate(b) == started[b] > MaxRequests

Exhausted(b) == started[b] >= MaxRequests

\* _detach_queue_budget_memberships_conn
Detach(r, gone) ==
    /\ first' = [first EXCEPT ![r] = [b \in Budget |-> IF b \in gone THEN 0 ELSE @[b]]]
    /\ charged' = [charged EXCEPT ![r] = [b \in Budget |-> IF b \in gone THEN 0 ELSE @[b]]]

\* Mutant: the running attempt is joined although its budgets were charged.
JoinAttemptLate(r) == IF row[r].attempts < 1 THEN 1 ELSE row[r].attempts

\* The attempt a joining budget pays for first: the running one unless its
\* budgets have already been charged.
JoinAttempt(r) ==
    LET joinsCurrent == row[r].status = "claimed" /\ ~row[r].gate
        attempt == IF joinsCurrent THEN row[r].attempts ELSE row[r].attempts + 1
    IN  IF attempt < 1 THEN 1 ELSE attempt

\* _enqueue_request_for_work_conn on the pending row of the key: a refresh
\* promotes it, an ordinary request adds unbudgeted demand, a budget joins.
Join(r, kind, b) ==
    /\ row' = [row EXCEPT ![r].kind = IF kind = "refresh" THEN "refresh" ELSE @,
                          ![r].demand = @ \/ b = NoBudget]
    /\ first' = IF b \in Budget /\ first[r][b] = 0
                THEN [first EXCEPT ![r][b] = JoinAttempt(r)]
                ELSE first
    /\ UNCHANGED charged

\* ... and without one: a new row.
Insert(r, key, kind, b) ==
    /\ row[r].status = "absent"
    /\ row' = [row EXCEPT ![r] = [Absent EXCEPT !.status = "queued", !.key = key,
                                    !.kind = kind, !.demand = (b = NoBudget)]]
    /\ first' = IF b \in Budget THEN [first EXCEPT ![r][b] = 1] ELSE first
    /\ UNCHANGED charged

EnqueueForWork(key, kind, b) ==
    LET pending == {r \in Item : Pending(r) /\ row[r].key = key}
    IN  IF pending # {}
        THEN \E r \in pending : Join(r, kind, b)
        ELSE \E r \in Item : Insert(r, key, kind, b)

-----------------------------------------------------------------------------
(* Clients.                                                                *)

\* ensure, after a cache miss it may have seen any time ago, and
\* sync_windows, which enqueues only before its deadline.
Enqueue(key, b) ==
    /\ b \notin overdue
    /\ EnqueueForWork(key, "missing", b)
    /\ UNCHANGED <<budgets, cache, upstream, workers, ghost>>

\* enqueue_refresh_if_due: ensure with stale_while_revalidate, having read a
\* completed cache entry. Whether a new refresh is due is left open.
EnqueueRefresh(key) ==
    /\ cache[key] = "completed"
    /\ EnqueueForWork(key, "refresh", NoBudget)
    /\ UNCHANGED <<budgets, cache, upstream, workers, ghost>>

DeadlinePasses(b) ==
    /\ b \in Timed \ overdue
    /\ overdue' = overdue \cup {b}
    /\ UNCHANGED <<queue, started, cache, upstream, workers, ghost>>

\* fail_active_upstream_budget_items, when the maintenance call of b runs
\* out of time: what only b wanted fails, also under a worker's hands.
FailActive(b) ==
    /\ b \in overdue
    /\ LET affected == {r \in Item : Pending(r) /\ b \in Members(r)}
           unwanted == {r \in affected : ~row[r].demand /\ Members(r) = {b}}
       IN  /\ affected # {}
           /\ row' = [r \in Item |->
                        IF r \in unwanted
                        THEN [row[r] EXCEPT !.status = "failed", !.by = Nobody,
                                            !.gate = FALSE]
                        ELSE row[r]]
           /\ first' = [r \in Item |->
                          IF r \in affected THEN [first[r] EXCEPT ![b] = 0] ELSE first[r]]
           /\ charged' = [r \in Item |->
                            IF r \in affected THEN [charged[r] EXCEPT ![b] = 0] ELSE charged[r]]
    /\ UNCHANGED <<budgets, cache, upstream, workers, ghost>>

-----------------------------------------------------------------------------
(* A worker's pass.                                                        *)

Goto(w, label) ==
    /\ pc' = [pc EXCEPT ![w] = label]
    /\ UNCHANGED <<job, snap, round>>

\* run_once returns.
Return(w) ==
    /\ pc' = [pc EXCEPT ![w] = "idle"]
    /\ job' = [job EXCEPT ![w] = NoItem]
    /\ snap' = [snap EXCEPT ![w] = "missing"]
    /\ round' = [round EXCEPT ![w] = 0]

\* A claim may run out under a live worker while it sleeps, before its first
\* fence; elsewhere only if the worker is suspended past a TTL.
Asleep(w) == pc[w] = "fence" /\ round[w] = 0

Attended(r) == \E w \in Worker : row[r].by = w /\ job[w] = r /\ ~Asleep(w)

\* Mutant: an item left claimed is never claimed again.
ClaimUnclaimed(w, r) ==
    /\ pc[w] = "idle"
    /\ row[r].attempts < MaxAttempts
    /\ row[r].status \in {"queued", "delayed"}
    /\ row' = [row EXCEPT ![r].status = "claimed", ![r].by = w,
                          ![r].attempts = @ + 1, ![r].gate = FALSE]
    /\ pc' = [pc EXCEPT ![w] = "claimed"]
    /\ job' = [job EXCEPT ![w] = r]
    /\ snap' = [snap EXCEPT ![w] = row[r].kind]
    /\ UNCHANGED <<first, charged, budgets, cache, upstream, round, ghost>>

\* claim_next_queue_item. Which items a worker sees depends on its targets.
Claim(w, r) ==
    /\ pc[w] = "idle"
    /\ row[r].attempts < MaxAttempts
    /\ \/ row[r].status \in {"queued", "delayed"} /\ UNCHANGED steady
       \/ row[r].status = "claimed" /\ ~Attended(r) /\ UNCHANGED steady
       \/ row[r].status = "claimed" /\ Attended(r) /\ steady /\ steady' = FALSE
    /\ row' = [row EXCEPT ![r].status = "claimed", ![r].by = w,
                          ![r].attempts = @ + 1, ![r].gate = FALSE]
    /\ pc' = [pc EXCEPT ![w] = "claimed"]
    /\ job' = [job EXCEPT ![w] = r]
    /\ snap' = [snap EXCEPT ![w] = row[r].kind]
    /\ UNCHANGED <<first, charged, budgets, cache, upstream, round, sent, crashes>>

\* The cache answers the request the worker thinks it is working on.
CacheAnswers(w) == cache[row[job[w]].key] = "completed" /\ snap[w] = "missing"

CheckCache(w) ==
    /\ pc[w] = "claimed"
    /\ Goto(w, IF CacheAnswers(w) THEN "hit" ELSE "asking")
    /\ UNCHANGED <<queue, budgets, cache, upstream, ghost>>

\* complete_queue_item
Completed(r) == [row[r] EXCEPT !.status = "completed", !.by = Nobody]

CompleteHit(w) ==
    /\ pc[w] = "hit"
    /\ row' = [row EXCEPT ![job[w]] = Completed(job[w])]
    /\ Return(w)
    /\ UNCHANGED <<first, charged, budgets, cache, upstream, ghost>>

\* before_request and the sleep after it; a lease held elsewhere or a
\* cooldown sends the item back.
Ask(w) ==
    /\ pc[w] = "asking"
    /\ \/ /\ upstream = Nobody
          /\ upstream' = w
          /\ pc' = [pc EXCEPT ![w] = "fence"]
       \/ /\ UNCHANGED upstream
          /\ pc' = [pc EXCEPT ![w] = "delaying"]
    /\ UNCHANGED <<queue, budgets, cache, job, snap, round, ghost>>

Freed(w) == IF upstream = w THEN Nobody ELSE upstream

\* Mutant: the fence looks at the lease alone.
OwnsLease(w) == upstream = w

Owns(w) == upstream = w /\ row[job[w]].status = "claimed" /\ row[job[w]].by = w

\* renew_worker_fetch_ownership, at both ends of _gate_fetch_ownership; the
\* gate is passed twice.
Fence(w) ==
    /\ pc[w] \in {"fence", "refence"}
    /\ Owns(w)
    /\ IF pc[w] = "fence"
       THEN /\ pc' = [pc EXCEPT ![w] = "recheck"]
            /\ round' = [round EXCEPT ![w] = IF @ = 0 THEN 1 ELSE @]
       ELSE /\ pc' = [pc EXCEPT ![w] = IF round[w] = 1 THEN "reserve" ELSE "deadline"]
            /\ UNCHANGED round
    /\ UNCHANGED <<queue, budgets, cache, upstream, job, snap, ghost>>

\* lost_lease or lost_claim: the queue row is left as it is.
FenceLost(w) ==
    /\ pc[w] \in {"fence", "refence"}
    /\ ~Owns(w)
    /\ upstream' = Freed(w)
    /\ Return(w)
    /\ UNCHANGED <<queue, budgets, cache, ghost>>

\* Mutant: the cache is not read again once the lease is won.
RecheckBlind(w) ==
    /\ pc[w] = "recheck"
    /\ Goto(w, "refence")
    /\ UNCHANGED <<queue, budgets, cache, upstream, ghost>>

Recheck(w) ==
    /\ pc[w] = "recheck"
    /\ IF CacheAnswers(w)
       THEN upstream' = Freed(w) /\ Goto(w, "hit")
       ELSE UNCHANGED upstream /\ Goto(w, "refence")
    /\ UNCHANGED <<queue, budgets, cache, ghost>>

\* What a budget check finds once the invalid budgets are detached.
Outlook(r, invalid) ==
    CASE row[r].demand \/ Active(r) \ invalid # {} -> "viable"
      [] ~row[r].demand /\ Active(r) \ invalid = {} /\ Future(r) \ invalid # {} -> "deferred"
      [] OTHER -> "spent"

\* _defer_budgeted_item and _fail_budgeted_item up to their last write.
GiveUp(w, outlook) ==
    /\ upstream' = Freed(w)
    /\ IF outlook = "deferred"
       THEN Goto(w, "delaying") /\ UNCHANGED cache
       ELSE /\ Goto(w, "spending")
            /\ cache' = [cache EXCEPT ![row[job[w]].key] =
                            IF @ = "completed" THEN @ ELSE "failed"]

\* reserve_queue_item_upstream_request: drop the invalid budgets, charge
\* those that have not paid for this attempt and close the gate.
Reserve(w) ==
    /\ pc[w] = "reserve"
    /\ LET r == job[w]
           invalid == (Members(r) \cap overdue)
                        \cup {b \in Uncharged(r) \cup Future(r) : Exhausted(b)}
           paying == Uncharged(r) \ invalid
           outlook == Outlook(r, invalid)
       IN  /\ first' = [first EXCEPT ![r] = [b \in Budget |-> IF b \in invalid THEN 0 ELSE @[b]]]
           /\ IF outlook = "viable"
              THEN /\ charged' = [charged EXCEPT ![r] =
                                    [b \in Budget |-> IF b \in paying THEN row[r].attempts
                                                      ELSE IF b \in invalid THEN 0 ELSE @[b]]]
                   /\ started' = [b \in Budget |-> started[b] + IF b \in paying THEN 1 ELSE 0]
                   /\ row' = [row EXCEPT ![r].gate = @ \/ row[r].status = "claimed"]
                   /\ Goto(w, "deadline")
                   /\ UNCHANGED <<cache, upstream>>
              ELSE /\ charged' = [charged EXCEPT ![r] =
                                    [b \in Budget |-> IF b \in invalid THEN 0 ELSE @[b]]]
                   /\ GiveUp(w, outlook)
                   /\ UNCHANGED <<started, row>>
    /\ UNCHANGED <<overdue, ghost>>

\* check_queue_item_upstream_request_deadlines, after the reservation, after
\* the second gate, and once more if the deadlines have passed since.
CheckDeadlines(w) ==
    /\ pc[w] = "deadline"
    /\ LET r == job[w]
           invalid == Members(r) \cap overdue
           outlook == Outlook(r, invalid)
       IN  /\ Detach(r, invalid)
           /\ IF outlook = "viable"
              THEN /\ pc' = [pc EXCEPT ![w] = CASE round[w] = 1 -> "fence"
                                                [] round[w] = 2 -> "ready"
                                                [] round[w] = 3 -> "go"]
                   /\ round' = [round EXCEPT ![w] = IF @ = 1 THEN 2 ELSE @]
                   /\ UNCHANGED <<job, snap, cache, upstream>>
              ELSE GiveUp(w, outlook)
    /\ UNCHANGED <<row, budgets, ghost>>

\* queue_item_upstream_deadline: nothing is left of the time of the budgets
\* that want this request.
ReadDeadline(w) ==
    /\ pc[w] = "ready"
    /\ LET r == job[w]
       IN  IF ~row[r].demand /\ Active(r) # {} /\ Active(r) \subseteq overdue
           THEN /\ pc' = [pc EXCEPT ![w] = "deadline"]
                /\ round' = [round EXCEPT ![w] = 3]
           ELSE /\ pc' = [pc EXCEPT ![w] = "go"]
                /\ UNCHANGED round
    /\ UNCHANGED <<queue, budgets, cache, upstream, job, snap, ghost>>

StartFetch(w) ==
    /\ pc[w] = "go"
    /\ Goto(w, "inflight")
    /\ sent' = [b \in Budget |-> sent[b] + IF b \in Active(job[w]) THEN 1 ELSE 0]
    /\ UNCHANGED <<queue, budgets, cache, upstream, steady, crashes>>

\* record_completed_cache_entry, then after_success, then complete_queue_item.
Store(w) ==
    /\ pc[w] = "inflight"
    /\ cache' = [cache EXCEPT ![row[job[w]].key] = "completed"]
    /\ Goto(w, "stored")
    /\ UNCHANGED <<queue, budgets, upstream, ghost>>

AfterSuccess(w) ==
    /\ pc[w] = "stored"
    /\ upstream' = Freed(w)
    /\ Goto(w, "closing")
    /\ UNCHANGED <<queue, budgets, cache, ghost>>

Complete(w) ==
    /\ pc[w] = "closing"
    /\ row' = [row EXCEPT ![job[w]] = Completed(job[w])]
    /\ Return(w)
    /\ UNCHANGED <<first, charged, budgets, cache, upstream, ghost>>

\* A rate limit or a transient error (to be retried) or a refusal: after_*
\* frees the lease and record_cache_failure spares a completed entry.
FetchFails(w) ==
    /\ pc[w] = "inflight"
    /\ upstream' = Freed(w)
    /\ cache' = [cache EXCEPT ![row[job[w]].key] = IF @ = "completed" THEN @ ELSE "failed"]
    /\ \/ Goto(w, "delaying")
       \/ Goto(w, "rejecting")
    /\ UNCHANGED <<queue, budgets, ghost>>

\* An exception of another kind: after_failure frees the lease, the exception
\* goes on, and the row stays claimed.
FetchRaises(w) ==
    /\ pc[w] = "inflight"
    /\ upstream' = Freed(w)
    /\ Return(w)
    /\ UNCHANGED <<queue, budgets, cache, ghost>>

\* The unique index idx_queue_pending_cache_key forbids the write.
Conflict(r) ==
    /\ ~Pending(r)
    /\ \E q \in Item \ {r} : Pending(q) /\ row[q].key = row[r].key

\* release_or_delay_queue_item: whatever has become of the row. If the
\* index objects, the exception ends the worker and its row stays.
Delay(w) ==
    /\ pc[w] = "delaying"
    /\ row' = IF Conflict(job[w]) THEN row
              ELSE [row EXCEPT ![job[w]] = [@ EXCEPT !.status = "delayed", !.by = Nobody,
                                                     !.gate = FALSE]]
    /\ Return(w)
    /\ UNCHANGED <<first, charged, budgets, cache, upstream, ghost>>

Fail(w) ==
    /\ pc[w] \in {"rejecting", "spending"}
    /\ row' = [row EXCEPT ![job[w]] = [@ EXCEPT !.status = "failed", !.by = Nobody,
                                                !.gate = FALSE]]
    /\ Return(w)
    /\ UNCHANGED <<first, charged, budgets, cache, upstream, ghost>>

-----------------------------------------------------------------------------
(* Failures.                                                               *)

\* A worker dies, or a store call raises: its claim and its
\* lease stay behind. The next one has a new token.
Crash(w) ==
    /\ pc[w] # "idle"
    /\ crashes < MaxCrashes
    /\ crashes' = crashes + 1
    /\ upstream' = IF upstream = w THEN Gone ELSE upstream
    /\ Return(w)
    /\ UNCHANGED <<queue, budgets, cache, sent, steady>>

LeaseExpires ==
    /\ upstream = Gone
    /\ upstream' = Nobody
    /\ UNCHANGED <<queue, budgets, cache, workers, ghost>>

\* The lease of a live worker runs out: it was suspended past the TTL.
LeaseLapses ==
    /\ upstream \in Worker
    /\ steady
    /\ steady' = FALSE
    /\ upstream' = Nobody
    /\ UNCHANGED <<queue, budgets, cache, workers, sent, crashes>>

-----------------------------------------------------------------------------

Pass(w) ==
    \/ CheckCache(w) \/ CompleteHit(w) \/ Ask(w)
    \/ Fence(w) \/ FenceLost(w) \/ Recheck(w)
    \/ Reserve(w) \/ CheckDeadlines(w) \/ ReadDeadline(w)
    \/ StartFetch(w) \/ Store(w) \/ AfterSuccess(w) \/ Complete(w)
    \/ FetchFails(w) \/ FetchRaises(w) \/ Delay(w) \/ Fail(w)

Client ==
    \/ \E k \in Key, b \in Budget \cup {NoBudget} : Enqueue(k, b)
    \/ \E k \in Key : EnqueueRefresh(k)
    \/ \E b \in Budget : DeadlinePasses(b) \/ FailActive(b)

Next ==
    \/ Client
    \/ \E w \in Worker : Pass(w) \/ Crash(w) \/ \E r \in Item : Claim(w, r)
    \/ LeaseExpires
    \/ LeaseLapses

Spec == Init /\ [][Next]_vars

\* Workers run, look for work, and see claims and leases expire.
Fairness ==
    /\ \A w \in Worker : WF_vars(Pass(w))
    /\ \A r \in Item : WF_vars(\E w \in Worker : Claim(w, r))
    /\ WF_vars(LeaseExpires)

FairSpec == Spec /\ Fairness

-----------------------------------------------------------------------------
(* Properties.                                                             *)

TypeOK ==
    /\ row \in [Item -> [status : Statuses, key : Key, kind : {"missing", "refresh"},
                         by : Worker \cup {Nobody}, demand : BOOLEAN,
                         attempts : 0 .. MaxAttempts, gate : BOOLEAN]]
    /\ first \in [Item -> [Budget -> 0 .. MaxAttempts + 1]]
    /\ charged \in [Item -> [Budget -> 0 .. MaxAttempts]]
    /\ started \in [Budget -> 0 .. MaxRequests]
    /\ overdue \subseteq Timed
    /\ cache \in [Key -> {"none", "failed", "completed"}]
    /\ upstream \in Worker \cup {Nobody, Gone}
    /\ pc \in [Worker -> PC]
    /\ job \in [Worker -> Item \cup {NoItem}]
    /\ \A w \in Worker : (job[w] = NoItem) <=> (pc[w] = "idle")
    /\ snap \in [Worker -> {"missing", "refresh"}]
    /\ round \in [Worker -> 0 .. 3]
    /\ sent \in [Budget -> Nat]
    /\ steady \in BOOLEAN
    /\ crashes \in 0 .. MaxCrashes

\* Every request on the wire has been charged to every budget that wants it,
\* retries after a crash included, however late the budget joined: so no
\* maintenance call sees more than max_requests requests made for it.
PaidBeforeSent ==
    steady => \A b \in Budget : sent[b] <= started[b]

\* One worker fetches at a time, and unless the maintenance call behind its
\* item has given up the item is claimed, by that worker.
FetchOwnsClaim ==
    steady => \A w \in Worker : pc[w] \in {"inflight", "stored"} =>
                  /\ upstream = w
                  /\ \/ row[job[w]].status = "claimed" /\ row[job[w]].by = w
                     \/ row[job[w]].status = "failed"

\* What is in the cache is not fetched again, unless as a refresh: however
\* the same request came to be queued twice, the second worker sees the
\* first one's answer.
NoRefetch ==
    [][\A w \in Worker :
          steady /\ pc[w] = "go" /\ pc'[w] = "inflight" /\ snap[w] = "missing"
              => cache[row[job[w]].key] # "completed"]_vars

\* No item is forgotten: it reaches a terminal status or its next attempt
\* (the attempts of a behaviour are bounded), also when its worker dies,
\* loses its lease or leaves it claimed.
EveryItemSettles ==
    \A r \in Item : Pending(r) ~> (~Pending(r) \/ row[r].attempts = MaxAttempts)

\* "The worker's completed-cache shortcut applies only to fetch_missing
\* items": the row, not what the worker remembers of it.
ShortcutOnlyForMissing ==
    [][\A w \in Worker :
          steady /\ pc[w] = "hit" /\ pc'[w] = "idle" /\ row' # row
              => row[job[w]].kind = "missing"]_vars

\* A spent budget does not cancel the demand of others for the same item.
DemandNotCancelled ==
    [][\A w \in Worker :
          steady /\ pc[w] = "spending" /\ pc'[w] = "idle" /\ row' # row
              => ~row[job[w]].demand]_vars
====
