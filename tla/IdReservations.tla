---- MODULE IdReservations ----
(***************************************************************************)
(* Requests for lists of IDs: _plan_id_list_fetch, _gate_fetch_ownership,  *)
(* _revalidate_id_list_fetch_plan and the exits of run_once (src/src/      *)
(* huldra/worker.py) over id_fetch_reservations (src/src/huldra/db.py).    *)
(* A worker fetches the IDs of an item that are not in the paper store, if *)
(* it can reserve them all; otherwise the item waits.                      *)
(*                                                                         *)
(* One transaction is one action.  A worker keeps a plan between them.     *)
(* Leases run out when their owner is dead; claims and reservations also   *)
(* while a worker sleeps before its first fence, a wait that their TTL     *)
(* does not count.  The limiter is its lease; budgets may deny a request;  *)
(* QueueWork has both in full, with the joins of items.                    *)
(***************************************************************************)
EXTENDS Integers, FiniteSets

CONSTANTS
    Worker,
    Id,         \* normalized arXiv IDs, each naming one paper
    Item,       \* queue items, pure ID lists, each of its own cache key
    Wants,      \* the IDs of each item
    Elsewhere,  \* IDs whose paper others may store
    None,       \* no owner, no item
    Gone,       \* owner of what a dead worker left
    MaxMishaps  \* bound on crashes, lapses and refused requests together

ASSUME ReservationAssumption ==
    /\ None \notin Worker \cup Item /\ Gone \notin Worker /\ None # Gone
    /\ Wants \in [Item -> (SUBSET Id) \ {{}}]
    /\ Elsewhere \subseteq Id
    /\ MaxMishaps \in Nat

VARIABLES
    papers,   \* the IDs whose paper is stored
    res,      \* id_fetch_reservations; a live row has not expired
    lease,    \* owner of `upstream_fetch`
    row,      \* queue_items: status and claim
    cached,   \* the items with a completed cache entry
    pc,       \* where each worker is in run_once
    job,      \* the item it claimed
    plan,     \* its _IdListFetchPlan and what the pass will end with
    answered, \* ghost: IDs that an ID-list fetch has brought and stored
    mishaps   \* ghost: mishaps so far

queue == <<row, cached>>
store == <<papers, answered>>
local == <<pc, job, plan>>
vars == <<papers, res, lease, row, cached, pc, job, plan, answered, mishaps>>

\* "waiting" is delayed with the category id_fetch_reserved.
Active == {"queued", "delayed", "waiting", "claimed"}

Unreserved == [owner |-> None, live |-> FALSE]
Reserved(w) == [owner |-> w, live |-> TRUE]

\* ids: reserved_ids; known: papers_by_id; then: how the pass ends.
NoPlan == [ids |-> {}, known |-> {}, then |-> "nothing", round |-> 1]

Init ==
    /\ papers = {}
    /\ res = [id \in Id |-> Unreserved]
    /\ lease = None
    /\ row = [i \in Item |-> [status |-> "queued", by |-> None, live |-> FALSE]]
    /\ cached = {}
    /\ pc = [w \in Worker |-> "idle"]
    /\ job = [w \in Worker |-> None]
    /\ plan = [w \in Worker |-> NoPlan]
    /\ answered = {}
    /\ mishaps = 0

Mishap == mishaps < MaxMishaps /\ mishaps' = mishaps + 1

Goto(w, label, p) ==
    /\ pc' = [pc EXCEPT ![w] = label]
    /\ plan' = [plan EXCEPT ![w] = p]
    /\ UNCHANGED job

\* The ways out: release the lease first, or end at once.
Drop(w, then) == Goto(w, "dropping", [plan[w] EXCEPT !.then = then])
Finish(w, then) == Goto(w, "ending", [plan[w] EXCEPT !.then = then])

-----------------------------------------------------------------------------
(* The reservations.                                                       *)

\* Mutant: a row stays until its owner releases it.
ReclaimedNever == res

\* The rows that are left when the expired ones are deleted.
Reclaimed == [id \in Id |-> IF res[id].live THEN res[id] ELSE Unreserved]

\* Reservations of others, once the expired ones are deleted.
Blockers(w, ids) == {id \in ids : Reclaimed[id].owner \notin {None, w}}

\* acquire_id_fetch_reservations deletes every expired row, and then takes
\* all of ids or none.
Acquired(w, ids) ==
    [id \in Id |-> IF id \in ids /\ Blockers(w, ids) = {} THEN Reserved(w) ELSE Reclaimed[id]]

\* Mutant: only a row of somebody else is noticed, not a missing one.
OwnsAllPresent(w, ids) == \A id \in ids : res[id].owner \in {w, None}

\* The check of renew_id_fetch_reservations and of the fence: every row is
\* there and ours. It does not look at the expiry.
OwnsAll(w, ids) == \A id \in ids : res[id].owner = w

Renewed(w, ids) ==
    [id \in Id |-> IF id \in ids /\ res[id].owner = w THEN Reserved(w) ELSE res[id]]

\* release_id_fetch_reservations, with the waiters it wakes.
ReleaseIds(w, ids) ==
    LET mine == {id \in ids : res[id].owner = w}
    IN  /\ res' = [id \in Id |-> IF id \in mine THEN Unreserved ELSE res[id]]
        /\ row' = [i \in Item |->
                     IF mine # {} /\ row[i].status = "waiting" /\ Wants[i] \cap ids # {}
                     THEN [status |-> "queued", by |-> None, live |-> FALSE]
                     ELSE row[i]]

-----------------------------------------------------------------------------
(* The plan.                                                               *)

\* claim_next_queue_item. A delayed item may have become due.
Claim(w, i) ==
    /\ pc[w] = "idle"
    /\ \/ row[i].status \in {"queued", "delayed", "waiting"}
       \/ row[i].status = "claimed" /\ ~row[i].live
    /\ row' = [row EXCEPT ![i] = [status |-> "claimed", by |-> w, live |-> TRUE]]
    /\ pc' = [pc EXCEPT ![w] = "checking"]
    /\ job' = [job EXCEPT ![w] = i]
    /\ UNCHANGED <<store, res, lease, cached, plan, mishaps>>

\* get_readable_completed_cache
CheckCache(w) ==
    /\ pc[w] = "checking"
    /\ IF job[w] \in cached THEN Finish(w, "completed") ELSE Goto(w, "planning", plan[w])
    /\ UNCHANGED <<store, res, lease, queue, mishaps>>

\* get_papers_by_ids: what is stored now.
Plan(w) ==
    /\ pc[w] = "planning"
    /\ LET known == Wants[job[w]] \cap papers
       IN  Goto(w, IF known = Wants[job[w]] THEN "composing" ELSE "reserving",
                   [plan[w] EXCEPT !.known = known])
    /\ UNCHANGED <<store, res, lease, queue, mishaps>>

\* Mutant: what is free is reserved, though the pass ends blocked.
ReservePartly(w) ==
    /\ pc[w] = "reserving"
    /\ LET missing == Wants[job[w]] \ plan[w].known
           taken == missing \ Blockers(w, missing)
       IN  /\ res' = Acquired(w, taken)
           /\ IF taken = missing
              THEN Goto(w, "asking", [plan[w] EXCEPT !.ids = missing])
              ELSE Finish(w, "waiting")
    /\ UNCHANGED <<store, lease, queue, mishaps>>

\* acquire_id_fetch_reservations for what was missing in that snapshot.
Reserve(w) ==
    /\ pc[w] = "reserving"
    /\ LET missing == Wants[job[w]] \ plan[w].known
       IN  /\ res' = Acquired(w, missing)
           /\ IF Blockers(w, missing) = {}
              THEN Goto(w, "asking", [plan[w] EXCEPT !.ids = missing])
              ELSE Finish(w, "waiting")
    /\ UNCHANGED <<store, lease, queue, mishaps>>

\* limiter.before_request: the lease, or a refusal (in a cooldown).
Ask(w) ==
    /\ pc[w] = "asking"
    /\ \/ /\ lease \in {None, w}
          /\ lease' = w
          /\ Goto(w, "sleeping", plan[w])
          /\ UNCHANGED mishaps
       \/ /\ lease \notin {None, w}
          /\ Finish(w, "delayed")
          /\ UNCHANGED <<lease, mishaps>>
       \/ /\ lease \in {None, w}
          /\ lease' = None
          /\ Mishap
          /\ Finish(w, "delayed")
    /\ UNCHANGED <<store, res, queue>>

Awake(w) ==
    /\ pc[w] = "sleeping"
    /\ Goto(w, "fencing", plan[w])
    /\ UNCHANGED <<store, res, lease, queue, mishaps>>

-----------------------------------------------------------------------------
(* The gate, passed before and after the budgets are charged.              *)

\* renew_worker_fetch_ownership at the beginning and the end of a gate.
Fence(w) ==
    /\ pc[w] \in {"fencing", "confirming"}
    /\ LET i == job[w]
           claimed == row[i].status = "claimed" /\ row[i].by = w
           ids == plan[w].ids
       IN  \/ /\ lease = w /\ claimed /\ OwnsAll(w, ids)
              /\ row' = [row EXCEPT ![i].live = TRUE]
              /\ res' = Renewed(w, ids)
              /\ Goto(w, IF pc[w] = "fencing" THEN "rechecking" ELSE "passed", plan[w])
           \/ /\ ~(lease = w /\ claimed)
              /\ Drop(w, "nothing")
              /\ UNCHANGED <<row, res>>
           \/ /\ lease = w /\ claimed /\ ~OwnsAll(w, ids)
              /\ Drop(w, "waiting")
              /\ UNCHANGED <<row, res>>
    /\ UNCHANGED <<store, lease, cached, mishaps>>

Recheck(w) ==
    /\ pc[w] = "rechecking"
    /\ IF job[w] \in cached THEN Drop(w, "completed") ELSE Goto(w, "revalidating", plan[w])
    /\ UNCHANGED <<store, res, lease, queue, mishaps>>

\* Mutant: what the plan knows of the paper store is taken to be current.
RevalidateStale(w) ==
    /\ pc[w] = "revalidating"
    /\ Goto(w, "trimming", plan[w])
    /\ UNCHANGED <<store, res, lease, queue, mishaps>>

\* _revalidate_id_list_fetch_plan: get_papers_by_ids again.
Revalidate(w) ==
    /\ pc[w] = "revalidating"
    /\ Goto(w, "trimming", [plan[w] EXCEPT !.known = Wants[job[w]] \cap papers])
    /\ UNCHANGED <<store, res, lease, queue, mishaps>>

\* ... and give back the reservations of what has been stored.
Trim(w) ==
    /\ pc[w] = "trimming"
    /\ LET missing == Wants[job[w]] \ plan[w].known
           p == [plan[w] EXCEPT !.ids = @ \cap missing]
       IN  /\ ReleaseIds(w, plan[w].ids \ missing)
           /\ IF missing = {} THEN Goto(w, "dropping", [p EXCEPT !.then = "composed"])
              ELSE IF p.ids = missing THEN Goto(w, "renewing", p)
              ELSE Goto(w, "dropping", [p EXCEPT !.then = "waiting"])
    /\ UNCHANGED <<store, lease, cached, mishaps>>

\* ... and renew the others.
Renew(w) ==
    /\ pc[w] = "renewing"
    /\ IF OwnsAll(w, plan[w].ids)
       THEN res' = Renewed(w, plan[w].ids) /\ Goto(w, "confirming", plan[w])
       ELSE UNCHANGED res /\ Drop(w, "waiting")
    /\ UNCHANGED <<store, lease, queue, mishaps>>

\* The budgets of the item: charged after the first gate, looked at again
\* after the second, when the request goes out.
Pay(w) ==
    /\ pc[w] = "passed" /\ plan[w].round = 1
    /\ Goto(w, "fencing", [plan[w] EXCEPT !.round = 2])
    /\ UNCHANGED <<store, res, lease, queue, mishaps>>

Send(w) ==
    /\ pc[w] = "passed" /\ plan[w].round = 2
    /\ Goto(w, "fetching", plan[w])
    /\ UNCHANGED <<store, res, lease, queue, mishaps>>

\* _defer_budgeted_item and _fail_budgeted_item
Deny(w) ==
    /\ pc[w] = "passed"
    /\ Mishap
    /\ \E then \in {"delayed", "failed"} : Drop(w, then)
    /\ UNCHANGED <<store, res, lease, queue>>

-----------------------------------------------------------------------------
(* The answer, and the ends of a pass.                                     *)

\* Mutant: an answer is an answer, whichever papers it brings.
ArrivesAny(w) ==
    /\ pc[w] = "fetching"
    /\ \E brought \in SUBSET plan[w].ids : Goto(w, "storing", [plan[w] EXCEPT !.ids = brought])
    /\ UNCHANGED <<store, res, lease, queue, mishaps>>

\* All of the IDs asked for are in the answer.
Arrives(w) ==
    /\ pc[w] = "fetching"
    /\ Goto(w, "storing", plan[w])
    /\ UNCHANGED <<store, res, lease, queue, mishaps>>

\* Some are not, or the fetch fails: after_failure or after_429 release the
\* lease. The papers of an incomplete answer are not stored. An error of no
\* known kind is raised again, and leaves the row claimed.
FetchFails(w) ==
    /\ pc[w] = "fetching"
    /\ \/ Drop(w, "failed") /\ UNCHANGED mishaps
       \/ Mishap /\ \E then \in {"delayed", "nothing"} : Drop(w, then)
    /\ UNCHANGED <<store, res, lease, queue>>

\* record_completed_cache_entry with the fetched papers; then after_success.
Store(w) ==
    /\ pc[w] = "storing"
    /\ papers' = papers \cup plan[w].ids
    /\ answered' = answered \cup plan[w].ids
    /\ cached' = cached \cup {job[w]}
    /\ Drop(w, "completed")
    /\ UNCHANGED <<res, lease, row, mishaps>>

\* Mutant: an answer composed at the gate completes the item unstored.
DroppingShort(w) ==
    /\ pc[w] = "dropping"
    /\ lease' = IF lease = w THEN None ELSE lease
    /\ Goto(w, "ending", plan[w])
    /\ UNCHANGED <<store, res, queue, mishaps>>

\* release_lease
Dropping(w) ==
    /\ pc[w] = "dropping"
    /\ lease' = IF lease = w THEN None ELSE lease
    /\ Goto(w, IF plan[w].then = "composed" THEN "composing" ELSE "ending", plan[w])
    /\ UNCHANGED <<store, res, queue, mishaps>>

\* record_completed_cache_entry from the paper store alone.
Compose(w) ==
    /\ pc[w] = "composing"
    /\ cached' = cached \cup {job[w]}
    /\ Finish(w, "completed")
    /\ UNCHANGED <<store, res, lease, row, mishaps>>

\* complete_queue_item and release_or_delay_queue_item name the row only. A
\* worker that lost its lease or its claim leaves the row alone.
End(w) ==
    /\ pc[w] = "ending"
    /\ row' = IF plan[w].then = "nothing" THEN row
              ELSE [row EXCEPT ![job[w]] =
                      [status |-> plan[w].then, by |-> None, live |-> FALSE]]
    /\ Goto(w, "releasing", plan[w])
    /\ UNCHANGED <<store, res, lease, cached, mishaps>>

\* _release_id_plan
Release(w) ==
    /\ pc[w] = "releasing"
    /\ ReleaseIds(w, plan[w].ids)
    /\ pc' = [pc EXCEPT ![w] = "idle"]
    /\ job' = [job EXCEPT ![w] = None]
    /\ plan' = [plan EXCEPT ![w] = NoPlan]
    /\ UNCHANGED <<store, lease, cached, mishaps>>

-----------------------------------------------------------------------------
(* What happens to workers.                                                *)

\* A worker dies, or an exception no handler catches ends it.
Crash(w) ==
    /\ pc[w] # "idle"
    /\ Mishap
    /\ lease' = IF lease = w THEN Gone ELSE lease
    /\ res' = [id \in Id |-> IF res[id].owner = w THEN [res[id] EXCEPT !.owner = Gone]
                             ELSE res[id]]
    /\ row' = [i \in Item |-> IF row[i].by = w THEN [row[i] EXCEPT !.by = Gone] ELSE row[i]]
    /\ pc' = [pc EXCEPT ![w] = "idle"]
    /\ job' = [job EXCEPT ![w] = None]
    /\ plan' = [plan EXCEPT ![w] = NoPlan]
    /\ UNCHANGED <<store, cached>>

LeaseExpires ==
    /\ lease = Gone
    /\ lease' = None
    /\ UNCHANGED <<store, res, queue, local, mishaps>>

\* A claim that nobody works on is not renewed.
ClaimExpires(i) ==
    /\ row[i].live /\ \A w \in Worker : row[i].by = w => job[w] # i
    /\ row' = [row EXCEPT ![i].live = FALSE]
    /\ UNCHANGED <<store, res, lease, cached, local, mishaps>>

ReservationExpires(id) ==
    /\ res[id] = Reserved(Gone)
    /\ res' = [res EXCEPT ![id].live = FALSE]
    /\ UNCHANGED <<store, lease, queue, local, mishaps>>

\* The sleep before the first fence is longer than the TTL of the claim and
\* of the reservations, which is the same; one of them may have run out.
Lapse(w) ==
    /\ pc[w] = "sleeping"
    /\ Mishap
    /\ \E ids \in {{}, plan[w].ids} :
          /\ res' = [id \in Id |-> IF id \in ids /\ res[id].owner = w
                                   THEN [res[id] EXCEPT !.live = FALSE] ELSE res[id]]
          /\ row' = [i \in Item |-> IF row[i].by = w /\ i = job[w]
                                    THEN [row[i] EXCEPT !.live = FALSE] ELSE row[i]]
    /\ UNCHANGED <<store, lease, cached, local>>

\* A harvest or another request stores the paper.
OthersStore(id) ==
    /\ id \in Elsewhere \ papers
    /\ papers' = papers \cup {id}
    /\ UNCHANGED <<answered, res, lease, queue, local, mishaps>>

\* The next statement of run_once.
Pass(w) ==
    \/ CheckCache(w) \/ Plan(w) \/ Reserve(w) \/ Ask(w) \/ Awake(w) \/ Fence(w) \/ Recheck(w)
    \/ Revalidate(w) \/ Trim(w) \/ Renew(w) \/ Pay(w) \/ Send(w) \/ Deny(w) \/ Arrives(w)
    \/ FetchFails(w) \/ Store(w) \/ Dropping(w) \/ Compose(w) \/ End(w) \/ Release(w)

Next ==
    \/ \E w \in Worker : Pass(w) \/ Crash(w) \/ Lapse(w) \/ \E i \in Item : Claim(w, i)
    \/ LeaseExpires
    \/ \E i \in Item : ClaimExpires(i)
    \/ \E id \in Id : ReservationExpires(id) \/ OthersStore(id)

Spec == Init /\ [][Next]_vars

\* Passes run to their end, what nobody renews runs out, and workers poll
\* for items (each of a finite queue has its turn).
FairSpec ==
    /\ Spec
    /\ \A w \in Worker : WF_vars(Pass(w))
    /\ \A i \in Item : WF_vars(\E w \in Worker : Claim(w, i)) /\ WF_vars(ClaimExpires(i))
    /\ \A id \in Id : WF_vars(ReservationExpires(id))
    /\ WF_vars(LeaseExpires)

-----------------------------------------------------------------------------
(* Properties.                                                             *)

Label == {"idle", "checking", "planning", "reserving", "asking", "sleeping", "fencing",
          "rechecking", "revalidating", "trimming", "renewing", "confirming", "passed",
          "fetching", "storing", "dropping", "composing", "ending", "releasing"}

\* Rows, plans and reservations have their types.
TypeOK ==
    /\ papers \subseteq Id /\ answered \subseteq papers
    /\ res \in [Id -> [owner : Worker \cup {None, Gone}, live : BOOLEAN]]
    /\ lease \in Worker \cup {None, Gone}
    /\ row \in [Item -> [status : Active \cup {"completed", "failed"},
                         by : Worker \cup {None, Gone}, live : BOOLEAN]]
    /\ cached \subseteq Item
    /\ pc \in [Worker -> Label]
    /\ job \in [Worker -> Item \cup {None}]
    /\ plan \in [Worker -> [ids : SUBSET Id, known : SUBSET Id, round : {1, 2},
                            then : {"nothing", "composed", "completed", "failed",
                                    "delayed", "waiting"}]]
    /\ mishaps \in 0..MaxMishaps

\* "concurrent [A, B] and [B, A] requests do not issue duplicate upstream
\* fetches" (docs/design/recoleta-compatible-arxiv-broker-proposal.md:489-491): no fetch
\* asks for an ID that an earlier one has brought, though plans are made from a
\* snapshot, and reservations run out under a sleeping worker.
FetchedOnce ==
    [][\A w \in Worker : pc[w] = "passed" /\ pc'[w] = "fetching" =>
          plan[w].ids \cap answered = {}]_vars

\* A worker on the wire holds a reservation that has not expired of each ID it
\* asks for, until its papers are stored.
FetchReserved ==
    \A w \in Worker : pc[w] \in {"fetching", "storing"} =>
        plan[w].ids # {} /\ \A id \in plan[w].ids : res[id] = Reserved(w)

\* No reservation of a live worker outlasts the pass that made it: every way
\* out of run_once gives back what the plan still holds, and a blocked plan
\* holds nothing.
NothingLeaked ==
    \A id \in Id, w \in Worker : res[id].owner = w => id \in plan[w].ids

\* An item that is completed is answered by all the papers it asked for.
CompletedWhole ==
    \A i \in Item : row[i].status = "completed" \/ i \in cached => Wants[i] \subseteq papers

\* Overlapping lists neither deadlock nor chase each other for ever: an item is
\* settled in the end, also when a worker dies with reservations others need.
EveryItemSettles ==
    \A i \in Item : row[i].status \in Active ~> row[i].status \in {"completed", "failed"}
====
