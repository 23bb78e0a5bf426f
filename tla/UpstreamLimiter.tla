---- MODULE UpstreamLimiter ----
(***************************************************************************)
(* The durable limiter in front of arXiv: HuldraRateLimiter                *)
(* (src/src/huldra/limiter.py) over the `upstream_fetch` row of the leases *)
(* table and the `arxiv_legacy_api` row of rate_state (src/src/huldra/     *)
(* db.py), used by queue workers and by OAI harvests.                      *)
(*                                                                         *)
(* Each store method is one SQLite transaction, so each is one action;     *)
(* between two of them any other process may run and this one may die.     *)
(* The rate state is read in one transaction and written back whole in     *)
(* another one, and neither write is conditional on the lease.             *)
(*                                                                         *)
(* Time is a bounded clock.  A process that is alive and not suspended     *)
(* takes its next step by due[p]: StepTime after the last one, or the end  *)
(* of its sleep or HTTP timeout.  Spec makes the clock wait for it;        *)
(* StallSpec does not (a suspended laptop, a SIGSTOP, a response that      *)
(* drips in under httpx's per-read timeout).                               *)
(***************************************************************************)
EXTENDS Integers

CONSTANTS
    Proc,            \* owner tokens: workers and OAI harvests
    Harvests,        \* the tokens `oai:<harvest_id>`, which outlive a process
    NoOwner,         \* the lease row does not exist
    Gone,            \* the row's owner is the token of a dead process
    Interval,        \* settings.request_interval_seconds
    LeaseTimeout,    \* settings.lease_timeout_seconds
    ClaimTimeout,    \* settings.queue_claim_timeout_seconds
    RequestTimeout,  \* settings.request_timeout_seconds
    Slack,           \* store.timeout + 5.0, the allowance in every TTL formula
    StepTime,        \* longest pause between two steps of a running process
    Cooldown,        \* settings.cooldown_seconds
    MaxCooldown,     \* settings.rate_limit_max_cooldown_seconds
    Multiplier,      \* settings.rate_limit_backoff_multiplier
    Jitter,          \* settings.rate_limit_jitter_seconds
    RetryAfter,      \* Retry-After values upstream may send; 0: no header
    Interruptible,   \* harvests whose process may be interrupted (Ctrl-C)
    MaxTime,         \* bound of the clock
    MaxLimited       \* bound on the rate-limit answers of a behaviour

ASSUME ActorAssumption ==
    /\ Harvests \subseteq Proc
    /\ Interruptible \subseteq Harvests
    /\ NoOwner \notin Proc
    /\ Gone \notin Proc
    /\ NoOwner # Gone

ASSUME SettingAssumption ==
    /\ Interval \in Nat \ {0}
    /\ LeaseTimeout \in Nat \ {0}
    /\ ClaimTimeout \in Nat
    /\ RequestTimeout \in Nat
    /\ Slack \in Nat
    /\ StepTime \in Nat
    /\ Cooldown \in Nat \ {0}
    /\ Jitter \in Nat
    /\ Multiplier \in Nat \ {0}
    /\ MaxCooldown \in Nat
    /\ MaxCooldown >= Cooldown
    /\ MaxCooldown >= Interval
    /\ RetryAfter \subseteq Nat
    /\ MaxTime \in Nat
    /\ MaxLimited \in Nat

\* The allowances are long against the pauses of a running process: the
\* lease outlives the two steps that follow its acquisition, and Slack the
\* steps between a renewal and the next one besides the sleep and the fetch.
ASSUME PaceAssumption ==
    /\ 2 * StepTime < LeaseTimeout
    /\ 4 * StepTime < Slack

VARIABLES
    now,       \* the wall clock
    lease,     \* the row `upstream_fetch`
    rate,      \* the row of rate_state
    pc,        \* where each process is in before_request ... after_*
    due,       \* when its next step is due at the latest
    sampled,   \* `current`: the time it sampled before it read the rate state
    snap,      \* `state` / `previous`: the rate state it read
    lastStart, \* ghost: when the latest request was put on the wire
    limited,   \* ghost: rate-limit answers handed to after_rate_limit
    unbroken   \* ghost: nobody else acquired the lease since this process did

vars == <<now, lease, rate, pc, due, sampled, snap, lastStart, limited, unbroken>>

local == <<due, sampled, snap>>
ghost == <<lastStart, limited, unbroken>>

MaxOf(a, b) == IF a >= b THEN a ELSE b

\* last_request_at = None: far enough back to impose no wait.
Never == 0 - Interval

FreshRate ==
    [last         |-> Never, \* last_request_at
     cooldown     |-> 0,     \* cooldown_until; None is any time not after now
     started      |-> 0,     \* last_request_started_at
     row429       |-> 0,     \* consecutive_429_total
     row          |-> 0,     \* consecutive_rate_limit_total
     total429     |-> 0,     \* upstream_429_total
     total503     |-> 0,     \* upstream_oai_503_retry_after_total
     total        |-> 0]     \* upstream_rate_limited_total

RateState ==
    [last : Int, cooldown : Nat, started : Int, row429 : Nat, row : Nat,
     total429 : Nat, total503 : Nat, total : Nat]

Free == [owner |-> NoOwner, expires |-> 0]

Init ==
    /\ now = 0
    /\ lease = Free
    /\ rate = FreshRate
    /\ pc = [p \in Proc |-> "idle"]
    /\ due = [p \in Proc |-> 0]
    /\ sampled = [p \in Proc |-> 0]
    /\ snap = [p \in Proc |-> FreshRate]
    /\ lastStart = Never
    /\ limited = 0
    /\ unbroken = [p \in Proc |-> FALSE]

-----------------------------------------------------------------------------
(* The lease row and the arithmetic of the limiter.                        *)

\* Mutant: a row blocks other owners for as long as it exists.
CanAcquireFreeOnly(p) == lease.owner \in {NoOwner, p}

\* acquire_lease refuses only a live row of another owner.
CanAcquire(p) ==
    \/ lease.owner \in {NoOwner, p}
    \/ lease.expires <= now

\* _seconds_until_next_request
Wait(state, at) == MaxOf(0, state.last + Interval - at)

\* The TTL before_request renews the lease with: it covers the sleep too.
PrefetchTTL(wait) == MaxOf(LeaseTimeout, wait + RequestTimeout + Slack)

\* Mutant: the fences renew for the bare lease timeout, fetch not counted.
FetchTTLBare(p) == LeaseTimeout

\* The TTL of the fences before the fetch: _fetch_ownership_ttl for a
\* worker, post_fetch_lease_seconds for a harvest.
FetchTTL(p) ==
    LET floor == MaxOf(LeaseTimeout, RequestTimeout + Slack)
    IN  IF p \in Harvests THEN floor ELSE MaxOf(ClaimTimeout, floor)

\* The adaptive part of _effective_cooldown_seconds for the n-th rate-limit
\* answer in a row: min(floor * multiplier ^ (n - 1), cap).
Adaptive(n) ==
    LET scaled == MaxOf(Cooldown, Interval) * Multiplier ^ (n - 1)
    IN  IF scaled \in 0 .. MaxCooldown THEN scaled ELSE MaxCooldown

\* release_lease: deletes the row only if it is still the caller's.
ReleasedBy(p) == IF lease.owner = p THEN Free ELSE lease

\* Return to the caller; what before_request held in locals is gone.
Leave(p) ==
    /\ pc' = [pc EXCEPT ![p] = "idle"]
    /\ due' = [due EXCEPT ![p] = 0]
    /\ sampled' = [sampled EXCEPT ![p] = 0]
    /\ snap' = [snap EXCEPT ![p] = FreshRate]

Goto(p, label, by) ==
    /\ pc' = [pc EXCEPT ![p] = label]
    /\ due' = [due EXCEPT ![p] = by]

-----------------------------------------------------------------------------
(* before_request                                                          *)

\* acquire_lease succeeds.
Acquire(p) ==
    /\ pc[p] = "idle"
    /\ CanAcquire(p)
    /\ lease' = [owner |-> p, expires |-> now + LeaseTimeout]
    /\ unbroken' = [q \in Proc |-> q = p]
    /\ Goto(p, "acquired", now + StepTime)
    /\ UNCHANGED <<now, rate, sampled, snap, lastStart, limited>>

\* acquire_lease fails and before_request answers lease_held.
Held(p) ==
    /\ pc[p] = "idle"
    /\ ~CanAcquire(p)
    /\ UNCHANGED vars

\* Mutant: the cooldown is not looked at again once the lease is won.
ReadRateStateBlind(p) ==
    /\ pc[p] = "acquired"
    /\ Goto(p, "checked", now + StepTime)
    /\ sampled' = [sampled EXCEPT ![p] = now]
    /\ snap' = [snap EXCEPT ![p] = rate]
    /\ UNCHANGED <<now, lease, rate, ghost>>

\* Sample the time, read the rate state; a running cooldown sends the
\* process to release the lease, else it keeps what it read.
ReadRateState(p) ==
    /\ pc[p] = "acquired"
    /\ IF rate.cooldown > now
       THEN /\ Goto(p, "releasing", now + StepTime)
            /\ UNCHANGED <<sampled, snap>>
       ELSE /\ Goto(p, "checked", now + StepTime)
            /\ sampled' = [sampled EXCEPT ![p] = now]
            /\ snap' = [snap EXCEPT ![p] = rate]
    /\ UNCHANGED <<now, lease, rate, ghost>>

\* renew_lease_if_owned: strict, it never takes the lease again.
Renew(p) ==
    /\ pc[p] = "checked"
    /\ lease.owner = p
    /\ lease' = [lease EXCEPT !.expires =
                    now + PrefetchTTL(Wait(snap[p], sampled[p]))]
    /\ Goto(p, "renewed", now + StepTime)
    /\ UNCHANGED <<now, rate, sampled, snap, ghost>>

RenewRefused(p) ==
    /\ pc[p] = "checked"
    /\ lease.owner # p
    /\ Leave(p)
    /\ UNCHANGED <<now, lease, rate, ghost>>

\* set_rate_state: the snapshot with the planned start goes back whole; the
\* caller then sleeps for the wait.
RecordStart(p) ==
    /\ pc[p] = "renewed"
    /\ LET wait == Wait(snap[p], sampled[p])
       IN  /\ rate' = [snap[p] EXCEPT !.started = sampled[p] + wait]
           /\ Goto(p, "sleeping", now + wait + StepTime)
    /\ sampled' = [sampled EXCEPT ![p] = 0]
    /\ snap' = [snap EXCEPT ![p] = FreshRate]
    /\ UNCHANGED <<now, lease, ghost>>

\* The write raises: release, then propagate.
RecordStartFails(p) ==
    /\ pc[p] = "renewed"
    /\ lease' = ReleasedBy(p)
    /\ Leave(p)
    /\ UNCHANGED <<now, rate, ghost>>

-----------------------------------------------------------------------------
(* The caller: the ownership fences, the fetch, after_*.                   *)

Awake(p) ==
    \/ pc[p] = "gated"
    \/ pc[p] = "sleeping" /\ now >= due[p] - StepTime

\* Mutant: a fence that upserts takes a lease somebody else has released.
FenceUpsert(p) ==
    /\ Awake(p)
    /\ lease.owner \in {p, NoOwner}
    /\ lease' = [owner |-> p, expires |-> now + FetchTTL(p)]
    /\ Goto(p, "gated", now + StepTime)
    /\ UNCHANGED <<now, rate, sampled, snap, ghost>>

\* renew_worker_fetch_ownership / renew_leases_if_owned finds the lease
\* still owned. A worker fences several times before it fetches.
Fence(p) ==
    /\ Awake(p)
    /\ lease.owner = p
    /\ lease' = [lease EXCEPT !.expires = now + FetchTTL(p)]
    /\ Goto(p, "gated", now + StepTime)
    /\ UNCHANGED <<now, rate, sampled, snap, ghost>>

\* The fence fails; the release that follows finds another owner's row, or none.
FenceLost(p) ==
    /\ Awake(p)
    /\ lease.owner # p
    /\ Leave(p)
    /\ UNCHANGED <<now, lease, rate, ghost>>

\* The event after the write raises, the deadline would pass during the
\* sleep, or, later, a cache hit, a lost claim, a spent budget or deadline:
\* the lease is given back and there is no fetch.
Abandon(p) ==
    /\ pc[p] \in {"sleeping", "gated"}
    /\ lease' = ReleasedBy(p)
    /\ Leave(p)
    /\ UNCHANGED <<now, rate, ghost>>

StartFetch(p) ==
    /\ pc[p] = "gated"
    /\ Goto(p, "inflight", now + RequestTimeout + StepTime)
    /\ lastStart' = now
    /\ UNCHANGED <<now, lease, rate, sampled, snap, limited, unbroken>>

\* The answer is in: after_* samples the time and reads the rate state.
Answered(p) ==
    /\ pc[p] = "inflight"
    /\ sampled' = [sampled EXCEPT ![p] = now]
    /\ snap' = [snap EXCEPT ![p] = rate]
    /\ Goto(p, "settling", now + StepTime)
    /\ UNCHANGED <<now, lease, rate, ghost>>

\* What after_success, after_failure and after_rate_limit write over the
\* row they have read.
Succeeded(state, at) ==
    [last |-> at, cooldown |-> 0, started |-> state.started,
     row429 |-> 0, row |-> 0,
     total429 |-> state.total429, total503 |-> state.total503,
     total |-> state.total]

\* Mutant: a failed request does not count as a request.
FailedForgotten(state, at) == state

Failed(state, at) == [state EXCEPT !.last = at]

\* Mutant: a 503 is not added to the common total.
RateLimitedSplit(state, at, status, retryAfter, jitter) ==
    LET one429 == IF status = 429 THEN 1 ELSE 0
    IN  [last |-> at, started |-> state.started,
         cooldown |-> at + MaxOf(Adaptive(state.row + 1), retryAfter) + jitter,
         row429 |-> IF status = 429 THEN state.row429 + 1 ELSE 0,
         row |-> state.row + 1,
         total429 |-> state.total429 + one429,
         total503 |-> state.total503 + 1 - one429,
         total |-> state.total + one429]

\* Mutant: a 503 takes one off the run of 429s instead of ending it.
RateLimitedStepDown(state, at, status, retryAfter, jitter) ==
    [state EXCEPT !.last = at, !.row = @ + 1, !.total = @ + 1,
                  !.row429 = IF status = 429 THEN @ + 1 ELSE @ - 1]

RateLimited(state, at, status, retryAfter, jitter) ==
    LET one429 == IF status = 429 THEN 1 ELSE 0
    IN  [last |-> at, started |-> state.started,
         cooldown |-> at + MaxOf(Adaptive(state.row + 1), retryAfter) + jitter,
         row429 |-> IF status = 429 THEN state.row429 + 1 ELSE 0,
         row |-> state.row + 1,
         total429 |-> state.total429 + one429,
         total503 |-> state.total503 + 1 - one429,
         total |-> state.total + 1]

\* The write-back common to the three.
Settle(p, written) ==
    /\ pc[p] = "settling"
    /\ rate' = written
    /\ Goto(p, "releasing", now + StepTime)
    /\ sampled' = [sampled EXCEPT ![p] = 0]
    /\ snap' = [snap EXCEPT ![p] = FreshRate]
    /\ UNCHANGED <<now, lease, lastStart, unbroken>>

AfterSuccess(p) ==
    /\ Settle(p, Succeeded(snap[p], sampled[p]))
    /\ UNCHANGED limited

AfterFailure(p) ==
    /\ Settle(p, Failed(snap[p], sampled[p]))
    /\ UNCHANGED limited

\* Only the OAI endpoint's 503 with Retry-After is a rate limit.
AfterRateLimit(p) ==
    /\ limited < MaxLimited
    /\ \E status \in (IF p \in Harvests THEN {429, 503} ELSE {429}),
          retryAfter \in RetryAfter, jitter \in 0 .. Jitter :
            Settle(p, RateLimited(snap[p], sampled[p], status, retryAfter, jitter))
    /\ limited' = limited + 1

\* release_lease: at the end of after_*, or on a cooldown.
Release(p) ==
    /\ pc[p] = "releasing"
    /\ lease' = ReleasedBy(p)
    /\ Leave(p)
    /\ UNCHANGED <<now, rate, ghost>>

-----------------------------------------------------------------------------
(* Failures and time.                                                      *)

\* The process dies, or an exception nobody handles takes it down. Its
\* token is not used again: workers draw a new one, and an OAI successor
\* waits for the scope lease, which expires no earlier than this one.
Crash(p) ==
    /\ pc[p] # "idle"
    /\ lease' = IF lease.owner = p THEN [lease EXCEPT !.owner = Gone] ELSE lease
    /\ Leave(p)
    /\ UNCHANGED <<now, rate, ghost>>

\* An exception (Ctrl-C) unwinds harvest_oai: its `finally` frees the scope
\* lease but not the upstream one, so the next run resumes the same harvest
\* under the same token.
Interrupt(p) ==
    /\ p \in Interruptible
    /\ pc[p] # "idle"
    /\ Leave(p)
    /\ UNCHANGED <<now, lease, rate, ghost>>

SuspendedTick ==
    /\ now < MaxTime
    /\ now' = now + 1
    /\ UNCHANGED <<lease, rate, pc, local, ghost>>

Tick ==
    /\ \A p \in Proc : pc[p] # "idle" => now < due[p]
    /\ SuspendedTick

-----------------------------------------------------------------------------

\* What a process does once it has begun, as opposed to beginning or dying.
Proceed(p) ==
    \/ ReadRateState(p) \/ Renew(p) \/ RenewRefused(p)
    \/ RecordStart(p) \/ RecordStartFails(p)
    \/ Fence(p) \/ FenceLost(p) \/ Abandon(p) \/ StartFetch(p)
    \/ Answered(p)
    \/ AfterSuccess(p) \/ AfterFailure(p) \/ AfterRateLimit(p)
    \/ Release(p)

Step ==
    \E p \in Proc :
        \/ Acquire(p) \/ Held(p)
        \/ Proceed(p)
        \/ Crash(p) \/ Interrupt(p)

Next == Step \/ Tick

Spec == Init /\ [][Next]_vars

\* Processes may also be suspended for any length of time.
StallSpec == Init /\ [][Step \/ SuspendedTick]_vars

\* A running process takes its next statement, fences only a few times, and
\* the clock moves. Nothing makes a process ask, die or be interrupted.
Fairness ==
    /\ WF_vars(Tick)
    /\ \A p \in Proc :
          /\ WF_vars(Proceed(p))
          /\ WF_vars(StartFetch(p) \/ Abandon(p))

FairSpec == Spec /\ Fairness

-----------------------------------------------------------------------------
(* Properties.                                                             *)

PC == {"idle", "acquired", "checked", "renewed", "sleeping", "gated",
       "inflight", "settling", "releasing"}

\* Every variable has its type: the shape of the two rows and of the locals.
TypeOK ==
    /\ now \in Nat
    /\ lease \in [owner : Proc \cup {NoOwner, Gone}, expires : Nat]
    /\ rate \in RateState
    /\ pc \in [Proc -> PC]
    /\ due \in [Proc -> Nat]
    /\ sampled \in [Proc -> Nat]
    /\ snap \in [Proc -> RateState]
    /\ lastStart \in Int
    /\ limited \in Nat
    /\ unbroken \in [Proc -> BOOLEAN]

\* From acquire_lease to its release a process shares the limiter with
\* nobody, and in particular no two requests are on the wire: the TTLs that
\* acquire_lease, before_request and the fences choose outlast whatever
\* happens before the next renewal.
SingleFlight ==
    \A p, q \in Proc : pc[p] # "idle" /\ pc[q] # "idle" => p = q

\* after_rate_limit reads the counters in one transaction and writes them
\* in another, and before_request writes the whole row back: no rate-limit
\* answer is lost or counted twice, and the two kinds add up to the total.
CountersExact ==
    /\ rate.total = limited
    /\ rate.total429 + rate.total503 = rate.total
    /\ rate.row <= rate.total
    /\ rate.row429 <= rate.row

\* The limiter keeps its promise to arXiv, whatever dies when.
PU == INSTANCE PacedUpstream WITH
        clock     <- now,
        flying    <- {p \in Proc : pc[p] = "inflight"},
        accounted <- rate.last,
        cooldown  <- rate.cooldown

Paced == PU!Spec

\* Requests start Interval apart even when the process that sent the
\* previous one died with the answer and never moved last_request_at: the
\* lease it leaves behind keeps the others away for long enough.
StartsSpaced ==
    [][lastStart' # lastStart => lastStart' >= lastStart + Interval]_vars

\* A fence never passes on a lease that changed hands since before_request
\* acquired it, however long the process slept or was suspended and even if
\* the lease has been released again since.
FenceMeansContinuity ==
    [][\A p \in Proc :
          pc[p] \in {"checked", "sleeping"} /\ pc'[p] \in {"renewed", "gated"}
              => unbroken[p]]_vars

\* The lease of a dead process comes back: as soon as it has run out, and
\* unless somebody already took it, whoever asks gets it.
CrashedLeaseReclaimed ==
    \A p \in Proc :
        (lease.owner = Gone /\ lease.expires < MaxTime)
            ~> (lease.owner # Gone \/ CanAcquire(p))
====
