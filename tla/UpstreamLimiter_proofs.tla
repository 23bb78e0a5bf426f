---- MODULE UpstreamLimiter_proofs ----
(***************************************************************************)
(* Theorems about UpstreamLimiter for every number of processes and every  *)
(* setting allowed by its assumptions, under Spec (no process is suspended *)
(* past its deadline) and, in the last section, under StallSpec.           *)
(*                                                                         *)
(* The argument: the lease of the one process that is past acquire_lease   *)
(* outlasts its next deadline by what its remaining steps may take         *)
(* (LeaseCovers).  So nobody else gets in, hence what it read from the     *)
(* rate state is still there when it writes it back (RateIsMine), hence    *)
(* the counters are exact and the pace is kept.                            *)
(***************************************************************************)
EXTENDS UpstreamLimiter, TLAPS

\* What the lease of an active process still has to cover.
LeaseCovers(p) ==
    /\ lease.owner = p
    /\ now <= due[p]
    /\ due[p] < lease.expires
    /\ pc[p] = "acquired" => due[p] + StepTime < lease.expires
    /\ pc[p] = "renewed" =>
          due[p] + Wait(snap[p], sampled[p]) + StepTime < lease.expires
    /\ pc[p] = "gated" =>
          due[p] + RequestTimeout + 3 * StepTime < lease.expires
    /\ pc[p] = "inflight" => due[p] + 2 * StepTime < lease.expires
    /\ pc[p] = "settling" => due[p] + StepTime < lease.expires

\* What an active process knows of the rate state.
RateIsMine(p) ==
    /\ pc[p] \in {"checked", "renewed", "settling"} =>
          snap[p] = rate /\ sampled[p] <= now /\ rate.last <= sampled[p]
    /\ pc[p] \in {"checked", "renewed", "sleeping", "gated", "inflight", "settling"} =>
          rate.cooldown <= now
    /\ pc[p] = "sleeping" => rate.last + Interval <= due[p] - StepTime
    /\ pc[p] = "gated" => rate.last + Interval <= now

IInv ==
    /\ TypeOK
    /\ \A p \in Proc : pc[p] # "idle" => LeaseCovers(p)
    /\ \A p \in Proc : RateIsMine(p)
    /\ rate.last <= now
    /\ CountersExact

-----------------------------------------------------------------------------

\* The wait is a number of seconds that reaches the end of the interval.
LEMMA WaitFact ==
    ASSUME NEW s \in RateState, NEW at \in Nat
    PROVE  /\ Wait(s, at) \in Nat
           /\ at + Wait(s, at) >= s.last + Interval
  BY SettingAssumption DEF Wait, MaxOf, RateState

\* The TTLs contain the allowances the code adds up.
LEMMA TTLFact ==
    ASSUME NEW p \in Proc, NEW wait \in Nat
    PROVE  /\ PrefetchTTL(wait) \in Nat
           /\ PrefetchTTL(wait) >= wait + RequestTimeout + Slack
           /\ FetchTTL(p) \in Nat
           /\ FetchTTL(p) >= RequestTimeout + Slack
           /\ FetchTTL(p) >= LeaseTimeout
  BY SettingAssumption DEF PrefetchTTL, FetchTTL, MaxOf

\* The adaptive cooldown is a number of seconds, whatever the power is.
LEMMA AdaptiveFact ==
    ASSUME NEW n \in Nat
    PROVE  Adaptive(n) \in Nat
<1> DEFINE scaled == MaxOf(Cooldown, Interval) * Multiplier ^ (n - 1)
<1>1. CASE scaled \in 0 .. MaxCooldown
  BY <1>1, SettingAssumption DEF Adaptive
<1>2. CASE scaled \notin 0 .. MaxCooldown
  BY <1>2, SettingAssumption DEF Adaptive
<1> QED BY <1>1, <1>2

\* What after_rate_limit writes is a rate state.
LEMMA RateLimitedType ==
    ASSUME NEW s \in RateState, NEW at \in Nat, NEW status,
           NEW retryAfter \in Nat, NEW jitter \in Nat
    PROVE  RateLimited(s, at, status, retryAfter, jitter) \in RateState
<1> DEFINE effective == MaxOf(Adaptive(s.row + 1), retryAfter)
<1>1. effective \in Nat
  <2>1. Adaptive(s.row + 1) \in Nat
    BY AdaptiveFact DEF RateState
  <2> QED BY <2>1 DEF MaxOf
<1> QED
  BY <1>1 DEF RateLimited, RateState

-----------------------------------------------------------------------------
(* Types.                                                                  *)

LEMMA InitType == Init => TypeOK
  BY SettingAssumption, ActorAssumption
  DEF Init, TypeOK, Free, FreshRate, RateState, Never, PC

\* A fresh rate state has the type of one.
LEMMA FreshFact == FreshRate \in RateState
  BY SettingAssumption DEF FreshRate, RateState, Never

\* Every step keeps the types. The cases are those of Next; Settle stands
\* for the three ways to write an answer.
LEMMA SettleType ==
    ASSUME TypeOK, NEW p \in Proc, NEW written \in RateState,
           Settle(p, written), limited' \in Nat
    PROVE  TypeOK'
  BY SettingAssumption, FreshFact DEF TypeOK, Settle, Goto, PC

\* How long a process is suspended makes no difference to the types.
LEMMA TypeStep == TypeOK /\ [Step \/ SuspendedTick]_vars => TypeOK'
<1> SUFFICES ASSUME TypeOK, [Step \/ SuspendedTick]_vars PROVE TypeOK'
  OBVIOUS
<1> USE SettingAssumption, FreshFact
<1>1. ASSUME NEW p \in Proc, Acquire(p) PROVE TypeOK'
  BY <1>1 DEF TypeOK, Acquire, Goto, PC
<1>2. ASSUME NEW p \in Proc, Held(p) PROVE TypeOK'
  BY <1>2 DEF TypeOK, Held, vars
<1>3. ASSUME NEW p \in Proc, ReadRateState(p) PROVE TypeOK'
  BY <1>3 DEF TypeOK, ReadRateState, Goto, PC, ghost
<1>4. ASSUME NEW p \in Proc, Renew(p) PROVE TypeOK'
  <2>1. Wait(snap[p], sampled[p]) \in Nat
    BY WaitFact DEF TypeOK
  <2>2. PrefetchTTL(Wait(snap[p], sampled[p])) \in Nat
    BY <2>1, TTLFact
  <2> QED BY <1>4, <2>2 DEF TypeOK, Renew, Goto, PC, ghost
<1>5. ASSUME NEW p \in Proc, RenewRefused(p) PROVE TypeOK'
  BY <1>5 DEF TypeOK, RenewRefused, Leave, PC, ghost
<1>6. ASSUME NEW p \in Proc, RecordStart(p) PROVE TypeOK'
  <2> DEFINE wait == Wait(snap[p], sampled[p])
  <2>1. wait \in Nat
    BY WaitFact DEF TypeOK
  <2> HIDE DEF wait
  <2>2. [snap[p] EXCEPT !.started = sampled[p] + wait] \in RateState
    BY <2>1 DEF TypeOK, RateState
  <2>3. /\ rate' = [snap[p] EXCEPT !.started = sampled[p] + wait]
        /\ Goto(p, "sleeping", now + wait + StepTime)
    BY <1>6 DEF RecordStart, wait
  <2> QED BY <1>6, <2>1, <2>2, <2>3 DEF TypeOK, RecordStart, Goto, PC, ghost
<1>7. ASSUME NEW p \in Proc, RecordStartFails(p) PROVE TypeOK'
  BY <1>7 DEF TypeOK, RecordStartFails, Leave, ReleasedBy, Free, PC, ghost
<1>8. ASSUME NEW p \in Proc, Fence(p) PROVE TypeOK'
  <2>1. FetchTTL(p) \in Nat
    BY TTLFact, 0 \in Nat
  <2> QED BY <1>8, <2>1 DEF TypeOK, Fence, Goto, PC, ghost
<1>9. ASSUME NEW p \in Proc, FenceLost(p) PROVE TypeOK'
  BY <1>9 DEF TypeOK, FenceLost, Leave, PC, ghost
<1>10. ASSUME NEW p \in Proc, Abandon(p) PROVE TypeOK'
  BY <1>10 DEF TypeOK, Abandon, Leave, ReleasedBy, Free, PC, ghost
<1>11. ASSUME NEW p \in Proc, StartFetch(p) PROVE TypeOK'
  BY <1>11 DEF TypeOK, StartFetch, Goto, PC
<1>12. ASSUME NEW p \in Proc, Answered(p) PROVE TypeOK'
  BY <1>12 DEF TypeOK, Answered, Goto, PC, ghost
<1>13. ASSUME NEW p \in Proc, AfterSuccess(p) PROVE TypeOK'
  <2>1. Succeeded(snap[p], sampled[p]) \in RateState
    BY DEF TypeOK, Succeeded, RateState
  <2> QED BY <1>13, <2>1, SettleType DEF AfterSuccess, TypeOK
<1>14. ASSUME NEW p \in Proc, AfterFailure(p) PROVE TypeOK'
  <2>1. Failed(snap[p], sampled[p]) \in RateState
    BY DEF TypeOK, Failed, RateState
  <2> QED BY <1>14, <2>1, SettleType DEF AfterFailure, TypeOK
<1>15. ASSUME NEW p \in Proc, AfterRateLimit(p) PROVE TypeOK'
  <2>1. PICK status \in {429, 503}, retryAfter \in Nat, jitter \in Nat :
          Settle(p, RateLimited(snap[p], sampled[p], status, retryAfter, jitter))
    BY <1>15 DEF AfterRateLimit
  <2>2. RateLimited(snap[p], sampled[p], status, retryAfter, jitter) \in RateState
    <3>1. snap[p] \in RateState /\ sampled[p] \in Nat
      BY DEF TypeOK
    <3> QED BY <3>1, RateLimitedType
  <2>3. limited' \in Nat
    BY <1>15 DEF AfterRateLimit, TypeOK
  <2> QED BY <2>1, <2>2, <2>3, SettleType
<1>16. ASSUME NEW p \in Proc, Release(p) PROVE TypeOK'
  BY <1>16 DEF TypeOK, Release, Leave, ReleasedBy, Free, PC, ghost
<1>17. ASSUME NEW p \in Proc, Crash(p) PROVE TypeOK'
  BY <1>17 DEF TypeOK, Crash, Leave, PC, ghost
<1>18. ASSUME NEW p \in Proc, Interrupt(p) PROVE TypeOK'
  BY <1>18 DEF TypeOK, Interrupt, Leave, PC, ghost
<1>19. CASE SuspendedTick
  BY <1>19 DEF TypeOK, SuspendedTick, local, ghost
<1>20. CASE UNCHANGED vars
  BY <1>20 DEF TypeOK, vars
<1> QED
  BY <1>1, <1>2, <1>3, <1>4, <1>5, <1>6, <1>7, <1>8, <1>9, <1>10, <1>11, <1>12,
     <1>13, <1>14, <1>15, <1>16, <1>17, <1>18, <1>19, <1>20
  DEF Step, Proceed

\* The clock of Spec is one that waits for the running processes.
LEMMA NextIsStall == [Next]_vars => [Step \/ SuspendedTick]_vars
  BY DEF Next, Tick

\* The rows and the locals keep their types: no write of the limiter leaves
\* a negative wait, cooldown or counter behind.
THEOREM TypeCorrect == Spec => []TypeOK
  BY InitType, TypeStep, NextIsStall, PTL DEF Spec

-----------------------------------------------------------------------------
(* Exclusion.                                                              *)

\* The owner of the lease is the only active process.
LEMMA OneActive ==
    ASSUME IInv, NEW p \in Proc, pc[p] # "idle"
    PROVE  \A q \in Proc \ {p} : pc[q] = "idle"
  BY DEF IInv, LeaseCovers

\* Whoever is let in finds everybody else outside: an active process holds
\* the lease beyond the present.
LEMMA NobodyInside ==
    ASSUME IInv, NEW p \in Proc, pc[p] = "idle", CanAcquire(p)
    PROVE  \A q \in Proc : pc[q] = "idle"
<1> SUFFICES ASSUME NEW q \in Proc, pc[q] # "idle" PROVE FALSE
  OBVIOUS
<1>1. lease.owner = q /\ now <= due[q] /\ due[q] < lease.expires
  BY DEF IInv, LeaseCovers
<1>2. q # p
  OBVIOUS
<1>3. now \in Nat /\ due[q] \in Nat /\ lease.expires \in Nat
  BY DEF IInv, TypeOK
<1> QED
  BY <1>1, <1>2, <1>3, ActorAssumption DEF CanAcquire

\* A step of the only active process keeps the invariant if it keeps it for
\* that process.
LEMMA SoloStep ==
    ASSUME NEW p \in Proc, TypeOK',
           \A q \in Proc \ {p} : pc'[q] = "idle",
           pc'[p] # "idle" => LeaseCovers(p)',
           RateIsMine(p)',
           rate'.last <= now',
           CountersExact'
    PROVE  IInv'
<1>1. \A q \in Proc : (pc[q] # "idle" => LeaseCovers(q))'
  OBVIOUS
<1>2. \A q \in Proc : RateIsMine(q)'
  <2>1. ASSUME NEW q \in Proc, q # p PROVE RateIsMine(q)'
    BY <2>1 DEF RateIsMine
  <2> QED BY <2>1
<1> QED BY <1>1, <1>2 DEF IInv

LEMMA InitInv == Init => IInv
  BY InitType, SettingAssumption
  DEF Init, IInv, RateIsMine, CountersExact, FreshRate, Never

\* A process that leaves the protocol without writing the rate state.
LEMMA LeaveStep ==
    ASSUME IInv, TypeOK', NEW p \in Proc, pc[p] # "idle", Leave(p),
           UNCHANGED <<now, rate, limited>>
    PROVE  IInv'
<1>1. pc' = [pc EXCEPT ![p] = "idle"]
  BY DEF Leave
<1>2. \A q \in Proc \ {p} : pc'[q] = "idle"
  BY <1>1, OneActive DEF IInv, TypeOK
<1>3. pc'[p] = "idle"
  BY <1>1 DEF IInv, TypeOK
<1>4. RateIsMine(p)'
  BY <1>3 DEF RateIsMine
<1>5. rate'.last <= now' /\ CountersExact'
  BY DEF IInv, CountersExact
<1> QED BY <1>2, <1>3, <1>4, <1>5, SoloStep

\* A process that moves to another label and leaves the rate state alone.
LEMMA GotoStep ==
    ASSUME IInv, TypeOK', NEW p \in Proc, NEW label \in PC, NEW by,
           \A q \in Proc \ {p} : pc[q] = "idle",
           Goto(p, label, by), label # "idle",
           UNCHANGED <<now, rate, limited>>,
           LeaseCovers(p)', RateIsMine(p)'
    PROVE  IInv'
<1>1. pc' = [pc EXCEPT ![p] = label]
  BY DEF Goto
<1>2. \A q \in Proc \ {p} : pc'[q] = "idle"
  BY <1>1 DEF IInv, TypeOK
<1>3. rate'.last <= now' /\ CountersExact'
  BY DEF IInv, CountersExact
<1> QED BY <1>2, <1>3, SoloStep

LEMMA AcquireStep ==
    ASSUME IInv, TypeOK', NEW p \in Proc, Acquire(p)
    PROVE  IInv'
<1> USE SettingAssumption, PaceAssumption DEF Acquire
<1>1. \A q \in Proc \ {p} : pc[q] = "idle"
  BY NobodyInside
<1>2. pc'[p] = "acquired" /\ due'[p] = now + StepTime
  BY DEF Goto, IInv, TypeOK
<1>3. LeaseCovers(p)'
  BY <1>2 DEF LeaseCovers, IInv, TypeOK
<1>4. RateIsMine(p)'
  BY <1>2 DEF RateIsMine
<1> QED
  <2>1. UNCHANGED <<now, rate, limited>> /\ Goto(p, "acquired", now + StepTime)
    OBVIOUS
  <2> QED BY <1>1, <1>3, <1>4, <2>1, GotoStep DEF PC

LEMMA ReadStep ==
    ASSUME IInv, TypeOK', NEW p \in Proc, ReadRateState(p)
    PROVE  IInv'
<1> USE SettingAssumption
<1>1. pc[p] = "acquired" /\ UNCHANGED <<now, lease, rate, limited>>
  BY DEF ReadRateState, ghost
<1>2. \A q \in Proc \ {p} : pc[q] = "idle"
  BY <1>1, OneActive
<1>3. /\ lease.owner = p
      /\ now <= due[p]
      /\ due[p] + StepTime < lease.expires
  BY <1>1 DEF IInv, LeaseCovers
<1>4. now \in Nat /\ due[p] \in Nat /\ lease.expires \in Nat
  BY DEF IInv, TypeOK
<1>5. CASE rate.cooldown > now
  <2>1. Goto(p, "releasing", now + StepTime)
    BY <1>5 DEF ReadRateState
  <2>2. pc'[p] = "releasing" /\ due'[p] = now + StepTime
    BY <2>1 DEF Goto, IInv, TypeOK
  <2>3. LeaseCovers(p)'
    BY <1>1, <1>3, <1>4, <2>2 DEF LeaseCovers
  <2>4. RateIsMine(p)'
    BY <2>2 DEF RateIsMine
  <2> QED BY <1>1, <1>2, <2>1, <2>3, <2>4, GotoStep DEF PC
<1>6. CASE ~(rate.cooldown > now)
  <2>1. /\ Goto(p, "checked", now + StepTime)
        /\ sampled' = [sampled EXCEPT ![p] = now]
        /\ snap' = [snap EXCEPT ![p] = rate]
    BY <1>6 DEF ReadRateState
  <2>2. /\ pc'[p] = "checked" /\ due'[p] = now + StepTime
        /\ sampled'[p] = now /\ snap'[p] = rate
    BY <2>1 DEF Goto, IInv, TypeOK
  <2>3. LeaseCovers(p)'
    BY <1>1, <1>3, <1>4, <2>2 DEF LeaseCovers
  <2>4. RateIsMine(p)'
    BY <1>1, <1>4, <1>6, <2>2 DEF RateIsMine, IInv, TypeOK, RateState
  <2> QED BY <1>1, <1>2, <2>1, <2>3, <2>4, GotoStep DEF PC
<1> QED BY <1>5, <1>6

LEMMA RenewStep ==
    ASSUME IInv, TypeOK', NEW p \in Proc, Renew(p)
    PROVE  IInv'
<1> USE SettingAssumption, PaceAssumption
<1> DEFINE wait == Wait(snap[p], sampled[p])
<1>1. /\ pc[p] = "checked" /\ lease.owner = p
      /\ lease' = [lease EXCEPT !.expires = now + PrefetchTTL(wait)]
      /\ Goto(p, "renewed", now + StepTime)
      /\ UNCHANGED <<now, rate, limited, sampled, snap>>
  BY DEF Renew, ghost
<1>2. \A q \in Proc \ {p} : pc[q] = "idle"
  BY <1>1, OneActive
<1>3. wait \in Nat
  BY WaitFact DEF IInv, TypeOK
<1>4. PrefetchTTL(wait) \in Nat /\ PrefetchTTL(wait) >= wait + RequestTimeout + Slack
  BY <1>3, TTLFact, 0 \in Nat
<1>5. /\ lease'.owner = p /\ lease'.expires = now + PrefetchTTL(wait)
      /\ pc'[p] = "renewed" /\ due'[p] = now + StepTime /\ now \in Nat
  BY <1>1 DEF Goto, IInv, TypeOK
<1>6. Wait(snap'[p], sampled'[p]) = wait
  BY <1>1
<1>7. LeaseCovers(p)'
  <2> HIDE DEF wait
  <2> QED BY <1>1, <1>3, <1>4, <1>5, <1>6 DEF LeaseCovers
<1>8. RateIsMine(p)'
  BY <1>1, <1>5 DEF RateIsMine, IInv
<1> QED BY <1>1, <1>2, <1>7, <1>8, GotoStep DEF PC

LEMMA RecordStartStep ==
    ASSUME IInv, TypeOK', NEW p \in Proc, RecordStart(p)
    PROVE  IInv'
<1> USE SettingAssumption, PaceAssumption
<1> DEFINE wait == Wait(snap[p], sampled[p])
<1>1. /\ pc[p] = "renewed"
      /\ rate' = [snap[p] EXCEPT !.started = sampled[p] + wait]
      /\ Goto(p, "sleeping", now + wait + StepTime)
      /\ UNCHANGED <<now, lease, limited>>
  BY DEF RecordStart, ghost
<1>2. \A q \in Proc \ {p} : pc[q] = "idle"
  BY <1>1, OneActive
<1>3. wait \in Nat /\ sampled[p] + wait >= snap[p].last + Interval
  BY WaitFact DEF IInv, TypeOK
<1>4. /\ snap[p] = rate /\ sampled[p] <= now /\ rate.cooldown <= now
      /\ lease.owner = p /\ now <= due[p]
      /\ due[p] + wait + StepTime < lease.expires
  BY <1>1 DEF IInv, LeaseCovers, RateIsMine
<1>5. /\ now \in Nat /\ due[p] \in Nat /\ lease.expires \in Nat
      /\ rate \in RateState /\ sampled[p] \in Nat
  BY DEF IInv, TypeOK
<1>6. /\ pc'[p] = "sleeping" /\ due'[p] = now + wait + StepTime
      /\ \A q \in Proc \ {p} : pc'[q] = "idle"
  BY <1>1, <1>2 DEF Goto, IInv, TypeOK
<1> HIDE DEF wait
<1>7. /\ rate'.last = rate.last /\ rate'.cooldown = rate.cooldown
      /\ rate'.total = rate.total /\ rate'.total429 = rate.total429
      /\ rate'.total503 = rate.total503 /\ rate'.row = rate.row
      /\ rate'.row429 = rate.row429
  BY <1>1, <1>4, <1>5 DEF RateState
<1>8. LeaseCovers(p)'
  BY <1>1, <1>3, <1>4, <1>5, <1>6 DEF LeaseCovers
<1>9. RateIsMine(p)'
  <2>1. rate.last \in Int /\ rate.cooldown \in Nat
    BY <1>5 DEF RateState
  <2>2. rate.last + Interval <= now + wait
    BY <1>3, <1>4, <1>5, <2>1
  <2> QED BY <1>1, <1>3, <1>4, <1>5, <1>6, <1>7, <2>1, <2>2 DEF RateIsMine
<1>10. rate'.last <= now' /\ CountersExact'
  BY <1>1, <1>7 DEF IInv, CountersExact
<1> QED BY <1>6, <1>8, <1>9, <1>10, SoloStep

LEMMA FenceStep ==
    ASSUME IInv, TypeOK', NEW p \in Proc, Fence(p)
    PROVE  IInv'
<1> USE SettingAssumption, PaceAssumption
<1>1. /\ Awake(p) /\ lease.owner = p
      /\ lease' = [lease EXCEPT !.expires = now + FetchTTL(p)]
      /\ Goto(p, "gated", now + StepTime)
      /\ UNCHANGED <<now, rate, limited>>
  BY DEF Fence, ghost
<1>2. \A q \in Proc \ {p} : pc[q] = "idle"
  BY <1>1, OneActive DEF Awake
<1>3. FetchTTL(p) \in Nat /\ FetchTTL(p) >= RequestTimeout + Slack
  BY TTLFact, 0 \in Nat
<1>4. /\ pc'[p] = "gated" /\ due'[p] = now + StepTime
      /\ lease'.owner = p /\ lease'.expires = now + FetchTTL(p) /\ now \in Nat
  BY <1>1 DEF Goto, IInv, TypeOK
<1>5. LeaseCovers(p)'
  BY <1>1, <1>3, <1>4 DEF LeaseCovers
<1>6. rate.last + Interval <= now /\ rate.cooldown <= now
  <2>1. CASE pc[p] = "gated"
    BY <2>1 DEF IInv, RateIsMine
  <2>2. CASE pc[p] = "sleeping" /\ now >= due[p] - StepTime
    BY <2>2 DEF IInv, RateIsMine, TypeOK, RateState
  <2> QED BY <1>1, <2>1, <2>2 DEF Awake
<1>7. RateIsMine(p)'
  BY <1>1, <1>4, <1>6 DEF RateIsMine
<1> QED BY <1>1, <1>2, <1>5, <1>7, GotoStep DEF PC

LEMMA StartFetchStep ==
    ASSUME IInv, TypeOK', NEW p \in Proc, StartFetch(p)
    PROVE  IInv'
<1> USE SettingAssumption, PaceAssumption
<1>1. /\ pc[p] = "gated"
      /\ Goto(p, "inflight", now + RequestTimeout + StepTime)
      /\ UNCHANGED <<now, lease, rate, limited>>
  BY DEF StartFetch
<1>2. \A q \in Proc \ {p} : pc[q] = "idle"
  BY <1>1, OneActive
<1>3. /\ pc'[p] = "inflight" /\ due'[p] = now + RequestTimeout + StepTime
      /\ now \in Nat /\ due[p] \in Nat /\ lease.expires \in Nat
  BY <1>1 DEF Goto, IInv, TypeOK
<1>4. LeaseCovers(p)'
  BY <1>1, <1>3 DEF LeaseCovers, IInv
<1>5. RateIsMine(p)'
  BY <1>1, <1>3 DEF RateIsMine, IInv
<1> QED BY <1>1, <1>2, <1>4, <1>5, GotoStep DEF PC

LEMMA AnsweredStep ==
    ASSUME IInv, TypeOK', NEW p \in Proc, Answered(p)
    PROVE  IInv'
<1> USE SettingAssumption, PaceAssumption
<1>1. /\ pc[p] = "inflight"
      /\ sampled' = [sampled EXCEPT ![p] = now]
      /\ snap' = [snap EXCEPT ![p] = rate]
      /\ Goto(p, "settling", now + StepTime)
      /\ UNCHANGED <<now, lease, rate, limited>>
  BY DEF Answered, ghost
<1>2. \A q \in Proc \ {p} : pc[q] = "idle"
  BY <1>1, OneActive
<1>3. /\ pc'[p] = "settling" /\ due'[p] = now + StepTime
      /\ sampled'[p] = now /\ snap'[p] = rate
      /\ now \in Nat /\ due[p] \in Nat /\ lease.expires \in Nat
  BY <1>1 DEF Goto, IInv, TypeOK
<1>4. LeaseCovers(p)'
  BY <1>1, <1>3 DEF LeaseCovers, IInv
<1>5. RateIsMine(p)'
  BY <1>1, <1>3 DEF RateIsMine, IInv
<1> QED BY <1>1, <1>2, <1>4, <1>5, GotoStep DEF PC

\* An answer is written over the very row it was computed from: what is
\* left to show for each kind of answer is the arithmetic of its counters.
LEMMA SettleStep ==
    ASSUME IInv, TypeOK', NEW p \in Proc, NEW written, Settle(p, written),
           written.last = sampled[p], CountersExact'
    PROVE  IInv'
<1> USE SettingAssumption, PaceAssumption
<1>1. /\ pc[p] = "settling" /\ rate' = written
      /\ Goto(p, "releasing", now + StepTime)
      /\ UNCHANGED <<now, lease>>
  BY DEF Settle
<1>2. \A q \in Proc \ {p} : pc[q] = "idle"
  BY <1>1, OneActive
<1>3. /\ pc'[p] = "releasing" /\ due'[p] = now + StepTime
      /\ \A q \in Proc \ {p} : pc'[q] = "idle"
      /\ now \in Nat /\ due[p] \in Nat /\ lease.expires \in Nat
  BY <1>1, <1>2 DEF Goto, IInv, TypeOK
<1>4. LeaseCovers(p)'
  BY <1>1, <1>3 DEF LeaseCovers, IInv
<1>5. RateIsMine(p)'
  BY <1>3 DEF RateIsMine
<1>6. rate'.last <= now'
  BY <1>1 DEF IInv, RateIsMine
<1> QED BY <1>3, <1>4, <1>5, <1>6, SoloStep

LEMMA AfterStep ==
    ASSUME IInv, TypeOK', NEW p \in Proc,
           AfterSuccess(p) \/ AfterFailure(p) \/ AfterRateLimit(p)
    PROVE  IInv'
<1>1. pc[p] = "settling"
  BY DEF AfterSuccess, AfterFailure, AfterRateLimit, Settle
<1>2. snap[p] = rate /\ rate \in RateState /\ sampled[p] \in Nat /\ limited \in Nat
  BY <1>1 DEF IInv, RateIsMine, TypeOK
<1>3. CASE AfterSuccess(p)
  <2>1. Settle(p, Succeeded(snap[p], sampled[p])) /\ limited' = limited
    BY <1>3 DEF AfterSuccess
  <2>2. rate' = Succeeded(rate, sampled[p])
    BY <1>2, <2>1 DEF Settle
  <2>3. CountersExact'
    BY <1>2, <2>1, <2>2 DEF Succeeded, IInv, CountersExact, RateState
  <2>4. Succeeded(snap[p], sampled[p]).last = sampled[p]
    BY DEF Succeeded
  <2> QED BY <2>1, <2>3, <2>4, SettleStep
<1>4. CASE AfterFailure(p)
  <2>1. Settle(p, Failed(snap[p], sampled[p])) /\ limited' = limited
    BY <1>4 DEF AfterFailure
  <2>2. rate' = Failed(rate, sampled[p])
    BY <1>2, <2>1 DEF Settle
  <2>3. CountersExact'
    BY <1>2, <2>1, <2>2 DEF Failed, IInv, CountersExact, RateState
  <2>4. Failed(snap[p], sampled[p]).last = sampled[p]
    BY <1>2 DEF Failed, RateState
  <2> QED BY <2>1, <2>3, <2>4, SettleStep
<1>5. CASE AfterRateLimit(p)
  <2>1. PICK status \in {429, 503}, retryAfter \in Nat, jitter \in Nat :
          Settle(p, RateLimited(snap[p], sampled[p], status, retryAfter, jitter))
    BY <1>5, SettingAssumption DEF AfterRateLimit
  <2>2. limited' = limited + 1
    BY <1>5 DEF AfterRateLimit
  <2>3. rate' = RateLimited(rate, sampled[p], status, retryAfter, jitter)
    BY <1>2, <2>1 DEF Settle
  <2>4. CountersExact'
    BY <1>2, <2>2, <2>3 DEF RateLimited, IInv, CountersExact, RateState
  <2>5. RateLimited(snap[p], sampled[p], status, retryAfter, jitter).last = sampled[p]
    BY DEF RateLimited
  <2> QED BY <2>1, <2>4, <2>5, SettleStep
<1> QED BY <1>3, <1>4, <1>5

\* The clock waits for every running process.
LEMMA TickStep ==
    ASSUME IInv, TypeOK', Tick
    PROVE  IInv'
<1>1. /\ now' = now + 1
      /\ UNCHANGED <<lease, rate, pc, due, sampled, snap, limited>>
      /\ \A p \in Proc : pc[p] # "idle" => now < due[p]
  BY DEF Tick, SuspendedTick, local, ghost
<1>2. now \in Nat /\ due \in [Proc -> Nat] /\ sampled \in [Proc -> Nat]
      /\ rate.last \in Int /\ rate.cooldown \in Nat
  BY DEF IInv, TypeOK, RateState
<1>3. ASSUME NEW p \in Proc, pc'[p] # "idle" PROVE LeaseCovers(p)'
  <2>1. LeaseCovers(p) /\ now < due[p] /\ due[p] \in Nat
    BY <1>1, <1>2, <1>3 DEF IInv
  <2>2. Wait(snap[p], sampled[p])' = Wait(snap[p], sampled[p])
    BY <1>1 DEF Wait, MaxOf
  <2> QED BY <1>1, <1>2, <2>1, <2>2 DEF LeaseCovers
<1>4. ASSUME NEW p \in Proc PROVE RateIsMine(p)'
  <2>1. RateIsMine(p) /\ sampled[p] \in Nat
    BY <1>2 DEF IInv
  <2> QED BY <1>1, <1>2, <2>1, SettingAssumption DEF RateIsMine
<1>5. rate'.last <= now' /\ CountersExact'
  BY <1>1, <1>2 DEF IInv, CountersExact
<1> QED BY <1>3, <1>4, <1>5 DEF IInv

LEMMA InvStep == IInv /\ [Next]_vars => IInv'
<1> SUFFICES ASSUME IInv, [Next]_vars PROVE IInv'
  OBVIOUS
<1>1. TypeOK'
  BY TypeStep, NextIsStall DEF IInv
<1>2. ASSUME NEW p \in Proc,
             RenewRefused(p) \/ RecordStartFails(p) \/ FenceLost(p) \/ Abandon(p)
                \/ Release(p) \/ Crash(p) \/ Interrupt(p)
      PROVE  IInv'
  <2>1. pc[p] # "idle" /\ Leave(p) /\ UNCHANGED <<now, rate, limited>>
    BY <1>2 DEF RenewRefused, RecordStartFails, FenceLost, Abandon, Release,
                Crash, Interrupt, Awake, ghost
  <2> QED BY <1>1, <2>1, LeaveStep
<1>3. ASSUME NEW p \in Proc, Proceed(p) PROVE IInv'
  BY <1>1, <1>2, <1>3, ReadStep, RenewStep, RecordStartStep, FenceStep,
     StartFetchStep, AnsweredStep, AfterStep DEF Proceed
<1>4. CASE UNCHANGED vars
  BY <1>4 DEF IInv, TypeOK, LeaseCovers, RateIsMine, CountersExact, Wait, MaxOf, vars
<1>5. ASSUME NEW p \in Proc, Held(p) PROVE IInv'
  BY <1>4, <1>5 DEF Held
<1>6. CASE Tick
  BY <1>1, <1>6, TickStep
<1>7. ASSUME NEW p \in Proc, Acquire(p) PROVE IInv'
  BY <1>1, <1>7, AcquireStep
<1> QED BY <1>2, <1>3, <1>4, <1>5, <1>6, <1>7 DEF Next, Step

-----------------------------------------------------------------------------
(* What follows for every behaviour.                                       *)

LEMMA Invariance == Spec => []IInv
  BY InitInv, InvStep, PTL DEF Spec

\* From acquire_lease to release_lease no two processes are past the lease:
\* the TTLs outlast every sleep, fetch and write they have to cover.
THEOREM SingleFlightHolds == Spec => []SingleFlight
<1>1. IInv => SingleFlight
  BY OneActive DEF SingleFlight
<1> QED BY <1>1, Invariance, PTL

\* No rate-limit answer is lost or counted twice, although the counters are
\* read in one transaction and written in another.
THEOREM CountersHold == Spec => []CountersExact
<1>1. IInv => CountersExact
  BY DEF IInv
<1> QED BY <1>1, Invariance, PTL

-----------------------------------------------------------------------------
(* Refinement.                                                             *)

Flying == {p \in Proc : pc[p] = "inflight"}

\* A step after which the same requests are on the wire and the accounts
\* are the same is invisible to arXiv.
LEMMA Invisible ==
    ASSUME UNCHANGED <<now, rate>>, Flying' = Flying
    PROVE  UNCHANGED PU!vars
  BY DEF PU!vars, Flying

\* A process that moves between two labels off the wire.
LEMMA QuietGoto ==
    ASSUME IInv, NEW p \in Proc, NEW label, label # "inflight", pc[p] # "inflight",
           pc' = [pc EXCEPT ![p] = label]
    PROVE  Flying' = Flying
  BY DEF IInv, TypeOK, Flying

\* The process on the wire leaves it.
LEMMA LandStep ==
    ASSUME IInv, NEW p \in Proc, NEW label, label # "inflight", pc[p] = "inflight",
           pc' = [pc EXCEPT ![p] = label], UNCHANGED <<now, rate>>
    PROVE  PU!Next
<1>1. Flying = {p}
  BY OneActive DEF Flying
<1>2. Flying' = {}
  BY <1>1 DEF Flying, IInv, TypeOK
<1> QED BY <1>1, <1>2 DEF PU!Next, PU!Land, Flying

\* Leaving the protocol is seen at most as the end of a request.
LEMMA LeaveRefines ==
    ASSUME IInv, NEW p \in Proc, Leave(p), UNCHANGED <<now, rate>>
    PROVE  [PU!Next]_PU!vars
<1>1. pc' = [pc EXCEPT ![p] = "idle"]
  BY DEF Leave
<1>2. CASE pc[p] = "inflight"
  BY <1>1, <1>2, LandStep
<1>3. CASE pc[p] # "inflight"
  BY <1>1, <1>3, QuietGoto, Invisible
<1> QED BY <1>2, <1>3

LEMMA GotoRefines ==
    ASSUME IInv, NEW p \in Proc, NEW label, NEW by, Goto(p, label, by),
           pc[p] # "inflight", label # "inflight", UNCHANGED <<now, rate>>
    PROVE  UNCHANGED PU!vars
  BY QuietGoto, Invisible DEF Goto

\* The planned start is not part of what arXiv is promised.
LEMMA RecordRefines ==
    ASSUME IInv, NEW p \in Proc, RecordStart(p)
    PROVE  UNCHANGED PU!vars
<1>1. /\ pc[p] = "renewed" /\ now' = now
      /\ rate' = [snap[p] EXCEPT !.started = sampled[p] + Wait(snap[p], sampled[p])]
      /\ pc' = [pc EXCEPT ![p] = "sleeping"]
  BY DEF RecordStart, Goto
<1>2. snap[p] = rate /\ rate \in RateState
  BY <1>1 DEF IInv, RateIsMine, TypeOK
<1>3. rate'.last = rate.last /\ rate'.cooldown = rate.cooldown
  BY <1>1, <1>2 DEF RateState
<1>4. Flying' = Flying
  BY <1>1, QuietGoto
<1> QED BY <1>1, <1>3, <1>4 DEF PU!vars, Flying

LEMMA StartRefines ==
    ASSUME IInv, NEW p \in Proc, StartFetch(p)
    PROVE  PU!Next
<1>1. /\ pc[p] = "gated" /\ pc' = [pc EXCEPT ![p] = "inflight"]
      /\ UNCHANGED <<now, rate>>
  BY DEF StartFetch, Goto
<1>2. rate.last + Interval <= now /\ rate.cooldown <= now
  BY <1>1 DEF IInv, RateIsMine
<1>3. now \in Nat /\ rate.last \in Int /\ rate.cooldown \in Nat
  BY DEF IInv, TypeOK, RateState
<1>4. Flying = {}
  BY <1>1, OneActive DEF Flying
<1>5. Flying' = {p}
  BY <1>1, <1>4 DEF Flying, IInv, TypeOK
<1>6. PU!Start(p)
  BY <1>1, <1>2, <1>3, <1>4, <1>5 DEF PU!Start, Flying
<1> QED BY <1>6 DEF PU!Next

LEMMA SettleRefines ==
    ASSUME IInv, NEW p \in Proc, NEW written, Settle(p, written),
           written.last = sampled[p]
    PROVE  PU!Next
<1>1. /\ pc[p] = "settling" /\ rate' = written /\ now' = now
      /\ pc' = [pc EXCEPT ![p] = "releasing"]
  BY DEF Settle, Goto
<1>2. /\ sampled[p] <= now /\ rate.last <= sampled[p] /\ rate.cooldown <= now
  BY <1>1 DEF IInv, RateIsMine
<1>3. Flying = {}
  BY <1>1, OneActive DEF Flying
<1>4. Flying' = Flying
  BY <1>1, QuietGoto
<1>5. PU!Account
  BY <1>1, <1>2, <1>3, <1>4 DEF PU!Account, Flying
<1> QED BY <1>5 DEF PU!Next

\* Every answer is accounted for at the time it was read.
LEMMA AfterWrites ==
    ASSUME IInv, NEW p \in Proc,
           AfterSuccess(p) \/ AfterFailure(p) \/ AfterRateLimit(p)
    PROVE  \E written : Settle(p, written) /\ written.last = sampled[p]
<1>1. snap[p] \in RateState
  BY DEF IInv, TypeOK
<1>2. CASE AfterSuccess(p)
  BY <1>2 DEF AfterSuccess, Succeeded
<1>3. CASE AfterFailure(p)
  <2>1. Failed(snap[p], sampled[p]).last = sampled[p]
    BY <1>1 DEF Failed, RateState
  <2> QED BY <1>3, <2>1 DEF AfterFailure
<1>4. CASE AfterRateLimit(p)
  <2>1. PICK status, retryAfter, jitter :
          Settle(p, RateLimited(snap[p], sampled[p], status, retryAfter, jitter))
    BY <1>4 DEF AfterRateLimit
  <2>2. RateLimited(snap[p], sampled[p], status, retryAfter, jitter).last = sampled[p]
    BY DEF RateLimited
  <2> QED BY <2>1, <2>2
<1> QED BY <1>2, <1>3, <1>4

LEMMA RefinedStep == IInv /\ [Next]_vars => [PU!Next]_PU!vars
<1> SUFFICES ASSUME IInv, [Next]_vars PROVE [PU!Next]_PU!vars
  OBVIOUS
<1>1. ASSUME NEW p \in Proc,
             RenewRefused(p) \/ RecordStartFails(p) \/ FenceLost(p) \/ Abandon(p)
                \/ Release(p) \/ Crash(p) \/ Interrupt(p)
      PROVE  [PU!Next]_PU!vars
  <2>1. Leave(p) /\ UNCHANGED <<now, rate>>
    BY <1>1 DEF RenewRefused, RecordStartFails, FenceLost, Abandon, Release,
                Crash, Interrupt
  <2> QED BY <2>1, LeaveRefines
<1>2. ASSUME NEW p \in Proc, Acquire(p) PROVE UNCHANGED PU!vars
  BY <1>2, GotoRefines DEF Acquire
<1>3. ASSUME NEW p \in Proc, ReadRateState(p) PROVE UNCHANGED PU!vars
  BY <1>3, GotoRefines DEF ReadRateState
<1>4. ASSUME NEW p \in Proc, Renew(p) PROVE UNCHANGED PU!vars
  BY <1>4, GotoRefines DEF Renew
<1>5. ASSUME NEW p \in Proc, Fence(p) PROVE UNCHANGED PU!vars
  BY <1>5, GotoRefines DEF Fence, Awake
<1>6. ASSUME NEW p \in Proc, Answered(p) PROVE PU!Next
  BY <1>6, LandStep DEF Answered, Goto
<1>7. ASSUME NEW p \in Proc, Proceed(p) PROVE [PU!Next]_PU!vars
  BY <1>1, <1>3, <1>4, <1>5, <1>6, <1>7, RecordRefines, StartRefines, AfterWrites,
     SettleRefines
  DEF Proceed
<1>8. CASE UNCHANGED vars
  BY <1>8 DEF vars, PU!vars
<1>9. ASSUME NEW p \in Proc, Held(p) PROVE UNCHANGED PU!vars
  BY <1>8, <1>9 DEF Held, vars, PU!vars
<1>10. CASE Tick
  BY <1>10 DEF Tick, SuspendedTick, PU!Next, PU!Advance
<1> QED BY <1>1, <1>2, <1>7, <1>8, <1>9, <1>10 DEF Next, Step

LEMMA RefinedInit == Init => PU!Init
  BY DEF Init, PU!Init, FreshRate, Never

\* Whatever processes die, are interrupted or lose their lease: one request
\* at a time, Interval after the last recorded answer, never in a cooldown,
\* and a cooldown that runs is not shortened.
THEOREM Refinement == Spec => Paced
<1>1. PU!Init /\ [][PU!Next]_PU!vars => PU!Spec
  BY DEF PU!Spec
<1> QED BY RefinedInit, RefinedStep, Invariance, PTL DEF Spec, Paced, PU!Spec

-----------------------------------------------------------------------------
(* Spacing across a crash.  The dead process recorded no answer, so it is  *)
(* its lease that keeps the next request away: this needs a lease that     *)
(* outlasts the interval, and a token that nobody resumes.                 *)

\* Why the latest start is an interval away from the next one: an answer
\* was recorded since, the interval has passed, or a lease still runs.
SpacedBy ==
    \/ lastStart <= rate.last
    \/ lastStart + Interval <= now
    \/ /\ lease.owner = Gone \/ \E p \in Proc : pc[p] \in {"inflight", "settling"}
       /\ lastStart + Interval <= lease.expires

SInv ==
    /\ lastStart <= now
    /\ SpacedBy
    /\ \A p \in Proc : /\ pc[p] = "gated" => due[p] + Interval <= lease.expires
                       /\ pc[p] = "settling" => lastStart <= sampled[p]

\* A step off the wire, of a process that holds the lease or finds it free.
LEMMA SpacedLeave ==
    ASSUME IInv, SInv, IInv', Interruptible = {}, NEW p \in Proc,
           RenewRefused(p) \/ RecordStartFails(p) \/ FenceLost(p) \/ Abandon(p)
              \/ Release(p) \/ Crash(p) \/ Interrupt(p)
    PROVE  SInv'
<1>1. /\ pc[p] # "idle" /\ UNCHANGED <<now, rate, lastStart>>
      /\ pc' = [pc EXCEPT ![p] = "idle"]
  BY DEF RenewRefused, RecordStartFails, FenceLost, Abandon, Release, Crash,
         Interrupt, Awake, Leave, ghost
<1>2. lease.owner = p /\ \A q \in Proc \ {p} : pc[q] = "idle"
  BY <1>1, OneActive DEF IInv, LeaseCovers
<1>3. \A q \in Proc : pc'[q] \notin {"gated", "settling"}
  BY <1>1, <1>2 DEF IInv, TypeOK
<1>4. SpacedBy'
  <2>1. CASE lastStart <= rate.last \/ lastStart + Interval <= now
    BY <1>1, <2>1 DEF SpacedBy
  <2>2. CASE /\ pc[p] \in {"inflight", "settling"}
             /\ lastStart + Interval <= lease.expires
    <3>1. Crash(p)
      BY <2>2 DEF RenewRefused, RecordStartFails, FenceLost, Abandon, Release,
                  Interrupt, Awake
    <3>2. lease'.owner = Gone /\ lease'.expires = lease.expires
      BY <1>2, <3>1 DEF Crash, IInv, TypeOK
    <3> QED BY <1>1, <2>2, <3>2 DEF SpacedBy
  <2> QED BY <1>2, <2>1, <2>2, ActorAssumption DEF SInv, SpacedBy
<1> QED BY <1>1, <1>3, <1>4 DEF SInv

LEMMA SpacedStep ==
    ASSUME Interruptible = {},
           Interval + StepTime <= MaxOf(LeaseTimeout, RequestTimeout + Slack),
           IInv, SInv, IInv', [Next]_vars
    PROVE  SInv' /\ (lastStart' # lastStart => lastStart' >= lastStart + Interval)
<1> USE SettingAssumption
<1>0. /\ now \in Nat /\ lastStart \in Int /\ rate.last \in Int /\ lease.expires \in Nat
      /\ rate'.last \in Int /\ due \in [Proc -> Nat] /\ sampled \in [Proc -> Nat]
  BY DEF IInv, TypeOK, RateState
<1>1. ASSUME NEW p \in Proc,
             RenewRefused(p) \/ RecordStartFails(p) \/ FenceLost(p) \/ Abandon(p)
                \/ Release(p) \/ Crash(p) \/ Interrupt(p)
      PROVE  SInv' /\ lastStart' = lastStart
  <2>1. lastStart' = lastStart
    BY <1>1 DEF RenewRefused, RecordStartFails, FenceLost, Abandon, Release, Crash,
                Interrupt, ghost
  <2> QED BY <1>1, <2>1, SpacedLeave
<1>2. ASSUME NEW p \in Proc, Acquire(p) PROVE SInv' /\ lastStart' = lastStart
  <2>1. /\ \A q \in Proc : pc[q] = "idle" /\ pc'[q] \notin {"gated", "settling"}
        /\ lease.owner = Gone => lease.expires <= now
        /\ UNCHANGED <<now, rate, lastStart>>
    BY <1>2, NobodyInside, ActorAssumption
    DEF Acquire, CanAcquire, Goto, IInv, TypeOK
  <2>2. lastStart <= rate.last \/ lastStart + Interval <= now
    BY <1>0, <2>1 DEF SInv, SpacedBy
  <2> QED BY <2>1, <2>2 DEF SInv, SpacedBy
<1>3. ASSUME NEW p \in Proc, ReadRateState(p) \/ Renew(p) \/ RecordStart(p)
      PROVE  SInv' /\ lastStart' = lastStart
  <2>1. /\ pc[p] \in {"acquired", "checked", "renewed"}
        /\ UNCHANGED <<now, lastStart>>
        /\ \E label \in {"checked", "releasing", "renewed", "sleeping"} :
              pc' = [pc EXCEPT ![p] = label]
        /\ rate' = rate \/ RecordStart(p)
    BY <1>3 DEF ReadRateState, Renew, RecordStart, Goto, ghost
  <2>2. lease.owner = p /\ \A q \in Proc \ {p} : pc[q] = "idle"
    BY <2>1, OneActive DEF IInv, LeaseCovers
  <2>3. \A q \in Proc : pc'[q] \notin {"gated", "settling"}
    BY <2>1, <2>2 DEF IInv, TypeOK
  <2>4. lastStart <= rate.last \/ lastStart + Interval <= now
    BY <2>1, <2>2, ActorAssumption DEF SInv, SpacedBy
  <2>5. rate'.last = rate.last
    BY <2>1 DEF RecordStart, IInv, TypeOK, RateIsMine, RateState
  <2> QED BY <2>1, <2>3, <2>4, <2>5 DEF SInv, SpacedBy
<1>4. ASSUME NEW p \in Proc, Fence(p) PROVE SInv' /\ lastStart' = lastStart
  <2>1. /\ pc[p] \in {"sleeping", "gated"} /\ lease.owner = p
        /\ lease' = [lease EXCEPT !.expires = now + FetchTTL(p)]
        /\ pc' = [pc EXCEPT ![p] = "gated"]
        /\ due' = [due EXCEPT ![p] = now + StepTime]
        /\ UNCHANGED <<now, rate, lastStart>>
    BY <1>4 DEF Fence, Awake, Goto, ghost
  <2>2. \A q \in Proc \ {p} : pc[q] = "idle"
    BY <2>1, OneActive
  <2>3. lastStart <= rate.last \/ lastStart + Interval <= now
    BY <2>1, <2>2, ActorAssumption DEF SInv, SpacedBy
  <2>4. /\ FetchTTL(p) \in Nat /\ FetchTTL(p) >= LeaseTimeout
        /\ FetchTTL(p) >= RequestTimeout + Slack
    BY TTLFact, 0 \in Nat
  <2>5. FetchTTL(p) >= Interval + StepTime
    BY <2>4 DEF MaxOf
  <2>6. \A q \in Proc : /\ pc'[q] = "gated" => due'[q] + Interval <= lease'.expires
                        /\ pc'[q] # "settling"
    BY <1>0, <2>1, <2>2, <2>4, <2>5 DEF IInv, TypeOK
  <2> QED BY <2>1, <2>3, <2>6 DEF SInv, SpacedBy
<1>5. ASSUME NEW p \in Proc, StartFetch(p)
      PROVE  SInv' /\ lastStart' >= lastStart + Interval
  <2>1. /\ pc[p] = "gated" /\ pc' = [pc EXCEPT ![p] = "inflight"]
        /\ lastStart' = now /\ UNCHANGED <<now, lease, rate>>
    BY <1>5 DEF StartFetch, Goto
  <2>2. /\ lease.owner = p /\ now <= due[p] /\ rate.last + Interval <= now
        /\ \A q \in Proc \ {p} : pc[q] = "idle"
    BY <2>1, OneActive DEF IInv, LeaseCovers, RateIsMine
  <2>3. now + Interval <= lease.expires
    BY <1>0, <2>1, <2>2 DEF SInv
  <2>4. /\ pc'[p] = "inflight" /\ \A q \in Proc : pc'[q] \notin {"gated", "settling"}
    BY <2>1, <2>2 DEF IInv, TypeOK
  <2>5. lastStart + Interval <= now
    BY <1>0, <2>1, <2>2, ActorAssumption DEF SInv, SpacedBy
  <2> QED BY <1>0, <2>1, <2>3, <2>4, <2>5 DEF SInv, SpacedBy
<1>6. ASSUME NEW p \in Proc, Answered(p) PROVE SInv' /\ lastStart' = lastStart
  <2>1. /\ pc[p] = "inflight" /\ pc' = [pc EXCEPT ![p] = "settling"]
        /\ sampled' = [sampled EXCEPT ![p] = now]
        /\ UNCHANGED <<now, lease, rate, lastStart>>
    BY <1>6 DEF Answered, Goto, ghost
  <2>2. \A q \in Proc \ {p} : pc[q] = "idle"
    BY <2>1, OneActive
  <2>3. /\ pc'[p] = "settling" /\ sampled'[p] = now
        /\ \A q \in Proc \ {p} : pc'[q] = "idle"
    BY <2>1, <2>2 DEF IInv, TypeOK
  <2> QED BY <2>1, <2>3 DEF SInv, SpacedBy
<1>7. ASSUME NEW p \in Proc, NEW written, Settle(p, written),
             written.last = sampled[p]
      PROVE  SInv' /\ lastStart' = lastStart
  <2>1. /\ pc[p] = "settling" /\ pc' = [pc EXCEPT ![p] = "releasing"]
        /\ rate' = written /\ UNCHANGED <<now, lease, lastStart>>
    BY <1>7 DEF Settle, Goto
  <2>2. \A q \in Proc : pc'[q] \notin {"gated", "settling"}
    BY <2>1, OneActive DEF IInv, TypeOK
  <2>3. lastStart <= rate'.last
    BY <1>7, <2>1 DEF SInv
  <2> QED BY <2>1, <2>2, <2>3 DEF SInv, SpacedBy
<1>8. CASE Tick
  <2>1. now' = now + 1 /\ UNCHANGED <<lease, rate, pc, due, sampled, lastStart>>
    BY <1>8 DEF Tick, SuspendedTick, local, ghost
  <2> QED BY <1>0, <2>1 DEF SInv, SpacedBy
<1>9. CASE UNCHANGED vars
  BY <1>9 DEF SInv, SpacedBy, vars
<1>10. ASSUME NEW p \in Proc,
              AfterSuccess(p) \/ AfterFailure(p) \/ AfterRateLimit(p)
       PROVE  SInv' /\ lastStart' = lastStart
  <2>1. PICK written : Settle(p, written) /\ written.last = sampled[p]
    BY <1>10, AfterWrites
  <2> QED BY <1>7, <2>1
<1>11. lastStart' = lastStart \/ lastStart' >= lastStart + Interval
  BY <1>1, <1>2, <1>3, <1>4, <1>5, <1>6, <1>8, <1>9, <1>10
  DEF Next, Step, Proceed, Held, vars, Tick, SuspendedTick, ghost
<1>12. SInv'
  BY <1>1, <1>2, <1>3, <1>4, <1>5, <1>6, <1>8, <1>9, <1>10
  DEF Next, Step, Proceed, Held
<1> QED BY <1>11, <1>12

\* Requests start Interval apart even when their senders die, provided the
\* lease of a fetch is longer than the interval and no harvest is resumed
\* under the token of an interrupted one (the runs show it fails otherwise).
THEOREM SpacingHolds ==
    ASSUME Interruptible = {},
           Interval + StepTime <= MaxOf(LeaseTimeout, RequestTimeout + Slack)
    PROVE  Spec => StartsSpaced
<1>1. Init => SInv
  BY SettingAssumption DEF Init, SInv, SpacedBy, FreshRate, Never
<1>2. IInv /\ IInv' /\ SInv /\ [Next]_vars => SInv'
  BY SpacedStep
<1>3. IInv /\ IInv' /\ SInv /\ [Next]_vars
         => [lastStart' # lastStart => lastStart' >= lastStart + Interval]_vars
  BY SpacedStep
<1> QED BY <1>1, <1>2, <1>3, Invariance, PTL DEF Spec, StartsSpaced

-----------------------------------------------------------------------------
(* Suspended processes.                                                    *)

\* Of all that IInv says of the lease this is left when processes may sleep
\* for any time: its owner is the one who acquired it last. An expired row
\* may be taken, but not given back to whom it was taken from.
LastOwner ==
    /\ TypeOK
    /\ \A p \in Proc : lease.owner = p => unbroken[p]

\* Whoever keeps the owner, or leaves the row to nobody, keeps LastOwner.
LEMMA SameOwner ==
    ASSUME LastOwner, TypeOK', UNCHANGED unbroken,
           lease'.owner \in {lease.owner, NoOwner, Gone}
    PROVE  LastOwner'
  BY ActorAssumption DEF LastOwner

\* The strict renewals: they succeed for the owner only.
LEMMA RenewedUnbroken ==
    ASSUME LastOwner, NEW p \in Proc, Renew(p) \/ Fence(p)
    PROVE  /\ unbroken[p]
           /\ UNCHANGED unbroken
           /\ lease'.owner = lease.owner
           /\ \A q \in Proc \ {p} : pc'[q] = pc[q]
<1>1. lease.owner = p /\ lease \in [owner : Proc \cup {NoOwner, Gone}, expires : Nat]
  BY DEF Renew, Fence, LastOwner, TypeOK
<1>2. PICK expires : lease' = [lease EXCEPT !.expires = expires]
  BY DEF Renew, Fence
<1>3. lease'.owner = lease.owner
  BY <1>1, <1>2
<1>4. \A q \in Proc \ {p} : pc'[q] = pc[q]
  BY DEF Renew, Fence, Goto, LastOwner, TypeOK
<1> QED BY <1>1, <1>3, <1>4 DEF Renew, Fence, ghost, LastOwner

\* What else a process does: it acquires, gives back, dies, or leaves the row
\* alone, and passes no renewal.
LEMMA OthersPassNothing ==
    ASSUME LastOwner, TypeOK', NEW p \in Proc,
           \/ Acquire(p) \/ Held(p) \/ ReadRateState(p) \/ RenewRefused(p)
           \/ RecordStart(p) \/ RecordStartFails(p) \/ FenceLost(p) \/ Abandon(p)
           \/ StartFetch(p) \/ Answered(p) \/ AfterSuccess(p) \/ AfterFailure(p)
           \/ AfterRateLimit(p) \/ Release(p) \/ Crash(p) \/ Interrupt(p)
    PROVE  /\ LastOwner'
           /\ \A q \in Proc : pc[q] \in {"checked", "sleeping"} =>
                                 pc'[q] \notin {"renewed", "gated"}
<1>a. pc \in [Proc -> PC] /\ lease \in [owner : Proc \cup {NoOwner, Gone}, expires : Nat]
  BY DEF LastOwner, TypeOK
<1>1. ASSUME NEW label \in PC \ {"renewed", "gated"}, pc' = [pc EXCEPT ![p] = label]
      PROVE  \A q \in Proc : pc[q] \in {"checked", "sleeping"} =>
                                pc'[q] \notin {"renewed", "gated"}
  BY <1>1, <1>a
<1>2. CASE Acquire(p)
  <2>1. lease'.owner = p /\ unbroken' = [q \in Proc |-> q = p]
    BY <1>2 DEF Acquire
  <2>2. LastOwner'
    BY <2>1 DEF LastOwner
  <2> QED BY <1>1, <1>2, <2>2 DEF Acquire, Goto, PC
<1>3. CASE Held(p)
  <2>1. LastOwner'
    BY <1>3, SameOwner DEF Held, vars
  <2> QED BY <1>3, <2>1, <1>a DEF Held, vars, PC
<1>4. CASE ReadRateState(p) \/ RecordStart(p)
  <2>1. UNCHANGED <<lease, unbroken>>
    BY <1>4 DEF ReadRateState, RecordStart, ghost
  <2>2. LastOwner'
    BY <2>1, SameOwner
  <2>3. PICK label \in {"releasing", "checked", "sleeping"} : pc' = [pc EXCEPT ![p] = label]
    BY <1>4 DEF ReadRateState, RecordStart, Goto
  <2> QED BY <1>1, <2>2, <2>3 DEF PC
<1>5. CASE RenewRefused(p) \/ FenceLost(p) \/ Interrupt(p)
  <2>1. UNCHANGED <<lease, unbroken>> /\ pc' = [pc EXCEPT ![p] = "idle"]
    BY <1>5 DEF RenewRefused, FenceLost, Interrupt, Leave, ghost
  <2>2. LastOwner'
    BY <2>1, SameOwner
  <2> QED BY <1>1, <2>1, <2>2 DEF PC
<1>6. CASE RecordStartFails(p) \/ Abandon(p) \/ Release(p)
  <2>1. /\ UNCHANGED unbroken /\ pc' = [pc EXCEPT ![p] = "idle"]
        /\ lease'.owner \in {lease.owner, NoOwner}
    BY <1>6 DEF RecordStartFails, Abandon, Release, ReleasedBy, Free, Leave, ghost
  <2>2. LastOwner'
    BY <2>1, SameOwner
  <2> QED BY <1>1, <2>1, <2>2 DEF PC
<1>7. CASE StartFetch(p) \/ Answered(p)
  <2>1. UNCHANGED <<lease, unbroken>>
    BY <1>7 DEF StartFetch, Answered, ghost
  <2>2. PICK label \in {"inflight", "settling"} : pc' = [pc EXCEPT ![p] = label]
    BY <1>7 DEF StartFetch, Answered, Goto
  <2>3. LastOwner'
    BY <2>1, SameOwner
  <2> QED BY <1>1, <2>2, <2>3 DEF PC
<1>8. CASE AfterSuccess(p) \/ AfterFailure(p) \/ AfterRateLimit(p)
  <2>1. \E written : Settle(p, written)
    BY <1>8 DEF AfterSuccess, AfterFailure, AfterRateLimit
  <2>2. UNCHANGED <<lease, unbroken>> /\ pc' = [pc EXCEPT ![p] = "releasing"]
    BY <2>1 DEF Settle, Goto
  <2>3. LastOwner'
    BY <2>2, SameOwner
  <2> QED BY <1>1, <2>2, <2>3 DEF PC
<1>9. CASE Crash(p)
  <2>1. /\ UNCHANGED unbroken /\ pc' = [pc EXCEPT ![p] = "idle"]
        /\ lease' = IF lease.owner = p THEN [lease EXCEPT !.owner = Gone] ELSE lease
    BY <1>9 DEF Crash, Leave, ghost
  <2>2. lease'.owner \in {lease.owner, Gone}
    BY <2>1, <1>a
  <2>3. LastOwner'
    BY <2>1, <2>2, SameOwner
  <2> QED BY <1>1, <2>1, <2>3 DEF PC
<1> QED BY <1>2, <1>3, <1>4, <1>5, <1>6, <1>7, <1>8, <1>9

LEMMA LastOwnerStep ==
    LastOwner /\ [Step \/ SuspendedTick]_vars =>
        /\ LastOwner'
        /\ \A p \in Proc :
              pc[p] \in {"checked", "sleeping"} /\ pc'[p] \in {"renewed", "gated"}
                  => unbroken[p]
<1> SUFFICES ASSUME LastOwner, [Step \/ SuspendedTick]_vars
             PROVE  /\ LastOwner'
                    /\ \A p \in Proc :
                          pc[p] \in {"checked", "sleeping"} /\ pc'[p] \in {"renewed", "gated"}
                              => unbroken[p]
  OBVIOUS
<1>a. TypeOK'
  BY TypeStep DEF LastOwner
<1>1. CASE SuspendedTick \/ UNCHANGED vars
  <2>1. UNCHANGED <<lease, unbroken, pc>>
    BY <1>1 DEF SuspendedTick, ghost, vars
  <2>2. LastOwner'
    BY <1>a, <2>1, SameOwner
  <2> QED BY <2>1, <2>2
<1>2. ASSUME NEW p \in Proc, Renew(p) \/ Fence(p)
      PROVE  /\ LastOwner'
             /\ \A q \in Proc :
                   pc[q] \in {"checked", "sleeping"} /\ pc'[q] \in {"renewed", "gated"}
                       => unbroken[q]
  <2>1. /\ unbroken[p]
        /\ UNCHANGED unbroken
        /\ lease'.owner = lease.owner
        /\ \A q \in Proc \ {p} : pc'[q] = pc[q]
    BY <1>2, RenewedUnbroken
  <2>2. LastOwner'
    BY <1>a, <2>1, SameOwner
  <2> QED BY <2>1, <2>2
<1>3. CASE Step
  BY <1>3, <1>a, <1>2, OthersPassNothing DEF Step, Proceed
<1> QED BY <1>1, <1>3

\* A strict renewal that succeeds means that nobody else had the lease since
\* this process acquired it, also when it slept or was suspended beyond the
\* lease's time to live: renew_lease_if_owned looks at the owner, and a row
\* that was taken is not given back to its former owner.
THEOREM FenceIsContinuous == StallSpec => FenceMeansContinuity
<1>1. Init => LastOwner
  BY InitType, ActorAssumption DEF Init, LastOwner, Free
<1>2. LastOwner /\ [Step \/ SuspendedTick]_vars => LastOwner'
  BY LastOwnerStep
<1>3. LastOwner /\ [Step \/ SuspendedTick]_vars
         => [\A p \in Proc :
               pc[p] \in {"checked", "sleeping"} /\ pc'[p] \in {"renewed", "gated"}
                   => unbroken[p]]_vars
  BY LastOwnerStep
<1> QED BY <1>1, <1>2, <1>3, PTL DEF StallSpec, FenceMeansContinuity
====
