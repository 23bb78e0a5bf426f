---- MODULE QueueWork_proofs ----
(***************************************************************************)
(* Theorems about QueueWork, for any workers, items, keys and budgets.     *)
(*                                                                         *)
(* Unless a live process has been suspended past a TTL, a worker that is   *)
(* awake is alone with its item: the row is claimed by it, or the call     *)
(* behind it has given up (Lone, Apart).  So nobody else charges or claims *)
(* the row under its hands: what it has not paid yet it pays once (Fresh), *)
(* and after the reservation the gate keeps late joins out of the attempt  *)
(* (Closed), which leaves one request of each budget to be sent (Paid).    *)
(***************************************************************************)
EXTENDS QueueWork, TLAPS

Row == [status : Statuses, key : Key, kind : {"missing", "refresh"},
        by : Worker \cup {Nobody}, demand : BOOLEAN,
        attempts : 0 .. MaxAttempts, gate : BOOLEAN]

\* Where a worker can be in which round of its gates.
InRound(label, n) ==
    /\ label \in {"idle", "claimed", "asking"} => n = 0
    /\ label = "fence" => n \in {0, 2}
    /\ label \in {"recheck", "refence"} => n \in {1, 2}
    /\ label = "reserve" => n = 1
    /\ label = "deadline" => n \in {1, 2, 3}

\* No attempt is charged that was not made.
Charges ==
    \A r \in Item :
        /\ row[r].status = "absent" => row[r].attempts = 0
        /\ \A b \in Budget : charged[r][b] <= row[r].attempts

QueueType ==
    /\ row \in [Item -> Row]
    /\ first \in [Item -> [Budget -> 0 .. MaxAttempts + 1]]
    /\ charged \in [Item -> [Budget -> 0 .. MaxAttempts]]
    /\ Charges

LocalType ==
    /\ pc \in [Worker -> PC]
    /\ job \in [Worker -> Item \cup {NoItem}]
    /\ snap \in [Worker -> {"missing", "refresh"}]
    /\ round \in [Worker -> 0 .. 3]
    /\ \A w \in Worker : (job[w] = NoItem) <=> (pc[w] = "idle")
    /\ \A w \in Worker : InRound(pc[w], round[w])

SharedType ==
    /\ started \in [Budget -> 0 .. MaxRequests]
    /\ overdue \subseteq Timed
    /\ cache \in [Key -> {"none", "failed", "completed"}]
    /\ upstream \in Worker \cup {Nobody, Gone}
    /\ sent \in [Budget -> Nat]
    /\ steady \in BOOLEAN
    /\ crashes \in 0 .. MaxCrashes

TypeInv == QueueType /\ LocalType /\ SharedType

LeaseHeld(w) ==
    pc[w] \in {"fence", "recheck", "refence", "reserve", "deadline", "ready", "go",
               "inflight", "stored"}
        => upstream = w

Mine(w) == row[job[w]].status = "claimed" /\ row[job[w]].by = w

GivenUp(r) == row[r].status = "failed" /\ ~row[r].demand /\ Members(r) = {}

Awake(w) == pc[w] # "idle" /\ ~Asleep(w)

Lone(w) == Awake(w) => Mine(w) \/ GivenUp(job[w])

\* The budgets of the attempt have not been charged.
Unpaid(w) ==
    pc[w] \in {"claimed", "asking", "fence", "recheck", "refence", "reserve"} /\ round[w] # 2

Fresh(w) == Unpaid(w) /\ Mine(w) => \A b \in Budget : charged[job[w]][b] < row[job[w]].attempts

\* They have, and the request has not been sent.
Reserved(w) ==
    \/ pc[w] \in {"deadline", "ready", "go"}
    \/ pc[w] \in {"fence", "recheck", "refence"} /\ round[w] = 2

Closed(w) == Reserved(w) /\ Mine(w) => row[job[w]].gate

Paid(w) == Reserved(w) => \A b \in Active(job[w]) : sent[b] < started[b]

WorkerInv(w) == LeaseHeld(w) /\ Lone(w) /\ Fresh(w) /\ Closed(w) /\ Paid(w)

Apart(w, v) == Awake(w) /\ Awake(v) => job[w] # job[v]

SteadyInv ==
    /\ \A b \in Budget : sent[b] <= started[b]
    /\ \A w \in Worker : WorkerInv(w)
    /\ \A w, v \in Worker : w # v => Apart(w, v)

QueueInv == TypeInv /\ (steady => SteadyInv)

-----------------------------------------------------------------------------
(* Types.                                                                  *)

LEMMA TypeOKFollows == TypeInv => TypeOK
  BY DEF TypeInv, QueueType, LocalType, SharedType, TypeOK, Row

LEMMA Knows ==
    ASSUME TypeInv, NEW w \in Worker
    PROVE  /\ pc[w] \in PC /\ round[w] \in 0 .. 3 /\ InRound(pc[w], round[w])
           /\ snap[w] \in {"missing", "refresh"}
           /\ pc[w] # "idle" => job[w] \in Item /\ row[job[w]] \in Row
  BY DEF TypeInv, QueueType, LocalType

\* A row that is written keeps its attempts, and what was charged for them.
LEMMA RowWritten ==
    ASSUME QueueType, NEW r \in Item, NEW x \in Row,
           x.status # "absent", x.attempts >= row[r].attempts,
           row' = [row EXCEPT ![r] = x], UNCHANGED <<first, charged>>
    PROVE  /\ QueueType' /\ row'[r] = x
           /\ \A q \in Item \ {r} : row'[q] = row[q]
<1>1. /\ row' \in [Item -> Row] /\ row'[r] = x /\ \A q \in Item \ {r} : row'[q] = row[q]
  BY DEF QueueType
<1>2. \A q \in Item : /\ row[q].attempts \in Nat
                      /\ \A b \in Budget : charged[q][b] \in Nat
  BY DEF QueueType, Row
<1>3. x.attempts \in Nat
  BY DEF Row
<1>4. Charges'
  <2> SUFFICES ASSUME NEW q \in Item
               PROVE  /\ row'[q].status = "absent" => row'[q].attempts = 0
                      /\ \A b \in Budget : charged'[q][b] <= row'[q].attempts
    BY DEF Charges
  <2>1. CASE q = r
    BY <2>1, <1>1, <1>2, <1>3 DEF QueueType, Charges
  <2>2. CASE q # r
    BY <2>2, <1>1 DEF QueueType, Charges
  <2> QED BY <2>1, <2>2
<1> QED
  BY <1>1, <1>4 DEF QueueType

\* A worker that goes on within its pass.
LEMMA GoesOn ==
    ASSUME TypeInv, NEW w \in Worker, pc[w] # "idle", NEW label \in PC \ {"idle"}, NEW n \in 0 .. 3,
           InRound(label, n),
           pc' = [pc EXCEPT ![w] = label], round' = [round EXCEPT ![w] = n],
           UNCHANGED <<job, snap>>
    PROVE  /\ LocalType' /\ pc'[w] = label /\ round'[w] = n /\ job'[w] = job[w]
           /\ \A v \in Worker \ {w} : /\ pc'[v] = pc[v] /\ round'[v] = round[v]
                                      /\ job'[v] = job[v]
  BY DEF TypeInv, LocalType

LEMMA Goes ==
    ASSUME TypeInv, NEW w \in Worker, pc[w] # "idle", NEW label \in PC \ {"idle"},
           InRound(label, round[w]), Goto(w, label)
    PROVE  /\ LocalType' /\ pc'[w] = label /\ round'[w] = round[w] /\ job'[w] = job[w]
           /\ \A v \in Worker \ {w} : /\ pc'[v] = pc[v] /\ round'[v] = round[v]
                                      /\ job'[v] = job[v]
  BY DEF TypeInv, LocalType, Goto

LEMMA Returns ==
    ASSUME TypeInv, NEW w \in Worker, Return(w)
    PROVE  /\ LocalType' /\ pc'[w] = "idle"
           /\ \A v \in Worker \ {w} : /\ pc'[v] = pc[v] /\ round'[v] = round[v]
                                      /\ job'[v] = job[v]
  BY DEF TypeInv, LocalType, Return, PC, InRound

-----------------------------------------------------------------------------
(* What a step does to the other workers.                                  *)

\* A step keeps the locals of v and its lease, the row of v where v is awake,
\* and a row that is claimed by v where v sleeps.
Untouched(v) ==
    /\ pc'[v] = pc[v] /\ job'[v] = job[v] /\ round'[v] = round[v]
    /\ upstream = v => upstream' = v
    /\ \A b \in Budget : started[b] <= started'[b]
    /\ Awake(v) => /\ row'[job[v]] = row[job[v]] /\ first'[job[v]] = first[job[v]]
                   /\ charged'[job[v]] = charged[job[v]]
    /\ row'[job[v]].status = "claimed" /\ row'[job[v]].by = v =>
          row'[job[v]] = row[job[v]] /\ charged'[job[v]] = charged[job[v]]
    /\ Reserved(v) => sent' = sent

LEMMA UntouchedFine ==
    ASSUME TypeInv, TypeInv', NEW v \in Worker, WorkerInv(v), Untouched(v)
    PROVE  WorkerInv(v)'
<1>1. /\ pc'[v] = pc[v] /\ job'[v] = job[v] /\ round'[v] = round[v]
      /\ upstream = v => upstream' = v
      /\ \A b \in Budget : started[b] <= started'[b]
      /\ Awake(v) => /\ row'[job[v]] = row[job[v]] /\ first'[job[v]] = first[job[v]]
                     /\ charged'[job[v]] = charged[job[v]]
      /\ row'[job[v]].status = "claimed" /\ row'[job[v]].by = v =>
            row'[job[v]] = row[job[v]] /\ charged'[job[v]] = charged[job[v]]
      /\ Reserved(v) => sent' = sent
  BY DEF Untouched
<1>2. /\ Awake(v)' <=> Awake(v)
      /\ Reserved(v)' <=> Reserved(v)
      /\ Unpaid(v)' <=> Unpaid(v)
      /\ Reserved(v) => Awake(v)
  BY <1>1 DEF Awake, Asleep, Reserved, Unpaid
<1>3. Mine(v)' => Mine(v) /\ row'[job[v]] = row[job[v]] /\ charged'[job[v]] = charged[job[v]]
  BY <1>1 DEF Mine
<1>4. Awake(v) => (Mine(v)' <=> Mine(v)) /\ (GivenUp(job[v])' <=> GivenUp(job[v]))
                  /\ Active(job[v])' = Active(job[v])
  BY <1>1 DEF Mine, GivenUp, Members, Active
<1>5. LeaseHeld(v)'
  BY <1>1 DEF WorkerInv, LeaseHeld
<1>6. Lone(v)'
  <2>1. Awake(v) => row'[job'[v]] = row[job[v]] /\ first'[job'[v]] = first[job[v]] /\ job'[v] = job[v]
    BY <1>1
  <2> QED
    BY <1>1, <1>2, <2>1 DEF WorkerInv, Lone, Mine, GivenUp, Members
<1>7. Fresh(v)'
  BY <1>1, <1>2, <1>3 DEF WorkerInv, Fresh
<1>8. Closed(v)'
  BY <1>1, <1>2, <1>3 DEF WorkerInv, Closed
<1>9. Paid(v)'
  <2> SUFFICES ASSUME Reserved(v), NEW b \in Active(job[v])' PROVE sent'[b] < started'[b]
    BY <1>2 DEF Paid
  <2>1. b \in Active(job[v])
    BY <1>2, <1>4
  <2>2. sent[b] < started[b] /\ sent'[b] = sent[b] /\ started[b] <= started'[b]
    BY <1>1, <2>1 DEF WorkerInv, Paid, Active, Members
  <2>3. sent[b] \in Nat /\ started[b] \in Nat /\ started'[b] \in Nat
    BY <2>1 DEF Active, Members, TypeInv, SharedType
  <2> QED
    BY <2>2, <2>3
<1> QED
  BY <1>5, <1>6, <1>7, <1>8, <1>9 DEF WorkerInv

\* A step of w that writes to the row of its item only. A sleeper writes to
\* none.
Moves(w) ==
    /\ \A v \in Worker \ {w} : /\ pc'[v] = pc[v] /\ job'[v] = job[v] /\ round'[v] = round[v]
                               /\ upstream = v => upstream' = v
    /\ \A r \in Item : \/ row'[r] = row[r] /\ first'[r] = first[r] /\ charged'[r] = charged[r]
                       \/ /\ Awake(w) /\ r = job[w]
                          /\ row'[r].by \in {row[r].by, Nobody}
                          /\ row[r].status = "failed" => row'[r].status # "claimed"
    /\ \A b \in Budget : started[b] <= started'[b]
    /\ sent' = sent \/ pc[w] = "go"

LEMMA MovesUntouched ==
    ASSUME TypeInv, SteadyInv, NEW w \in Worker, Moves(w), NEW v \in Worker \ {w},
           pc[v] # "idle"
    PROVE  Untouched(v)
<1> DEFINE r == job[v]
<1>1. r \in Item /\ WorkerInv(w) /\ WorkerInv(v) /\ Apart(w, v) /\ v # Nobody
  BY Knows, QueueAssumption DEF SteadyInv
<1>2. /\ pc'[v] = pc[v] /\ job'[v] = job[v] /\ round'[v] = round[v]
      /\ upstream = v => upstream' = v
      /\ \A b \in Budget : started[b] <= started'[b]
      /\ sent' = sent \/ pc[w] = "go"
      /\ \/ row'[r] = row[r] /\ first'[r] = first[r] /\ charged'[r] = charged[r]
         \/ /\ Awake(w) /\ r = job[w]
            /\ row'[r].by \in {row[r].by, Nobody}
            /\ row[r].status = "failed" => row'[r].status # "claimed"
  BY <1>1 DEF Moves
<1>3. CASE row'[r] = row[r] /\ first'[r] = first[r] /\ charged'[r] = charged[r]
  <2>1. Reserved(v) => sent' = sent
    <3> SUFFICES ASSUME Reserved(v), pc[w] = "go" PROVE FALSE
      BY <1>2
    <3>1. upstream = w /\ upstream = v
      BY <1>1 DEF WorkerInv, LeaseHeld, Reserved
    <3> QED BY <3>1
  <2> QED
    BY <1>2, <1>3, <2>1 DEF Untouched
<1>4. CASE /\ Awake(w) /\ r = job[w]
           /\ row'[r].by \in {row[r].by, Nobody}
           /\ row[r].status = "failed" => row'[r].status # "claimed"
  <2>1. ~Awake(v)
    BY <1>1, <1>4 DEF Apart
  <2>2. ~Reserved(v)
    BY <2>1 DEF Reserved, Awake, Asleep
  <2>3. ~(row'[r].status = "claimed" /\ row'[r].by = v)
    BY <1>1, <1>4 DEF WorkerInv, Lone, Mine, GivenUp
  <2> QED
    BY <1>2, <2>1, <2>2, <2>3 DEF Untouched
<1> QED
  BY <1>2, <1>3, <1>4

\* What remains to be shown of a step.
Own(w) ==
    /\ TypeInv'
    /\ Moves(w)
    /\ Awake(w)' => job'[w] = job[w] /\ (Awake(w) \/ Mine(w))
    /\ steady' = steady
    /\ steady /\ SteadyInv => WorkerInv(w)' /\ \A b \in Budget : sent'[b] <= started'[b]

LEMMA OwnKeeps ==
    ASSUME QueueInv, NEW w \in Worker, Own(w)
    PROVE  QueueInv'
<1> SUFFICES ASSUME steady, SteadyInv PROVE SteadyInv'
  BY DEF QueueInv, Own
<1>1. /\ TypeInv /\ TypeInv' /\ Moves(w) /\ WorkerInv(w)'
      /\ \A b \in Budget : sent'[b] <= started'[b]
      /\ Awake(w)' => job'[w] = job[w] /\ (Awake(w) \/ Mine(w))
  BY DEF QueueInv, Own
<1>2. ASSUME NEW v \in Worker \ {w} PROVE WorkerInv(v)'
  <2>1. CASE pc[v] = "idle"
    <3>1. pc'[v] = "idle"
      BY <1>1, <2>1 DEF Moves
    <3> QED
      BY <3>1 DEF WorkerInv, LeaseHeld, Lone, Fresh, Closed, Paid, Awake, Unpaid, Reserved
  <2>2. CASE pc[v] # "idle"
    BY <1>1, <2>2, MovesUntouched, UntouchedFine DEF SteadyInv
  <2> QED BY <2>1, <2>2
<1>3. ASSUME NEW v \in Worker \ {w}, Awake(v)', Awake(w)' PROVE job'[w] # job'[v]
  <2>1. Awake(v) /\ job'[v] = job[v] /\ job'[w] = job[w]
    BY <1>1, <1>3 DEF Moves, Awake, Asleep
  <2>2. CASE Awake(w)
    BY <2>1, <2>2 DEF SteadyInv, Apart
  <2>3. CASE Mine(w)
    <3>1. Lone(v)
      BY DEF SteadyInv, WorkerInv
    <3> QED
      BY <2>1, <2>3, <3>1 DEF Lone, Mine, GivenUp
  <2> QED BY <1>1, <1>3, <2>2, <2>3
<1>4. ASSUME NEW u \in Worker, NEW v \in Worker, u # v PROVE Apart(u, v)'
  <2>1. CASE u = w \/ v = w
    BY <1>3, <1>4, <2>1 DEF Apart
  <2>2. CASE u # w /\ v # w
    <3>1. Apart(u, v)
      BY <1>4 DEF SteadyInv
    <3>2. \A x \in {u, v} : job'[x] = job[x] /\ (Awake(x)' => Awake(x))
      BY <1>1, <2>2 DEF Moves, Awake, Asleep
    <3> QED
      BY <3>1, <3>2 DEF Apart
  <2> QED BY <2>1, <2>2
<1> QED
  BY <1>1, <1>2, <1>4 DEF SteadyInv

-----------------------------------------------------------------------------
(* Steps that leave the queue alone.                                       *)

\* The locals of the others, and those of w.
Local(w) ==
    /\ LocalType'
    /\ \A v \in Worker \ {w} : pc'[v] = pc[v] /\ round'[v] = round[v] /\ job'[v] = job[v]

\* The lease is left to whoever else has it.
LeaseLeft(w) ==
    /\ upstream' \in Worker \cup {Nobody, Gone}
    /\ \A v \in Worker \ {w} : upstream = v => upstream' = v

LEMMA QuietMoves ==
    ASSUME TypeInv, NEW w \in Worker, Local(w), LeaseLeft(w),
           UNCHANGED <<queue, budgets, steady, crashes>>,
           cache' \in [Key -> {"none", "failed", "completed"}],
           sent' \in [Budget -> Nat], sent' = sent \/ pc[w] = "go"
    PROVE  TypeInv' /\ Moves(w)
<1>1. /\ row' = row /\ first' = first /\ charged' = charged /\ started' = started
      /\ overdue' = overdue /\ steady' = steady /\ crashes' = crashes
  BY DEF queue, budgets
<1>2. QueueType'
  BY <1>1 DEF TypeInv, QueueType, Charges
<1>3. SharedType'
  BY <1>1 DEF TypeInv, SharedType, LeaseLeft
<1>4. \A b \in Budget : started[b] <= started'[b]
  BY <1>1 DEF TypeInv, SharedType
<1> QED
  BY <1>1, <1>2, <1>3, <1>4 DEF TypeInv, Local, LeaseLeft, Moves

LEMMA QuietOwn ==
    ASSUME TypeInv, NEW w \in Worker, Local(w), LeaseLeft(w),
           UNCHANGED <<queue, budgets, sent, steady, crashes>>,
           cache' \in [Key -> {"none", "failed", "completed"}],
           job'[w] = job[w],
           Awake(w)' => Awake(w) \/ Mine(w),
           Unpaid(w)' => Unpaid(w), Reserved(w)' => Reserved(w),
           LeaseHeld(w) => LeaseHeld(w)'
    PROVE  Own(w)
<1>1. /\ row' = row /\ first' = first /\ charged' = charged /\ started' = started
      /\ sent' = sent /\ steady' = steady /\ sent \in [Budget -> Nat]
  BY DEF queue, budgets, TypeInv, SharedType
<1>2. TypeInv' /\ Moves(w)
  BY <1>1, QuietMoves
<1>3. ASSUME SteadyInv PROVE WorkerInv(w)' /\ \A b \in Budget : sent'[b] <= started'[b]
  <2>1. WorkerInv(w) /\ \A b \in Budget : sent'[b] <= started'[b]
    BY <1>1, <1>3 DEF SteadyInv
  <2>2. LeaseHeld(w)'
    BY <2>1 DEF WorkerInv
  <2>3. Lone(w)'
    <3>1. Lone(w)
      BY <2>1 DEF WorkerInv
    <3> QED
      BY <1>1, <3>1 DEF Lone, Mine, GivenUp, Members
  <2>4. Fresh(w)' /\ Closed(w)'
    BY <1>1, <2>1 DEF WorkerInv, Fresh, Closed, Mine
  <2>5. Paid(w)'
    BY <1>1, <2>1 DEF WorkerInv, Paid, Active, Members
  <2> QED
    BY <2>1, <2>2, <2>3, <2>4, <2>5 DEF WorkerInv
<1> QED
  BY <1>1, <1>2, <1>3 DEF Own

\* A worker whose pass is over has nothing to keep.
LEMMA IdleOwn ==
    ASSUME TypeInv', NEW w \in Worker, Moves(w), pc'[w] = "idle", steady' = steady,
           SteadyInv, UNCHANGED <<started, sent>>
    PROVE  WorkerInv(w)' /\ ~Awake(w)' /\ \A b \in Budget : sent'[b] <= started'[b]
<1>1. WorkerInv(w)' /\ ~Awake(w)'
  BY DEF WorkerInv, LeaseHeld, Lone, Fresh, Closed, Paid, Awake, Unpaid, Reserved
<1> QED
  BY <1>1 DEF SteadyInv

LEMMA FreedLeft ==
    ASSUME TypeInv, NEW w \in Worker, upstream' = Freed(w)
    PROVE  LeaseLeft(w)
  BY QueueAssumption DEF TypeInv, SharedType, LeaseLeft, Freed

LEMMA SameLeft ==
    ASSUME TypeInv, NEW w \in Worker, upstream' = upstream
    PROVE  LeaseLeft(w)
  BY DEF TypeInv, SharedType, LeaseLeft

LEMMA CheckCacheOwn ==
    ASSUME TypeInv, NEW w \in Worker, CheckCache(w)
    PROVE  Own(w)
<1>1. /\ pc[w] = "claimed"
      /\ UNCHANGED <<queue, budgets, cache, upstream, sent, steady, crashes>>
  BY DEF CheckCache, ghost
<1>2. PICK label \in {"hit", "asking"} : Goto(w, label)
  BY DEF CheckCache
<1>3. InRound(label, round[w]) /\ label \in PC \ {"idle"}
  BY <1>1, Knows DEF InRound, PC
<1>4. Local(w) /\ pc'[w] = label /\ round'[w] = round[w] /\ job'[w] = job[w]
  BY <1>1, <1>2, <1>3, Goes DEF Local
<1>5. /\ Awake(w) /\ (Unpaid(w)' => Unpaid(w)) /\ ~Reserved(w)'
      /\ LeaseHeld(w)'
  BY <1>1, <1>3, <1>4, Knows DEF Awake, Asleep, Unpaid, Reserved, LeaseHeld, InRound
<1>6. LeaseLeft(w) /\ cache' \in [Key -> {"none", "failed", "completed"}]
  BY <1>1, SameLeft DEF TypeInv, SharedType
<1> QED
  BY <1>1, <1>4, <1>5, <1>6, QuietOwn

LEMMA AskOwn ==
    ASSUME TypeInv, NEW w \in Worker, Ask(w)
    PROVE  Own(w)
<1>1. /\ pc[w] = "asking"
      /\ UNCHANGED <<queue, budgets, cache, sent, steady, crashes>>
  BY DEF Ask, ghost
<1>2. PICK label \in {"fence", "delaying"} :
          /\ Goto(w, label)
          /\ label = "fence" => upstream = Nobody /\ upstream' = w
          /\ label = "delaying" => upstream' = upstream
  BY DEF Ask, Goto
<1>3. InRound(label, round[w]) /\ label \in PC \ {"idle"} /\ round[w] = 0
  BY <1>1, Knows DEF InRound, PC
<1>4. Local(w) /\ pc'[w] = label /\ round'[w] = round[w] /\ job'[w] = job[w]
  BY <1>1, <1>2, <1>3, Goes DEF Local
<1>5. /\ Awake(w) /\ (Unpaid(w)' => Unpaid(w)) /\ ~Reserved(w)'
      /\ LeaseHeld(w)'
  BY <1>1, <1>2, <1>3, <1>4 DEF Awake, Asleep, Unpaid, Reserved, LeaseHeld
<1>6. LeaseLeft(w)
  BY <1>2, QueueAssumption DEF TypeInv, SharedType, LeaseLeft
<1>7. cache' \in [Key -> {"none", "failed", "completed"}]
  BY <1>1 DEF TypeInv, SharedType
<1> QED
  BY <1>1, <1>4, <1>5, <1>6, <1>7, QuietOwn

LEMMA FenceOwn ==
    ASSUME TypeInv, NEW w \in Worker, Fence(w)
    PROVE  Own(w)
<1>1. /\ pc[w] \in {"fence", "refence"} /\ upstream = w /\ Mine(w)
      /\ UNCHANGED <<queue, budgets, cache, upstream, sent, steady, crashes, job, snap>>
  BY DEF Fence, Owns, Mine, ghost
<1>2. PICK label \in {"recheck", "reserve", "deadline"}, n \in {1, 2} :
          /\ pc' = [pc EXCEPT ![w] = label] /\ round' = [round EXCEPT ![w] = n]
          /\ round[w] = 2 <=> n = 2
          /\ label = "reserve" => n = 1
          /\ label = "deadline" => n = 2
  <2>1. round \in [Worker -> 0 .. 3] /\ InRound(pc[w], round[w])
    BY Knows DEF TypeInv, LocalType
  <2>2. CASE pc[w] = "fence"
    <3>1. /\ pc' = [pc EXCEPT ![w] = "recheck"]
          /\ round' = [round EXCEPT ![w] = IF @ = 0 THEN 1 ELSE @]
          /\ round[w] \in {0, 2}
      BY <2>1, <2>2 DEF Fence, InRound
    <3>2. CASE round[w] = 0
      BY <3>1, <3>2
    <3>3. CASE round[w] = 2
      BY <3>1, <3>3
    <3> QED
      BY <3>1, <3>2, <3>3
  <2>3. CASE pc[w] = "refence"
    <3>1. /\ pc' = [pc EXCEPT ![w] = IF round[w] = 1 THEN "reserve" ELSE "deadline"]
          /\ round' = round /\ round[w] \in {1, 2}
      BY <2>1, <2>3 DEF Fence, InRound
    <3>2. round' = [round EXCEPT ![w] = round[w]]
      BY <2>1, <3>1
    <3> QED
      BY <3>1, <3>2
  <2> QED BY <1>1, <2>2, <2>3
<1>3. InRound(label, n) /\ label \in PC \ {"idle"} /\ n \in 0 .. 3 /\ pc[w] # "idle"
  BY <1>1, <1>2 DEF InRound, PC
<1>4. Local(w) /\ pc'[w] = label /\ round'[w] = n /\ job'[w] = job[w]
  <2>1. /\ pc' = [pc EXCEPT ![w] = label] /\ round' = [round EXCEPT ![w] = n]
        /\ UNCHANGED <<job, snap>>
    BY <1>1, <1>2
  <2>2. /\ LocalType' /\ pc'[w] = label /\ round'[w] = n /\ job'[w] = job[w]
        /\ \A v \in Worker \ {w} : pc'[v] = pc[v] /\ round'[v] = round[v] /\ job'[v] = job[v]
    BY <1>3, <2>1, GoesOn
  <2> QED
    BY <2>2 DEF Local
<1>5. (Unpaid(w)' => Unpaid(w)) /\ (Reserved(w)' => Reserved(w)) /\ LeaseHeld(w)'
  BY <1>1, <1>2, <1>4 DEF Unpaid, Reserved, LeaseHeld
<1>6. LeaseLeft(w) /\ cache' \in [Key -> {"none", "failed", "completed"}]
  BY <1>1, SameLeft DEF TypeInv, SharedType
<1> QED
  BY <1>1, <1>4, <1>5, <1>6, QuietOwn

LEMMA RecheckOwn ==
    ASSUME TypeInv, NEW w \in Worker, Recheck(w)
    PROVE  Own(w)
<1>1. /\ pc[w] = "recheck"
      /\ UNCHANGED <<queue, budgets, cache, sent, steady, crashes>>
  BY DEF Recheck, ghost
<1>2. PICK label \in {"hit", "refence"} :
          /\ Goto(w, label)
          /\ label = "hit" => upstream' = Freed(w)
          /\ label = "refence" => upstream' = upstream
  BY DEF Recheck
<1>3. InRound(label, round[w]) /\ label \in PC \ {"idle"}
  BY <1>1, Knows DEF InRound, PC
<1>4. Local(w) /\ pc'[w] = label /\ round'[w] = round[w] /\ job'[w] = job[w]
  BY <1>1, <1>2, <1>3, Goes DEF Local
<1>5. /\ Awake(w) /\ (Unpaid(w)' => Unpaid(w)) /\ (Reserved(w)' => Reserved(w))
      /\ LeaseHeld(w) => LeaseHeld(w)'
  BY <1>1, <1>2, <1>4 DEF Awake, Asleep, Unpaid, Reserved, LeaseHeld
<1>6. LeaseLeft(w) /\ cache' \in [Key -> {"none", "failed", "completed"}]
  BY <1>1, <1>2, SameLeft, FreedLeft DEF TypeInv, SharedType
<1> QED
  BY <1>1, <1>4, <1>5, <1>6, QuietOwn

LEMMA ReadDeadlineOwn ==
    ASSUME TypeInv, NEW w \in Worker, ReadDeadline(w)
    PROVE  Own(w)
<1>1. /\ pc[w] = "ready"
      /\ UNCHANGED <<queue, budgets, cache, upstream, sent, steady, crashes, job, snap>>
  BY DEF ReadDeadline, ghost
<1>2. round \in [Worker -> 0 .. 3]
  BY DEF TypeInv, LocalType
<1>3. PICK label \in {"deadline", "go"}, n \in 0 .. 3 :
          /\ pc' = [pc EXCEPT ![w] = label] /\ round' = [round EXCEPT ![w] = n]
          /\ label = "deadline" => n = 3
  <2>1. round' = round => round' = [round EXCEPT ![w] = round[w]] /\ round[w] \in 0 .. 3
    BY <1>2
  <2> QED
    BY <1>1, <2>1 DEF ReadDeadline
<1>4. InRound(label, n) /\ label \in PC \ {"idle"}
  BY <1>3 DEF InRound, PC
<1>5. Local(w) /\ pc'[w] = label /\ round'[w] = n /\ job'[w] = job[w]
  BY <1>1, <1>3, <1>4, GoesOn DEF Local
<1>6. /\ Awake(w) /\ ~Unpaid(w)' /\ Reserved(w)
      /\ LeaseHeld(w) => LeaseHeld(w)'
  BY <1>1, <1>5 DEF Awake, Asleep, Unpaid, Reserved, LeaseHeld
<1>7. LeaseLeft(w) /\ cache' \in [Key -> {"none", "failed", "completed"}]
  BY <1>1, SameLeft DEF TypeInv, SharedType
<1> QED
  BY <1>1, <1>5, <1>6, <1>7, QuietOwn

LEMMA StoreOwn ==
    ASSUME TypeInv, NEW w \in Worker, Store(w)
    PROVE  Own(w)
<1>1. /\ pc[w] = "inflight" /\ Goto(w, "stored")
      /\ cache' = [cache EXCEPT ![row[job[w]].key] = "completed"]
      /\ UNCHANGED <<queue, budgets, upstream, sent, steady, crashes>>
  BY DEF Store, ghost
<1>2. InRound("stored", round[w]) /\ "stored" \in PC \ {"idle"}
  BY DEF InRound, PC
<1>3. Local(w) /\ pc'[w] = "stored" /\ round'[w] = round[w] /\ job'[w] = job[w]
  BY <1>1, <1>2, Goes DEF Local
<1>4. /\ Awake(w) /\ ~Unpaid(w)' /\ ~Reserved(w)'
      /\ LeaseHeld(w) => LeaseHeld(w)'
  BY <1>1, <1>3 DEF Awake, Asleep, Unpaid, Reserved, LeaseHeld
<1>5. LeaseLeft(w) /\ cache' \in [Key -> {"none", "failed", "completed"}]
  BY <1>1, SameLeft DEF TypeInv, SharedType
<1> QED
  BY <1>1, <1>3, <1>4, <1>5, QuietOwn

LEMMA AfterSuccessOwn ==
    ASSUME TypeInv, NEW w \in Worker, AfterSuccess(w)
    PROVE  Own(w)
<1>1. /\ pc[w] = "stored" /\ Goto(w, "closing") /\ upstream' = Freed(w)
      /\ UNCHANGED <<queue, budgets, cache, sent, steady, crashes>>
  BY DEF AfterSuccess, ghost
<1>2. InRound("closing", round[w]) /\ "closing" \in PC \ {"idle"}
  BY DEF InRound, PC
<1>3. Local(w) /\ pc'[w] = "closing" /\ round'[w] = round[w] /\ job'[w] = job[w]
  BY <1>1, <1>2, Goes DEF Local
<1>4. Awake(w) /\ ~Unpaid(w)' /\ ~Reserved(w)' /\ LeaseHeld(w)'
  BY <1>1, <1>3 DEF Awake, Asleep, Unpaid, Reserved, LeaseHeld
<1>5. LeaseLeft(w) /\ cache' \in [Key -> {"none", "failed", "completed"}]
  BY <1>1, FreedLeft DEF TypeInv, SharedType
<1> QED
  BY <1>1, <1>3, <1>4, <1>5, QuietOwn

LEMMA FetchFailsOwn ==
    ASSUME TypeInv, NEW w \in Worker, FetchFails(w)
    PROVE  Own(w)
<1>1. /\ pc[w] = "inflight" /\ upstream' = Freed(w)
      /\ cache' = [cache EXCEPT ![row[job[w]].key] = IF @ = "completed" THEN @ ELSE "failed"]
      /\ UNCHANGED <<queue, budgets, sent, steady, crashes>>
  BY DEF FetchFails, ghost
<1>2. PICK label \in {"delaying", "rejecting"} : Goto(w, label)
  BY DEF FetchFails
<1>3. InRound(label, round[w]) /\ label \in PC \ {"idle"}
  BY <1>2 DEF InRound, PC
<1>4. Local(w) /\ pc'[w] = label /\ round'[w] = round[w] /\ job'[w] = job[w]
  BY <1>1, <1>2, <1>3, Goes DEF Local
<1>5. Awake(w) /\ ~Unpaid(w)' /\ ~Reserved(w)' /\ LeaseHeld(w)'
  BY <1>1, <1>4 DEF Awake, Asleep, Unpaid, Reserved, LeaseHeld
<1>6. LeaseLeft(w) /\ cache' \in [Key -> {"none", "failed", "completed"}]
  BY <1>1, FreedLeft DEF TypeInv, SharedType
<1> QED
  BY <1>1, <1>4, <1>5, <1>6, QuietOwn

LEMMA StartFetchOwn ==
    ASSUME TypeInv, NEW w \in Worker, StartFetch(w)
    PROVE  Own(w)
<1> DEFINE wanting == Active(job[w])
<1>1. /\ pc[w] = "go" /\ Goto(w, "inflight")
      /\ sent' = [b \in Budget |-> sent[b] + IF b \in wanting THEN 1 ELSE 0]
      /\ UNCHANGED <<queue, budgets, cache, upstream, steady, crashes>>
  BY DEF StartFetch
<1>2. InRound("inflight", round[w]) /\ "inflight" \in PC \ {"idle"}
  BY DEF InRound, PC
<1>3. Local(w) /\ pc'[w] = "inflight" /\ job'[w] = job[w]
  BY <1>1, <1>2, Goes DEF Local
<1> HIDE DEF wanting
<1>4. /\ sent \in [Budget -> Nat] /\ sent' \in [Budget -> Nat]
      /\ started \in [Budget -> Nat] /\ started' = started
      /\ cache' \in [Key -> {"none", "failed", "completed"}] /\ LeaseLeft(w)
  BY <1>1, SameLeft DEF TypeInv, SharedType, budgets
<1>5. TypeInv' /\ Moves(w)
  BY <1>1, <1>3, <1>4, QuietMoves
<1>6. Awake(w) /\ Reserved(w) /\ ~Reserved(w)' /\ ~Unpaid(w)'
  BY <1>1, <1>3 DEF Awake, Asleep, Reserved, Unpaid
<1>7. ASSUME SteadyInv PROVE WorkerInv(w)' /\ \A b \in Budget : sent'[b] <= started'[b]
  <2>1. WorkerInv(w)
    BY <1>7 DEF SteadyInv
  <2>2. LeaseHeld(w)' /\ Lone(w)'
    BY <1>1, <1>3, <1>6, <2>1
    DEF WorkerInv, LeaseHeld, Lone, Mine, GivenUp, Members, queue
  <2>3. Fresh(w)' /\ Closed(w)' /\ Paid(w)'
    BY <1>6 DEF Fresh, Closed, Paid
  <2>4. ASSUME NEW b \in Budget PROVE sent'[b] <= started'[b]
    <3>1. CASE b \in wanting
      <4>1. sent[b] < started[b]
        BY <1>6, <2>1, <3>1 DEF WorkerInv, Paid, wanting
      <4> QED BY <1>1, <1>4, <3>1, <4>1
    <3>2. CASE b \notin wanting
      BY <1>1, <1>4, <1>7, <3>2 DEF SteadyInv
    <3> QED BY <3>1, <3>2
  <2> QED BY <2>2, <2>3, <2>4 DEF WorkerInv
<1> QED
  BY <1>1, <1>3, <1>5, <1>6, <1>7 DEF Own

-----------------------------------------------------------------------------
(* The end of a pass.                                                      *)

LEMMA EndsOwn ==
    ASSUME TypeInv', NEW w \in Worker, Moves(w), pc'[w] = "idle",
           UNCHANGED <<started, sent, steady>>
    PROVE  Own(w)
<1>1. ~Awake(w)'
  BY DEF Awake
<1> QED
  BY <1>1, IdleOwn DEF Own

LEMMA LeavesOwn ==
    ASSUME TypeInv, NEW w \in Worker, Return(w), upstream' = Freed(w),
           UNCHANGED <<queue, budgets, cache, ghost>>
    PROVE  Own(w)
<1>1. Local(w) /\ pc'[w] = "idle" /\ LeaseLeft(w)
  BY Returns, FreedLeft DEF Local
<1>2. /\ UNCHANGED <<queue, budgets, sent, steady, crashes, started>>
      /\ cache' \in [Key -> {"none", "failed", "completed"}] /\ sent' \in [Budget -> Nat]
  BY DEF TypeInv, SharedType, ghost, budgets
<1>3. TypeInv' /\ Moves(w)
  BY <1>1, <1>2, QuietMoves
<1> QED
  BY <1>1, <1>2, <1>3, EndsOwn

LEMMA CrashOwn ==
    ASSUME TypeInv, NEW w \in Worker, Crash(w)
    PROVE  Own(w)
<1>1. /\ crashes' \in 0 .. MaxCrashes
      /\ upstream' = IF upstream = w THEN Gone ELSE upstream
      /\ Return(w) /\ row' = row /\ first' = first /\ charged' = charged
      /\ started' = started /\ overdue' = overdue /\ cache' = cache
      /\ sent' = sent /\ steady' = steady
  BY QueueAssumption DEF Crash, queue, budgets, TypeInv, SharedType
<1>2. Local(w) /\ pc'[w] = "idle"
  BY <1>1, Returns DEF Local
<1>3. QueueType' /\ SharedType'
  BY <1>1 DEF TypeInv, QueueType, Charges, SharedType
<1>4. \A v \in Worker \ {w} : upstream = v => upstream' = v
  BY <1>1
<1>5. \A b \in Budget : started[b] <= started'[b]
  BY <1>1 DEF TypeInv, SharedType
<1>6. TypeInv' /\ Moves(w)
  BY <1>1, <1>2, <1>3, <1>4, <1>5 DEF TypeInv, Local, Moves
<1> QED
  BY <1>1, <1>2, <1>6, EndsOwn

\* The last write of a pass: nobody is left with the row.
LEMMA WritesOwn ==
    ASSUME TypeInv, NEW w \in Worker, Awake(w), NEW x \in Row,
           x.status \notin {"absent", "claimed"}, x.attempts = row[job[w]].attempts,
           x.by = Nobody, row' = [row EXCEPT ![job[w]] = x], Return(w),
           UNCHANGED <<first, charged, budgets, cache, upstream, ghost>>
    PROVE  Own(w)
<1> DEFINE r == job[w]
<1>1. r \in Item /\ row[r] \in Row
  BY Knows DEF Awake
<1>2. x.attempts >= row[r].attempts /\ QueueType
  BY <1>1 DEF TypeInv, Row
<1>3. /\ QueueType' /\ row'[r] = x
      /\ \A q \in Item \ {r} : row'[q] = row[q]
  BY <1>1, <1>2, RowWritten
<1>4. Local(w) /\ pc'[w] = "idle"
  BY Returns DEF Local
<1>5. /\ first' = first /\ charged' = charged /\ started' = started /\ overdue' = overdue
      /\ cache' = cache /\ upstream' = upstream /\ sent' = sent /\ steady' = steady
      /\ crashes' = crashes
  BY DEF budgets, ghost
<1>6. SharedType'
  BY <1>5 DEF TypeInv, SharedType
<1>7. \A b \in Budget : started[b] <= started'[b]
  BY <1>5 DEF TypeInv, SharedType
<1>8. Moves(w)
  BY <1>3, <1>4, <1>5, <1>7 DEF Moves, Local
<1> QED
  BY <1>3, <1>4, <1>5, <1>6, <1>8, EndsOwn DEF TypeInv, Local

LEMMA CompleteOwn ==
    ASSUME TypeInv, NEW w \in Worker, CompleteHit(w) \/ Complete(w)
    PROVE  Own(w)
<1> DEFINE x == Completed(job[w])
<1>1. /\ pc[w] \in {"hit", "closing"} /\ row' = [row EXCEPT ![job[w]] = x] /\ Return(w)
      /\ UNCHANGED <<first, charged, budgets, cache, upstream, ghost>>
  BY DEF CompleteHit, Complete
<1>2. Awake(w) /\ row[job[w]] \in Row
  BY <1>1, Knows DEF Awake, Asleep
<1>3. /\ x \in Row /\ x.status = "completed" /\ x.by = Nobody
      /\ x.attempts = row[job[w]].attempts
  BY <1>2 DEF Completed, Row, Statuses
<1> HIDE DEF x
<1> QED
  BY <1>1, <1>2, <1>3, WritesOwn

LEMMA DelayOwn ==
    ASSUME TypeInv, NEW w \in Worker, Delay(w)
    PROVE  Own(w)
<1> DEFINE x == [row[job[w]] EXCEPT !.status = "delayed", !.by = Nobody, !.gate = FALSE]
<1>1. /\ pc[w] = "delaying" /\ Return(w)
      /\ row' = IF Conflict(job[w]) THEN row ELSE [row EXCEPT ![job[w]] = x]
      /\ UNCHANGED <<first, charged, budgets, cache, upstream, ghost>>
  BY DEF Delay
<1>2. Awake(w) /\ row[job[w]] \in Row
  BY <1>1, Knows DEF Awake, Asleep
<1>3. /\ x \in Row /\ x.status = "delayed" /\ x.by = Nobody
      /\ x.attempts = row[job[w]].attempts
  BY <1>2 DEF Row, Statuses
<1> HIDE DEF x
<1>4. CASE row' = row
  <2>1. Local(w) /\ pc'[w] = "idle"
    BY <1>1, Returns DEF Local
  <2>2. LeaseLeft(w)
    BY <1>1, SameLeft
  <2>3. /\ UNCHANGED <<queue, budgets, sent, steady, crashes, started>>
        /\ cache' \in [Key -> {"none", "failed", "completed"}] /\ sent' \in [Budget -> Nat]
    BY <1>1, <1>4 DEF TypeInv, SharedType, ghost, budgets, queue
  <2>4. TypeInv' /\ Moves(w)
    BY <2>1, <2>2, <2>3, QuietMoves
  <2> QED
    BY <2>1, <2>3, <2>4, EndsOwn
<1>5. CASE row' = [row EXCEPT ![job[w]] = x]
  BY <1>1, <1>2, <1>3, <1>5, WritesOwn
<1> QED
  BY <1>1, <1>4, <1>5

LEMMA FailOwn ==
    ASSUME TypeInv, NEW w \in Worker, Fail(w)
    PROVE  Own(w)
<1> DEFINE x == [row[job[w]] EXCEPT !.status = "failed", !.by = Nobody, !.gate = FALSE]
<1>1. /\ pc[w] \in {"rejecting", "spending"} /\ Return(w)
      /\ row' = [row EXCEPT ![job[w]] = x]
      /\ UNCHANGED <<first, charged, budgets, cache, upstream, ghost>>
  BY DEF Fail
<1>2. Awake(w) /\ row[job[w]] \in Row
  BY <1>1, Knows DEF Awake, Asleep
<1>3. /\ x \in Row /\ x.status = "failed" /\ x.by = Nobody
      /\ x.attempts = row[job[w]].attempts
  BY <1>2 DEF Row, Statuses
<1> HIDE DEF x
<1> QED
  BY <1>1, <1>2, <1>3, WritesOwn

-----------------------------------------------------------------------------
(* The budget checks.                                                      *)

\* The memberships that are kept, and what they are charged.
Kept(r, invalid) == [b \in Budget |-> IF b \in invalid THEN 0 ELSE first[r][b]]
KeptCharge(r, invalid) == [b \in Budget |-> IF b \in invalid THEN 0 ELSE charged[r][b]]

LEMMA KeptTyped ==
    ASSUME QueueType, NEW r \in Item, NEW invalid
    PROVE  /\ Kept(r, invalid) \in [Budget -> 0 .. MaxAttempts + 1]
           /\ KeptCharge(r, invalid) \in [Budget -> 0 .. MaxAttempts]
           /\ \A b \in Budget : KeptCharge(r, invalid)[b] <= row[r].attempts
<1>1. /\ first[r] \in [Budget -> 0 .. MaxAttempts + 1] /\ charged[r] \in [Budget -> 0 .. MaxAttempts]
      /\ row[r].attempts \in 0 .. MaxAttempts /\ \A b \in Budget : charged[r][b] <= row[r].attempts
  BY DEF QueueType, Charges, Row
<1> QED
  BY <1>1, QueueAssumption DEF Kept, KeptCharge

LEMMA KeptWritten ==
    ASSUME QueueType, NEW r \in Item, NEW invalid, UNCHANGED row,
           first' = [first EXCEPT ![r] = Kept(r, invalid)],
           charged' = [charged EXCEPT ![r] = KeptCharge(r, invalid)]
    PROVE  /\ QueueType' /\ first'[r] = Kept(r, invalid)
           /\ \A q \in Item \ {r} : first'[q] = first[q] /\ charged'[q] = charged[q]
<1>1. /\ Kept(r, invalid) \in [Budget -> 0 .. MaxAttempts + 1]
      /\ KeptCharge(r, invalid) \in [Budget -> 0 .. MaxAttempts]
      /\ \A b \in Budget : KeptCharge(r, invalid)[b] <= row[r].attempts
  BY KeptTyped
<1> QED
  BY <1>1 DEF QueueType, Charges

\* A budget that is dropped is no member, and no other becomes one.
LEMMA KeptMembers ==
    ASSUME QueueType, NEW r \in Item, NEW invalid, first'[r] = Kept(r, invalid),
           row'[r].attempts = row[r].attempts
    PROVE  Members(r)' = Members(r) \ invalid /\ Active(r)' = Active(r) \ invalid
  BY DEF Members, Active, Kept, QueueType

\* A worker whose item has been given up, or is to be delayed.
LEMMA GivesUp ==
    ASSUME TypeInv, NEW w \in Worker, pc[w] \in {"reserve", "deadline"},
           NEW outlook, GiveUp(w, outlook)
    PROVE  /\ Local(w) /\ LeaseLeft(w) /\ job'[w] = job[w]
           /\ pc'[w] \in {"delaying", "spending"}
           /\ cache' \in [Key -> {"none", "failed", "completed"}]
<1>1. PICK label \in {"delaying", "spending"} : Goto(w, label)
  BY DEF GiveUp
<1>2. InRound(label, round[w]) /\ label \in PC \ {"idle"}
  BY <1>1 DEF InRound, PC
<1>3. Local(w) /\ pc'[w] = label /\ job'[w] = job[w]
  BY <1>1, <1>2, Goes DEF Local
<1>4. LeaseLeft(w)
  BY FreedLeft DEF GiveUp
<1>5. cache' \in [Key -> {"none", "failed", "completed"}]
  <2>1. cache \in [Key -> {"none", "failed", "completed"}]
    BY DEF TypeInv, SharedType
  <2>2. \/ cache' = cache
        \/ cache' = [cache EXCEPT ![row[job[w]].key] = IF @ = "completed" THEN @ ELSE "failed"]
    BY DEF GiveUp
  <2> QED BY <2>1, <2>2
<1> QED
  BY <1>3, <1>4, <1>5

\* A budget check that drops budgets and goes no further with the request.
LEMMA GiveUpOwn ==
    ASSUME TypeInv, NEW w \in Worker, pc[w] \in {"reserve", "deadline"}, NEW invalid,
           first' = [first EXCEPT ![job[w]] = Kept(job[w], invalid)],
           charged' = [charged EXCEPT ![job[w]] = KeptCharge(job[w], invalid)],
           NEW outlook, GiveUp(w, outlook), UNCHANGED <<row, budgets, ghost>>
    PROVE  Own(w)
<1> PICK r \in Item : r = job[w]
  BY Knows
<1>1. Awake(w) /\ QueueType /\ row' = row
  BY DEF Awake, Asleep, TypeInv
<1>2. /\ QueueType' /\ first'[r] = Kept(r, invalid)
      /\ \A q \in Item \ {r} : first'[q] = first[q] /\ charged'[q] = charged[q]
  BY <1>1, KeptWritten
<1>3. /\ Local(w) /\ LeaseLeft(w) /\ job'[w] = job[w] /\ pc'[w] \in {"delaying", "spending"}
      /\ cache' \in [Key -> {"none", "failed", "completed"}]
  BY GivesUp
<1>4. /\ row' = row /\ started' = started /\ overdue' = overdue /\ sent' = sent
      /\ steady' = steady /\ crashes' = crashes
  BY DEF budgets, ghost
<1>5. SharedType' /\ \A b \in Budget : started[b] <= started'[b]
  BY <1>3, <1>4 DEF TypeInv, SharedType, LeaseLeft
<1>6. TypeInv'
  BY <1>2, <1>3, <1>5 DEF TypeInv, Local
<1>7. Moves(w)
  BY <1>1, <1>2, <1>3, <1>4, <1>5 DEF Moves, Local, LeaseLeft
<1>8. LeaseHeld(w)' /\ Fresh(w)' /\ Closed(w)' /\ Paid(w)'
  BY <1>3 DEF LeaseHeld, Fresh, Unpaid, Closed, Paid, Reserved
<1>9. ASSUME SteadyInv PROVE Lone(w)'
  <2>1. Mine(w) \/ GivenUp(r)
    BY <1>1, <1>9 DEF SteadyInv, WorkerInv, Lone
  <2>2. Members(r)' = Members(r) \ invalid
    BY <1>1, <1>2, <1>4, KeptMembers
  <2> QED
    BY <1>3, <1>4, <2>1, <2>2 DEF Lone, Mine, GivenUp
<1> QED
  BY <1>1, <1>3, <1>4, <1>6, <1>7, <1>8, <1>9 DEF Own, WorkerInv, SteadyInv

LEMMA CheckDeadlinesOwn ==
    ASSUME TypeInv, NEW w \in Worker, CheckDeadlines(w)
    PROVE  Own(w)
<1> PICK r \in Item \cup {NoItem} : r = job[w]
  BY DEF TypeInv, LocalType
<1> DEFINE invalid == Members(r) \cap overdue
           outlook == Outlook(r, invalid)
<1>1. /\ pc[w] = "deadline" /\ Detach(r, invalid) /\ UNCHANGED <<row, budgets, ghost>>
      /\ \/ /\ pc' = [pc EXCEPT ![w] = CASE round[w] = 1 -> "fence"
                                         [] round[w] = 2 -> "ready"
                                         [] round[w] = 3 -> "go"]
            /\ round' = [round EXCEPT ![w] = IF @ = 1 THEN 2 ELSE @]
            /\ UNCHANGED <<job, snap, cache, upstream>>
         \/ GiveUp(w, outlook)
  BY DEF CheckDeadlines
<1> HIDE DEF outlook, invalid
<1>2. r \in Item /\ Awake(w) /\ QueueType /\ round[w] \in {1, 2, 3}
  BY <1>1, Knows DEF Awake, Asleep, TypeInv, InRound
<1>3. /\ first' = [first EXCEPT ![r] = Kept(r, invalid)]
      /\ charged' = [charged EXCEPT ![r] = KeptCharge(r, invalid)]
  BY <1>1, <1>2 DEF Detach, Kept, KeptCharge
<1>4. CASE GiveUp(w, outlook)
  BY <1>1, <1>3, <1>4, GiveUpOwn
<1>5. CASE /\ pc' = [pc EXCEPT ![w] = CASE round[w] = 1 -> "fence"
                                        [] round[w] = 2 -> "ready"
                                        [] round[w] = 3 -> "go"]
           /\ round' = [round EXCEPT ![w] = IF @ = 1 THEN 2 ELSE @]
           /\ UNCHANGED <<job, snap, cache, upstream>>
  <2>1. PICK label \in {"fence", "ready", "go"}, n \in {2, 3} :
            /\ pc' = [pc EXCEPT ![w] = label] /\ round' = [round EXCEPT ![w] = n]
            /\ label = "fence" => n = 2
    <3>1. CASE round[w] = 1
      BY <1>5, <3>1
    <3>2. CASE round[w] = 2
      BY <1>5, <3>2
    <3>3. CASE round[w] = 3
      BY <1>5, <3>3
    <3> QED BY <1>2, <3>1, <3>2, <3>3
  <2>2. InRound(label, n) /\ label \in PC \ {"idle"} /\ n \in 0 .. 3 /\ pc[w] # "idle"
    BY <1>1, <2>1 DEF InRound, PC
  <2>3. Local(w) /\ pc'[w] = label /\ round'[w] = n /\ job'[w] = job[w]
    <3>1. pc' = [pc EXCEPT ![w] = label] /\ round' = [round EXCEPT ![w] = n]
      BY <2>1
    <3>2. UNCHANGED <<job, snap>>
      BY <1>5
    <3>3. pc[w] # "idle" /\ label \in PC \ {"idle"} /\ n \in 0 .. 3 /\ InRound(label, n)
      BY <2>2
    <3>4. /\ LocalType' /\ pc'[w] = label /\ round'[w] = n /\ job'[w] = job[w]
          /\ \A v \in Worker \ {w} : pc'[v] = pc[v] /\ round'[v] = round[v] /\ job'[v] = job[v]
      BY <3>1, <3>2, <3>3, GoesOn
    <3> QED
      BY <3>4 DEF Local
  <2>4. /\ QueueType' /\ first'[r] = Kept(r, invalid)
        /\ \A q \in Item \ {r} : first'[q] = first[q] /\ charged'[q] = charged[q]
    BY <1>1, <1>2, <1>3, KeptWritten
  <2>5. /\ row' = row /\ started' = started /\ overdue' = overdue /\ sent' = sent
        /\ steady' = steady /\ crashes' = crashes /\ cache' = cache /\ upstream' = upstream
    BY <1>1, <1>5 DEF budgets, ghost
  <2>6. SharedType' /\ \A b \in Budget : started[b] <= started'[b]
    BY <2>5 DEF TypeInv, SharedType
  <2>7. TypeInv' /\ Moves(w)
    BY <1>2, <2>3, <2>4, <2>5, <2>6 DEF TypeInv, Local, Moves
  <2>8. Reserved(w) /\ Reserved(w)' /\ ~Unpaid(w)'
    BY <1>1, <2>1, <2>3 DEF Reserved, Unpaid
  <2>9. ASSUME SteadyInv PROVE WorkerInv(w)'
    <3>1. WorkerInv(w)
      BY <2>9 DEF SteadyInv
    <3>2. Members(r)' = Members(r) \ invalid /\ Active(r)' = Active(r) \ invalid
      BY <1>2, <2>4, <2>5, KeptMembers
    <3>3. LeaseHeld(w)' /\ Fresh(w)' /\ Closed(w)'
      BY <1>1, <2>3, <2>5, <2>8, <3>1 DEF WorkerInv, LeaseHeld, Fresh, Closed, Mine
    <3>4. Lone(w)'
      BY <1>2, <2>3, <2>5, <3>1, <3>2 DEF WorkerInv, Lone, Mine, GivenUp
    <3>5. Paid(w)'
      BY <2>3, <2>5, <2>8, <3>1, <3>2 DEF WorkerInv, Paid
    <3> QED BY <3>3, <3>4, <3>5 DEF WorkerInv
  <2> QED
    BY <1>2, <2>3, <2>5, <2>7, <2>9 DEF Own, SteadyInv
<1> QED
  BY <1>1, <1>4, <1>5

\* A reservation: what is kept of the budgets, the charge of those that pay,
\* and the gate.
LEMMA PaidWritten ==
    ASSUME QueueType, NEW r \in Item, NEW invalid, NEW paying \in SUBSET Budget,
           first' = [first EXCEPT ![r] = Kept(r, invalid)],
           charged' = [charged EXCEPT ![r] =
                         [b \in Budget |-> IF b \in paying THEN row[r].attempts
                                           ELSE IF b \in invalid THEN 0 ELSE charged[r][b]]],
           row' = [row EXCEPT ![r].gate = row[r].gate \/ row[r].status = "claimed"]
    PROVE  /\ QueueType' /\ first'[r] = Kept(r, invalid)
           /\ \A q \in Item \ {r} : /\ row'[q] = row[q] /\ first'[q] = first[q]
                                    /\ charged'[q] = charged[q]
           /\ row'[r].status = row[r].status /\ row'[r].by = row[r].by
           /\ row'[r].attempts = row[r].attempts /\ row'[r].demand = row[r].demand
           /\ row[r].status = "claimed" => row'[r].gate
<1> DEFINE c == [b \in Budget |-> IF b \in paying THEN row[r].attempts
                                  ELSE IF b \in invalid THEN 0 ELSE charged[r][b]]
           x == [row[r] EXCEPT !.gate = row[r].gate \/ row[r].status = "claimed"]
<1>1. /\ row[r] \in Row /\ charged[r] \in [Budget -> 0 .. MaxAttempts]
      /\ \A b \in Budget : charged[r][b] <= row[r].attempts
      /\ row[r].attempts \in 0 .. MaxAttempts
  BY DEF QueueType, Charges, Row
<1>2. Kept(r, invalid) \in [Budget -> 0 .. MaxAttempts + 1]
  BY KeptTyped
<1>3. c \in [Budget -> 0 .. MaxAttempts] /\ \A b \in Budget : c[b] <= row[r].attempts
  BY <1>1, QueueAssumption
<1>4. /\ x \in Row /\ x.status = row[r].status /\ x.by = row[r].by
      /\ x.attempts = row[r].attempts /\ x.demand = row[r].demand
      /\ row[r].status = "claimed" => x.gate
  BY <1>1 DEF Row
<1>5. row' = [row EXCEPT ![r] = x] /\ charged' = [charged EXCEPT ![r] = c]
  OBVIOUS
<1> HIDE DEF c, x
<1>6. /\ row' \in [Item -> Row] /\ row'[r] = x
      /\ first' \in [Item -> [Budget -> 0 .. MaxAttempts + 1]] /\ first'[r] = Kept(r, invalid)
      /\ charged' \in [Item -> [Budget -> 0 .. MaxAttempts]] /\ charged'[r] = c
      /\ \A q \in Item \ {r} : /\ row'[q] = row[q] /\ first'[q] = first[q]
                               /\ charged'[q] = charged[q]
  <2>1. /\ row' \in [Item -> Row] /\ row'[r] = x
        /\ \A q \in Item \ {r} : row'[q] = row[q]
    BY <1>4, <1>5 DEF QueueType
  <2>2. /\ first' \in [Item -> [Budget -> 0 .. MaxAttempts + 1]] /\ first'[r] = Kept(r, invalid)
        /\ \A q \in Item \ {r} : first'[q] = first[q]
    BY <1>2 DEF QueueType
  <2>3. /\ charged' \in [Item -> [Budget -> 0 .. MaxAttempts]] /\ charged'[r] = c
        /\ \A q \in Item \ {r} : charged'[q] = charged[q]
    BY <1>3, <1>5 DEF QueueType
  <2> QED BY <2>1, <2>2, <2>3
<1>7. Charges'
  BY <1>3, <1>4, <1>6 DEF QueueType, Charges
<1> QED
  BY <1>4, <1>6, <1>7 DEF QueueType

LEMMA ReserveOwn ==
    ASSUME TypeInv, NEW w \in Worker, Reserve(w)
    PROVE  Own(w)
<1> PICK r \in Item \cup {NoItem} : r = job[w]
  BY DEF TypeInv, LocalType
<1> DEFINE invalid == (Members(r) \cap overdue)
                        \cup {b \in Uncharged(r) \cup Future(r) : Exhausted(b)}
           paying == Uncharged(r) \ invalid
           outlook == Outlook(r, invalid)
<1>1. /\ pc[w] = "reserve"
      /\ first' = [first EXCEPT ![r] = [b \in Budget |-> IF b \in invalid THEN 0 ELSE @[b]]]
      /\ UNCHANGED <<overdue, ghost>>
      /\ \/ /\ outlook = "viable"
            /\ charged' = [charged EXCEPT ![r] =
                             [b \in Budget |-> IF b \in paying THEN row[r].attempts
                                               ELSE IF b \in invalid THEN 0 ELSE @[b]]]
            /\ started' = [b \in Budget |-> started[b] + IF b \in paying THEN 1 ELSE 0]
            /\ row' = [row EXCEPT ![r].gate = @ \/ row[r].status = "claimed"]
            /\ Goto(w, "deadline")
            /\ UNCHANGED <<cache, upstream>>
         \/ /\ charged' = [charged EXCEPT ![r] =
                             [b \in Budget |-> IF b \in invalid THEN 0 ELSE @[b]]]
            /\ GiveUp(w, outlook)
            /\ UNCHANGED <<started, row>>
  BY DEF Reserve
<1>2. r \in Item /\ Awake(w) /\ QueueType /\ round[w] = 1
  BY <1>1, Knows DEF Awake, Asleep, TypeInv, InRound
<1>3. outlook = "viable" => row[r].demand \/ Active(r) \ invalid # {}
  BY DEF Outlook
<1>4. paying \in SUBSET Budget /\ \A b \in paying : started[b] < MaxRequests
  BY QueueAssumption DEF Exhausted, Uncharged, Active, Members, TypeInv, SharedType
<1>5. ASSUME \A b \in Budget : charged[r][b] < row[r].attempts
      PROVE  paying = Active(r) \ invalid
  BY <1>5 DEF Uncharged, Active, Members
<1>6. first' = [first EXCEPT ![r] = Kept(r, invalid)]
  BY <1>1, <1>2 DEF Kept
<1> HIDE DEF outlook, invalid, paying
<1>7. ASSUME charged' = [charged EXCEPT ![r] =
                           [b \in Budget |-> IF b \in invalid THEN 0 ELSE @[b]]],
             GiveUp(w, outlook), UNCHANGED <<started, row>>
      PROVE  Own(w)
  <2>1. charged' = [charged EXCEPT ![r] = KeptCharge(r, invalid)]
    BY <1>2, <1>7 DEF KeptCharge
  <2>2. UNCHANGED <<row, budgets, ghost>>
    BY <1>1, <1>7 DEF budgets
  <2> QED
    BY <1>1, <1>6, <1>7, <2>1, <2>2, GiveUpOwn
<1>8. ASSUME outlook = "viable",
             charged' = [charged EXCEPT ![r] =
                           [b \in Budget |-> IF b \in paying THEN row[r].attempts
                                             ELSE IF b \in invalid THEN 0 ELSE @[b]]],
             started' = [b \in Budget |-> started[b] + IF b \in paying THEN 1 ELSE 0],
             row' = [row EXCEPT ![r].gate = @ \/ row[r].status = "claimed"],
             Goto(w, "deadline"), UNCHANGED <<cache, upstream>>
      PROVE  Own(w)
  <2>1. InRound("deadline", round[w]) /\ "deadline" \in PC \ {"idle"}
    BY <1>2 DEF InRound, PC
  <2>2. Local(w) /\ pc'[w] = "deadline" /\ job'[w] = job[w] /\ round'[w] = round[w]
    BY <1>1, <1>8, <2>1, Goes DEF Local
  <2>3. /\ charged' = [charged EXCEPT ![r] =
                         [b \in Budget |-> IF b \in paying THEN row[r].attempts
                                           ELSE IF b \in invalid THEN 0 ELSE charged[r][b]]]
        /\ row' = [row EXCEPT ![r].gate = row[r].gate \/ row[r].status = "claimed"]
    BY <1>2, <1>8 DEF QueueType
  <2>4. /\ QueueType' /\ first'[r] = Kept(r, invalid)
        /\ \A q \in Item \ {r} : /\ row'[q] = row[q] /\ first'[q] = first[q]
                                 /\ charged'[q] = charged[q]
        /\ row'[r].status = row[r].status /\ row'[r].by = row[r].by
        /\ row'[r].attempts = row[r].attempts /\ row'[r].demand = row[r].demand
        /\ row[r].status = "claimed" => row'[r].gate
    BY <1>2, <1>4, <1>6, <2>3, PaidWritten
  <2>5. /\ overdue' = overdue /\ sent' = sent /\ steady' = steady /\ crashes' = crashes
        /\ cache' = cache /\ upstream' = upstream
    BY <1>1, <1>8 DEF ghost
  <2>6. started \in [Budget -> 0 .. MaxRequests] /\ started' \in [Budget -> 0 .. MaxRequests]
    BY <1>4, <1>8, QueueAssumption DEF TypeInv, SharedType
  <2>7. SharedType' /\ \A b \in Budget : started[b] <= started'[b]
    BY <1>8, <2>5, <2>6 DEF TypeInv, SharedType
  <2>8. TypeInv' /\ Moves(w)
    BY <1>2, <2>2, <2>4, <2>5, <2>7 DEF TypeInv, Local, Moves
  <2>9. ASSUME SteadyInv PROVE WorkerInv(w)' /\ \A b \in Budget : sent'[b] <= started'[b]
    <3>1. /\ Lone(w) /\ Fresh(w) /\ LeaseHeld(w) /\ sent \in [Budget -> Nat]
          /\ \A b \in Budget : sent[b] <= started[b]
      BY <2>9 DEF SteadyInv, WorkerInv, TypeInv, SharedType
    <3>2. Mine(w)
      <4>1. Mine(w) \/ GivenUp(r)
        BY <1>2, <3>1 DEF Lone
      <4>2. ~GivenUp(r)
        BY <1>3, <1>8 DEF GivenUp, Active
      <4> QED BY <4>1, <4>2
    <3>3. paying = Active(r) \ invalid
      BY <1>1, <1>2, <1>5, <3>1, <3>2 DEF Fresh, Unpaid
    <3>4. Active(r)' = Active(r) \ invalid
      BY <1>2, <2>4, KeptMembers
    <3>5. Paid(w)'
      <4>1. \A b \in paying : sent'[b] < started'[b]
        BY <1>4, <1>8, <2>5, <2>6, <3>1
      <4> QED
        BY <2>2, <3>3, <3>4, <4>1 DEF Paid
    <3>6. Lone(w)' /\ Closed(w)'
      BY <2>2, <2>4, <3>2 DEF Lone, Closed, Mine
    <3>7. LeaseHeld(w)' /\ Fresh(w)'
      BY <1>1, <2>2, <2>5, <3>1 DEF LeaseHeld, Fresh, Unpaid
    <3>8. \A b \in Budget : sent'[b] <= started'[b]
      BY <2>5, <2>6, <2>7, <3>1
    <3> QED
      BY <3>5, <3>6, <3>7, <3>8 DEF WorkerInv
  <2> QED
    BY <1>2, <2>2, <2>5, <2>8, <2>9 DEF Own
<1> QED
  BY <1>1, <1>7, <1>8

-----------------------------------------------------------------------------
(* The claim of an item.                                                   *)

LEMMA ClaimTyped ==
    ASSUME TypeInv, NEW w \in Worker, NEW r \in Item, Claim(w, r)
    PROVE  /\ TypeInv'
           /\ row'[r].status = "claimed" /\ row'[r].by = w
           /\ row'[r].attempts = row[r].attempts + 1
           /\ \A q \in Item \ {r} : row'[q] = row[q]
           /\ pc'[w] = "claimed" /\ job'[w] = r /\ round'[w] = 0
           /\ \A v \in Worker \ {w} : pc'[v] = pc[v] /\ round'[v] = round[v] /\ job'[v] = job[v]
<1>0. PICK n \in Int : n = row[r].attempts + 1
  BY DEF TypeInv, QueueType, Row
<1> DEFINE x == [row[r] EXCEPT !.status = "claimed", !.by = w, !.attempts = n, !.gate = FALSE]
<1>1. /\ pc[w] = "idle" /\ row[r].attempts < MaxAttempts
      /\ row' = [row EXCEPT ![r] = x]
      /\ pc' = [pc EXCEPT ![w] = "claimed"] /\ job' = [job EXCEPT ![w] = r]
      /\ snap' = [snap EXCEPT ![w] = row[r].kind]
      /\ UNCHANGED <<first, charged, started, overdue, cache, upstream, round, sent, crashes>>
      /\ steady' \in BOOLEAN
  BY <1>0 DEF Claim, budgets, TypeInv, SharedType
<1>2. row[r] \in Row /\ row[r].attempts \in Nat /\ QueueType /\ row[r].kind \in {"missing", "refresh"}
  BY DEF TypeInv, QueueType, Row
<1>3. /\ x \in Row /\ x.status = "claimed" /\ x.by = w
      /\ x.attempts = row[r].attempts + 1 /\ x.attempts >= row[r].attempts
  <2>1. /\ n \in 0 .. MaxAttempts /\ n = row[r].attempts + 1 /\ n >= row[r].attempts
    BY <1>0, <1>1, <1>2, QueueAssumption
  <2> QED
    BY <1>2, <2>1 DEF Row, Statuses
<1> HIDE DEF x
<1>4. QueueType' /\ row'[r] = x /\ \A q \in Item \ {r} : row'[q] = row[q]
  BY <1>1, <1>2, <1>3, RowWritten
<1>5. /\ LocalType' /\ pc'[w] = "claimed" /\ job'[w] = r /\ round'[w] = 0
      /\ \A v \in Worker \ {w} : pc'[v] = pc[v] /\ round'[v] = round[v] /\ job'[v] = job[v]
  BY <1>1, <1>2, QueueAssumption DEF TypeInv, LocalType, InRound, PC
<1>6. SharedType'
  BY <1>1 DEF TypeInv, SharedType
<1> QED
  BY <1>3, <1>4, <1>5, <1>6 DEF TypeInv

\* Nobody who is awake has the item: unless the claimant takes the claim from
\* a worker that has lost it, nothing is done under anyone's hands.
LEMMA ClaimKeeps ==
    ASSUME QueueInv, NEW w \in Worker, NEW r \in Item, Claim(w, r)
    PROVE  QueueInv'
<1>1. /\ TypeInv /\ TypeInv'
      /\ row'[r].status = "claimed" /\ row'[r].by = w
      /\ row'[r].attempts = row[r].attempts + 1
      /\ \A q \in Item \ {r} : row'[q] = row[q]
      /\ pc'[w] = "claimed" /\ job'[w] = r /\ round'[w] = 0
      /\ \A v \in Worker \ {w} : pc'[v] = pc[v] /\ round'[v] = round[v] /\ job'[v] = job[v]
  BY ClaimTyped DEF QueueInv
<1> SUFFICES ASSUME steady' PROVE SteadyInv'
  BY <1>1 DEF QueueInv
<1>2. /\ steady /\ SteadyInv
      /\ \/ row[r].status \in {"queued", "delayed"}
         \/ row[r].status = "claimed" /\ ~Attended(r)
      /\ UNCHANGED <<first, charged, started, upstream, sent>>
  BY DEF Claim, QueueInv, budgets
<1>3. \A v \in Worker : Awake(v) => job[v] # r
  BY <1>2 DEF SteadyInv, WorkerInv, Lone, Mine, GivenUp, Attended, Awake
<1>4. \A b \in Budget : started[b] <= started'[b] /\ sent'[b] <= started'[b]
  BY <1>1, <1>2 DEF TypeInv, SharedType, SteadyInv
<1>5. ASSUME NEW v \in Worker \ {w} PROVE WorkerInv(v)'
  <2>1. CASE pc[v] = "idle"
    BY <1>1, <2>1 DEF WorkerInv, LeaseHeld, Lone, Fresh, Closed, Paid, Awake, Unpaid, Reserved
  <2>2. CASE pc[v] # "idle"
    <3>1. job[v] \in Item
      BY <1>1, <2>2, Knows
    <3>2. Untouched(v)
      BY <1>1, <1>2, <1>3, <1>4, <3>1 DEF Untouched
    <3> QED
      BY <1>1, <1>2, <3>2, UntouchedFine DEF SteadyInv
  <2> QED BY <2>1, <2>2
<1>6. WorkerInv(w)'
  <2>1. \A b \in Budget : charged'[r][b] < row'[r].attempts
    BY <1>1, <1>2 DEF TypeInv, QueueType, Charges, Row
  <2>2. Fresh(w)'
    BY <1>1, <2>1 DEF Fresh
  <2>3. LeaseHeld(w)' /\ Closed(w)' /\ Paid(w)'
    BY <1>1 DEF LeaseHeld, Closed, Paid, Reserved
  <2>4. Lone(w)'
    BY <1>1 DEF Lone, Mine
  <2> QED
    BY <2>2, <2>3, <2>4 DEF WorkerInv
<1>7. ASSUME NEW u \in Worker, NEW v \in Worker, u # v PROVE Apart(u, v)'
  <2>1. \A z \in Worker \ {w} : Awake(z)' => Awake(z) /\ job'[z] = job[z] /\ job'[z] # job'[w]
    BY <1>1, <1>3 DEF Awake, Asleep
  <2>2. Apart(u, v)
    BY <1>2, <1>7 DEF SteadyInv
  <2> QED
    BY <1>7, <2>1, <2>2 DEF Apart
<1> QED
  BY <1>4, <1>5, <1>6, <1>7 DEF SteadyInv

-----------------------------------------------------------------------------
(* Clients.                                                                *)

\* What a client may do to a row: give up a claimed item, let somebody join
\* a later attempt of it, or change an item nobody is working on.
ItemLeft(r) ==
    \/ row'[r] = row[r] /\ first'[r] = first[r] /\ charged'[r] = charged[r]
    \/ /\ row[r].status # "failed"
       /\ \A b \in Budget : charged'[r][b] <= charged[r][b]
       /\ \/ row[r].status # "claimed" /\ row'[r].status # "claimed"
          \/ row[r].status = "claimed" /\ GivenUp(r)'
          \/ /\ row[r].status = "claimed" /\ row'[r].status = "claimed"
             /\ row'[r].by = row[r].by /\ row'[r].gate = row[r].gate
             /\ row'[r].attempts = row[r].attempts
             /\ row[r].gate => Active(r)' \subseteq Active(r)

LEMMA ClientKeeps ==
    ASSUME QueueInv, QueueType', UNCHANGED <<started, cache, upstream, workers, ghost>>,
           overdue' \subseteq Timed, \A r \in Item : ItemLeft(r)
    PROVE  QueueInv'
<1>1. /\ started' = started /\ cache' = cache /\ upstream' = upstream /\ pc' = pc
      /\ job' = job /\ snap' = snap /\ round' = round /\ sent' = sent /\ steady' = steady
      /\ crashes' = crashes
  BY DEF workers, ghost
<1>2. TypeInv /\ LocalType' /\ SharedType'
  BY <1>1 DEF QueueInv, TypeInv, LocalType, SharedType
<1> SUFFICES ASSUME steady, SteadyInv PROVE SteadyInv'
  BY <1>1, <1>2 DEF QueueInv, TypeInv
<1>3. ASSUME NEW v \in Worker PROVE WorkerInv(v)'
  <2>1. CASE pc[v] = "idle"
    BY <1>1, <2>1 DEF WorkerInv, LeaseHeld, Lone, Fresh, Closed, Paid, Awake, Unpaid, Reserved
  <2>2. CASE pc[v] # "idle"
    <3>1. PICK r \in Item : r = job[v]
      BY <1>2, <2>2, Knows
    <3>2. /\ WorkerInv(v) /\ ItemLeft(r)
          /\ Mine(v) <=> row[r].status = "claimed" /\ row[r].by = v
          /\ Mine(v)' <=> row'[r].status = "claimed" /\ row'[r].by = v
          /\ Awake(v)' <=> Awake(v)
          /\ Reserved(v)' <=> Reserved(v)
          /\ Unpaid(v)' <=> Unpaid(v)
          /\ Reserved(v) => Awake(v)
      BY <1>1, <3>1 DEF SteadyInv, Mine, Awake, Asleep, Reserved, Unpaid
    <3>3. /\ Mine(v) => Mine(v)' \/ GivenUp(r)'
          /\ GivenUp(r) => GivenUp(r)'
          /\ Mine(v)' => /\ Mine(v) /\ row'[r].gate = row[r].gate
                         /\ row'[r].attempts = row[r].attempts
      BY <3>2 DEF ItemLeft, GivenUp, Members
    <3>4. LeaseHeld(v)'
      BY <1>1, <3>2 DEF WorkerInv, LeaseHeld
    <3>5. Lone(v)'
      BY <1>1, <3>1, <3>2, <3>3 DEF WorkerInv, Lone, GivenUp, Members
    <3>6. Fresh(v)'
      <4> SUFFICES ASSUME Unpaid(v), Mine(v)', NEW b \in Budget
                   PROVE  charged'[r][b] < row'[r].attempts
        BY <1>1, <3>1, <3>2 DEF Fresh
      <4>1. charged[r][b] < row[r].attempts
        BY <3>1, <3>2, <3>3 DEF WorkerInv, Fresh
      <4>2. charged'[r][b] <= charged[r][b]
        <5>1. charged[r][b] \in Nat
          BY <1>2 DEF TypeInv, QueueType
        <5> QED
          BY <3>2, <5>1 DEF ItemLeft
      <4>3. charged[r][b] \in Nat /\ charged'[r][b] \in Nat /\ row[r].attempts \in Nat
        BY <1>2 DEF TypeInv, QueueType, Row
      <4> QED
        BY <3>3, <4>1, <4>2, <4>3
    <3>7. Closed(v)'
      BY <1>1, <3>1, <3>2, <3>3 DEF WorkerInv, Closed
    <3>8. Paid(v)'
      <4> SUFFICES ASSUME Reserved(v) PROVE Active(r)' \subseteq Active(r)
        BY <1>1, <3>1, <3>2 DEF WorkerInv, Paid
      <4>1. (Mine(v) /\ row[r].gate) \/ GivenUp(r)
        BY <3>1, <3>2 DEF WorkerInv, Lone, Closed
      <4>2. GivenUp(r)' => Active(r)' = {}
        BY DEF GivenUp, Active
      <4>3. row'[r] = row[r] /\ first'[r] = first[r] => Active(r)' = Active(r)
        BY DEF Active, Members
      <4> QED
        BY <3>2, <3>3, <4>1, <4>2, <4>3 DEF ItemLeft
    <3> QED
      BY <3>4, <3>5, <3>6, <3>7, <3>8 DEF WorkerInv
  <2> QED BY <2>1, <2>2
<1>4. ASSUME NEW u \in Worker, NEW v \in Worker, u # v PROVE Apart(u, v)'
  BY <1>1, <1>4 DEF SteadyInv, Apart, Awake, Asleep
<1>5. \A b \in Budget : sent'[b] <= started'[b]
  BY <1>1 DEF SteadyInv
<1> QED
  BY <1>3, <1>4, <1>5 DEF SteadyInv

LEMMA AbsentRow == Absent \in Row /\ Absent.status = "absent" /\ Absent.attempts = 0
  BY QueueAssumption DEF Absent, Row, Statuses

LEMMA JoinLeft ==
    ASSUME TypeInv, NEW r \in Item, Pending(r), NEW kind \in {"missing", "refresh"},
           NEW b \in Budget \cup {NoBudget}, Join(r, kind, b)
    PROVE  QueueType' /\ \A q \in Item : ItemLeft(q)
<1> DEFINE newKind == IF kind = "refresh" THEN "refresh" ELSE row[r].kind
           wanted == row[r].demand \/ b = NoBudget
           x == [row[r] EXCEPT !.kind = newKind, !.demand = wanted]
<1>1. row' = [row EXCEPT ![r] = x] /\ charged' = charged
  BY DEF Join, TypeInv, QueueType
<1>2. QueueType /\ row[r] \in Row /\ row[r].attempts \in 0 .. MaxAttempts
  BY DEF TypeInv, QueueType, Row
<1>3. newKind \in {"missing", "refresh"} /\ wanted \in BOOLEAN
  BY <1>2 DEF Row
<1> HIDE DEF newKind, wanted
<1>4. /\ x \in Row /\ x.status = row[r].status /\ x.by = row[r].by
      /\ x.attempts = row[r].attempts /\ x.gate = row[r].gate
  BY <1>2, <1>3 DEF Row
<1> HIDE DEF x
<1>5. /\ row' \in [Item -> Row] /\ row'[r] = x
      /\ \A q \in Item \ {r} : row'[q] = row[q]
  BY <1>1, <1>2, <1>4 DEF QueueType
<1>6. PICK n \in 1 .. MaxAttempts + 1 :
          /\ n = JoinAttempt(r)
          /\ row[r].gate => n = row[r].attempts + 1
  BY <1>2, QueueAssumption DEF JoinAttempt
<1>7. /\ first' \in [Item -> [Budget -> 0 .. MaxAttempts + 1]]
      /\ \A q \in Item \ {r} : first'[q] = first[q]
      /\ \A c \in Budget : first'[r][c] \in {first[r][c], n}
  <2>1. CASE b \in Budget /\ first[r][b] = 0
    <3>1. first' = [first EXCEPT ![r] = [first[r] EXCEPT ![b] = n]]
      BY <1>2, <1>6, <2>1 DEF Join, QueueType
    <3> DEFINE f == [first[r] EXCEPT ![b] = n]
    <3>2. /\ f \in [Budget -> 0 .. MaxAttempts + 1]
          /\ \A c \in Budget : f[c] \in {first[r][c], n}
      BY <1>2, <1>6, <2>1, QueueAssumption DEF QueueType
    <3> HIDE DEF f
    <3>3. first' = [first EXCEPT ![r] = f]
      BY <3>1 DEF f
    <3> QED
      BY <1>2, <3>2, <3>3 DEF QueueType
  <2>2. CASE ~(b \in Budget /\ first[r][b] = 0)
    BY <1>2, <2>2 DEF Join, QueueType
  <2> QED BY <2>1, <2>2
<1>8. Charges'
  BY <1>1, <1>2, <1>4, <1>5 DEF QueueType, Charges
<1>9. row[r].gate => Active(r)' \subseteq Active(r)
  <2> SUFFICES ASSUME row[r].gate, NEW c \in Budget, first'[r][c] > 0,
                      first'[r][c] <= row'[r].attempts
               PROVE  first[r][c] > 0 /\ first[r][c] <= row[r].attempts
    BY DEF Active, Members
  <2> QED
    BY <1>2, <1>4, <1>5, <1>6, <1>7
<1>10. \A c \in Budget : charged'[r][c] <= charged[r][c]
  BY <1>1, <1>2 DEF QueueType
<1>11. ItemLeft(r)
  BY <1>4, <1>5, <1>9, <1>10 DEF ItemLeft, Pending
<1>12. \A q \in Item \ {r} : ItemLeft(q)
  BY <1>1, <1>5, <1>7 DEF ItemLeft
<1> QED
  BY <1>1, <1>2, <1>5, <1>7, <1>8, <1>11, <1>12 DEF QueueType

LEMMA InsertLeft ==
    ASSUME TypeInv, NEW r \in Item, NEW key \in Key, NEW kind \in {"missing", "refresh"},
           NEW b \in Budget \cup {NoBudget}, Insert(r, key, kind, b)
    PROVE  QueueType' /\ \A q \in Item : ItemLeft(q)
<1> DEFINE wanted == b = NoBudget
           x == [Absent EXCEPT !.status = "queued", !.key = key, !.kind = kind, !.demand = wanted]
<1>1. /\ row[r].status = "absent" /\ row' = [row EXCEPT ![r] = x] /\ charged' = charged
      /\ wanted \in BOOLEAN
  BY DEF Insert
<1>2. QueueType /\ row[r].attempts = 0
  BY <1>1 DEF TypeInv, QueueType, Charges
<1> HIDE DEF wanted
<1>3. x \in Row /\ x.status = "queued" /\ x.attempts = 0
  BY <1>1, AbsentRow DEF Row, Statuses
<1> HIDE DEF x
<1>4. /\ row' \in [Item -> Row] /\ row'[r] = x
      /\ \A q \in Item \ {r} : row'[q] = row[q]
  BY <1>1, <1>2, <1>3 DEF QueueType
<1>5. /\ first' \in [Item -> [Budget -> 0 .. MaxAttempts + 1]]
      /\ \A q \in Item \ {r} : first'[q] = first[q]
  BY <1>2, QueueAssumption DEF Insert, QueueType
<1>6. Charges'
  BY <1>1, <1>2, <1>3, <1>4 DEF QueueType, Charges
<1>7. \A c \in Budget : charged'[r][c] <= charged[r][c]
  BY <1>1, <1>2 DEF QueueType
<1>8. \A q \in Item : ItemLeft(q)
  BY <1>1, <1>3, <1>4, <1>5, <1>7 DEF ItemLeft
<1> QED
  BY <1>1, <1>2, <1>4, <1>5, <1>6, <1>8 DEF QueueType

LEMMA EnqueueKeeps ==
    ASSUME QueueInv, NEW key \in Key, NEW kind \in {"missing", "refresh"},
           NEW b \in Budget \cup {NoBudget}, EnqueueForWork(key, kind, b),
           UNCHANGED <<budgets, cache, upstream, workers, ghost>>
    PROVE  QueueInv'
<1>1. TypeInv /\ overdue' \subseteq Timed /\ UNCHANGED <<started, cache, upstream, workers, ghost>>
  BY DEF QueueInv, TypeInv, SharedType, budgets
<1>2. \E r \in Item : (Pending(r) /\ Join(r, kind, b)) \/ Insert(r, key, kind, b)
  BY DEF EnqueueForWork
<1>3. QueueType' /\ \A q \in Item : ItemLeft(q)
  BY <1>1, <1>2, JoinLeft, InsertLeft
<1> QED
  BY <1>1, <1>3, ClientKeeps

LEMMA DeadlineKeeps ==
    ASSUME QueueInv, NEW b \in Budget, DeadlinePasses(b)
    PROVE  QueueInv'
<1>1. /\ row' = row /\ first' = first /\ charged' = charged /\ overdue' \subseteq Timed
      /\ UNCHANGED <<started, cache, upstream, workers, ghost>>
  BY DEF DeadlinePasses, queue, QueueInv, TypeInv, SharedType
<1>2. QueueType' /\ \A r \in Item : ItemLeft(r)
  BY <1>1 DEF QueueInv, TypeInv, QueueType, Charges, ItemLeft
<1> QED
  BY <1>1, <1>2, ClientKeeps

\* What only the maintenance call wanted ends without demand and without
\* members, also under a worker's hands.
LEMMA FailActiveKeeps ==
    ASSUME QueueInv, NEW b \in Budget, FailActive(b)
    PROVE  QueueInv'
<1> DEFINE affected == {r \in Item : Pending(r) /\ b \in Members(r)}
           unwanted == {r \in affected : ~row[r].demand /\ Members(r) = {b}}
           Failed(r) == [row[r] EXCEPT !.status = "failed", !.by = Nobody, !.gate = FALSE]
<1>1. /\ row' = [r \in Item |-> IF r \in unwanted THEN Failed(r) ELSE row[r]]
      /\ first' = [r \in Item |->
                     IF r \in affected THEN [first[r] EXCEPT ![b] = 0] ELSE first[r]]
      /\ charged' = [r \in Item |->
                       IF r \in affected THEN [charged[r] EXCEPT ![b] = 0] ELSE charged[r]]
      /\ UNCHANGED <<started, cache, upstream, workers, ghost>> /\ overdue' \subseteq Timed
  BY DEF FailActive, budgets, QueueInv, TypeInv, SharedType
<1>2. QueueType
  BY DEF QueueInv, TypeInv
<1>3. \A r \in Item : /\ row[r] \in Row /\ Failed(r) \in Row /\ Failed(r).status = "failed"
                      /\ Failed(r).attempts = row[r].attempts
                      /\ Failed(r).demand = row[r].demand
  <2> SUFFICES ASSUME NEW r \in Item
               PROVE  /\ row[r] \in Row /\ Failed(r) \in Row /\ Failed(r).status = "failed"
                      /\ Failed(r).attempts = row[r].attempts
                      /\ Failed(r).demand = row[r].demand
    OBVIOUS
  <2>1. row[r] \in Row
    BY <1>2 DEF QueueType
  <2> QED
    BY <2>1 DEF Row, Statuses
<1>4. \A r \in affected : /\ row[r].status \in {"queued", "delayed", "claimed"}
                          /\ r \in unwanted => ~row[r].demand /\ Members(r) = {b}
  BY DEF Pending
<1>5. unwanted \subseteq affected /\ affected \subseteq Item
  OBVIOUS
<1> HIDE DEF affected, unwanted, Failed
<1>6. ASSUME NEW r \in Item
      PROVE  /\ row'[r] \in Row
             /\ first'[r] \in [Budget -> 0 .. MaxAttempts + 1]
             /\ charged'[r] \in [Budget -> 0 .. MaxAttempts]
             /\ row'[r].attempts = row[r].attempts
             /\ row'[r].status = "absent" => row[r].status = "absent"
             /\ \A c \in Budget : /\ charged'[r][c] <= charged[r][c]
                                  /\ charged[r][c] <= row[r].attempts
                                  /\ charged[r][c] \in Nat /\ charged'[r][c] \in Nat
             /\ row[r].attempts \in Nat
             /\ \A c \in Budget : first'[r][c] = first[r][c] \/ first'[r][c] = 0
  <2>1. /\ first[r] \in [Budget -> 0 .. MaxAttempts + 1]
        /\ charged[r] \in [Budget -> 0 .. MaxAttempts]
        /\ \A c \in Budget : charged[r][c] <= row[r].attempts
        /\ row[r].attempts \in Nat
    BY <1>2 DEF QueueType, Charges, Row
  <2>2. row'[r] = row[r] \/ row'[r] = Failed(r)
    BY <1>1
  <2>3. first'[r] = first[r] \/ first'[r] = [first[r] EXCEPT ![b] = 0]
    BY <1>1
  <2>4. charged'[r] = charged[r] \/ charged'[r] = [charged[r] EXCEPT ![b] = 0]
    BY <1>1
  <2>5. row'[r] \in Row /\ row'[r].attempts = row[r].attempts
        /\ (row'[r].status = "absent" => row[r].status = "absent")
    BY <1>3, <2>2
  <2>6. /\ first'[r] \in [Budget -> 0 .. MaxAttempts + 1]
        /\ \A c \in Budget : first'[r][c] = first[r][c] \/ first'[r][c] = 0
    BY <2>1, <2>3, QueueAssumption
  <2>7. /\ charged'[r] \in [Budget -> 0 .. MaxAttempts]
        /\ \A c \in Budget : charged'[r][c] <= charged[r][c]
    BY <2>1, <2>4, QueueAssumption
  <2> QED
    BY <2>1, <2>5, <2>6, <2>7
<1>7. QueueType'
  <2>1. /\ row' \in [Item -> Row]
        /\ first' \in [Item -> [Budget -> 0 .. MaxAttempts + 1]]
        /\ charged' \in [Item -> [Budget -> 0 .. MaxAttempts]]
    BY <1>1, <1>6
  <2>2. Charges'
    <3> SUFFICES ASSUME NEW r \in Item
                 PROVE  /\ row'[r].status = "absent" => row'[r].attempts = 0
                        /\ \A c \in Budget : charged'[r][c] <= row'[r].attempts
      BY DEF Charges
    <3>1. row[r].status = "absent" => row[r].attempts = 0
      BY <1>2 DEF QueueType, Charges
    <3> QED
      BY <1>6, <3>1
  <2> QED BY <2>1, <2>2 DEF QueueType
<1>8. ASSUME NEW r \in Item PROVE ItemLeft(r)
  <2>1. CASE r \notin affected
    BY <1>1, <1>5, <2>1 DEF ItemLeft
  <2>2. CASE r \in affected /\ r \notin unwanted
    <3>1. row'[r] = row[r]
      BY <1>1, <2>2
    <3>2. Active(r)' \subseteq Active(r)
      BY <1>6, <3>1 DEF Active, Members
    <3> QED
      BY <1>4, <1>6, <2>2, <3>1, <3>2 DEF ItemLeft
  <2>3. CASE r \in unwanted
    <3>1. row'[r] = Failed(r) /\ ~row[r].demand /\ Members(r) = {b} /\ r \in affected
      BY <1>1, <1>4, <1>5, <2>3
    <3>2. first'[r] = [first[r] EXCEPT ![b] = 0] /\ first[r] \in [Budget -> 0 .. MaxAttempts + 1]
      BY <1>1, <1>2, <3>1 DEF QueueType
    <3>3. Members(r)' = {}
      BY <3>1, <3>2 DEF Members
    <3>4. GivenUp(r)' /\ row'[r].status # "claimed"
      BY <1>3, <3>1, <3>3 DEF GivenUp
    <3> QED
      BY <1>4, <1>6, <3>1, <3>4 DEF ItemLeft
  <2> QED BY <1>5, <2>1, <2>2, <2>3
<1> QED
  BY <1>1, <1>7, <1>8, ClientKeeps

-----------------------------------------------------------------------------
(* The lease.                                                              *)

LEMMA LeaseKeeps ==
    ASSUME QueueInv, LeaseExpires \/ LeaseLapses
    PROVE  QueueInv'
<1>1. /\ row' = row /\ first' = first /\ charged' = charged /\ started' = started
      /\ overdue' = overdue /\ cache' = cache /\ pc' = pc /\ job' = job /\ snap' = snap
      /\ round' = round /\ sent' = sent /\ crashes' = crashes /\ upstream' = Nobody
      /\ steady' = FALSE \/ (steady' = steady /\ upstream = Gone)
  BY DEF LeaseExpires, LeaseLapses, queue, budgets, workers, ghost
<1>2. TypeInv
  BY DEF QueueInv
<1>3. QueueType' /\ LocalType' /\ SharedType'
  BY <1>1, <1>2 DEF TypeInv, QueueType, Charges, LocalType, SharedType
<1> SUFFICES ASSUME steady' PROVE SteadyInv'
  BY <1>3 DEF QueueInv, TypeInv
<1>4. SteadyInv /\ upstream = Gone
  BY <1>1 DEF QueueInv
<1>5. ASSUME NEW v \in Worker PROVE WorkerInv(v)'
  <2>1. Untouched(v)
    BY <1>1, <1>2, <1>4, QueueAssumption DEF Untouched, TypeInv, SharedType
  <2> QED
    BY <1>2, <1>3, <1>4, <2>1, UntouchedFine DEF SteadyInv, TypeInv
<1>6. \A u, v \in Worker : u # v => Apart(u, v)'
  BY <1>1, <1>4 DEF SteadyInv, Apart, Awake, Asleep
<1> QED
  BY <1>1, <1>4, <1>5, <1>6 DEF SteadyInv

-----------------------------------------------------------------------------
(* The theorems.                                                           *)

LEMMA InitInv == Init => QueueInv
<1> SUFFICES ASSUME Init PROVE QueueInv
  OBVIOUS
<1>1. QueueType
  BY AbsentRow, QueueAssumption DEF Init, QueueType, Charges
<1>2. LocalType /\ SharedType
  BY QueueAssumption DEF Init, LocalType, SharedType, InRound, PC
<1>3. SteadyInv
  BY DEF Init, SteadyInv, WorkerInv, LeaseHeld, Lone, Fresh, Closed, Paid, Apart, Awake,
         Unpaid, Reserved
<1> QED
  BY <1>1, <1>2, <1>3 DEF QueueInv, TypeInv

LEMMA PassOwn ==
    ASSUME TypeInv, NEW w \in Worker, Pass(w) \/ Crash(w)
    PROVE  Own(w)
<1>1. CASE FenceLost(w) \/ FetchRaises(w)
  BY <1>1, LeavesOwn DEF FenceLost, FetchRaises
<1>2. CASE ~(FenceLost(w) \/ FetchRaises(w))
  BY <1>2, CheckCacheOwn, CompleteOwn, AskOwn, FenceOwn, RecheckOwn, ReserveOwn,
     CheckDeadlinesOwn, ReadDeadlineOwn, StartFetchOwn, StoreOwn, AfterSuccessOwn,
     FetchFailsOwn, DelayOwn, FailOwn, CrashOwn
  DEF Pass
<1> QED
  BY <1>1, <1>2

LEMMA StutterKeeps == QueueInv /\ UNCHANGED vars => QueueInv'
<1> SUFFICES ASSUME QueueInv, UNCHANGED vars PROVE QueueInv'
  OBVIOUS
<1>1. QueueType' /\ overdue' \subseteq Timed /\ UNCHANGED <<started, cache, upstream, workers, ghost>>
      /\ row' = row /\ first' = first /\ charged' = charged
  BY DEF vars, queue, budgets, QueueInv, TypeInv, QueueType, Charges, SharedType
<1>2. \A r \in Item : ItemLeft(r)
  BY <1>1 DEF ItemLeft
<1> QED
  BY <1>1, <1>2, ClientKeeps

LEMMA NextInv == QueueInv /\ [Next]_vars => QueueInv'
<1> SUFFICES ASSUME QueueInv, [Next]_vars PROVE QueueInv'
  OBVIOUS
<1>1. ASSUME NEW k \in Key, NEW b \in Budget \cup {NoBudget}, Enqueue(k, b) PROVE QueueInv'
  BY <1>1, EnqueueKeeps DEF Enqueue
<1>2. ASSUME NEW k \in Key, EnqueueRefresh(k) PROVE QueueInv'
  BY <1>2, EnqueueKeeps DEF EnqueueRefresh
<1>3. ASSUME NEW b \in Budget, DeadlinePasses(b) \/ FailActive(b) PROVE QueueInv'
  BY <1>3, DeadlineKeeps, FailActiveKeeps
<1>4. ASSUME NEW w \in Worker, Pass(w) \/ Crash(w) PROVE QueueInv'
  BY <1>4, PassOwn, OwnKeeps DEF QueueInv
<1>5. ASSUME NEW w \in Worker, NEW r \in Item, Claim(w, r) PROVE QueueInv'
  BY <1>5, ClaimKeeps
<1>6. CASE LeaseExpires \/ LeaseLapses
  BY <1>6, LeaseKeeps
<1>7. CASE UNCHANGED vars
  BY <1>7, StutterKeeps
<1> QED
  BY <1>1, <1>2, <1>3, <1>4, <1>5, <1>6, <1>7 DEF Next, Client

LEMMA InvHolds == Spec => []QueueInv
  BY InitInv, NextInv, PTL DEF Spec

\* Every row, membership, charge, budget, cache entry and worker stays of its
\* type: attempts are bounded as the claims are, no budget starts more than
\* max_requests requests, and a worker has an item exactly during a pass.
THEOREM TypeCorrect == Spec => []TypeOK
<1>1. QueueInv => TypeOK
  BY TypeOKFollows DEF QueueInv
<1> QED
  BY <1>1, InvHolds, PTL

\* Every request put on the wire has been charged to every budget that wants
\* it (reserve_queue_item_upstream_request), however many maintenance calls
\* join the item, and however often its worker dies and it is claimed again.
THEOREM PaidHolds == Spec => []PaidBeforeSent
<1>1. QueueInv => PaidBeforeSent
  BY DEF QueueInv, SteadyInv, PaidBeforeSent
<1> QED
  BY <1>1, InvHolds, PTL

\* A worker that fetches has the lease, and its item is claimed by it unless
\* fail_active_upstream_budget_items has given it up meanwhile: what
\* renew_worker_fetch_ownership found at the last gate still holds.
THEOREM ClaimHolds == Spec => []FetchOwnsClaim
<1>1. QueueInv => FetchOwnsClaim
  BY DEF QueueInv, SteadyInv, WorkerInv, LeaseHeld, Lone, Awake, Asleep, Mine, GivenUp,
         FetchOwnsClaim
<1> QED
  BY <1>1, InvHolds, PTL

-----------------------------------------------------------------------------
(* What is in the cache is not fetched again.                              *)

\* Where a worker has seen, under the lease, that its key is not answered.
Checked(w) ==
    \/ pc[w] \in {"refence", "reserve", "deadline", "ready", "go"}
    \/ pc[w] \in {"fence", "recheck"} /\ round[w] = 2

\* The row of a worker has been inserted, so its key does not change; and while
\* a worker has the lease nobody else answers the key.
MissInv ==
    \A w \in Worker :
        /\ pc[w] # "idle" => row[job[w]].status # "absent"
        /\ steady /\ Checked(w) /\ snap[w] = "missing" => cache[row[job[w]].key] # "completed"

LEMMA RowsKeep ==
    ASSUME TypeInv, [Next]_vars, NEW r \in Item, row[r].status # "absent"
    PROVE  row'[r].status # "absent" /\ row'[r].key = row[r].key
<1>1. row \in [Item -> Row] /\ row[r] \in Row
  BY DEF TypeInv, QueueType
<1>2. CASE row' = row
  BY <1>2
<1>3. ASSUME NEW kind, NEW q \in Item, NEW b, Join(q, kind, b)
      PROVE  row'[r].status = row[r].status /\ row'[r].key = row[r].key
  BY <1>1, <1>3 DEF Join, Row
<1>4. ASSUME NEW key, NEW kind, NEW q \in Item, NEW b, Insert(q, key, kind, b) PROVE row'[r] = row[r]
  BY <1>1, <1>4 DEF Insert
<1>5. ASSUME NEW b \in Budget, FailActive(b)
      PROVE  row'[r].status # "absent" /\ row'[r].key = row[r].key
  <2>1. row'[r] = row[r] \/ row'[r] = [row[r] EXCEPT !.status = "failed", !.by = Nobody,
                                                     !.gate = FALSE]
    BY <1>5 DEF FailActive
  <2> QED
    BY <1>1, <2>1 DEF Row
<1>6. ASSUME NEW w \in Worker, NEW q \in Item, Claim(w, q)
      PROVE  row'[r].status # "absent" /\ row'[r].key = row[r].key
  BY <1>1, <1>6 DEF Claim, Row
<1>7. ASSUME NEW w \in Worker, CompleteHit(w) \/ Complete(w) \/ Delay(w) \/ Fail(w) \/ Reserve(w)
      PROVE  row'[r].status # "absent" /\ row'[r].key = row[r].key
  <2>1. CASE CompleteHit(w) \/ Complete(w)
    <3>1. row'[r] = row[r] \/ row'[r] = Completed(r)
      BY <1>1, <2>1 DEF CompleteHit, Complete
    <3>2. Completed(r).status = "completed" /\ Completed(r).key = row[r].key
      BY <1>1 DEF Completed, Row
    <3> QED
      BY <3>1, <3>2
  <2>2. CASE Delay(w)
    BY <1>1, <1>2, <2>2 DEF Delay, Row
  <2>3. CASE Fail(w)
    BY <1>1, <2>3 DEF Fail, Row
  <2>4. CASE Reserve(w)
    <3>1. \/ row' = row
          \/ row' = [row EXCEPT ![job[w]].gate = @ \/ row[job[w]].status = "claimed"]
      BY <2>4 DEF Reserve
    <3> QED
      BY <1>1, <3>1 DEF Row
  <2> QED
    BY <1>7, <2>1, <2>2, <2>3, <2>4
<1>8. ASSUME NEW w \in Worker, Pass(w) \/ Crash(w)
      PROVE  row'[r].status # "absent" /\ row'[r].key = row[r].key
  <2>1. \/ row' = row
        \/ CompleteHit(w) \/ Complete(w) \/ Delay(w) \/ Fail(w) \/ Reserve(w)
    BY <1>8 DEF Pass, Crash, CheckCache, Ask, Fence, FenceLost, Recheck, CheckDeadlines,
                ReadDeadline, StartFetch, Store, AfterSuccess, FetchFails, FetchRaises, queue
  <2> QED
    BY <1>2, <1>7, <2>1
<1>9. ASSUME Client PROVE row'[r].status # "absent" /\ row'[r].key = row[r].key
  <2>1. \/ row' = row
        \/ \E b \in Budget : FailActive(b)
        \/ \E key \in Key, kind \in {"missing", "refresh"}, b \in Budget \cup {NoBudget} :
              EnqueueForWork(key, kind, b)
    BY <1>9 DEF Client, Enqueue, EnqueueRefresh, DeadlinePasses, queue
  <2>2. ASSUME NEW key \in Key, NEW kind \in {"missing", "refresh"},
               NEW b \in Budget \cup {NoBudget}, EnqueueForWork(key, kind, b)
        PROVE  row'[r].status # "absent" /\ row'[r].key = row[r].key
    BY <1>3, <1>4, <2>2 DEF EnqueueForWork
  <2> QED
    BY <1>2, <1>5, <2>1, <2>2
<1>10. LeaseExpires \/ LeaseLapses \/ UNCHANGED vars => row' = row
  BY DEF LeaseExpires, LeaseLapses, vars, queue
<1> QED
  BY <1>2, <1>6, <1>8, <1>9, <1>10 DEF Next

\* An entry is completed by a worker that fetches.
LEMMA CacheWritten ==
    ASSUME TypeInv, [Next]_vars, NEW k \in Key, cache[k] # "completed", cache'[k] = "completed"
    PROVE  \E w \in Worker : pc[w] = "inflight" /\ pc'[w] = "stored"
<1>1. cache \in [Key -> {"none", "failed", "completed"}] /\ pc \in [Worker -> PC]
  BY DEF TypeInv, SharedType, LocalType
<1>2. cache' # cache
  OBVIOUS
<1>3. ASSUME NEW w \in Worker, Store(w) PROVE pc[w] = "inflight" /\ pc'[w] = "stored"
  BY <1>1, <1>3 DEF Store, Goto
<1>4. ASSUME NEW w \in Worker, NEW outlook, GiveUp(w, outlook) PROVE FALSE
  BY <1>1, <1>4 DEF GiveUp
<1>5. ASSUME NEW w \in Worker, Reserve(w) \/ CheckDeadlines(w) PROVE FALSE
  BY <1>2, <1>4, <1>5 DEF Reserve, CheckDeadlines
<1>6. ASSUME NEW w \in Worker, FetchFails(w) PROVE FALSE
  BY <1>1, <1>6 DEF FetchFails
<1>7. ASSUME NEW w \in Worker, Pass(w) \/ Crash(w) PROVE Store(w)
  BY <1>2, <1>5, <1>6, <1>7
  DEF Pass, Crash, CheckCache, CompleteHit, Ask, Fence, FenceLost, Recheck, ReadDeadline,
      StartFetch, AfterSuccess, Complete, FetchRaises, Delay, Fail
<1>8. ASSUME NEW w \in Worker, NEW r \in Item, Claim(w, r) PROVE FALSE
  BY <1>2, <1>8 DEF Claim
<1>9. ~(Client \/ LeaseExpires \/ LeaseLapses \/ UNCHANGED vars)
  BY <1>2 DEF Client, Enqueue, EnqueueRefresh, DeadlinePasses, FailActive, LeaseExpires,
              LeaseLapses, vars
<1> QED
  BY <1>3, <1>7, <1>8, <1>9 DEF Next

\* How a worker comes to a place where it has looked, and to an item.
Arrives(w) ==
    /\ Checked(w)' => /\ job'[w] = job[w] /\ snap'[w] = snap[w]
                      /\ \/ Checked(w)
                         \/ pc[w] = "recheck" /\ ~CacheAnswers(w) /\ cache' = cache
    /\ pc'[w] # "idle" => \/ pc[w] # "idle" /\ job'[w] = job[w]
                          \/ row'[job'[w]].status = "claimed"

LEMMA SameArrives ==
    ASSUME NEW w \in Worker,
           pc'[w] = pc[w], job'[w] = job[w], snap'[w] = snap[w], round'[w] = round[w]
    PROVE  Arrives(w)
  BY DEF Arrives, Checked

LEMMA PassArrives ==
    ASSUME TypeInv, NEW w \in Worker, Pass(w) \/ Crash(w)
    PROVE  Arrives(w)
<1>1. /\ pc \in [Worker -> PC] /\ round \in [Worker -> 0 .. 3] /\ InRound(pc[w], round[w])
      /\ job \in [Worker -> Item \cup {NoItem}] /\ snap \in [Worker -> {"missing", "refresh"}]
  BY DEF TypeInv, LocalType
<1>2. ASSUME Return(w) PROVE Arrives(w)
  BY <1>1, <1>2 DEF Return, Arrives, Checked
<1>3. ASSUME NEW label, Goto(w, label), label \notin {"idle", "fence", "recheck"},
             label \in {"refence", "reserve", "deadline", "ready", "go"} => Checked(w),
             pc[w] # "idle"
      PROVE  Arrives(w)
  BY <1>1, <1>3 DEF Goto, Arrives, Checked
<1>4. CASE CheckCache(w) \/ StartFetch(w) \/ Store(w) \/ AfterSuccess(w) \/ FetchFails(w)
  BY <1>3, <1>4 DEF CheckCache, StartFetch, Store, AfterSuccess, FetchFails
<1>5. CASE Ask(w)
  BY <1>1, <1>5 DEF Ask, Arrives, Checked, InRound
<1>6. CASE Fence(w)
  <2>1. job' = job /\ snap' = snap /\ pc[w] \in {"fence", "refence"}
    BY <1>6 DEF Fence
  <2>2. CASE pc[w] = "fence"
    BY <1>1, <1>6, <2>1, <2>2 DEF Fence, Arrives, Checked, InRound
  <2>3. CASE pc[w] = "refence"
    <3>1. pc'[w] \in {"reserve", "deadline"}
      BY <1>1, <1>6, <2>3 DEF Fence
    <3> QED
      BY <2>1, <2>3, <3>1 DEF Arrives, Checked
  <2> QED BY <2>1, <2>2, <2>3
<1>7. CASE Recheck(w)
  <2>1. CASE CacheAnswers(w)
    BY <1>3, <1>7, <2>1 DEF Recheck
  <2>2. CASE ~CacheAnswers(w)
    BY <1>1, <1>7, <2>2 DEF Recheck, Goto, Arrives, Checked
  <2> QED BY <2>1, <2>2
<1>8. CASE Reserve(w)
  <2>1. pc[w] = "reserve" /\ \E label \in {"deadline", "delaying", "spending"} : Goto(w, label)
    BY <1>8 DEF Reserve, GiveUp
  <2> QED
    BY <1>3, <2>1 DEF Checked
<1>9. CASE CheckDeadlines(w)
  <2>1. /\ pc[w] = "deadline"
        /\ \/ \E label \in {"delaying", "spending"} : Goto(w, label)
           \/ UNCHANGED <<job, snap>> /\ pc'[w] # "idle"
    <3>1. /\ pc[w] = "deadline"
          /\ \/ \E label \in {"delaying", "spending"} : Goto(w, label)
             \/ /\ UNCHANGED <<job, snap>>
                /\ pc' = [pc EXCEPT ![w] = CASE round[w] = 1 -> "fence"
                                             [] round[w] = 2 -> "ready"
                                             [] round[w] = 3 -> "go"]
      BY <1>9 DEF CheckDeadlines, GiveUp
    <3> QED
      BY <1>1, <3>1 DEF InRound
  <2> QED
    BY <1>3, <2>1 DEF Arrives, Checked
<1>10. CASE ReadDeadline(w)
  <2>1. pc[w] = "ready" /\ UNCHANGED <<job, snap>> /\ pc'[w] \in {"deadline", "go"}
    BY <1>1, <1>10 DEF ReadDeadline
  <2> QED
    BY <2>1 DEF Arrives, Checked
<1>11. CASE \/ CompleteHit(w) \/ Complete(w) \/ FenceLost(w) \/ FetchRaises(w) \/ Delay(w)
            \/ Fail(w) \/ Crash(w)
  BY <1>2, <1>11 DEF CompleteHit, Complete, FenceLost, FetchRaises, Delay, Fail, Crash
<1> QED
  BY <1>4, <1>5, <1>6, <1>7, <1>8, <1>9, <1>10, <1>11 DEF Pass

LEMMA OthersStay ==
    ASSUME TypeInv, NEW w \in Worker, Pass(w) \/ Crash(w), NEW v \in Worker \ {w}
    PROVE  pc'[v] = pc[v] /\ job'[v] = job[v] /\ snap'[v] = snap[v] /\ round'[v] = round[v]
<1>1. /\ pc \in [Worker -> PC] /\ round \in [Worker -> 0 .. 3]
      /\ job \in [Worker -> Item \cup {NoItem}] /\ snap \in [Worker -> {"missing", "refresh"}]
  BY DEF TypeInv, LocalType
<1>2. ASSUME Return(w) \/ \E label : Goto(w, label)
      PROVE  pc'[v] = pc[v] /\ job'[v] = job[v] /\ snap'[v] = snap[v] /\ round'[v] = round[v]
  BY <1>1, <1>2 DEF Return, Goto
<1>3. CASE \/ CheckCache(w) \/ Recheck(w) \/ StartFetch(w) \/ Store(w) \/ AfterSuccess(w)
           \/ FetchFails(w) \/ CompleteHit(w) \/ Complete(w) \/ FenceLost(w)
           \/ FetchRaises(w) \/ Delay(w) \/ Fail(w) \/ Crash(w) \/ Reserve(w)
  BY <1>2, <1>3 DEF CheckCache, Recheck, StartFetch, Store, AfterSuccess, FetchFails, CompleteHit,
     Complete, FenceLost, FetchRaises, Delay, Fail, Crash, Reserve, GiveUp
<1>4. CASE Ask(w) \/ Fence(w) \/ ReadDeadline(w)
  BY <1>1, <1>4 DEF Ask, Fence, ReadDeadline
<1>5. CASE CheckDeadlines(w)
  BY <1>1, <1>2, <1>5 DEF CheckDeadlines, GiveUp
<1> QED
  BY <1>3, <1>4, <1>5 DEF Pass

LEMMA Arrival ==
    ASSUME TypeInv, [Next]_vars, NEW v \in Worker
    PROVE  Arrives(v)
<1>1. ASSUME NEW w \in Worker, Pass(w) \/ Crash(w) PROVE Arrives(v)
  <2>1. CASE v = w
    BY <1>1, <2>1, PassArrives
  <2>2. CASE v # w
    BY <1>1, <2>2, OthersStay, SameArrives
  <2> QED BY <2>1, <2>2
<1>2. ASSUME NEW w \in Worker, NEW r \in Item, Claim(w, r) PROVE Arrives(v)
  <2>1. /\ row'[r].status = "claimed" /\ pc'[w] = "claimed" /\ job'[w] = r
        /\ \A u \in Worker \ {w} : /\ pc'[u] = pc[u] /\ round'[u] = round[u] /\ job'[u] = job[u]
                                   /\ snap'[u] = snap[u]
    <3>1. \A u \in Worker \ {w} : snap'[u] = snap[u]
      BY <1>2 DEF Claim, TypeInv, LocalType
    <3>2. /\ row'[r].status = "claimed" /\ pc'[w] = "claimed" /\ job'[w] = r
          /\ \A u \in Worker \ {w} : pc'[u] = pc[u] /\ round'[u] = round[u] /\ job'[u] = job[u]
      BY <1>2, ClaimTyped
    <3> QED
      BY <3>1, <3>2
  <2>2. CASE v = w
    BY <2>1, <2>2 DEF Arrives, Checked
  <2>3. CASE v # w
    BY <2>1, <2>3, SameArrives
  <2> QED BY <2>2, <2>3
<1>3. CASE Client \/ LeaseExpires \/ LeaseLapses \/ UNCHANGED vars
  <2>1. pc' = pc /\ job' = job /\ snap' = snap /\ round' = round
    BY <1>3 DEF Client, Enqueue, EnqueueRefresh, DeadlinePasses, FailActive, LeaseExpires,
                LeaseLapses, vars, workers
  <2> QED
    BY <2>1, SameArrives
<1> QED
  BY <1>1, <1>2, <1>3 DEF Next

\* No step makes a behaviour steady again.
LEMMA SteadyBefore == TypeInv /\ [Next]_vars /\ steady' => steady
<1> SUFFICES ASSUME TypeInv, [Next]_vars, steady' PROVE steady
  OBVIOUS
<1>1. ASSUME NEW w \in Worker, Pass(w) \/ Crash(w) PROVE steady
  BY <1>1, PassOwn DEF Own
<1>2. ASSUME NEW w \in Worker, NEW r \in Item, Claim(w, r) PROVE steady
  BY <1>2 DEF Claim
<1>3. CASE Client \/ LeaseExpires \/ LeaseLapses \/ UNCHANGED vars
  BY <1>3 DEF Client, Enqueue, EnqueueRefresh, DeadlinePasses, FailActive, LeaseExpires,
              LeaseLapses, vars, ghost
<1> QED
  BY <1>1, <1>2, <1>3 DEF Next

LEMMA MissNext == QueueInv /\ MissInv /\ [Next]_vars => MissInv'
<1> SUFFICES ASSUME QueueInv, MissInv, [Next]_vars, NEW v \in Worker
             PROVE  /\ pc'[v] # "idle" => row'[job'[v]].status # "absent"
                    /\ steady' /\ Checked(v)' /\ snap'[v] = "missing"
                          => cache'[row'[job'[v]].key] # "completed"
  BY DEF MissInv
<1>1. TypeInv /\ Arrives(v)
  BY Arrival DEF QueueInv
<1>2. ASSUME pc'[v] # "idle" PROVE row'[job'[v]].status # "absent"
  <2>1. CASE pc[v] # "idle" /\ job'[v] = job[v]
    BY <1>1, <2>1, Knows, RowsKeep DEF MissInv
  <2>2. CASE row'[job'[v]].status = "claimed"
    BY <2>2
  <2> QED BY <1>1, <1>2, <2>1, <2>2 DEF Arrives
<1>3. ASSUME steady', Checked(v)', snap'[v] = "missing"
      PROVE  cache'[row'[job'[v]].key] # "completed"
  <2>1. /\ steady /\ job'[v] = job[v] /\ snap[v] = "missing"
        /\ \/ Checked(v)
           \/ pc[v] = "recheck" /\ ~CacheAnswers(v) /\ cache' = cache
    BY <1>1, <1>3, SteadyBefore DEF Arrives
  <2>2. pc[v] # "idle" /\ pc[v] # "inflight" /\ job[v] \in Item
    BY <1>1, <2>1, Knows DEF Checked
  <2> PICK k \in Key : k = row[job[v]].key
    BY <1>1, <2>2, Knows DEF Row
  <2>3. row'[job'[v]].key = k
    BY <1>1, <2>1, <2>2, RowsKeep DEF MissInv
  <2>4. cache[k] # "completed"
    BY <2>1 DEF MissInv, CacheAnswers
  <2>5. upstream = v
    BY <2>1, <2>2 DEF QueueInv, SteadyInv, WorkerInv, LeaseHeld, Checked
  <2>6. \A w \in Worker : pc[w] = "inflight" => w = v
    BY <2>1, <2>5 DEF QueueInv, SteadyInv, WorkerInv, LeaseHeld
  <2> QED
    BY <1>1, <2>2, <2>3, <2>4, <2>6, CacheWritten
<1> QED
  BY <1>2, <1>3

\* A worker that sends a request for what was missing has seen under the lease
\* that it still is (the second look of _gate_fetch_ownership at the cache), and only
\* the holder of the lease answers: the same request queued twice is fetched once.
THEOREM NoRefetchHolds == Spec => NoRefetch
<1>1. Init => MissInv
  BY DEF Init, MissInv, Checked
<1>2. QueueInv /\ MissInv /\ [Next]_vars =>
        [\A w \in Worker :
            steady /\ pc[w] = "go" /\ pc'[w] = "inflight" /\ snap[w] = "missing"
                => cache[row[job[w]].key] # "completed"]_vars
  BY DEF MissInv, Checked
<1> QED
  BY <1>1, <1>2, InvHolds, MissNext, PTL DEF Spec, NoRefetch
====
