---- MODULE IdReservations_proofs ----
(***************************************************************************)
(* Theorems about IdReservations, for any workers, items and lists of IDs  *)
(* and any number of mishaps.                                              *)
(*                                                                         *)
(* A worker that has passed its first fence has a live reservation of each *)
(* ID of its plan, and nobody takes a live reservation (Held).  Papers are *)
(* stored by the worker that holds their IDs, so what was missing when the *)
(* plan was made again at the gate is missing still when the request goes  *)
(* out (Unanswered).  Nothing is assumed of the claim or of the lease.     *)
(***************************************************************************)
EXTENDS IdReservations, TLAPS

PlanType == [ids : SUBSET Id, known : SUBSET Id, round : {1, 2},
             then : {"nothing", "composed", "completed", "failed", "delayed", "waiting"}]

Reservation == [owner : Worker \cup {None, Gone}, live : BOOLEAN]
QueueRow == [status : Active \cup {"completed", "failed"},
             by : Worker \cup {None, Gone}, live : BOOLEAN]

\* Between the plan's revalidation at a gate and the end of the fetch.
Ready == {"renewing", "confirming", "passed", "fetching", "storing"}

\* Past a fence.
Holding == Ready \cup {"rechecking", "revalidating", "trimming"}

\* What a worker knows while it passes through run_once.
Consistent(v) ==
    /\ pc[v] = "idle" => plan[v] = NoPlan
    /\ pc[v] # "idle" => job[v] \in Item
    /\ pc[v] \in {"checking", "planning", "reserving"} => plan[v].ids = {}
    /\ plan[v].known \subseteq papers
    /\ pc[v] \in Ready => plan[v].ids = Wants[job[v]] \ plan[v].known /\ plan[v].ids # {}
    /\ pc[v] = "composing" => Wants[job[v]] \subseteq papers
    /\ pc[v] \in {"dropping", "ending"} /\ plan[v].then \in {"completed", "composed"}
          => Wants[job[v]] \subseteq papers
    /\ pc[v] = "ending" => plan[v].then # "composed"

Held(v) == pc[v] \in Holding => \A id \in plan[v].ids : res[id] = Reserved(v)

\* What is still to be fetched has not been fetched by anybody.
Unanswered(v) ==
    /\ pc[v] = "trimming" =>
          (plan[v].ids \cap (Wants[job[v]] \ plan[v].known)) \cap answered = {}
    /\ pc[v] \in Ready => plan[v].ids \cap answered = {}

Kept(v) == \A id \in Id : res[id].owner = v => id \in plan[v].ids

WorkerInv(v) == Consistent(v) /\ Held(v) /\ Unanswered(v) /\ Kept(v)

ReservationInv == TypeOK /\ CompletedWhole /\ \A v \in Worker : WorkerInv(v)

\* What a step of w does to the others: their locals and their live
\* reservations stay, and it stores what it holds.
Moves(w) ==
    /\ \A v \in Worker \ {w} : pc'[v] = pc[v] /\ job'[v] = job[v] /\ plan'[v] = plan[v]
    /\ \A v \in Worker \ {w}, id \in Id : /\ res[id] = Reserved(v) => res'[id] = Reserved(v)
                                          /\ res'[id].owner = v => res[id].owner = v
    /\ papers \subseteq papers'
    /\ \A id \in answered' : id \in answered \/ res[id] = Reserved(w)

\* A step of w that keeps the invariant, if the others keep theirs.
Safe(w) == TypeOK' /\ CompletedWhole' /\ Moves(w) /\ WorkerInv(w)'

-----------------------------------------------------------------------------
(* The reservations.                                                       *)

\* Live reservations of others are not taken, and they get none.
LEMMA AcquiredFacts ==
    ASSUME TypeOK, NEW w \in Worker, NEW ids \in SUBSET Id
    PROVE  /\ Acquired(w, ids) \in [Id -> Reservation]
           /\ Blockers(w, ids) = {} => \A id \in ids : Acquired(w, ids)[id] = Reserved(w)
           /\ \A id \in Id : Acquired(w, ids)[id].owner = w =>
                 res[id].owner = w \/ (id \in ids /\ Blockers(w, ids) = {})
           /\ \A v \in Worker \ {w}, id \in Id :
                 /\ res[id] = Reserved(v) => Acquired(w, ids)[id] = Reserved(v)
                 /\ Acquired(w, ids)[id].owner = v => res[id].owner = v
<1> DEFINE r == Acquired(w, ids)
<1>1. res \in [Id -> Reservation]
  BY DEF TypeOK, Reservation
<1>2. /\ Unreserved \in Reservation
      /\ \A v \in Worker : Reserved(v) \in Reservation /\ Reserved(v).owner = v /\ Reserved(v).live
      /\ Unreserved.owner = None
  BY DEF Reservation, Unreserved, Reserved
<1>3. /\ Reclaimed \in [Id -> Reservation]
      /\ \A id \in Id : Reclaimed[id] = IF res[id].live THEN res[id] ELSE Unreserved
  BY <1>1, <1>2 DEF Reclaimed
<1>4. /\ r \in [Id -> Reservation]
      /\ \A id \in Id : r[id] = IF id \in ids /\ Blockers(w, ids) = {}
                                THEN Reserved(w) ELSE Reclaimed[id]
  BY <1>2, <1>3 DEF Acquired
<1>5. \A id \in ids : Reclaimed[id].owner \notin {None, w} => Blockers(w, ids) # {}
  BY DEF Blockers
<1>6. \A v \in Worker : v # None
  BY ReservationAssumption
<1> HIDE DEF r
<1>7. \A id \in Id : r[id].owner = w => res[id].owner = w \/ (id \in ids /\ Blockers(w, ids) = {})
  BY <1>2, <1>3, <1>4, <1>6
<1>8. ASSUME NEW v \in Worker \ {w}, NEW id \in Id
      PROVE  /\ res[id] = Reserved(v) => r[id] = Reserved(v)
             /\ r[id].owner = v => res[id].owner = v
  <2>1. ASSUME res[id] = Reserved(v) PROVE r[id] = Reserved(v)
    <3>1. Reclaimed[id] = Reserved(v) /\ Reclaimed[id].owner = v
      BY <2>1, <1>2, <1>3
    <3>2. ~(id \in ids /\ Blockers(w, ids) = {})
      BY <3>1, <1>5, <1>6
    <3> QED BY <3>1, <3>2, <1>4
  <2>2. ASSUME r[id].owner = v PROVE res[id].owner = v
    BY <2>2, <1>2, <1>3, <1>4, <1>6
  <2> QED BY <2>1, <2>2
<1> QED
  BY <1>4, <1>7, <1>8 DEF r

\* A renewal touches the worker's own rows only.
LEMMA RenewedFacts ==
    ASSUME TypeOK, NEW w \in Worker, NEW ids \in SUBSET Id
    PROVE  /\ Renewed(w, ids) \in [Id -> Reservation]
           /\ OwnsAll(w, ids) => \A id \in ids : Renewed(w, ids)[id] = Reserved(w)
           /\ \A id \in Id : Renewed(w, ids)[id].owner = res[id].owner
           /\ \A v \in Worker \ {w}, id \in Id :
                 res[id] = Reserved(v) => Renewed(w, ids)[id] = Reserved(v)
<1>1. res \in [Id -> Reservation] /\ Reserved(w) \in Reservation /\ Reserved(w).owner = w
  BY DEF TypeOK, Reservation, Reserved
<1>2. \A v \in Worker \ {w} : Reserved(v).owner # w
  BY DEF Reserved
<1>3. \A id \in Id : Renewed(w, ids)[id] = IF id \in ids /\ res[id].owner = w
                                           THEN Reserved(w) ELSE res[id]
  BY DEF Renewed
<1>4. Renewed(w, ids) \in [Id -> Reservation]
  BY <1>1 DEF Renewed
<1> QED
  BY <1>1, <1>2, <1>3, <1>4 DEF OwnsAll

\* A release gives back the worker's own rows and completes no item.
LEMMA ReleaseFacts ==
    ASSUME TypeOK, NEW w \in Worker, NEW ids \in SUBSET Id, ReleaseIds(w, ids)
    PROVE  /\ res' \in [Id -> Reservation] /\ row' \in [Item -> QueueRow]
           /\ \A id \in Id : res'[id] = IF id \in ids /\ res[id].owner = w
                                        THEN Unreserved ELSE res[id]
           /\ \A i \in Item : row'[i].status = "completed" => row[i].status = "completed"
<1>1. res \in [Id -> Reservation] /\ row \in [Item -> QueueRow]
  BY DEF TypeOK, Reservation, QueueRow
<1>2. Unreserved \in Reservation /\ [status |-> "queued", by |-> None, live |-> FALSE] \in QueueRow
  BY DEF Reservation, Unreserved, QueueRow, Active
<1> DEFINE mine == {id \in ids : res[id].owner = w}
<1>3. /\ res' = [id \in Id |-> IF id \in mine THEN Unreserved ELSE res[id]]
      /\ row' = [i \in Item |->
                   IF mine # {} /\ row[i].status = "waiting" /\ Wants[i] \cap ids # {}
                   THEN [status |-> "queued", by |-> None, live |-> FALSE]
                   ELSE row[i]]
  BY DEF ReleaseIds
<1>4. \A id \in Id : res'[id] = IF id \in ids /\ res[id].owner = w THEN Unreserved ELSE res[id]
  BY <1>3
<1> HIDE DEF mine
<1> QED
  BY <1>1, <1>2, <1>3, <1>4

-----------------------------------------------------------------------------
(* Steps of a worker.                                                      *)

LEMMA GotoFacts ==
    ASSUME TypeOK, NEW w \in Worker, NEW label \in Label, NEW p \in PlanType,
           Goto(w, label, p)
    PROVE  /\ pc' \in [Worker -> Label] /\ plan' \in [Worker -> PlanType] /\ job' = job
           /\ pc'[w] = label /\ plan'[w] = p
           /\ \A v \in Worker \ {w} : pc'[v] = pc[v] /\ plan'[v] = plan[v]
  BY DEF TypeOK, Goto, PlanType

\* What the others know stays true.
LEMMA OthersFine ==
    ASSUME ReservationInv, NEW w, Moves(w), NEW v \in Worker \ {w}
    PROVE  WorkerInv(v)'
<1>1. /\ pc'[v] = pc[v] /\ job'[v] = job[v] /\ plan'[v] = plan[v]
      /\ papers \subseteq papers'
      /\ \A id \in Id : res[id] = Reserved(v) => res'[id] = Reserved(v)
      /\ \A id \in Id : res'[id].owner = v => res[id].owner = v
      /\ \A id \in answered' : id \in answered \/ res[id] = Reserved(w)
  BY DEF Moves
<1>2. WorkerInv(v) /\ plan[v] \in PlanType
  BY DEF ReservationInv, TypeOK, PlanType
<1>3. plan[v].ids \subseteq Id
  BY <1>2 DEF PlanType
<1>4. Consistent(v)'
  <2>1. Consistent(v)
    BY <1>2 DEF WorkerInv
  <2> QED BY <1>1, <2>1 DEF Consistent
<1>5. Held(v)'
  BY <1>1, <1>2, <1>3 DEF WorkerInv, Held, Reserved
<1>6. Kept(v)'
  BY <1>1, <1>2 DEF WorkerInv, Kept
<1>7. Unanswered(v)'
  <2>1. pc[v] \in Holding => \A id \in plan[v].ids : id \in answered' => id \in answered
    BY <1>1, <1>2 DEF WorkerInv, Held, Reserved
  <2> QED
    BY <1>1, <1>2, <2>1 DEF WorkerInv, Unanswered, Holding
<1> QED
  BY <1>4, <1>5, <1>6, <1>7 DEF WorkerInv

\* A step that touches neither reservations nor papers.
LEMMA LocalStep ==
    ASSUME ReservationInv, NEW w \in Worker, NEW label \in Label, NEW p \in PlanType,
           Goto(w, label, p), UNCHANGED <<store, res, queue>>,
           lease' \in Worker \cup {None, Gone}, mishaps' \in 0 .. MaxMishaps
    PROVE  /\ TypeOK' /\ CompletedWhole' /\ Moves(w)
           /\ pc'[w] = label /\ plan'[w] = p /\ job'[w] = job[w]
           /\ papers' = papers /\ answered' = answered /\ res' = res
<1>1. TypeOK /\ CompletedWhole
  BY DEF ReservationInv
<1>2. /\ pc' \in [Worker -> Label] /\ plan' \in [Worker -> PlanType] /\ job' = job
      /\ pc'[w] = label /\ plan'[w] = p
      /\ \A v \in Worker \ {w} : pc'[v] = pc[v] /\ plan'[v] = plan[v]
  BY <1>1, GotoFacts
<1>3. papers' = papers /\ answered' = answered /\ res' = res /\ row' = row /\ cached' = cached
  BY DEF store, queue
<1>4. TypeOK'
  BY <1>1, <1>2, <1>3 DEF TypeOK, PlanType
<1>5. CompletedWhole'
  BY <1>1, <1>3 DEF CompletedWhole
<1>6. Moves(w)
  BY <1>2, <1>3 DEF Moves
<1> QED
  BY <1>2, <1>3, <1>4, <1>5, <1>6

\* The worker that steps, and the types of what it knows.
LEMMA Knows ==
    ASSUME ReservationInv, NEW w \in Worker
    PROVE  /\ TypeOK /\ CompletedWhole /\ WorkerInv(w)
           /\ plan[w] \in PlanType /\ pc[w] \in Label
           /\ pc[w] # "idle" => job[w] \in Item /\ Wants[job[w]] \in SUBSET Id
           /\ mishaps \in 0 .. MaxMishaps /\ lease \in Worker \cup {None, Gone}
           /\ papers \in SUBSET Id
<1>1. TypeOK /\ CompletedWhole /\ WorkerInv(w)
  BY DEF ReservationInv
<1>2. plan[w] \in PlanType /\ pc[w] \in Label
  BY <1>1 DEF TypeOK, PlanType
<1>3. pc[w] # "idle" => job[w] \in Item
  BY <1>1 DEF WorkerInv, Consistent
<1>4. \A i \in Item : Wants[i] \in SUBSET Id
  BY ReservationAssumption
<1> QED
  BY <1>1, <1>2, <1>3, <1>4 DEF TypeOK

LEMMA MishapType ==
    ASSUME TypeOK, Mishap
    PROVE  mishaps' \in 0 .. MaxMishaps
  BY ReservationAssumption DEF TypeOK, Mishap

\* The ways out, of a pass that has no answer or one that is whole.
LEMMA WayOut ==
    ASSUME ReservationInv, NEW w \in Worker, pc[w] # "idle",
           NEW label \in {"dropping", "ending"},
           NEW then \in {"nothing", "completed", "failed", "delayed", "waiting"},
           Goto(w, label, [plan[w] EXCEPT !.then = then]), UNCHANGED <<store, res, queue>>,
           lease' \in Worker \cup {None, Gone}, mishaps' \in 0 .. MaxMishaps,
           then = "completed" => Wants[job[w]] \subseteq papers
    PROVE  Safe(w)
<1>0. /\ TypeOK /\ CompletedWhole /\ WorkerInv(w) /\ plan[w] \in PlanType /\ label \in Label
  BY Knows DEF Label
<1> DEFINE p == [plan[w] EXCEPT !.then = then]
<1>1. p \in PlanType /\ p.ids = plan[w].ids /\ p.known = plan[w].known /\ p.then = then
  BY <1>0 DEF PlanType
<1>2. Goto(w, label, p)
  OBVIOUS
<1> HIDE DEF p
<1>3. /\ TypeOK' /\ CompletedWhole' /\ Moves(w)
      /\ pc'[w] = label /\ plan'[w] = p /\ job'[w] = job[w]
      /\ papers' = papers /\ answered' = answered /\ res' = res
  BY <1>0, <1>1, <1>2, LocalStep
<1> QED
  BY <1>0, <1>1, <1>3
  DEF Safe, WorkerInv, Consistent, Held, Unanswered, Kept, Ready, Holding

LEMMA PlanSteps ==
    ASSUME ReservationInv, NEW w \in Worker, CheckCache(w) \/ Plan(w) \/ Awake(w)
    PROVE  Safe(w)
<1>0. /\ TypeOK /\ CompletedWhole /\ WorkerInv(w) /\ plan[w] \in PlanType
      /\ mishaps \in 0 .. MaxMishaps /\ lease \in Worker \cup {None, Gone}
  BY Knows
<1>1. CASE CheckCache(w)
  <2>1. CASE job[w] \in cached
    <3>1. /\ Goto(w, "ending", [plan[w] EXCEPT !.then = "completed"])
          /\ UNCHANGED <<store, res, queue, lease, mishaps>> /\ pc[w] = "checking"
      BY <1>1, <2>1 DEF CheckCache, Finish
    <3>2. Wants[job[w]] \subseteq papers
      BY <1>0, <2>1 DEF TypeOK, CompletedWhole
    <3> QED
      BY <1>0, <3>1, <3>2, WayOut
  <2>2. CASE job[w] \notin cached
    <3>2. /\ Goto(w, "planning", plan[w]) /\ UNCHANGED <<store, res, queue, lease, mishaps>>
          /\ pc[w] = "checking" /\ "planning" \in Label
      BY <1>1, <2>2 DEF CheckCache, Label
    <3>3. /\ TypeOK' /\ CompletedWhole' /\ Moves(w)
          /\ pc'[w] = "planning" /\ plan'[w] = plan[w] /\ job'[w] = job[w]
          /\ papers' = papers /\ answered' = answered /\ res' = res
      BY <1>0, <3>2, LocalStep
    <3> QED
      BY <1>0, <3>2, <3>3
      DEF Safe, WorkerInv, Consistent, Held, Unanswered, Kept, Ready, Holding
  <2> QED BY <2>1, <2>2
<1>2. CASE Plan(w)
  <2> DEFINE known == Wants[job[w]] \cap papers
             p == [plan[w] EXCEPT !.known = known]
             label == IF known = Wants[job[w]] THEN "composing" ELSE "reserving"
  <2>1. pc[w] = "planning"
    BY <1>2 DEF Plan
  <2>2. p \in PlanType /\ p.ids = plan[w].ids /\ p.known = known /\ p.then = plan[w].then
    BY <1>0, <2>1, Knows DEF PlanType
  <2>3. /\ Goto(w, label, p) /\ UNCHANGED <<store, res, queue, lease, mishaps>> /\ label \in Label
        /\ label = "composing" => Wants[job[w]] \subseteq papers
        /\ label \in {"composing", "reserving"} /\ known \subseteq papers
    BY <1>2 DEF Plan, Label
  <2> HIDE DEF p, label, known
  <2>4. /\ TypeOK' /\ CompletedWhole' /\ Moves(w)
        /\ pc'[w] = label /\ plan'[w] = p /\ job'[w] = job[w]
        /\ papers' = papers /\ answered' = answered /\ res' = res
    BY <1>0, <2>2, <2>3, LocalStep
  <2> QED
    BY <1>0, <2>1, <2>2, <2>3, <2>4
    DEF Safe, WorkerInv, Consistent, Held, Unanswered, Kept, Ready, Holding
<1>3. CASE Awake(w)
  <2>1. /\ Goto(w, "fencing", plan[w]) /\ UNCHANGED <<store, res, queue, lease, mishaps>>
        /\ pc[w] = "sleeping" /\ "fencing" \in Label
    BY <1>3 DEF Awake, Label
  <2>2. /\ TypeOK' /\ CompletedWhole' /\ Moves(w)
        /\ pc'[w] = "fencing" /\ plan'[w] = plan[w] /\ job'[w] = job[w]
        /\ papers' = papers /\ answered' = answered /\ res' = res
    BY <1>0, <2>1, LocalStep
  <2> QED
    BY <1>0, <2>1, <2>2
    DEF Safe, WorkerInv, Consistent, Held, Unanswered, Kept, Ready, Holding
<1> QED
  BY <1>1, <1>2, <1>3

LEMMA ReserveStep ==
    ASSUME ReservationInv, NEW w \in Worker, Reserve(w)
    PROVE  Safe(w)
<1>0. /\ TypeOK /\ CompletedWhole /\ WorkerInv(w) /\ plan[w] \in PlanType
  BY Knows
<1>1. pc[w] = "reserving" /\ UNCHANGED <<store, lease, queue, mishaps>>
  BY DEF Reserve
<1> DEFINE missing == Wants[job[w]] \ plan[w].known
           free == Blockers(w, missing) = {}
           label == IF free THEN "asking" ELSE "ending"
           p == IF free THEN [plan[w] EXCEPT !.ids = missing]
                ELSE [plan[w] EXCEPT !.then = "waiting"]
<1>2. missing \in SUBSET Id
  BY <1>1, Knows
<1>3. /\ p \in PlanType /\ p.known = plan[w].known /\ p.ids = IF free THEN missing ELSE plan[w].ids
      /\ ~free => p.then = "waiting"
  BY <1>0, <1>2 DEF PlanType
<1>4. Goto(w, label, p) /\ label \in Label /\ res' = Acquired(w, missing)
  BY DEF Reserve, Finish, Label
<1>5. label = IF free THEN "asking" ELSE "ending"
  OBVIOUS
<1>6. /\ res' \in [Id -> Reservation]
      /\ \A id \in Id : res'[id].owner = w => res[id].owner = w \/ (id \in missing /\ free)
      /\ \A v \in Worker \ {w}, id \in Id : /\ res[id] = Reserved(v) => res'[id] = Reserved(v)
                                            /\ res'[id].owner = v => res[id].owner = v
  <2> HIDE DEF missing, label, p
  <2>1. /\ Acquired(w, missing) \in [Id -> Reservation]
        /\ \A id \in Id : Acquired(w, missing)[id].owner = w =>
              res[id].owner = w \/ (id \in missing /\ Blockers(w, missing) = {})
        /\ \A v \in Worker \ {w}, id \in Id :
              /\ res[id] = Reserved(v) => Acquired(w, missing)[id] = Reserved(v)
              /\ Acquired(w, missing)[id].owner = v => res[id].owner = v
    BY <1>0, <1>2, AcquiredFacts
  <2> QED BY <2>1, <1>4
<1> HIDE DEF missing, free, label, p
<1>7. /\ pc' \in [Worker -> Label] /\ plan' \in [Worker -> PlanType] /\ job' = job
      /\ pc'[w] = label /\ plan'[w] = p
      /\ \A v \in Worker \ {w} : pc'[v] = pc[v] /\ plan'[v] = plan[v]
  BY <1>0, <1>3, <1>4, GotoFacts
<1>8. papers' = papers /\ answered' = answered /\ row' = row /\ cached' = cached
      /\ lease' = lease /\ mishaps' = mishaps
  BY <1>1 DEF store, queue
<1>9. TypeOK'
  BY <1>0, <1>6, <1>7, <1>8 DEF TypeOK, PlanType, Reservation
<1>10. CompletedWhole'
  BY <1>0, <1>8 DEF CompletedWhole
<1>11. Moves(w)
  BY <1>6, <1>7, <1>8 DEF Moves
<1>12. Kept(w)'
  <2>1. \A id \in Id : res[id].owner # w
    BY <1>0, <1>1 DEF WorkerInv, Consistent, Kept
  <2> QED
    BY <2>1, <1>3, <1>6, <1>7 DEF Kept
<1> QED
  BY <1>0, <1>1, <1>3, <1>5, <1>7, <1>8, <1>9, <1>10, <1>11, <1>12
  DEF Safe, WorkerInv, Consistent, Held, Unanswered, Ready, Holding

LEMMA AskStep ==
    ASSUME ReservationInv, NEW w \in Worker, Ask(w)
    PROVE  Safe(w)
<1>0. /\ TypeOK /\ CompletedWhole /\ WorkerInv(w) /\ plan[w] \in PlanType
      /\ mishaps \in 0 .. MaxMishaps /\ lease \in Worker \cup {None, Gone}
  BY Knows
<1>1. pc[w] = "asking" /\ UNCHANGED <<store, res, queue>>
  BY DEF Ask
<1>2. CASE lease' = w /\ Goto(w, "sleeping", plan[w]) /\ UNCHANGED mishaps
  <2>1. "sleeping" \in Label /\ lease' \in Worker \cup {None, Gone} /\ mishaps' \in 0 .. MaxMishaps
    BY <1>0, <1>2 DEF Label
  <2>2. /\ TypeOK' /\ CompletedWhole' /\ Moves(w)
        /\ pc'[w] = "sleeping" /\ plan'[w] = plan[w] /\ job'[w] = job[w]
        /\ papers' = papers /\ answered' = answered /\ res' = res
    BY <1>0, <1>1, <1>2, <2>1, LocalStep
  <2> QED
    BY <1>0, <1>1, <2>2
    DEF Safe, WorkerInv, Consistent, Held, Unanswered, Kept, Ready, Holding
<1>3. CASE Finish(w, "delayed") /\ lease' \in {lease, None} /\ (Mishap \/ UNCHANGED mishaps)
  <2>1. lease' \in Worker \cup {None, Gone} /\ mishaps' \in 0 .. MaxMishaps
    BY <1>0, <1>3, MishapType
  <2> QED
    BY <1>1, <1>3, <2>1, WayOut DEF Finish
<1> QED
  BY <1>2, <1>3 DEF Ask

\* The two ends of a gate, and what is between.
LEMMA FenceStep ==
    ASSUME ReservationInv, NEW w \in Worker, Fence(w)
    PROVE  Safe(w)
<1>0. /\ TypeOK /\ CompletedWhole /\ WorkerInv(w) /\ plan[w] \in PlanType
      /\ lease \in Worker \cup {None, Gone} /\ mishaps \in 0 .. MaxMishaps
  BY Knows
<1>1. /\ pc[w] \in {"fencing", "confirming"} /\ papers' = papers /\ answered' = answered
      /\ lease' = lease /\ cached' = cached /\ mishaps' = mishaps
  BY DEF Fence, store
<1> DEFINE i == job[w]
           ids == plan[w].ids
           label == IF pc[w] = "fencing" THEN "rechecking" ELSE "passed"
<1>2. i \in Item /\ ids \in SUBSET Id
  BY <1>0, <1>1, Knows DEF PlanType
<1>3. CASE /\ OwnsAll(w, ids) /\ row' = [row EXCEPT ![i].live = TRUE]
           /\ res' = Renewed(w, ids) /\ Goto(w, label, plan[w])
  <2>1. /\ pc' \in [Worker -> Label] /\ plan' \in [Worker -> PlanType] /\ job' = job
        /\ pc'[w] = label /\ plan'[w] = plan[w]
        /\ \A v \in Worker \ {w} : pc'[v] = pc[v] /\ plan'[v] = plan[v]
    BY <1>0, <1>3, GotoFacts DEF Label
  <2>2. /\ res' \in [Id -> Reservation]
        /\ \A id \in ids : res'[id] = Reserved(w)
        /\ \A id \in Id : res'[id].owner = res[id].owner
        /\ \A v \in Worker \ {w}, id \in Id : res[id] = Reserved(v) => res'[id] = Reserved(v)
    BY <1>0, <1>2, <1>3, RenewedFacts
  <2>3. /\ row' \in [Item -> QueueRow]
        /\ \A j \in Item : row'[j].status = row[j].status
    <3>1. row \in [Item -> QueueRow] /\ row[i] \in QueueRow
      BY <1>0, <1>2 DEF TypeOK, QueueRow
    <3> DEFINE r == [row[i] EXCEPT !.live = TRUE]
    <3>2. r \in QueueRow /\ r.status = row[i].status
      BY <3>1 DEF QueueRow
    <3>3. row' = [row EXCEPT ![i] = r]
      BY <1>3
    <3> HIDE DEF r
    <3> QED
      BY <1>2, <3>1, <3>2, <3>3
  <2>4. TypeOK'
    BY <1>0, <1>1, <2>1, <2>2, <2>3 DEF TypeOK, PlanType, Reservation, QueueRow
  <2>5. CompletedWhole'
    BY <1>0, <1>1, <2>3 DEF CompletedWhole
  <2>6. Moves(w)
    BY <1>1, <2>1, <2>2 DEF Moves
  <2>7. Kept(w)' /\ Held(w)'
    BY <1>0, <2>1, <2>2 DEF WorkerInv, Kept, Held
  <2> QED
    BY <1>0, <1>1, <2>1, <2>4, <2>5, <2>6, <2>7
    DEF Safe, WorkerInv, Consistent, Unanswered, Ready, Holding
<1>4. CASE UNCHANGED <<row, res>> /\ (Drop(w, "nothing") \/ Drop(w, "waiting"))
  <2>1. UNCHANGED <<store, res, queue>> /\ pc[w] # "idle"
    BY <1>1, <1>4 DEF store, queue
  <2> QED
    BY <1>0, <1>1, <1>4, <2>1, WayOut DEF Drop
<1> QED
  BY <1>3, <1>4 DEF Fence

LEMMA RecheckStep ==
    ASSUME ReservationInv, NEW w \in Worker, Recheck(w)
    PROVE  Safe(w)
<1>0. /\ TypeOK /\ CompletedWhole /\ WorkerInv(w) /\ plan[w] \in PlanType
      /\ lease \in Worker \cup {None, Gone} /\ mishaps \in 0 .. MaxMishaps
  BY Knows
<1>1. pc[w] = "rechecking" /\ UNCHANGED <<store, res, queue, lease, mishaps>>
  BY DEF Recheck
<1>2. CASE job[w] \in cached
  <2>1. Drop(w, "completed")
    BY <1>2 DEF Recheck
  <2>2. Wants[job[w]] \subseteq papers
    BY <1>0, <1>2 DEF TypeOK, CompletedWhole
  <2> QED
    BY <1>0, <1>1, <2>1, <2>2, WayOut DEF Drop
<1>3. CASE job[w] \notin cached
  <2>1. Goto(w, "revalidating", plan[w]) /\ "revalidating" \in Label
    BY <1>3 DEF Recheck, Label
  <2>2. /\ TypeOK' /\ CompletedWhole' /\ Moves(w)
        /\ pc'[w] = "revalidating" /\ plan'[w] = plan[w] /\ job'[w] = job[w]
        /\ papers' = papers /\ answered' = answered /\ res' = res
    BY <1>0, <1>1, <2>1, LocalStep
  <2> QED
    BY <1>0, <1>1, <2>2
    DEF Safe, WorkerInv, Consistent, Held, Unanswered, Kept, Ready, Holding
<1> QED
  BY <1>2, <1>3

LEMMA RevalidateStep ==
    ASSUME ReservationInv, NEW w \in Worker, Revalidate(w)
    PROVE  Safe(w)
<1>0. /\ TypeOK /\ CompletedWhole /\ WorkerInv(w) /\ plan[w] \in PlanType
      /\ lease \in Worker \cup {None, Gone} /\ mishaps \in 0 .. MaxMishaps
  BY Knows
<1>1. pc[w] = "revalidating" /\ UNCHANGED <<store, res, queue, lease, mishaps>>
  BY DEF Revalidate
<1> DEFINE known == Wants[job[w]] \cap papers
           p == [plan[w] EXCEPT !.known = known]
<1>2. p \in PlanType /\ p.ids = plan[w].ids /\ p.known = known
  BY <1>0, <1>1, Knows DEF PlanType
<1>3. Goto(w, "trimming", p) /\ "trimming" \in Label /\ answered \subseteq papers
  BY <1>0 DEF Revalidate, Label, TypeOK
<1> HIDE DEF p
<1>4. /\ TypeOK' /\ CompletedWhole' /\ Moves(w)
      /\ pc'[w] = "trimming" /\ plan'[w] = p /\ job'[w] = job[w]
      /\ papers' = papers /\ answered' = answered /\ res' = res
  BY <1>0, <1>1, <1>2, <1>3, LocalStep
<1> QED
  BY <1>0, <1>1, <1>2, <1>3, <1>4
  DEF Safe, WorkerInv, Consistent, Held, Unanswered, Kept, Ready, Holding

LEMMA TrimStep ==
    ASSUME ReservationInv, NEW w \in Worker, Trim(w)
    PROVE  Safe(w)
<1>0. /\ TypeOK /\ CompletedWhole /\ WorkerInv(w) /\ plan[w] \in PlanType
  BY Knows
<1>1. /\ pc[w] = "trimming" /\ papers' = papers /\ answered' = answered
      /\ lease' = lease /\ cached' = cached /\ mishaps' = mishaps
  BY DEF Trim, store
<1> DEFINE missing == Wants[job[w]] \ plan[w].known
           kept == plan[w].ids \cap missing
           q == [plan[w] EXCEPT !.ids = @ \cap missing]
<1>2. missing \in SUBSET Id
  BY <1>1, Knows
<1>3. q \in PlanType /\ q.ids = kept /\ q.known = plan[w].known
  BY <1>0 DEF PlanType
<1>4. PICK label \in {"dropping", "renewing"}, p \in {q, [q EXCEPT !.then = "composed"],
                                                     [q EXCEPT !.then = "waiting"]} :
         /\ Goto(w, label, p)
         /\ label = "renewing" => kept = missing /\ missing # {}
         /\ label = "dropping" /\ p.then \in {"completed", "composed"} => missing = {}
  <2>1. CASE missing = {}
    BY <2>1 DEF Trim
  <2>2. CASE missing # {} /\ q.ids = missing
    BY <2>2, <1>3 DEF Trim
  <2>3. CASE missing # {} /\ q.ids # missing
    <3>1. [q EXCEPT !.then = "waiting"].then = "waiting"
      BY <1>3 DEF PlanType
    <3>2. Goto(w, "dropping", [q EXCEPT !.then = "waiting"])
      BY <2>3 DEF Trim
    <3> HIDE DEF q, missing
    <3> QED
      BY <2>3, <3>1, <3>2
  <2> QED BY <2>1, <2>2, <2>3
<1>5. p \in PlanType /\ p.ids = kept /\ p.known = plan[w].known /\ label \in Label
  BY <1>3 DEF PlanType, Label
<1>6. ReleaseIds(w, plan[w].ids \ missing)
  BY DEF Trim
<1>7. missing = {} => Wants[job[w]] \subseteq papers
  BY <1>0 DEF WorkerInv, Consistent
<1> HIDE DEF q
<1>8. /\ pc' \in [Worker -> Label] /\ plan' \in [Worker -> PlanType] /\ job' = job
      /\ pc'[w] = label /\ plan'[w] = p
      /\ \A v \in Worker \ {w} : pc'[v] = pc[v] /\ plan'[v] = plan[v]
  BY <1>0, <1>4, <1>5, GotoFacts
<1>9. /\ res' \in [Id -> Reservation] /\ row' \in [Item -> QueueRow]
      /\ \A id \in Id : res'[id] = IF id \in plan[w].ids \ missing /\ res[id].owner = w
                                   THEN Unreserved ELSE res[id]
      /\ \A j \in Item : row'[j].status = "completed" => row[j].status = "completed"
  <2> HIDE DEF missing
  <2>1. plan[w].ids \ missing \in SUBSET Id
    BY <1>0 DEF PlanType
  <2> QED BY <1>0, <1>6, <2>1, ReleaseFacts
<1>10. TypeOK'
  BY <1>0, <1>1, <1>8, <1>9 DEF TypeOK, PlanType, Reservation, QueueRow
<1>11. CompletedWhole'
  BY <1>0, <1>1, <1>9 DEF CompletedWhole
<1>12. Moves(w)
  BY <1>1, <1>8, <1>9, ReservationAssumption DEF Moves, Unreserved, Reserved
<1>13. Kept(w)'
  BY <1>0, <1>5, <1>8, <1>9, ReservationAssumption DEF WorkerInv, Kept, Unreserved
<1>14. Held(w)'
  <2>1. \A id \in plan[w].ids : res[id] = Reserved(w)
    BY <1>0, <1>1 DEF WorkerInv, Held, Holding
  <2> QED
    BY <2>1, <1>0, <1>5, <1>8, <1>9 DEF Held, PlanType
<1>15. Unanswered(w)'
  BY <1>0, <1>1, <1>4, <1>5, <1>8 DEF WorkerInv, Unanswered, Ready
<1>16. Consistent(w)'
  BY <1>0, <1>1, <1>4, <1>5, <1>7, <1>8 DEF WorkerInv, Consistent, Ready
<1> QED
  BY <1>10, <1>11, <1>12, <1>13, <1>14, <1>15, <1>16 DEF Safe, WorkerInv

LEMMA RenewStep ==
    ASSUME ReservationInv, NEW w \in Worker, Renew(w)
    PROVE  Safe(w)
<1>0. /\ TypeOK /\ CompletedWhole /\ WorkerInv(w) /\ plan[w] \in PlanType
      /\ lease \in Worker \cup {None, Gone} /\ mishaps \in 0 .. MaxMishaps
  BY Knows
<1>1. pc[w] = "renewing" /\ UNCHANGED <<store, lease, queue, mishaps>>
  BY DEF Renew
<1>2. CASE OwnsAll(w, plan[w].ids)
  <2>1. res' = Renewed(w, plan[w].ids) /\ Goto(w, "confirming", plan[w]) /\ "confirming" \in Label
    BY <1>2 DEF Renew, Label
  <2>2. /\ pc' \in [Worker -> Label] /\ plan' \in [Worker -> PlanType] /\ job' = job
        /\ pc'[w] = "confirming" /\ plan'[w] = plan[w]
        /\ \A v \in Worker \ {w} : pc'[v] = pc[v] /\ plan'[v] = plan[v]
    BY <1>0, <2>1, GotoFacts
  <2>3. plan[w].ids \in SUBSET Id
    BY <1>0 DEF PlanType
  <2>4. /\ res' \in [Id -> Reservation]
        /\ \A id \in plan[w].ids : res'[id] = Reserved(w)
        /\ \A id \in Id : res'[id].owner = res[id].owner
        /\ \A v \in Worker \ {w}, id \in Id : res[id] = Reserved(v) => res'[id] = Reserved(v)
    BY <1>0, <1>2, <2>1, <2>3, RenewedFacts
  <2>5. papers' = papers /\ answered' = answered /\ row' = row /\ cached' = cached
        /\ lease' = lease /\ mishaps' = mishaps
    BY <1>1 DEF store, queue
  <2>6. TypeOK'
    BY <1>0, <2>2, <2>4, <2>5 DEF TypeOK, PlanType, Reservation
  <2>7. CompletedWhole' /\ Moves(w)
    BY <1>0, <2>2, <2>4, <2>5 DEF CompletedWhole, Moves
  <2>8. Kept(w)' /\ Held(w)'
    BY <1>0, <2>2, <2>4 DEF WorkerInv, Kept, Held
  <2> QED
    BY <1>0, <1>1, <2>2, <2>5, <2>6, <2>7, <2>8
    DEF Safe, WorkerInv, Consistent, Unanswered, Ready
<1>3. CASE ~OwnsAll(w, plan[w].ids)
  <2>1. UNCHANGED res /\ Drop(w, "waiting")
    BY <1>3 DEF Renew
  <2> QED
    BY <1>0, <1>1, <2>1, WayOut DEF Drop
<1> QED
  BY <1>2, <1>3

\* Payment, request, answer.
LEMMA RequestSteps ==
    ASSUME ReservationInv, NEW w \in Worker,
           Pay(w) \/ Send(w) \/ Deny(w) \/ Arrives(w) \/ FetchFails(w)
    PROVE  Safe(w)
<1>0. /\ TypeOK /\ CompletedWhole /\ WorkerInv(w) /\ plan[w] \in PlanType
      /\ lease \in Worker \cup {None, Gone} /\ mishaps \in 0 .. MaxMishaps
  BY Knows
<1>1. UNCHANGED <<store, res, lease, queue>>
  BY DEF Pay, Send, Deny, Arrives, FetchFails
<1>2. CASE Pay(w)
  <2> DEFINE p == [plan[w] EXCEPT !.round = 2]
  <2>1. p \in PlanType /\ p.ids = plan[w].ids /\ p.known = plan[w].known
    BY <1>0 DEF PlanType
  <2>2. /\ Goto(w, "fencing", p) /\ "fencing" \in Label /\ UNCHANGED mishaps
        /\ pc[w] = "passed"
    BY <1>2 DEF Pay, Label
  <2> HIDE DEF p
  <2>3. /\ TypeOK' /\ CompletedWhole' /\ Moves(w)
        /\ pc'[w] = "fencing" /\ plan'[w] = p /\ job'[w] = job[w]
        /\ papers' = papers /\ answered' = answered /\ res' = res
    BY <1>0, <1>1, <2>1, <2>2, LocalStep
  <2> QED
    BY <1>0, <2>1, <2>2, <2>3
    DEF Safe, WorkerInv, Consistent, Held, Unanswered, Kept, Ready, Holding
<1>3. CASE Send(w) \/ Arrives(w)
  <2>1. PICK label \in {"fetching", "storing"} :
           Goto(w, label, plan[w]) /\ UNCHANGED mishaps /\ pc[w] \in Ready
    BY <1>3 DEF Send, Arrives, Ready
  <2>2. label \in Label
    BY DEF Label
  <2>3. /\ TypeOK' /\ CompletedWhole' /\ Moves(w)
        /\ pc'[w] = label /\ plan'[w] = plan[w] /\ job'[w] = job[w]
        /\ papers' = papers /\ answered' = answered /\ res' = res
    BY <1>0, <1>1, <2>1, <2>2, LocalStep
  <2> QED
    BY <1>0, <2>1, <2>3
    DEF Safe, WorkerInv, Consistent, Held, Unanswered, Kept, Ready, Holding
<1>4. CASE Deny(w) \/ FetchFails(w)
  <2>1. PICK then \in {"nothing", "failed", "delayed"} :
           Drop(w, then) /\ (Mishap \/ UNCHANGED mishaps) /\ pc[w] # "idle"
    BY <1>4 DEF Deny, FetchFails
  <2>2. mishaps' \in 0 .. MaxMishaps
    BY <1>0, <2>1, MishapType
  <2> QED
    BY <1>0, <1>1, <2>1, <2>2, WayOut DEF Drop
<1> QED
  BY <1>2, <1>3, <1>4

\* The answer is stored; with what the plan knew, it is all that was asked for.
LEMMA StoreStep ==
    ASSUME ReservationInv, NEW w \in Worker, Store(w)
    PROVE  Safe(w)
<1>0. /\ TypeOK /\ CompletedWhole /\ WorkerInv(w) /\ plan[w] \in PlanType
  BY Knows
<1>1. /\ pc[w] = "storing" /\ res' = res /\ lease' = lease /\ row' = row /\ mishaps' = mishaps
      /\ papers' = papers \cup plan[w].ids /\ answered' = answered \cup plan[w].ids
      /\ cached' = cached \cup {job[w]}
  BY DEF Store
<1>2. job[w] \in Item /\ plan[w].ids \subseteq Id
  BY <1>0, <1>1, Knows DEF PlanType
<1> DEFINE p == [plan[w] EXCEPT !.then = "completed"]
<1>3. p \in PlanType /\ p.ids = plan[w].ids /\ p.known = plan[w].known
  BY <1>0 DEF PlanType
<1>4. Goto(w, "dropping", p) /\ "dropping" \in Label
  BY DEF Store, Drop, Label
<1>5. Wants[job[w]] \subseteq papers'
  BY <1>0, <1>1 DEF WorkerInv, Consistent, Ready
<1> HIDE DEF p
<1>6. /\ pc' \in [Worker -> Label] /\ plan' \in [Worker -> PlanType] /\ job' = job
      /\ pc'[w] = "dropping" /\ plan'[w] = p
      /\ \A v \in Worker \ {w} : pc'[v] = pc[v] /\ plan'[v] = plan[v]
  BY <1>0, <1>3, <1>4, GotoFacts
<1>7. TypeOK'
  BY <1>0, <1>1, <1>2, <1>6 DEF TypeOK, PlanType
<1>8. CompletedWhole'
  BY <1>0, <1>1, <1>5 DEF CompletedWhole
<1>9. \A id \in plan[w].ids : res[id] = Reserved(w)
  BY <1>0, <1>1 DEF WorkerInv, Held, Holding, Ready
<1>10. Moves(w)
  BY <1>1, <1>6, <1>9 DEF Moves
<1> QED
  BY <1>0, <1>1, <1>3, <1>5, <1>6, <1>7, <1>8, <1>10
  DEF Safe, WorkerInv, Consistent, Held, Unanswered, Kept, Ready, Holding

LEMMA DroppingStep ==
    ASSUME ReservationInv, NEW w \in Worker, Dropping(w)
    PROVE  Safe(w)
<1>0. /\ TypeOK /\ CompletedWhole /\ WorkerInv(w) /\ plan[w] \in PlanType
      /\ lease \in Worker \cup {None, Gone} /\ mishaps \in 0 .. MaxMishaps
  BY Knows
<1>1. PICK label \in {"composing", "ending"} :
         /\ Goto(w, label, plan[w])
         /\ label = "composing" <=> plan[w].then = "composed"
  BY DEF Dropping
<1>2. /\ pc[w] = "dropping" /\ UNCHANGED <<store, res, queue, mishaps>>
      /\ lease' \in {lease, None} /\ label \in Label
  BY DEF Dropping, Label
<1>3. /\ TypeOK' /\ CompletedWhole' /\ Moves(w)
      /\ pc'[w] = label /\ plan'[w] = plan[w] /\ job'[w] = job[w]
      /\ papers' = papers /\ answered' = answered /\ res' = res
  BY <1>0, <1>1, <1>2, LocalStep
<1> QED
  BY <1>0, <1>1, <1>2, <1>3
  DEF Safe, WorkerInv, Consistent, Held, Unanswered, Kept, Ready, Holding

LEMMA ComposeStep ==
    ASSUME ReservationInv, NEW w \in Worker, Compose(w)
    PROVE  Safe(w)
<1>0. /\ TypeOK /\ CompletedWhole /\ WorkerInv(w) /\ plan[w] \in PlanType
  BY Knows
<1>1. /\ pc[w] = "composing" /\ res' = res /\ lease' = lease /\ row' = row /\ mishaps' = mishaps
      /\ papers' = papers /\ answered' = answered /\ cached' = cached \cup {job[w]}
  BY DEF Compose, store
<1>2. job[w] \in Item /\ Wants[job[w]] \subseteq papers
  BY <1>0, <1>1 DEF WorkerInv, Consistent
<1> DEFINE p == [plan[w] EXCEPT !.then = "completed"]
<1>3. p \in PlanType /\ p.ids = plan[w].ids /\ p.known = plan[w].known /\ p.then = "completed"
  BY <1>0 DEF PlanType
<1>4. Goto(w, "ending", p) /\ "ending" \in Label
  BY DEF Compose, Finish, Label
<1> HIDE DEF p
<1>5. /\ pc' \in [Worker -> Label] /\ plan' \in [Worker -> PlanType] /\ job' = job
      /\ pc'[w] = "ending" /\ plan'[w] = p
      /\ \A v \in Worker \ {w} : pc'[v] = pc[v] /\ plan'[v] = plan[v]
  BY <1>0, <1>3, <1>4, GotoFacts
<1>6. TypeOK'
  BY <1>0, <1>1, <1>2, <1>5 DEF TypeOK, PlanType
<1>7. CompletedWhole'
  BY <1>0, <1>1, <1>2 DEF CompletedWhole
<1>8. Moves(w)
  BY <1>1, <1>5 DEF Moves
<1> QED
  BY <1>0, <1>1, <1>2, <1>3, <1>5, <1>6, <1>7, <1>8
  DEF Safe, WorkerInv, Consistent, Held, Unanswered, Kept, Ready, Holding

LEMMA EndStep ==
    ASSUME ReservationInv, NEW w \in Worker, End(w)
    PROVE  Safe(w)
<1>0. /\ TypeOK /\ CompletedWhole /\ WorkerInv(w) /\ plan[w] \in PlanType
  BY Knows
<1>1. /\ pc[w] = "ending" /\ papers' = papers /\ answered' = answered /\ res' = res
      /\ lease' = lease /\ cached' = cached /\ mishaps' = mishaps
      /\ Goto(w, "releasing", plan[w]) /\ "releasing" \in Label
  BY DEF End, store, Label
<1>2. job[w] \in Item /\ plan[w].then # "composed"
  BY <1>0, <1>1 DEF WorkerInv, Consistent
<1>3. /\ pc' \in [Worker -> Label] /\ plan' \in [Worker -> PlanType] /\ job' = job
      /\ pc'[w] = "releasing" /\ plan'[w] = plan[w]
      /\ \A v \in Worker \ {w} : pc'[v] = pc[v] /\ plan'[v] = plan[v]
  BY <1>0, <1>1, GotoFacts
<1>4. /\ row' \in [Item -> QueueRow]
      /\ \A i \in Item : row'[i].status = "completed" =>
            \/ row[i].status = "completed"
            \/ i = job[w] /\ plan[w].then = "completed"
  <2>1. row \in [Item -> QueueRow]
    BY <1>0 DEF TypeOK, QueueRow
  <2>2. CASE plan[w].then = "nothing"
    BY <2>1, <2>2 DEF End
  <2>3. CASE plan[w].then # "nothing"
    <3> DEFINE r == [status |-> plan[w].then, by |-> None, live |-> FALSE]
    <3>1. r \in QueueRow /\ r.status = plan[w].then
      BY <1>0, <1>2, <2>3 DEF QueueRow, PlanType, Active
    <3>2. row' = [row EXCEPT ![job[w]] = r]
      BY <2>3 DEF End
    <3> HIDE DEF r
    <3> QED
      BY <1>2, <2>1, <3>1, <3>2
  <2> QED BY <2>2, <2>3
<1>5. plan[w].then = "completed" => Wants[job[w]] \subseteq papers
  BY <1>0, <1>1 DEF WorkerInv, Consistent
<1>6. TypeOK'
  BY <1>0, <1>1, <1>3, <1>4 DEF TypeOK, PlanType, QueueRow
<1>7. CompletedWhole'
  BY <1>0, <1>1, <1>4, <1>5 DEF CompletedWhole
<1>8. Moves(w)
  BY <1>1, <1>3 DEF Moves
<1> QED
  BY <1>0, <1>1, <1>3, <1>6, <1>7, <1>8
  DEF Safe, WorkerInv, Consistent, Held, Unanswered, Kept, Ready, Holding

\* A worker that is idle knows and holds nothing.
LEMMA IdleFine ==
    ASSUME NEW w \in Worker, pc'[w] = "idle", plan'[w] = NoPlan,
           \A id \in Id : res'[id].owner # w
    PROVE  WorkerInv(w)'
  BY DEF WorkerInv, Consistent, Held, Unanswered, Kept, Ready, Holding, NoPlan

LEMMA ReleaseStep ==
    ASSUME ReservationInv, NEW w \in Worker, Release(w)
    PROVE  Safe(w)
<1>0. /\ TypeOK /\ CompletedWhole /\ WorkerInv(w) /\ plan[w] \in PlanType
  BY Knows
<1>1. /\ papers' = papers /\ answered' = answered /\ lease' = lease /\ cached' = cached
      /\ mishaps' = mishaps
      /\ pc' = [pc EXCEPT ![w] = "idle"] /\ job' = [job EXCEPT ![w] = None]
      /\ plan' = [plan EXCEPT ![w] = NoPlan] /\ ReleaseIds(w, plan[w].ids)
  BY DEF Release, store
<1>2. /\ res' \in [Id -> Reservation] /\ row' \in [Item -> QueueRow]
      /\ \A id \in Id : res'[id] = IF id \in plan[w].ids /\ res[id].owner = w
                                   THEN Unreserved ELSE res[id]
      /\ \A i \in Item : row'[i].status = "completed" => row[i].status = "completed"
  <2>1. plan[w].ids \in SUBSET Id
    BY <1>0 DEF PlanType
  <2> QED BY <1>0, <1>1, <2>1, ReleaseFacts
<1>3. /\ pc' \in [Worker -> Label] /\ job' \in [Worker -> Item \cup {None}]
      /\ plan' \in [Worker -> PlanType] /\ pc'[w] = "idle" /\ plan'[w] = NoPlan
      /\ \A v \in Worker \ {w} : pc'[v] = pc[v] /\ plan'[v] = plan[v] /\ job'[v] = job[v]
  BY <1>0, <1>1 DEF TypeOK, PlanType, NoPlan, Label
<1>4. TypeOK'
  BY <1>0, <1>1, <1>2, <1>3 DEF TypeOK, PlanType, Reservation, QueueRow
<1>5. CompletedWhole'
  BY <1>0, <1>1, <1>2 DEF CompletedWhole
<1>6. Moves(w)
  BY <1>1, <1>2, <1>3, ReservationAssumption DEF Moves, Unreserved, Reserved
<1>7. \A id \in Id : res'[id].owner # w
  BY <1>0, <1>2, ReservationAssumption DEF WorkerInv, Kept, Unreserved
<1>8. WorkerInv(w)'
  BY <1>3, <1>7, IdleFine
<1> QED
  BY <1>4, <1>5, <1>6, <1>8 DEF Safe

LEMMA CrashStep ==
    ASSUME ReservationInv, NEW w \in Worker, Crash(w)
    PROVE  Safe(w)
<1>0. /\ TypeOK /\ CompletedWhole /\ WorkerInv(w) /\ mishaps' \in 0 .. MaxMishaps
  BY Knows, MishapType DEF Crash
<1>1. /\ papers' = papers /\ answered' = answered /\ cached' = cached
      /\ lease' = IF lease = w THEN Gone ELSE lease
      /\ pc' = [pc EXCEPT ![w] = "idle"] /\ job' = [job EXCEPT ![w] = None]
      /\ plan' = [plan EXCEPT ![w] = NoPlan]
      /\ res' = [id \in Id |-> IF res[id].owner = w THEN [res[id] EXCEPT !.owner = Gone]
                               ELSE res[id]]
      /\ row' = [i \in Item |-> IF row[i].by = w THEN [row[i] EXCEPT !.by = Gone] ELSE row[i]]
  BY DEF Crash, store
<1>2. /\ res \in [Id -> Reservation] /\ row \in [Item -> QueueRow]
      /\ res' \in [Id -> Reservation]
      /\ \A id \in Id : \/ res[id].owner = w /\ res'[id].owner = Gone
                        \/ res[id].owner # w /\ res'[id] = res[id]
  BY <1>0, <1>1 DEF TypeOK, Reservation, QueueRow
<1>3. /\ row' \in [Item -> QueueRow]
      /\ \A i \in Item : row'[i].status = row[i].status
  BY <1>1, <1>2 DEF QueueRow
<1>4. /\ pc' \in [Worker -> Label] /\ job' \in [Worker -> Item \cup {None}]
      /\ plan' \in [Worker -> PlanType] /\ pc'[w] = "idle" /\ plan'[w] = NoPlan
      /\ \A v \in Worker \ {w} : pc'[v] = pc[v] /\ plan'[v] = plan[v] /\ job'[v] = job[v]
  BY <1>0, <1>1 DEF TypeOK, PlanType, NoPlan, Label
<1>5. TypeOK'
  BY <1>0, <1>1, <1>2, <1>3, <1>4 DEF TypeOK, PlanType, Reservation, QueueRow
<1>6. CompletedWhole'
  BY <1>0, <1>1, <1>3 DEF CompletedWhole
<1>7. Moves(w)
  <2>1. ASSUME NEW v \in Worker \ {w}, NEW id \in Id
        PROVE  /\ res[id] = Reserved(v) => res'[id] = Reserved(v)
               /\ res'[id].owner = v => res[id].owner = v
    <3>1. Reserved(v).owner = v /\ v # w /\ v # Gone
      BY ReservationAssumption DEF Reserved
    <3> QED
      BY <1>2, <3>1
  <2> QED
    BY <1>1, <1>4, <2>1 DEF Moves
<1>8. \A id \in Id : res'[id].owner # w
  BY <1>2, ReservationAssumption
<1>9. WorkerInv(w)'
  BY <1>4, <1>8, IdleFine
<1> QED
  BY <1>5, <1>6, <1>7, <1>9 DEF Safe

\* The sleep leaves the rows to their owner, and whatever is not renewed after
\* it is not held.
LEMMA LapseStep ==
    ASSUME ReservationInv, NEW w \in Worker, Lapse(w)
    PROVE  Safe(w)
<1>0. /\ TypeOK /\ CompletedWhole /\ WorkerInv(w) /\ mishaps' \in 0 .. MaxMishaps
  BY Knows, MishapType DEF Lapse
<1>1. PICK ids \in {{}, plan[w].ids} :
         /\ res' = [id \in Id |-> IF id \in ids /\ res[id].owner = w
                                  THEN [res[id] EXCEPT !.live = FALSE] ELSE res[id]]
         /\ row' = [i \in Item |-> IF row[i].by = w /\ i = job[w]
                                   THEN [row[i] EXCEPT !.live = FALSE] ELSE row[i]]
  BY DEF Lapse
<1>2. /\ pc[w] = "sleeping" /\ papers' = papers /\ answered' = answered /\ lease' = lease
      /\ cached' = cached /\ pc' = pc /\ job' = job /\ plan' = plan
  BY DEF Lapse, store, local
<1>3. /\ res \in [Id -> Reservation] /\ row \in [Item -> QueueRow]
  BY <1>0 DEF TypeOK, Reservation, QueueRow
<1>4. /\ res' \in [Id -> Reservation]
      /\ \A id \in Id : /\ res'[id].owner = res[id].owner
                        /\ res[id].owner # w => res'[id] = res[id]
  BY <1>1, <1>3 DEF Reservation
<1>5. /\ row' \in [Item -> QueueRow]
      /\ \A i \in Item : row'[i].status = row[i].status
  BY <1>1, <1>3 DEF QueueRow
<1>6. TypeOK'
  BY <1>0, <1>2, <1>4, <1>5 DEF TypeOK, Reservation, QueueRow
<1>7. CompletedWhole'
  BY <1>0, <1>2, <1>5 DEF CompletedWhole
<1>8. Moves(w)
  <2>1. \A v \in Worker \ {w} : Reserved(v).owner # w
    BY DEF Reserved
  <2> QED
    BY <1>2, <1>4, <2>1 DEF Moves
<1> QED
  BY <1>0, <1>2, <1>4, <1>6, <1>7, <1>8
  DEF Safe, WorkerInv, Consistent, Held, Unanswered, Kept, Ready, Holding

LEMMA ClaimStep ==
    ASSUME ReservationInv, NEW w \in Worker, NEW i \in Item, Claim(w, i)
    PROVE  Safe(w)
<1>0. /\ TypeOK /\ CompletedWhole /\ WorkerInv(w)
  BY Knows
<1>1. /\ pc[w] = "idle" /\ papers' = papers /\ answered' = answered /\ res' = res
      /\ lease' = lease /\ cached' = cached /\ plan' = plan /\ mishaps' = mishaps
      /\ row' = [row EXCEPT ![i] = [status |-> "claimed", by |-> w, live |-> TRUE]]
      /\ pc' = [pc EXCEPT ![w] = "checking"] /\ job' = [job EXCEPT ![w] = i]
  BY DEF Claim, store
<1>2. /\ pc' \in [Worker -> Label] /\ job' \in [Worker -> Item \cup {None}]
      /\ pc'[w] = "checking" /\ job'[w] = i
      /\ \A v \in Worker \ {w} : pc'[v] = pc[v] /\ job'[v] = job[v]
  BY <1>0, <1>1 DEF TypeOK, Label
<1>3. /\ row' \in [Item -> QueueRow]
      /\ \A j \in Item : row'[j].status = "completed" => row[j].status = "completed"
  <2>1. row \in [Item -> QueueRow]
    BY <1>0 DEF TypeOK, QueueRow
  <2>2. [status |-> "claimed", by |-> w, live |-> TRUE] \in QueueRow
    BY DEF QueueRow, Active
  <2> QED
    BY <1>1, <2>1, <2>2
<1>4. TypeOK'
  BY <1>0, <1>1, <1>2, <1>3 DEF TypeOK, QueueRow
<1>5. CompletedWhole'
  BY <1>0, <1>1, <1>3 DEF CompletedWhole
<1>6. Moves(w)
  BY <1>1, <1>2 DEF Moves
<1>7. plan[w] = NoPlan
  BY <1>0, <1>1 DEF WorkerInv, Consistent
<1> QED
  BY <1>0, <1>1, <1>2, <1>4, <1>5, <1>6, <1>7
  DEF Safe, WorkerInv, Consistent, Held, Unanswered, Kept, Ready, Holding, NoPlan

\* Steps of nobody.
LEMMA OutsideSteps ==
    ASSUME ReservationInv,
           \/ LeaseExpires
           \/ \E i \in Item : ClaimExpires(i)
           \/ \E id \in Id : ReservationExpires(id) \/ OthersStore(id)
    PROVE  TypeOK' /\ CompletedWhole' /\ Moves(Gone)
<1>0. /\ TypeOK /\ CompletedWhole
      /\ res \in [Id -> Reservation] /\ row \in [Item -> QueueRow]
  BY DEF ReservationInv, TypeOK, Reservation, QueueRow
<1>1. pc' = pc /\ job' = job /\ plan' = plan /\ answered' = answered /\ mishaps' = mishaps
      /\ cached' = cached
  BY DEF LeaseExpires, ClaimExpires, ReservationExpires, OthersStore, store, local, queue
<1>2. papers \subseteq papers' /\ papers' \subseteq Id
  BY <1>0 DEF LeaseExpires, ClaimExpires, ReservationExpires, OthersStore, store, TypeOK
<1>3. lease' \in {lease, None}
  BY DEF LeaseExpires, ClaimExpires, ReservationExpires, OthersStore
<1>4. row' \in [Item -> QueueRow] /\ \A i \in Item : row'[i].status = row[i].status
  <2>1. CASE \E i \in Item : ClaimExpires(i)
    <3>1. PICK i \in Item : row' = [row EXCEPT ![i].live = FALSE]
      BY <2>1 DEF ClaimExpires
    <3> DEFINE r == [row[i] EXCEPT !.live = FALSE]
    <3>2. r \in QueueRow /\ r.status = row[i].status
      BY <1>0 DEF QueueRow
    <3>3. row' = [row EXCEPT ![i] = r]
      BY <3>1
    <3> HIDE DEF r
    <3> QED
      BY <1>0, <3>2, <3>3
  <2>2. CASE row' = row
    BY <1>0, <2>2
  <2> QED
    BY <2>1, <2>2 DEF LeaseExpires, ReservationExpires, OthersStore, queue
<1>5. /\ res' \in [Id -> Reservation]
      /\ \A id \in Id : \/ res'[id] = res[id]
                        \/ res[id].owner = Gone /\ res'[id].owner = Gone
  <2>1. CASE \E id \in Id : ReservationExpires(id)
    <3>1. PICK id \in Id : res[id] = Reserved(Gone) /\ res' = [res EXCEPT ![id].live = FALSE]
      BY <2>1 DEF ReservationExpires
    <3> DEFINE r == [res[id] EXCEPT !.live = FALSE]
    <3>2. r \in Reservation /\ r.owner = Gone /\ res[id].owner = Gone
      <4>1. res[id] \in Reservation
        BY <1>0
      <4>2. r \in Reservation /\ r.owner = res[id].owner
        BY <4>1 DEF Reservation
      <4>3. Reserved(Gone).owner = Gone
        BY DEF Reserved
      <4>4. res[id].owner = Gone
        BY <3>1, <4>3
      <4> QED BY <4>2, <4>4
    <3>3. res' = [res EXCEPT ![id] = r]
      BY <3>1
    <3> HIDE DEF r
    <3> QED
      BY <1>0, <3>2, <3>3
  <2>2. CASE res' = res
    BY <1>0, <2>2
  <2> QED
    BY <2>1, <2>2 DEF LeaseExpires, ClaimExpires, OthersStore
<1>6. TypeOK'
  BY <1>0, <1>1, <1>2, <1>3, <1>4, <1>5 DEF TypeOK, Reservation, QueueRow
<1>7. CompletedWhole'
  BY <1>0, <1>1, <1>2, <1>4 DEF CompletedWhole
<1>8. Moves(Gone)
  <2>1. \A v \in Worker : Reserved(v).owner = v /\ v # Gone
    BY ReservationAssumption DEF Reserved
  <2> QED
    BY <1>1, <1>2, <1>5, <2>1 DEF Moves
<1> QED
  BY <1>6, <1>7, <1>8

-----------------------------------------------------------------------------
(* The invariant, and what follows from it.                                *)

LEMMA InitInv == Init => ReservationInv
<1> SUFFICES ASSUME Init PROVE ReservationInv
  OBVIOUS
<1>1. /\ papers = {} /\ answered = {} /\ cached = {} /\ lease = None /\ mishaps = 0
      /\ res = [id \in Id |-> Unreserved]
      /\ row = [i \in Item |-> [status |-> "queued", by |-> None, live |-> FALSE]]
      /\ pc = [w \in Worker |-> "idle"] /\ job = [w \in Worker |-> None]
      /\ plan = [w \in Worker |-> NoPlan]
  BY DEF Init
<1>2. TypeOK
  BY <1>1, ReservationAssumption DEF TypeOK, Unreserved, NoPlan, Label, Active
<1>3. CompletedWhole
  BY <1>1 DEF CompletedWhole
<1>4. ASSUME NEW w \in Worker PROVE WorkerInv(w)
  BY <1>1, ReservationAssumption
  DEF WorkerInv, Consistent, Held, Unanswered, Kept, Ready, Holding, NoPlan, Unreserved
<1> QED
  BY <1>2, <1>3, <1>4 DEF ReservationInv

LEMMA PassSafe ==
    ASSUME ReservationInv, NEW w \in Worker, Pass(w)
    PROVE  Safe(w)
<1>1. CASE CheckCache(w) \/ Plan(w) \/ Awake(w)
  BY <1>1, PlanSteps
<1>2. CASE Reserve(w)
  BY <1>2, ReserveStep
<1>3. CASE Ask(w)
  BY <1>3, AskStep
<1>4. CASE Fence(w)
  BY <1>4, FenceStep
<1>5. CASE Recheck(w)
  BY <1>5, RecheckStep
<1>6. CASE Revalidate(w)
  BY <1>6, RevalidateStep
<1>7. CASE Trim(w)
  BY <1>7, TrimStep
<1>8. CASE Renew(w)
  BY <1>8, RenewStep
<1>9. CASE Pay(w) \/ Send(w) \/ Deny(w) \/ Arrives(w) \/ FetchFails(w)
  BY <1>9, RequestSteps
<1>10. CASE Store(w)
  BY <1>10, StoreStep
<1>11. CASE Dropping(w)
  BY <1>11, DroppingStep
<1>12. CASE Compose(w)
  BY <1>12, ComposeStep
<1>13. CASE End(w)
  BY <1>13, EndStep
<1>14. CASE Release(w)
  BY <1>14, ReleaseStep
<1> QED
  BY <1>1, <1>2, <1>3, <1>4, <1>5, <1>6, <1>7, <1>8, <1>9, <1>10, <1>11, <1>12, <1>13, <1>14
  DEF Pass

LEMMA NextInv == ReservationInv /\ [Next]_vars => ReservationInv'
<1> SUFFICES ASSUME ReservationInv, [Next]_vars PROVE ReservationInv'
  OBVIOUS
<1>1. ASSUME NEW w \in Worker, Pass(w) \/ Crash(w) \/ Lapse(w) \/ \E i \in Item : Claim(w, i)
      PROVE  ReservationInv'
  <2>1. Safe(w)
    BY <1>1, PassSafe, CrashStep, LapseStep, ClaimStep
  <2>2. Moves(w)
    BY <2>1 DEF Safe
  <2>3. \A v \in Worker \ {w} : WorkerInv(v)'
    BY <2>2, OthersFine
  <2> QED
    BY <2>1, <2>3 DEF Safe, ReservationInv
<1>2. ASSUME \/ LeaseExpires
             \/ \E i \in Item : ClaimExpires(i)
             \/ \E id \in Id : ReservationExpires(id) \/ OthersStore(id)
      PROVE  ReservationInv'
  <2>1. TypeOK' /\ CompletedWhole' /\ Moves(Gone)
    BY <1>2, OutsideSteps
  <2>2. \A v \in Worker \ {Gone} : WorkerInv(v)'
    BY <2>1, OthersFine
  <2> QED
    BY <2>1, <2>2, ReservationAssumption DEF ReservationInv
<1>3. CASE UNCHANGED vars
  BY <1>3 DEF vars, ReservationInv, TypeOK, CompletedWhole, WorkerInv, Consistent, Held,
              Unanswered, Kept
<1> QED
  BY <1>1, <1>2, <1>3 DEF Next

LEMMA InvHolds == Spec => []ReservationInv
  BY InitInv, NextInv, PTL DEF Spec

\* Rows, plans and reservations keep their types.
THEOREM TypeCorrect == Spec => []TypeOK
<1>1. ReservationInv => TypeOK
  BY DEF ReservationInv
<1> QED
  BY <1>1, InvHolds, PTL

\* From the second fence of run_once on, and until its papers are stored, the
\* worker on the wire has a live reservation of every ID it asks for.
THEOREM ReservedHolds == Spec => []FetchReserved
<1>1. ReservationInv => FetchReserved
  BY DEF ReservationInv, WorkerInv, Consistent, Held, Holding, Ready, FetchReserved
<1> QED
  BY <1>1, InvHolds, PTL

\* Every exit of run_once gives back what the plan reserved.
THEOREM NothingLeaks == Spec => []NothingLeaked
<1>1. ReservationInv => NothingLeaked
  BY DEF ReservationInv, WorkerInv, Kept, NothingLeaked
<1> QED
  BY <1>1, InvHolds, PTL

\* A completed item has all of its papers, whether they were fetched, composed
\* or found.
THEOREM WholeHolds == Spec => []CompletedWhole
<1>1. ReservationInv => CompletedWhole
  BY DEF ReservationInv
<1> QED
  BY <1>1, InvHolds, PTL

\* No two fetches of ID lists bring the same paper.
THEOREM OnceHolds == Spec => FetchedOnce
<1>1. ReservationInv =>
         \A w \in Worker : pc[w] = "passed" => plan[w].ids \cap answered = {}
  BY DEF ReservationInv, WorkerInv, Unanswered, Ready
<1>2. ReservationInv /\ [Next]_vars =>
         [\A w \in Worker : pc[w] = "passed" /\ pc'[w] = "fetching" =>
             plan[w].ids \cap answered = {}]_vars
  BY <1>1
<1> QED
  BY <1>2, InvHolds, PTL DEF Spec, FetchedOnce
====
