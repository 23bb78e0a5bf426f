---- MODULE CompleteWindow_proofs ----
(***************************************************************************)
(* Theorems about CompleteWindow, for any window, page size and budgets.   *)
(***************************************************************************)
EXTENDS CompleteWindow, WellFoundedInduction, FiniteSetTheorems, SequenceTheorems, TLAPS

Label == {"begin", "budgeted", "enqueue", "drain", "first", "admit", "follow", "join",
          "joined", "finalize", "entry", "integrity", "papers", "done", "raised"}

Entry == [status : {"none", "failed", "completed"}, papers : Seq(Paper), total : Nat]
Item == [status : {"none", "queued", "delayed", "fetching"},
         ours : BOOLEAN, demand : BOOLEAN, ended : BOOLEAN]

WindowType ==
    /\ list \in Seq(Paper) /\ Len(list) <= MaxPapers
    /\ ToSet(list) = 1 .. Len(list)
    /\ mishaps \in 0 .. MaxMishaps

CacheType ==
    /\ cache \in [Page -> Entry]
    /\ \A s \in Page : cache[s].total <= Len(list)

WorkType ==
    /\ item \in [Page -> Item]
    /\ loose \subseteq Page
    /\ used \in 0 .. MaxRequests
    /\ overdue \in BOOLEAN /\ gone \in BOOLEAN /\ denied \in BOOLEAN /\ retried \in BOOLEAN

CallType ==
    /\ pc \in Label
    /\ plan \in [total : 0 .. Cap, pages : SUBSET Page, missing : SUBSET Page]
    /\ plan.missing \subseteq plan.pages
    /\ todo \subseteq Page
    /\ tally \in [seen : SUBSET Paper, sum : Nat, read : Nat, count : Nat]
    /\ job \in [status : {"none", "running", "completed", "partial", "overflow"},
                pages : Nat, completed : Nat,
                error : {"none", "deadline", "unread", "overflow", "empty_page",
                         "page_budget", "request_budget", "incomplete"}]
    /\ rows \in [Page -> {"none", "missing", "planned", "queued", "failed", "completed"}]

TypeInv == WindowType /\ CacheType /\ WorkType /\ CallType

-----------------------------------------------------------------------------
(* Pages, sequences and numbers.                                           *)

LEMMA PageFact ==
    /\ Page \subseteq Nat /\ IsFiniteSet(Page) /\ Start \in Page
    /\ \A S \in SUBSET Page : IsFiniteSet(S) /\ Cardinality(S) \in Nat
<1>1. Page \subseteq Nat /\ Start \in Page /\ MaxPapers \in Int
  BY WindowAssumption DEF Page
<1>2. IsFiniteSet(Page)
  BY <1>1, FS_Interval DEF Page
<1>3. ASSUME NEW S \in SUBSET Page PROVE IsFiniteSet(S) /\ Cardinality(S) \in Nat
  BY <1>2, FS_Subset, FS_CardinalityType
<1> QED BY <1>1, <1>2, <1>3

LEMMA LeastFact ==
    ASSUME NEW S \in SUBSET Page, S # {}
    PROVE  Least(S) \in S
<1>1. S \subseteq Nat
  BY PageFact
<1>2. PICK x \in S : \A y \in S : <<y, x>> \notin OpToRel(<, Nat)
  BY <1>1, NatLessThanWellFounded, WFMin
<1>3. \A y \in S : ~(y < x)
  BY <1>1, <1>2 DEF OpToRel
<1>4. \A y \in S : x <= y
  BY <1>1, <1>3
<1> QED BY <1>4 DEF Least

LEMMA SliceFact ==
    ASSUME NEW S, NEW q \in Seq(S), NEW m \in Nat, NEW n \in Nat, n <= Len(q)
    PROVE  /\ SubSeq(q, m + 1, n) \in Seq(S)
           /\ \A i \in DOMAIN SubSeq(q, m + 1, n) :
                 m + i \in 1 .. n /\ SubSeq(q, m + 1, n)[i] = q[m + i]
  OBVIOUS

\* r is q with e after the first i.
Inserted(q, i, e, r) ==
    /\ r \in Seq(Paper) /\ Len(r) = Len(q) + 1
    /\ \A k \in 1 .. i : r[k] = q[k]
    /\ r[i + 1] = e
    /\ \A k \in (i + 1) .. Len(q) : r[k + 1] = q[k]

LEMMA InsertFact ==
    ASSUME NEW q \in Seq(Paper), NEW e \in Paper, NEW i \in 0 .. Len(q)
    PROVE  Inserted(q, i, e, InsertAt(q, i + 1, e))
<1> PICK r : r = InsertAt(q, i + 1, e)
  OBVIOUS
<1> DEFINE front == SubSeq(q, 1, i)
           back == SubSeq(q, i + 1, Len(q))
<1>1. /\ front \in Seq(Paper) /\ Len(front) = i
      /\ \A k \in 1 .. i : front[k] = q[k]
  OBVIOUS
<1>2. /\ back \in Seq(Paper) /\ Len(back) = Len(q) - i
      /\ \A k \in 1 .. (Len(q) - i) : back[k] = q[i + k]
  OBVIOUS
<1>3. r = (front \o <<e>>) \o back
  <2>1. (i + 1) - 1 = i
    OBVIOUS
  <2> QED BY <2>1, Zenon DEF InsertAt
<1> HIDE DEF front, back
<1> DEFINE head == front \o <<e>>
<1>4. /\ head \in Seq(Paper) /\ Len(head) = i + 1 /\ head[i + 1] = e
      /\ \A k \in 1 .. i : head[k] = q[k]
  BY <1>1
<1> HIDE DEF head
<1>5. r = head \o back
  BY <1>3 DEF head
<1>6. /\ r \in Seq(Paper) /\ Len(r) = Len(head) + Len(back)
      /\ \A k \in 1 .. Len(head) + Len(back) :
            r[k] = IF k <= Len(head) THEN head[k] ELSE back[k - Len(head)]
  <2>1. head \in Seq(Paper) /\ back \in Seq(Paper)
    BY <1>2, <1>4
  <2>2. /\ head \o back \in Seq(Paper) /\ Len(head \o back) = Len(head) + Len(back)
        /\ \A k \in 1 .. Len(head) + Len(back) :
              (head \o back)[k] = IF k <= Len(head) THEN head[k] ELSE back[k - Len(head)]
    BY <2>1, ConcatProperties, Zenon
  <2> QED BY <1>5, <2>2, Zenon
<1>7. Len(r) = Len(q) + 1 /\ \A k \in 1 .. (i + 1) : r[k] = head[k]
  <2>1. Len(head) = i + 1 /\ Len(back) = Len(q) - i
    BY <1>2, <1>4
  <2>2. Len(r) = Len(q) + 1
    BY <1>6, <2>1
  <2>3. ASSUME NEW k \in 1 .. (i + 1) PROVE r[k] = head[k]
    <3>1. k \in 1 .. Len(head) + Len(back) /\ k <= Len(head)
      BY <2>1
    <3> QED BY <1>6, <3>1
  <2> QED BY <2>2, <2>3
<1>8. ASSUME NEW k \in (i + 1) .. Len(q) PROVE r[k + 1] = back[k - i]
  <2>1. k + 1 \in 1 .. Len(head) + Len(back) /\ ~(k + 1 <= Len(head)) /\ (k + 1) - Len(head) = k - i
    BY <1>2, <1>4
  <2> QED BY <1>6, <2>1
<1>9. ASSUME NEW k \in (i + 1) .. Len(q) PROVE r[k + 1] = q[k]
  <2>1. k - i \in 1 .. (Len(q) - i) /\ i + (k - i) = k
    OBVIOUS
  <2> QED BY <1>2, <1>8, <2>1
<1>10. r[i + 1] = e
  BY <1>4, <1>7
<1> QED BY <1>4, <1>6, <1>7, <1>9, <1>10 DEF Inserted

-----------------------------------------------------------------------------
(* Types.                                                                  *)

LEMMA TakenTyped ==
    ASSUME NEW i \in Item, NEW charged \in BOOLEAN
    PROVE  [i EXCEPT !.status = "fetching", !.ours = charged] \in Item
  BY DEF Item

LEMMA ItemsTyped ==
    ASSUME TypeInv
    PROVE  /\ Ended \in Item /\ NoItem \in Item
           /\ \A s \in Page, call \in BOOLEAN : Joined(s, call) \in Item
           /\ \A s \in Page : FailedEntry(s) \in Entry
  BY DEF TypeInv, WorkType, CacheType, Ended, NoItem, Item, Joined, Pending, FailedEntry, Entry

LEMMA SliceTyped ==
    ASSUME TypeInv, NEW s \in Page
    PROVE  /\ Slice(s) \in Seq(Paper)
           /\ \A i \in DOMAIN Slice(s) : s + i \in 1 .. Len(list) /\ Slice(s)[i] = list[s + i]
<1> DEFINE n == IF s + PageSize < Len(list) THEN s + PageSize ELSE Len(list)
<1>1. s \in Nat /\ n \in Nat /\ n <= Len(list) /\ list \in Seq(Paper)
  BY PageFact, WindowAssumption DEF TypeInv, WindowType
<1> HIDE DEF n
<1>2. Slice(s) = SubSeq(list, s + 1, n)
  BY DEF Slice, n
<1> QED BY <1>1, <1>2, SliceFact

\* What an answer stores for a page.
LEMMA ServedFact ==
    ASSUME TypeInv, NEW s \in Page, Serve(s)
    PROVE  \E papers \in Seq(Paper) :
             /\ cache' = [cache EXCEPT ![s] = [status |-> "completed", total |-> Len(list),
                                               papers |-> papers]]
             /\ \A i \in DOMAIN papers : s + i \in 1 .. Len(list) /\ papers[i] = list[s + i]
             /\ mishaps' \in 0 .. MaxMishaps
<1>1. PICK n \in 0 .. Len(Slice(s)) :
        /\ cache' = [cache EXCEPT ![s] = [status |-> "completed", total |-> Len(list),
                                          papers |-> SubSeq(Slice(s), 1, n)]]
        /\ IF n < Len(Slice(s)) THEN Mishap ELSE UNCHANGED mishaps
  BY DEF Serve
<1>2. mishaps' \in 0 .. MaxMishaps
  BY <1>1, WindowAssumption DEF Mishap, TypeInv, WindowType
<1> DEFINE papers == SubSeq(Slice(s), 1, n)
<1>3. Slice(s) \in Seq(Paper)
  BY SliceTyped
<1>4. /\ papers \in Seq(Paper)
      /\ \A i \in DOMAIN papers : i \in DOMAIN Slice(s) /\ papers[i] = Slice(s)[i]
  BY <1>3
<1>5. \A i \in DOMAIN papers : s + i \in 1 .. Len(list) /\ papers[i] = list[s + i]
  BY <1>4, SliceTyped
<1> QED BY <1>1, <1>2, <1>4, <1>5

\* The papers of the window after the first s.
Behind(s) == {list[i] : i \in (s + 1) .. Len(list)}

LEMMA GrowFact ==
    ASSUME TypeInv, Grow
    PROVE  WindowType' /\ Len(list') = Len(list) + 1
           /\ \A s \in Nat : Behind(s) \subseteq Behind(s)'
<1>1. PICK i \in 0 .. Len(list) : list' = InsertAt(list, i + 1, Len(list) + 1)
  BY DEF Grow
<1>2. /\ list \in Seq(Paper) /\ Len(list) \in Nat /\ Len(list) < MaxPapers
      /\ Len(list) + 1 \in Paper /\ MaxPapers \in Nat
      /\ ToSet(list) = 1 .. Len(list)
  BY WindowAssumption DEF Grow, TypeInv, WindowType, Paper
<1>3. /\ list' \in Seq(Paper) /\ Len(list') = Len(list) + 1
      /\ \A k \in 1 .. i : list'[k] = list[k]
      /\ list'[i + 1] = Len(list) + 1
      /\ \A k \in (i + 1) .. Len(list) : list'[k + 1] = list[k]
  <2>1. i \in 0 .. Len(list) /\ list \in Seq(Paper) /\ Len(list) + 1 \in Paper
    BY <1>1, <1>2
  <2>2. Inserted(list, i, Len(list) + 1, list')
    BY <1>1, <2>1, InsertFact
  <2> QED BY <2>2 DEF Inserted
<1>4. ASSUME NEW k \in 1 .. Len(list)
      PROVE  \E m \in k .. (k + 1) : m \in 1 .. Len(list') /\ list'[m] = list[k]
  <2>1. CASE k <= i
    <3>1. k \in k .. (k + 1) /\ k \in 1 .. Len(list') /\ list'[k] = list[k]
      BY <1>2, <1>3, <2>1
    <3> QED BY <3>1
  <2>2. CASE k > i
    <3>1. k + 1 \in k .. (k + 1) /\ k + 1 \in 1 .. Len(list') /\ list'[k + 1] = list[k]
      BY <1>2, <1>3, <2>2
    <3> QED BY <3>1
  <2> QED BY <2>1, <2>2
<1>5. ASSUME NEW m \in 1 .. Len(list')
      PROVE  list'[m] = Len(list) + 1 \/ \E k \in 1 .. Len(list) : list'[m] = list[k]
  <2>1. CASE m <= i
    BY <1>3, <2>1
  <2>2. CASE m = i + 1
    BY <1>3, <2>2
  <2>3. CASE m > i + 1
    <3>1. m - 1 \in (i + 1) .. Len(list) /\ (m - 1) + 1 = m /\ m - 1 \in 1 .. Len(list)
      BY <1>2, <1>3, <2>3
    <3> QED BY <1>3, <3>1
  <2> QED BY <1>3, <2>1, <2>2, <2>3
<1>6. ToSet(list') = 1 .. Len(list')
  <2>1. /\ \A q \in Seq(Paper) : ToSet(q) = {q[k] : k \in 1 .. Len(q)}
    BY DEF ToSet
  <2>2. ToSet(list') \subseteq 1 .. Len(list')
    <3>0. ToSet(list') = {list'[m] : m \in 1 .. Len(list')}
      BY <1>3, <2>1
    <3> SUFFICES ASSUME NEW m \in 1 .. Len(list') PROVE list'[m] \in 1 .. Len(list')
      BY <3>0
    <3>1. CASE list'[m] = Len(list) + 1
      BY <1>2, <1>3, <3>1
    <3>2. CASE \E k \in 1 .. Len(list) : list'[m] = list[k]
      <4>1. PICK k \in 1 .. Len(list) : list'[m] = list[k]
        BY <3>2
      <4>2. list[k] \in 1 .. Len(list)
        BY <1>2, <2>1
      <4> QED BY <1>2, <1>3, <4>1, <4>2
    <3> QED BY <1>5, <3>1, <3>2
  <2>3. ASSUME NEW p \in 1 .. Len(list') PROVE p \in ToSet(list')
    <3>1. CASE p = Len(list) + 1
      <4>1. i + 1 \in 1 .. Len(list')
        BY <1>2, <1>3
      <4> QED BY <1>3, <2>1, <3>1, <4>1
    <3>2. CASE p \in 1 .. Len(list)
      <4>1. PICK k \in 1 .. Len(list) : p = list[k]
        BY <1>2, <2>1, <3>2
      <4>2. PICK m \in 1 .. Len(list') : list'[m] = p
        BY <1>4, <4>1
      <4> QED BY <1>3, <2>1, <4>2
    <3> QED BY <1>2, <1>3, <3>1, <3>2
  <2> QED BY <2>2, <2>3
<1>7. ASSUME NEW s \in Nat, NEW p \in Behind(s) PROVE p \in Behind(s)'
  <2>1. PICK k \in (s + 1) .. Len(list) : p = list[k]
    BY <1>7 DEF Behind
  <2>2. k \in 1 .. Len(list)
    BY <1>2, <2>1
  <2>3. PICK m \in k .. (k + 1) : m \in 1 .. Len(list') /\ list'[m] = list[k]
    BY <1>4, <2>2
  <2>4. m \in (s + 1) .. Len(list')
    BY <1>2, <1>3, <2>1, <2>3
  <2> QED BY <2>1, <2>3, <2>4 DEF Behind
<1>8. mishaps' \in 0 .. MaxMishaps
  BY WindowAssumption DEF Grow, Mishap, TypeInv, WindowType
<1> QED BY <1>2, <1>3, <1>6, <1>7, <1>8 DEF WindowType

\* What the others do is typed, and leaves the call as it is.
Others(s) == OthersAsk(s) \/ OthersRefresh(s) \/ TakeItem(s) \/ Answer(s)
             \/ FetchFails(s) \/ RetryDue(s) \/ LateAnswer(s)

World == DeadlinePasses \/ Collect \/ Grow \/ \E s \in Page : Others(s)

LEMMA MishapTyped == ASSUME TypeInv, Mishap PROVE mishaps' \in 0 .. MaxMishaps
  BY WindowAssumption DEF Mishap, TypeInv, WindowType

\* The entries that a step of the others may write for page s.
Written(s) ==
    {[status |-> "completed", total |-> Len(list), papers |-> papers] :
        papers \in {q \in Seq(Paper) :
                       \A i \in DOMAIN q : s + i \in 1 .. Len(list) /\ q[i] = list[s + i]}}

\* The three ways in which a worker takes an item.
LEMMA TakeCases ==
    ASSUME TypeInv, NEW s \in Page, TakeItem(s)
    PROVE  /\ UNCHANGED <<list, loose, overdue, gone, local, report, retried, mishaps>>
           /\ item[s].status = "queued"
           /\ \/ /\ Readable(s) /\ item' = [item EXCEPT ![s] = Ended]
                 /\ UNCHANGED <<cache, used, denied>>
              \/ /\ ~Readable(s) /\ item' = [item EXCEPT ![s] = Ended]
                 /\ cache' = [cache EXCEPT ![s] = FailedEntry(s)] /\ UNCHANGED used
                 /\ denied' = (denied \/ ~overdue)
                 /\ item[s].ours /\ (overdue \/ Spent)
              \/ /\ ~Readable(s) /\ UNCHANGED <<cache, denied>>
                 /\ \E charged \in BOOLEAN :
                       /\ charged <=> item[s].ours /\ ~overdue /\ ~Spent
                       /\ item' = [item EXCEPT ![s] = [item[s] EXCEPT !.status = "fetching",
                                                                     !.ours = charged]]
                       /\ used' = used + IF charged THEN 1 ELSE 0
<1> DEFINE barred == item[s].ours /\ (overdue \/ Spent)
<1>1. /\ UNCHANGED <<list, loose, overdue, gone, local, report, retried, mishaps>>
      /\ item[s].status = "queued"
  BY DEF TakeItem, limits
<1>2. CASE Readable(s)
  BY <1>1, <1>2 DEF TakeItem, Readable
<1>3. CASE ~Readable(s) /\ barred /\ ~item[s].demand
  BY <1>1, <1>3 DEF TakeItem, Readable
<1>4. CASE ~Readable(s) /\ ~(barred /\ ~item[s].demand)
  <2> DEFINE charged == item[s].ours /\ ~barred
  <2>1. /\ item' = [item EXCEPT ![s].status = "fetching", ![s].ours = @ /\ ~barred]
        /\ used' = used + IF charged THEN 1 ELSE 0
        /\ UNCHANGED <<cache, denied>>
    BY <1>4 DEF TakeItem, Readable
  <2>2. item' = [item EXCEPT ![s] = [item[s] EXCEPT !.status = "fetching", !.ours = charged]]
    BY <2>1 DEF TypeInv, WorkType, Item
  <2>3. charged \in BOOLEAN /\ (charged <=> item[s].ours /\ ~overdue /\ ~Spent)
    BY DEF TypeInv, WorkType, Item
  <2> HIDE DEF charged
  <2> QED BY <1>1, <1>4, <2>1, <2>2, <2>3
<1> QED BY <1>2, <1>3, <1>4

LEMMA OthersTyped ==
    ASSUME TypeInv, NEW s \in Page, Others(s)
    PROVE  /\ WindowType' /\ CacheType' /\ WorkType' /\ UNCHANGED <<list, overdue, gone, local, report>>
           /\ \A t \in Page \ {s} : cache'[t] = cache[t] /\ item'[t] = item[t]
           /\ \/ cache'[s] \in Written(s)
              \/ /\ cache'[s].papers = cache[s].papers /\ cache'[s].total = cache[s].total
                 /\ cache[s].status = "completed" <=> cache'[s].status = "completed"
<1> DEFINE Kept == cache'[s].papers = cache[s].papers /\ cache'[s].total = cache[s].total
                   /\ (cache[s].status = "completed" <=> cache'[s].status = "completed")
<1> USE DEF TypeInv, WindowType, WorkType
<1>1. /\ cache \in [Page -> Entry] /\ \A t \in Page : cache[t].total <= Len(list)
      /\ Len(list) \in Nat
  BY DEF CacheType
<1>2. ASSUME NEW e \in Written(s), cache' = [cache EXCEPT ![s] = e], UNCHANGED list
      PROVE  CacheType' /\ cache'[s] \in Written(s) /\ \A t \in Page \ {s} : cache'[t] = cache[t]
  <2>1. e \in Entry /\ e.total = Len(list)
    BY <1>1 DEF Written, Entry
  <2> QED BY <1>1, <1>2, <2>1 DEF CacheType
<1>3. ASSUME Serve(s), UNCHANGED list
      PROVE  /\ CacheType' /\ cache'[s] \in Written(s) /\ \A t \in Page \ {s} : cache'[t] = cache[t]
             /\ mishaps' \in 0 .. MaxMishaps
  <2>1. PICK papers \in Seq(Paper) :
             /\ cache' = [cache EXCEPT ![s] = [status |-> "completed", total |-> Len(list),
                                               papers |-> papers]]
             /\ \A i \in DOMAIN papers : s + i \in 1 .. Len(list) /\ papers[i] = list[s + i]
             /\ mishaps' \in 0 .. MaxMishaps
    BY <1>3, ServedFact
  <2>2. [status |-> "completed", total |-> Len(list), papers |-> papers] \in Written(s)
    BY <2>1 DEF Written
  <2> QED BY <1>2, <1>3, <2>1, <2>2
<1>4. ASSUME UNCHANGED <<list, cache>>
      PROVE  CacheType' /\ Kept /\ \A t \in Page \ {s} : cache'[t] = cache[t]
  BY <1>4 DEF CacheType
<1>5. ASSUME UNCHANGED list, cache' = [cache EXCEPT ![s] = FailedEntry(s)]
      PROVE  CacheType' /\ Kept /\ \A t \in Page \ {s} : cache'[t] = cache[t]
  <2>1. FailedEntry(s) \in Entry /\ FailedEntry(s).papers = cache[s].papers
        /\ FailedEntry(s).total = cache[s].total
        /\ (cache[s].status = "completed" <=> FailedEntry(s).status = "completed")
    BY <1>1 DEF FailedEntry, Entry
  <2> HIDE DEF TypeInv
  <2> QED BY <1>1, <1>5, <2>1 DEF CacheType
<1>6. /\ item \in [Page -> Item] /\ Ended \in Item
      /\ \A call \in BOOLEAN : Joined(s, call) \in Item
  BY ItemsTyped
<1>7. CASE OthersAsk(s)
  BY <1>4, <1>6, <1>7, MishapTyped DEF OthersAsk, limits
<1>8. CASE OthersRefresh(s)
  <2>1. [status |-> "completed", total |-> Len(list), papers |-> Slice(s)] \in Written(s)
    BY SliceTyped DEF Written
  <2>2. /\ cache' = [cache EXCEPT ![s] = [status |-> "completed", total |-> Len(list),
                                           papers |-> Slice(s)]]
        /\ UNCHANGED <<list, item, loose, used, overdue, gone, local, report, denied, retried>>
        /\ mishaps' \in 0 .. MaxMishaps
    BY <1>8, MishapTyped DEF OthersRefresh, limits
  <2> QED BY <1>2, <2>1, <2>2
<1>9. CASE TakeItem(s)
  <2>1. UNCHANGED <<list, loose, overdue, gone, local, report, retried, mishaps>>
    BY <1>9, TakeCases
  <2>2. CASE item' = [item EXCEPT ![s] = Ended] /\ UNCHANGED <<cache, used, denied>>
    BY <1>4, <1>6, <2>1, <2>2
  <2>3. CASE /\ item' = [item EXCEPT ![s] = Ended] /\ UNCHANGED used
             /\ cache' = [cache EXCEPT ![s] = FailedEntry(s)] /\ denied' = (denied \/ ~overdue)
    BY <1>5, <1>6, <2>1, <2>3
  <2>4. ASSUME UNCHANGED <<cache, denied>>, NEW charged \in BOOLEAN, charged => ~Spent,
               item' = [item EXCEPT ![s] = [item[s] EXCEPT !.status = "fetching",
                                                           !.ours = charged]],
               used' = used + IF charged THEN 1 ELSE 0
        PROVE  /\ WindowType' /\ CacheType' /\ WorkType' /\ Kept
               /\ \A t \in Page \ {s} : cache'[t] = cache[t] /\ item'[t] = item[t]
    <3>1. [item[s] EXCEPT !.status = "fetching", !.ours = charged] \in Item
      BY <1>6, TakenTyped
    <3>2. used' \in 0 .. MaxRequests
      <4> HIDE DEF Kept, WindowType
      <4>1. used \in Nat /\ MaxRequests \in Nat /\ used <= MaxRequests
        BY WindowAssumption
      <4>2. charged => used < MaxRequests
        BY <2>4, <4>1 DEF Spent
      <4>3. used' = used + IF charged THEN 1 ELSE 0
        BY <2>4
      <4> HIDE DEF TypeInv, WorkType
      <4> QED BY <4>1, <4>2, <4>3
    <3> QED BY <1>4, <1>6, <2>1, <2>4, <3>1, <3>2
  <2> HIDE DEF Kept
  <2>5. \/ item' = [item EXCEPT ![s] = Ended] /\ UNCHANGED <<cache, used, denied>>
        \/ /\ item' = [item EXCEPT ![s] = Ended] /\ UNCHANGED used
           /\ cache' = [cache EXCEPT ![s] = FailedEntry(s)] /\ denied' = (denied \/ ~overdue)
        \/ /\ UNCHANGED <<cache, denied>>
           /\ \E charged \in BOOLEAN :
                 /\ charged => ~Spent
                 /\ item' = [item EXCEPT ![s] = [item[s] EXCEPT !.status = "fetching",
                                                               !.ours = charged]]
                 /\ used' = used + IF charged THEN 1 ELSE 0
    BY <1>9, TakeCases
  <2> QED BY <2>1, <2>2, <2>3, <2>4, <2>5 DEF Kept
<1>10. CASE Answer(s)
  BY <1>3, <1>6, <1>10 DEF Answer, limits
<1>11. CASE FetchFails(s)
  <2>1. item' \in [Page -> Item] /\ \A t \in Page \ {s} : item'[t] = item[t]
    BY <1>6, <1>11 DEF FetchFails, Item
  <2> QED BY <1>5, <1>11, <2>1, MishapTyped DEF FetchFails, limits
<1>12. CASE RetryDue(s)
  <2>1. item' \in [Page -> Item] /\ \A t \in Page \ {s} : item'[t] = item[t]
    BY <1>6, <1>12 DEF RetryDue, Item
  <2> QED BY <1>4, <1>12, <2>1 DEF RetryDue, limits
<1>13. CASE LateAnswer(s)
  BY <1>3, <1>13 DEF LateAnswer, limits
<1> QED BY <1>7, <1>8, <1>9, <1>10, <1>11, <1>12, <1>13 DEF Others

LEMMA WorldTyped ==
    ASSUME TypeInv, World
    PROVE  TypeInv' /\ UNCHANGED <<local, report>>
<1>1. /\ \A t \in Page : cache[t].total <= Len(list)
      /\ Len(list) \in Nat
  BY DEF TypeInv, CacheType, WindowType
<1>2. WindowType' /\ CacheType' /\ WorkType' /\ UNCHANGED <<local, report>>
  <2>1. CASE DeadlinePasses
    BY <2>1 DEF DeadlinePasses, TypeInv, WindowType, CacheType, WorkType, arxiv, work
  <2>2. CASE Collect
    BY <2>2 DEF Collect, TypeInv, WindowType, CacheType, WorkType, arxiv, work
  <2>3. CASE Grow
    <3>1. WindowType' /\ Len(list') = Len(list) + 1
      BY <2>3, GrowFact
    <3>2. UNCHANGED <<work, overdue, gone, local, report>>
      BY <2>3 DEF Grow, limits
    <3>3. CacheType'
      <4>1. \A t \in Page : cache[t].total <= Len(list')
        <5>1. cache \in [Page -> Entry]
          BY DEF TypeInv, CacheType
        <5>2. \A t \in Page : cache[t].total \in Nat
          BY <5>1 DEF Entry
        <5> QED BY <1>1, <3>1, <5>2
      <4> QED BY <3>2, <4>1 DEF TypeInv, CacheType, work
    <3>4. WorkType'
      BY <3>2 DEF TypeInv, WorkType, work
    <3> QED BY <3>1, <3>2, <3>3, <3>4
  <2>4. CASE \E s \in Page : Others(s)
    BY <2>4, OthersTyped
  <2> QED BY <2>1, <2>2, <2>3, <2>4 DEF World
<1>3. CallType'
  BY <1>2 DEF TypeInv, CallType, local, report
<1> QED BY <1>2, <1>3 DEF TypeInv

\* The call changes nothing but its own state, items and their workers.
LEMMA CallKeeps ==
    ASSUME TypeInv, Call
    PROVE  UNCHANGED <<arxiv, cache, used, denied, retried, limits>>
  BY DEF Call, Begin, CreateJob, EnqueueFirst, DrainFirst, PlanPages, Admit, RecordPage,
         EnqueuePage, PageEnqueued, DrainPages, RefreshRow, ReadEntry, CheckIntegrity, ReadPapers,
         Finalize, work

LEMMA FailActiveTyped ==
    ASSUME TypeInv, FailActive
    PROVE  /\ item' \in [Page -> Item] /\ loose' \subseteq Page
           /\ \A s \in Page : /\ ~item'[s].ours
                              /\ item'[s] = Ended \/ item'[s].status = item[s].status
<1> DEFINE Alone == {s \in Page : item[s].ours /\ ~item[s].demand}
<1>1. /\ item' = [s \in Page |-> IF s \in Alone THEN Ended ELSE [item[s] EXCEPT !.ours = FALSE]]
      /\ loose' = loose \cup {s \in Alone : item[s].status = "fetching"}
  BY DEF FailActive
<1>2. item \in [Page -> Item] /\ loose \subseteq Page /\ Ended \in Item
  BY ItemsTyped DEF TypeInv, WorkType
<1>3. ASSUME NEW s \in Page
      PROVE  /\ item'[s] \in Item /\ ~item'[s].ours
             /\ item'[s] = Ended \/ item'[s].status = item[s].status
  BY <1>1, <1>2 DEF Item, Ended, NoItem
<1> QED BY <1>1, <1>2, <1>3

LEMMA JoinTyped ==
    ASSUME TypeInv, NEW s \in Page, item' = [item EXCEPT ![s] = Joined(s, TRUE)]
    PROVE  /\ item' \in [Page -> Item]
           /\ \A t \in Page \ {s} : item'[t] = item[t]
           /\ item'[s].ours
           /\ item'[s].status = IF item[s].status = "none" THEN "queued" ELSE item[s].status
<1>1. item \in [Page -> Item] /\ Joined(s, TRUE) \in Item
  BY ItemsTyped DEF TypeInv, WorkType
<1> QED BY <1>1 DEF Joined, Pending

-----------------------------------------------------------------------------
(* The call.                                                               *)

Early == {"begin", "budgeted"}
FirstPage == {"enqueue", "drain", "first"}
Adding == {"follow", "join", "joined"}
Reading == {"finalize", "entry", "integrity", "papers"}

\* The plan, and what of it the loops have left.
PlanInv ==
    /\ pc \in {"admit"} \cup Adding \cup Reading =>
          /\ Start \notin plan.pages
          /\ \A s \in plan.pages : s >= Start
          /\ 1 + Cardinality(plan.pages) <= MaxPages
    /\ pc \in Adding => todo \subseteq plan.pages
    /\ pc \in Reading => todo \subseteq plan.pages \cup {Start}
    /\ pc \in {"join", "joined", "entry", "integrity", "papers"} => todo # {}
    /\ pc = "join" => Least(todo) \in plan.missing
    /\ pc \in Early <=> job.status = "none"
    /\ pc \notin Early \cup {"done", "raised"} => job.status = "running"
    /\ job.completed <= job.pages

Reported == {s \in Page : rows[s] # "none"}

\* The pages that have rows.
RowsInv ==
    /\ pc \in Early => Reported = {}
    /\ pc \in FirstPage \cup {"admit"} => Reported = {Start}
    /\ pc = "follow" => Reported = {Start} \cup (plan.pages \ todo)
    /\ pc \in {"join", "joined"} =>
          Reported = {Start} \cup (plan.pages \ (todo \ {Least(todo)}))
    /\ pc \in Reading => Reported = {Start} \cup plan.pages
    /\ pc = "done" => Cardinality(Reported) = job.pages

\* No page is read twice.
TallyInv ==
    /\ tally.read <= MaxPages
    /\ pc \in Reading =>
          tally.read + Cardinality(todo)
             <= 1 + Cardinality(plan.pages) + (IF pc = "papers" THEN 1 ELSE 0)
    /\ pc \notin Reading \cup {"done"} => tally = NoTally

CallInv == CallType /\ PlanInv /\ RowsInv /\ TallyInv

\* An exit that leaves the first page only.
LEMMA EndsEarly ==
    ASSUME TypeInv, CallInv, pc \notin Reading,
           NEW status \in {"partial", "overflow"}, NEW completed \in {0, 1},
           NEW error \in {"deadline", "unread", "overflow", "empty_page", "page_budget",
                          "request_budget"},
           JobEnds(status, 1, completed, error),
           rows' \in [Page -> {"none", "missing", "planned", "queued", "failed", "completed"}],
           Reported' = {Start}, UNCHANGED <<plan, tally>>
    PROVE  CallInv'
<1>1. /\ pc' = "done" /\ todo' = {}
      /\ job' = [status |-> status, pages |-> 1, completed |-> completed, error |-> error]
  BY DEF JobEnds
<1>2. CallType'
  BY <1>1 DEF CallInv, CallType, Label
<1>3. PlanInv'
  BY <1>1 DEF PlanInv, Early, FirstPage, Adding, Reading
<1>4. RowsInv'
  <2>1. Cardinality(Reported') = 1
    BY FS_Singleton
  <2> QED BY <1>1, <2>1 DEF RowsInv, Early, FirstPage, Adding, Reading
<1>5. TallyInv'
  BY <1>1 DEF TallyInv, Reading, CallInv
<1> QED BY <1>2, <1>3, <1>4, <1>5 DEF CallInv

\* The rows of one page more.
LEMMA RowAdded ==
    ASSUME CallType, NEW s \in Page,
           NEW status \in {"missing", "planned", "queued", "failed", "completed"},
           rows' = [rows EXCEPT ![s] = status]
    PROVE  /\ rows' \in [Page -> {"none", "missing", "planned", "queued", "failed", "completed"}]
           /\ Reported' = Reported \cup {s}
  BY DEF CallType, Reported

LEMMA RowOfFact ==
    ASSUME TypeInv, NEW s \in Page
    PROVE  RowOf(s) \in {"missing", "planned", "queued", "failed", "completed"}
  BY DEF RowOf, TypeInv, CacheType, Entry

\* Steps to the plan.
LEMMA BeginsInv ==
    ASSUME TypeInv, CallInv, Begin \/ CreateJob
    PROVE  CallInv'
<1>1. CASE Begin
  <2>1. pc = "begin" /\ pc' = "budgeted" /\ UNCHANGED <<plan, tally, job, rows>> /\ todo' \subseteq Page
    BY <1>1, PageFact DEF Begin, report
  <2>2. Reported' = Reported
    BY <2>1 DEF Reported
  <2> QED BY <2>1, <2>2 DEF CallInv, CallType, Label, PlanInv, RowsInv, TallyInv, Early, FirstPage,
                Adding, Reading
<1>2. CASE CreateJob
  <2>1. /\ pc = "budgeted" /\ pc' \in {"drain", "enqueue"} /\ todo' = {} /\ UNCHANGED <<plan, tally>>
        /\ job' = [job EXCEPT !.status = "running"]
    BY <1>2 DEF CreateJob
  <2>2. PICK status \in {"missing", "planned", "queued", "failed", "completed"} :
           rows' = [rows EXCEPT ![Start] = status]
    BY <1>2, RowOfFact, PageFact DEF CreateJob
  <2>3. /\ rows' \in [Page -> {"none", "missing", "planned", "queued", "failed", "completed"}]
        /\ Reported' = Reported \cup {Start}
    BY <2>2, RowAdded, PageFact DEF CallInv
  <2>4. Reported' = {Start}
    BY <2>1, <2>3 DEF CallInv, RowsInv, Early
  <2>5. CallType' /\ job'.status = "running" /\ job'.completed = job.completed /\ job'.pages = job.pages
    BY <2>1, <2>3 DEF CallInv, CallType, Label
  <2> QED BY <2>1, <2>4, <2>5 DEF CallInv, PlanInv, RowsInv, TallyInv, Early, FirstPage,
                Adding, Reading
<1> QED BY <1>1, <1>2

LEMMA FirstInv ==
    ASSUME TypeInv, CallInv, EnqueueFirst \/ DrainFirst
    PROVE  CallInv'
<1>1. /\ pc \in {"enqueue", "drain"} /\ UNCHANGED <<plan, tally>>
      /\ Reported = {Start} /\ CallType
  BY DEF EnqueueFirst, DrainFirst, CallInv, RowsInv, FirstPage
<1>2. CASE /\ JobEnds("partial", 1, 0, "deadline") /\ UNCHANGED rows
  <2>1. Reported' = {Start} /\ rows' \in [Page -> {"none", "missing", "planned", "queued", "failed", "completed"}]
    BY <1>1, <1>2 DEF Reported, CallType
  <2> QED BY <1>1, <1>2, <2>1, EndsEarly DEF Reading
<1>3. CASE pc' \in {"raised", "drain", "first"} /\ UNCHANGED <<todo, job, rows>>
  <2>1. Reported' = Reported
    BY <1>3 DEF Reported
  <2> QED BY <1>1, <1>3, <2>1 DEF CallInv, CallType, Label, PlanInv, RowsInv, TallyInv, Early, FirstPage,
                Adding, Reading
<1>4. CASE pc' = "drain" /\ UNCHANGED <<todo, job>> /\ rows' = [rows EXCEPT ![Start] = "queued"]
  <2>1. rows' \in [Page -> {"none", "missing", "planned", "queued", "failed", "completed"}]
        /\ Reported' = Reported \cup {Start}
    BY <1>1, <1>4, RowAdded, PageFact
  <2>2. Reported' = {Start}
    BY <1>1, <2>1
  <2>3. CallType'
    BY <1>1, <1>4, <2>1 DEF CallType, Label
  <2> QED BY <1>1, <1>4, <2>2, <2>3 DEF CallInv, PlanInv, RowsInv, TallyInv, Early, FirstPage,
                Adding, Reading
<1> QED BY <1>2, <1>3, <1>4 DEF EnqueueFirst, DrainFirst, Raise

\* The pages that follow start after the first.
LEMMA FollowUpsFact ==
    ASSUME NEW count \in Nat, NEW total \in Nat, ~(count = 0 /\ Start < total)
    PROVE  /\ FollowUps(count, total) \subseteq Page /\ Start \notin FollowUps(count, total)
           /\ \A s \in FollowUps(count, total) : s >= Start
<1>1. Start \in Nat /\ Page \subseteq Nat
  BY PageFact
<1>2. FollowUps(count, total) \subseteq Page
  BY DEF FollowUps
<1>3. ASSUME NEW s \in FollowUps(count, total) PROVE s \in Nat /\ s < total /\ s >= Start + count
  BY <1>1 DEF FollowUps
<1>4. \A s \in FollowUps(count, total) : s >= Start
  BY <1>1, <1>3
<1>5. Start \notin FollowUps(count, total)
  <2> SUFFICES ASSUME Start \in FollowUps(count, total) PROVE FALSE
    OBVIOUS
  <2>1. Start < total /\ Start >= Start + count
    BY <1>3
  <2> QED BY <1>1, <2>1
<1> QED BY <1>2, <1>4, <1>5

LEMMA PlanPagesInv ==
    ASSUME TypeInv, CallInv, PlanPages
    PROVE  CallInv'
<1> DEFINE count == Len(cache[Start].papers)
           total == cache[Start].total
           pages == FollowUps(count, total)
<1>1. /\ pc = "first" /\ rows' = [rows EXCEPT ![Start] = RowOf(Start)] /\ UNCHANGED tally
      /\ Reported = {Start} /\ CallType /\ tally = NoTally
  BY DEF PlanPages, CallInv, RowsInv, FirstPage, TallyInv, Reading
<1>2. /\ rows' \in [Page -> {"none", "missing", "planned", "queued", "failed", "completed"}]
      /\ Reported' = {Start}
  BY <1>1, RowAdded, RowOfFact, PageFact
<1>3. count \in Nat /\ total \in Nat
  BY PageFact DEF TypeInv, CacheType, Entry
<1>4. CASE UNCHANGED plan /\ \E status \in {"partial", "overflow"}, completed \in {0, 1},
                 error \in {"unread", "overflow", "empty_page", "page_budget"} :
              JobEnds(status, 1, completed, error)
  BY <1>1, <1>2, <1>4, EndsEarly DEF Reading
<1>5. ASSUME total <= Cap, ~(count = 0 /\ Start < total), 1 + Cardinality(pages) <= MaxPages,
             plan' = [total |-> total, pages |-> pages, missing |-> {s \in pages : ~Readable(s)}],
             pc' = "admit", UNCHANGED <<job, todo>>
      PROVE  CallInv'
  <2>1. pages \subseteq Page /\ Start \notin pages /\ \A s \in pages : s >= Start
    BY <1>3, <1>5, FollowUpsFact
  <2> HIDE DEF pages, total, count
  <2>2. CallType'
    BY <1>1, <1>2, <1>3, <1>5, <2>1, WindowAssumption DEF CallType, Label
  <2>3. PlanInv'
    BY <1>1, <1>5, <2>1 DEF CallInv, PlanInv, Early, FirstPage, Adding, Reading
  <2> QED BY <1>1, <1>2, <1>5, <2>2, <2>3 DEF CallInv, RowsInv, TallyInv, Early, FirstPage, Adding, Reading
<1>6. \/ UNCHANGED plan /\ \E status \in {"partial", "overflow"}, completed \in {0, 1},
                 error \in {"unread", "overflow", "empty_page", "page_budget"} :
              JobEnds(status, 1, completed, error)
      \/ /\ ~(total > Cap) /\ ~(count = 0 /\ Start < total) /\ ~(1 + Cardinality(pages) > MaxPages)
         /\ plan' = [total |-> total, pages |-> pages, missing |-> {s \in pages : ~Readable(s)}]
         /\ pc' = "admit" /\ UNCHANGED <<job, todo>>
  <2> HIDE DEF count, total, pages
  <2>1. IF ~Readable(Start)
           THEN JobEnds("partial", 1, 0, "unread") /\ UNCHANGED plan
           ELSE IF total > Cap
           THEN JobEnds("overflow", 1, 1, "overflow") /\ UNCHANGED plan
           ELSE IF count = 0 /\ Start < total
           THEN JobEnds("partial", 1, 1, "empty_page") /\ UNCHANGED plan
           ELSE IF 1 + Cardinality(pages) > MaxPages
           THEN JobEnds("partial", 1, 1, "page_budget") /\ UNCHANGED plan
           ELSE /\ plan' = [total |-> total, pages |-> pages,
                            missing |-> {s \in pages : ~Readable(s)}]
                /\ pc' = "admit"
                /\ UNCHANGED <<job, todo>>
    BY DEF PlanPages, count, total, pages
  <2> QED BY <2>1
<1>7. Cardinality(pages) \in Nat /\ MaxPages \in Nat /\ Cap \in Nat
  BY PageFact, WindowAssumption DEF FollowUps
<1> HIDE DEF count, total, pages
<1>8. /\ ~(total > Cap) => total <= Cap
      /\ ~(1 + Cardinality(pages) > MaxPages) => 1 + Cardinality(pages) <= MaxPages
  BY <1>3, <1>7
<1> QED BY <1>4, <1>5, <1>6, <1>8

LEMMA AdmitInv ==
    ASSUME TypeInv, CallInv, Admit
    PROVE  CallInv'
<1>1. /\ pc = "admit" /\ UNCHANGED <<plan, tally, rows>> /\ CallType
      /\ Reported = {Start} /\ Start \notin plan.pages /\ plan.pages \subseteq Page
  BY DEF Admit, CallInv, RowsInv, PlanInv, CallType
<1>2. Reported' = {Start}
  BY <1>1 DEF Reported
<1>3. CASE \E error \in {"request_budget", "deadline"} : JobEnds("partial", 1, 1, error)
  BY <1>1, <1>2, <1>3, EndsEarly DEF Reading, CallType
<1>4. CASE pc' = "follow" /\ todo' = plan.pages /\ UNCHANGED job
  <2>1. CallType' /\ Reported' = {Start} \cup (plan.pages \ todo')
    BY <1>1, <1>2, <1>4 DEF CallType, Label
  <2> QED BY <1>1, <1>4, <2>1 DEF CallInv, PlanInv, RowsInv, TallyInv, Early, FirstPage, Adding, Reading
<1> QED BY <1>3, <1>4 DEF Admit

\* Steps to the pages that follow.
LEMMA DeadlineInv ==
    ASSUME TypeInv, CallInv, pc \in Adding, FollowUpDeadline, UNCHANGED <<plan, tally>>
    PROVE  CallInv'
<1>1. /\ rows' = [s \in Page |-> IF s = Start THEN rows[s] ELSE "none"]
      /\ JobEnds("partial", 1, 1, "deadline") /\ Start \in Reported /\ CallType
  BY DEF FollowUpDeadline, CallInv, RowsInv, Adding
<1>2. rows' \in [Page -> {"none", "missing", "planned", "queued", "failed", "completed"}]
      /\ Reported' = {Start}
  BY <1>1 DEF CallType, Reported
<1> QED BY <1>1, <1>2, EndsEarly DEF Adding, Reading

LEMMA RecordInv ==
    ASSUME TypeInv, CallInv, RecordPage
    PROVE  CallInv'
<1>1. PICK s : s = Least(todo)
  OBVIOUS
<1>2. /\ pc = "follow" /\ s \in todo /\ s \in Page /\ CallType /\ PlanInv /\ UNCHANGED <<plan, tally>>
      /\ todo \subseteq plan.pages
  BY <1>1, LeastFact DEF RecordPage, CallInv, CallType, PlanInv, Adding
<1>3. CASE FollowUpDeadline
  BY <1>2, <1>3, DeadlineInv DEF Adding
<1>4. CASE /\ rows' = [rows EXCEPT ![s] = "planned"] /\ UNCHANGED job
           /\ \/ pc' = "join" /\ UNCHANGED todo /\ s \in plan.missing
              \/ todo' = todo \ {s} /\ UNCHANGED pc
  <2>1. /\ rows' \in [Page -> {"none", "missing", "planned", "queued", "failed", "completed"}]
        /\ Reported' = Reported \cup {s}
    BY <1>2, <1>4, RowAdded
  <2>2. Reported' = {Start} \cup (plan.pages \ (todo \ {s}))
    BY <1>2, <2>1 DEF CallInv, RowsInv
  <2>3. CallType'
    BY <1>2, <1>4, <2>1 DEF CallType, Label
  <2>4. tally' = NoTally
    BY <1>2 DEF CallInv, TallyInv, Reading
  <2>5. CASE pc' = "join" /\ UNCHANGED todo /\ s \in plan.missing
    <3>1. PlanInv'
      BY <1>1, <1>2, <1>4, <2>5 DEF PlanInv, Early, FirstPage, Adding, Reading
    <3>2. RowsInv'
      BY <1>1, <1>2, <2>2, <2>5 DEF RowsInv, Early, FirstPage, Adding, Reading
    <3> QED BY <1>2, <2>3, <2>4, <2>5, <3>1, <3>2 DEF CallInv, TallyInv, Reading
  <2>6. CASE todo' = todo \ {s} /\ UNCHANGED pc
    <3>1. PlanInv'
      BY <1>2, <1>4, <2>6 DEF PlanInv, Early, FirstPage, Adding, Reading
    <3>2. RowsInv'
      BY <1>2, <2>2, <2>6 DEF RowsInv, Early, FirstPage, Adding, Reading
    <3> QED BY <1>2, <2>3, <2>4, <2>6, <3>1, <3>2 DEF CallInv, TallyInv, Reading
  <2> QED BY <1>4, <2>5, <2>6
<1> QED BY <1>1, <1>3, <1>4 DEF RecordPage

LEMMA JoinInv ==
    ASSUME TypeInv, CallInv, EnqueuePage \/ PageEnqueued
    PROVE  CallInv'
<1>1. PICK s : s = Least(todo)
  OBVIOUS
<1>2. /\ pc \in {"join", "joined"} /\ s \in todo /\ s \in Page /\ CallType /\ PlanInv
      /\ todo \subseteq plan.pages /\ UNCHANGED <<plan, tally>> /\ tally = NoTally
      /\ Reported = {Start} \cup (plan.pages \ (todo \ {s}))
  BY <1>1, LeastFact DEF EnqueuePage, PageEnqueued, CallInv, CallType, PlanInv, RowsInv, TallyInv, Adding,
     Reading
<1>3. CASE FollowUpDeadline
  BY <1>2, <1>3, DeadlineInv DEF Adding
<1>4. CASE pc = "join" /\ pc' = "joined" /\ UNCHANGED <<todo, job, rows>>
  <2>1. Reported' = Reported
    BY <1>4 DEF Reported
  <2> QED BY <1>1, <1>2, <1>4, <2>1 DEF CallInv, CallType, Label, PlanInv, RowsInv, TallyInv, Early, FirstPage,
              Adding, Reading
<1>5. CASE pc' = "follow" /\ todo' = todo \ {s} /\ UNCHANGED <<job, rows>>
  <2>1. Reported' = Reported
    BY <1>5 DEF Reported
  <2>2. CallType'
    BY <1>2, <1>5 DEF CallType, Label
  <2>3. PlanInv'
    BY <1>2, <1>5 DEF PlanInv, Early, FirstPage, Adding, Reading
  <2>4. RowsInv'
    BY <1>2, <1>5, <2>1 DEF RowsInv, Early, FirstPage, Adding, Reading
  <2> QED BY <1>2, <1>5, <2>2, <2>3, <2>4 DEF CallInv, TallyInv, Reading
<1> QED BY <1>1, <1>3, <1>4, <1>5 DEF EnqueuePage, PageEnqueued

LEMMA PagesCount ==
    ASSUME CallInv, pc \in Adding \cup Reading
    PROVE  /\ plan.pages \subseteq Page /\ Cardinality(plan.pages) \in Nat
           /\ Cardinality({Start} \cup plan.pages) = 1 + Cardinality(plan.pages)
           /\ 1 + Cardinality(plan.pages) <= MaxPages
           /\ Cardinality(todo) \in Nat
           /\ \A s \in todo : Cardinality(todo \ {s}) = Cardinality(todo) - 1
<1>1. /\ plan.pages \subseteq Page /\ todo \subseteq Page /\ Start \notin plan.pages
      /\ 1 + Cardinality(plan.pages) <= MaxPages
  BY DEF CallInv, CallType, PlanInv
<1>2. /\ IsFiniteSet(plan.pages) /\ Cardinality(plan.pages) \in Nat
      /\ IsFiniteSet(todo) /\ Cardinality(todo) \in Nat
  BY <1>1, PageFact
<1>3. Cardinality(plan.pages \cup {Start}) = Cardinality(plan.pages) + 1
  BY <1>1, <1>2, FS_AddElement
<1>4. plan.pages \cup {Start} = {Start} \cup plan.pages
  OBVIOUS
<1>5. \A s \in todo : Cardinality(todo \ {s}) = Cardinality(todo) - 1
  BY <1>2, FS_RemoveElement
<1>6. Cardinality({Start} \cup plan.pages) = 1 + Cardinality(plan.pages)
  <2>1. Cardinality({Start} \cup plan.pages) = Cardinality(plan.pages) + 1
    BY <1>3, <1>4, Zenon
  <2> QED BY <1>2, <2>1
<1> QED BY <1>1, <1>2, <1>5, <1>6, Zenon

LEMMA DrainPagesInv ==
    ASSUME TypeInv, CallInv, DrainPages
    PROVE  CallInv'
<1>1. /\ pc = "follow" /\ todo = {} /\ pc' = "finalize" /\ todo' = plan.pages \cup {Start}
      /\ UNCHANGED <<plan, tally, job, rows>> /\ CallType /\ tally = NoTally
  BY DEF DrainPages, report, CallInv, TallyInv, Reading
<1>2. CallType'
  BY <1>1, PageFact DEF CallType, Label
<1>3. PlanInv'
  BY <1>1 DEF CallInv, PlanInv, Early, FirstPage, Adding, Reading
<1>4. RowsInv'
  <2>1. Reported = {Start} \cup plan.pages
    BY <1>1 DEF CallInv, RowsInv
  <2>2. Reported' = Reported
    BY <1>1 DEF Reported
  <2> QED BY <1>1, <2>1, <2>2 DEF RowsInv, Early, FirstPage, Adding, Reading
<1>5. TallyInv'
  <2>1. Cardinality(todo') = 1 + Cardinality(plan.pages) /\ tally.read = 0
        /\ Cardinality(plan.pages) \in Nat
    <3>1. todo' = {Start} \cup plan.pages
      BY <1>1
    <3> QED BY <1>1, <3>1, PagesCount DEF Adding, NoTally
  <2>2. tally'.read <= MaxPages
    BY <1>1 DEF CallInv, TallyInv
  <2>3. tally'.read + Cardinality(todo')
             <= 1 + Cardinality(plan'.pages) + (IF pc' = "papers" THEN 1 ELSE 0)
    BY <1>1, <2>1
  <2> QED BY <1>1, <2>2, <2>3 DEF TallyInv, Reading
<1> QED BY <1>2, <1>3, <1>4, <1>5 DEF CallInv

\* Steps that read the pages.
LEMMA ReadsInv ==
    ASSUME TypeInv, CallInv, RefreshRow \/ ReadEntry \/ CheckIntegrity \/ ReadPapers
    PROVE  CallInv'
<1>1. PICK s : s = Least(todo)
  OBVIOUS
<1>2. /\ pc \in Reading /\ s \in todo /\ s \in Page /\ CallType /\ PlanInv /\ UNCHANGED <<plan, job>>
      /\ todo \subseteq plan.pages \cup {Start} /\ Reported = {Start} \cup plan.pages
      /\ pc = "finalize" => todo # {}
  <2>1. pc \in Reading /\ todo # {} /\ UNCHANGED <<plan, job>>
    BY DEF RefreshRow, ReadEntry, CheckIntegrity, ReadPapers, NextPage, Reading, report, CallInv, PlanInv
  <2> QED BY <1>1, <2>1, LeastFact DEF CallInv, CallType, PlanInv, RowsInv
<1>3. /\ cache[s].papers \in Seq(Paper) /\ Len(cache[s].papers) \in Nat
      /\ ToSet(cache[s].papers) \subseteq Paper
  <2>1. cache[s].papers \in Seq(Paper)
    BY <1>2 DEF TypeInv, CacheType, Entry
  <2> QED BY <2>1 DEF ToSet
<1>4. rows' \in [Page -> {"none", "missing", "planned", "queued", "failed", "completed"}]
      /\ Reported' = {Start} \cup plan.pages
  <2>1. CASE rows' = [rows EXCEPT ![s] = RowOf(s)]
    BY <1>2, <2>1, RowAdded, RowOfFact
  <2>2. CASE UNCHANGED rows
    BY <1>2, <2>2 DEF CallType, Reported
  <2> QED BY <1>1, <2>1, <2>2 DEF RefreshRow, ReadEntry, CheckIntegrity, ReadPapers, report
<1>5. /\ pc' \in Reading
      /\ \/ todo' = todo
         \/ todo' = todo \ {s} /\ pc' = "finalize"
      /\ tally' \in [seen : SUBSET Paper, sum : Nat, read : Nat, count : Nat]
      /\ \/ tally'.read = tally.read /\ pc # "papers" /\ pc' # "papers"
         \/ tally'.read = tally.read /\ pc = "papers" /\ todo' = todo \ {s} /\ pc' = "finalize"
         \/ tally'.read = tally.read + 1 /\ pc # "papers" /\ pc' = "papers" /\ todo' = todo
  <2>1. tally \in [seen : SUBSET Paper, sum : Nat, read : Nat, count : Nat]
    BY <1>2 DEF CallType
  <2>2. CASE RefreshRow
    BY <2>1, <2>2 DEF RefreshRow, Reading
  <2>3. CASE ReadEntry
    BY <1>1, <1>3, <2>1, <2>3 DEF ReadEntry, NextPage, Reading
  <2>4. CASE CheckIntegrity
    <3>1. CASE Len(cache[s].papers) = tally.count
      <4>1. /\ tally' = [tally EXCEPT !.sum = tally.sum + tally.count, !.read = tally.read + 1]
            /\ pc = "integrity" /\ pc' = "papers" /\ todo' = todo
        BY <1>1, <2>4, <3>1 DEF CheckIntegrity
      <4>2. tally.sum \in Nat /\ tally.count \in Nat /\ tally.read \in Nat
        BY <2>1
      <4>3. tally.sum + tally.count \in Nat /\ tally.read + 1 \in Nat
        BY <4>2
      <4>4. /\ tally' \in [seen : SUBSET Paper, sum : Nat, read : Nat, count : Nat]
            /\ tally'.read = tally.read + 1
        BY <2>1, <4>1, <4>3
      <4> QED BY <4>1, <4>4 DEF Reading
    <3>2. CASE Len(cache[s].papers) # tally.count
      BY <1>1, <2>1, <2>4, <3>2 DEF CheckIntegrity, NextPage, Reading
    <3> QED BY <3>1, <3>2
  <2>5. CASE ReadPapers
    BY <1>1, <1>3, <2>1, <2>5 DEF ReadPapers, NextPage, Reading
  <2> QED BY <2>2, <2>3, <2>4, <2>5
<1>6. CallType'
  BY <1>2, <1>4, <1>5 DEF CallType, Label, Reading
<1>7. PlanInv'
  <2>1. todo' \subseteq plan.pages \cup {Start} /\ (pc' # "finalize" => todo' # {})
    BY <1>2, <1>5
  <2> QED BY <1>2, <1>5, <2>1 DEF PlanInv, Early, FirstPage, Adding, Reading
<1>8. RowsInv'
  BY <1>2, <1>4, <1>5 DEF RowsInv, Early, FirstPage, Adding, Reading
<1>9. TallyInv'
  <2> DEFINE n == 1 + Cardinality(plan.pages)
             left == Cardinality(todo)
             left2 == Cardinality(todo')
  <2>1. /\ n \in Nat /\ n <= MaxPages /\ left \in Nat /\ MaxPages \in Nat
        /\ Cardinality(todo \ {s}) = left - 1
    BY <1>2, PagesCount, WindowAssumption
  <2>2. left2 = left \/ (left2 = left - 1 /\ todo' = todo \ {s})
    BY <1>5, <2>1
  <2>3. tally.read \in Nat /\ tally.read + left <= n + (IF pc = "papers" THEN 1 ELSE 0)
    BY <1>2 DEF CallInv, TallyInv, CallType
  <2>4. left > 0
    <3>1. todo # {} /\ IsFiniteSet(todo)
      BY <1>2, PageFact DEF CallType
    <3> QED BY <2>1, <3>1, FS_EmptySet
  <2>5. todo' = todo => left2 = left
    OBVIOUS
  <2>6. todo' = todo \ {s} => left2 = left - 1
    BY <2>1
  <2> HIDE DEF n, left, left2
  <2>7. tally'.read + left2 <= n + (IF pc' = "papers" THEN 1 ELSE 0) /\ tally'.read <= MaxPages
    BY <1>5, <2>1, <2>2, <2>3, <2>4, <2>5, <2>6
  <2> QED BY <1>2, <1>5, <2>7 DEF TallyInv, Reading, n, left2
<1> QED BY <1>6, <1>7, <1>8, <1>9 DEF CallInv

LEMMA FinalizeInv ==
    ASSUME TypeInv, CallInv, Finalize
    PROVE  CallInv'
<1> DEFINE n == 1 + Cardinality(plan.pages)
<1>1. /\ pc = "finalize" /\ todo = {} /\ UNCHANGED <<plan, tally, rows>> /\ CallType
      /\ Reported = {Start} \cup plan.pages
  BY DEF Finalize, CallInv, RowsInv, Reading
<1>2. /\ n \in Nat /\ Cardinality(Reported) = n /\ tally.read \in Nat /\ tally.read <= n
  <2>1. Cardinality(todo) = 0
    BY <1>1, FS_EmptySet
  <2>2. tally.read + 0 <= n + 0 /\ tally.read \in Nat
    BY <1>1, <2>1 DEF CallInv, TallyInv, Reading, CallType
  <2> QED BY <1>1, <2>2, PagesCount DEF Reading
<1> HIDE DEF n
<1>3. PICK status \in {"completed", "partial"}, error \in {"none", "incomplete"} :
         JobEnds(status, n, tally.read, error)
  BY DEF Finalize, n
<1>4. /\ pc' = "done" /\ todo' = {} /\ Reported' = Reported
      /\ job' = [status |-> status, pages |-> n, completed |-> tally.read, error |-> error]
  BY <1>1, <1>3 DEF JobEnds, Reported
<1>5. CallType'
  BY <1>1, <1>2, <1>4 DEF CallType, Label
<1>6. PlanInv'
  BY <1>2, <1>4 DEF PlanInv, Early, FirstPage, Adding, Reading
<1>7. RowsInv'
  BY <1>2, <1>4 DEF RowsInv, Early, FirstPage, Adding, Reading
<1>8. TallyInv'
  BY <1>1, <1>4 DEF CallInv, TallyInv, Reading
<1> QED BY <1>5, <1>6, <1>7, <1>8 DEF CallInv

LEMMA CallStep ==
    ASSUME TypeInv, CallInv, Call
    PROVE  CallInv'
  BY BeginsInv, FirstInv, PlanPagesInv, AdmitInv, RecordInv, JoinInv, DrainPagesInv, ReadsInv,
     FinalizeInv DEF Call

LEMMA CallTyped ==
    ASSUME TypeInv, CallInv, Call
    PROVE  TypeInv' /\ CallInv'
<1>1. UNCHANGED <<list, mishaps, cache, used, denied, retried, overdue, gone>>
  BY CallKeeps DEF arxiv, limits
<1>2. item' \in [Page -> Item] /\ loose' \subseteq Page
  <2>1. CASE FailActive
    BY <2>1, FailActiveTyped
  <2>2. CASE UNCHANGED <<item, loose>>
    BY <2>2 DEF TypeInv, WorkType
  <2>3. ASSUME NEW s \in Page, item' = [item EXCEPT ![s] = Joined(s, TRUE)], UNCHANGED loose
        PROVE  item' \in [Page -> Item] /\ loose' \subseteq Page
    BY <2>3, JoinTyped DEF TypeInv, WorkType
  <2>4. CASE EnqueuePage
    <3>1. Least(todo) \in Page
      BY <2>4, LeastFact DEF EnqueuePage, CallInv, CallType, PlanInv
    <3> QED BY <2>1, <2>3, <2>4, <3>1 DEF EnqueuePage, FollowUpDeadline
  <2>5. CASE EnqueueFirst
    BY <2>1, <2>2, <2>3, <2>5, PageFact DEF EnqueueFirst, Raise
  <2> QED BY <2>1, <2>2, <2>4, <2>5
     DEF Call, Begin, CreateJob, DrainFirst, PlanPages, Admit, RecordPage, PageEnqueued,
         FollowUpDeadline, DrainPages, RefreshRow, ReadEntry, CheckIntegrity, ReadPapers, Finalize, work
<1>3. CallInv'
  BY CallStep
<1> QED BY <1>1, <1>2, <1>3 DEF TypeInv, WindowType, CacheType, WorkType, CallInv

LEMMA WorldKeepsCall ==
    ASSUME CallInv, UNCHANGED <<local, report>>
    PROVE  CallInv'
<1>1. UNCHANGED <<pc, plan, todo, tally, job, rows>>
  BY DEF local, report
<1>2. Reported' = Reported
  BY <1>1 DEF Reported
<1> QED BY <1>1, <1>2 DEF CallInv, CallType, PlanInv, RowsInv, TallyInv

LEMMA NextCases == [Next]_vars => Call \/ World \/ UNCHANGED vars
  BY DEF Next, World, Others

LEMMA StepTyped ==
    TypeInv /\ CallInv /\ [Next]_vars => TypeInv' /\ CallInv'
<1> SUFFICES ASSUME TypeInv, CallInv, [Next]_vars PROVE TypeInv' /\ CallInv'
  OBVIOUS
<1>1. CASE Call
  BY <1>1, CallTyped
<1>2. CASE World
  BY <1>2, WorldTyped, WorldKeepsCall
<1>3. CASE UNCHANGED vars
  <2>1. UNCHANGED <<local, report>>
    BY <1>3 DEF vars, local, report
  <2> QED BY <1>3, <2>1, WorldKeepsCall DEF vars, TypeInv, WindowType, CacheType, WorkType, CallInv
<1> QED BY <1>1, <1>2, <1>3, NextCases

LEMMA InitTyped == Init => TypeInv /\ CallInv
<1> SUFFICES ASSUME Init PROVE TypeInv /\ CallInv
  OBVIOUS
<1>1. WindowType
  <2>1. PICK n \in 0 .. MaxPapers : list = [i \in 1 .. n |-> i]
    BY DEF Init
  <2>2. list \in Seq(Paper) /\ Len(list) = n
    BY <2>1, WindowAssumption DEF Paper
  <2>3. ToSet(list) = 1 .. Len(list)
    BY <2>1, <2>2 DEF ToSet
  <2> QED BY <2>2, <2>3, WindowAssumption DEF Init, WindowType
<1>2. CacheType
  BY <1>1 DEF Init, CacheType, WindowType, Entry, Nothing
<1>3. WorkType
  <2>1. item \in [Page -> Item]
    BY DEF Init, Item, NoItem
  <2>2. used \in 0 .. MaxRequests
    BY WindowAssumption DEF Init
  <2> QED BY <2>1, <2>2 DEF Init, WorkType
<1>4. CallType
  BY WindowAssumption DEF Init, CallType, Label, NoTally
<1>5. PlanInv /\ RowsInv /\ TallyInv
  BY WindowAssumption DEF Init, PlanInv, RowsInv, TallyInv, Reported, Early, FirstPage, Adding, Reading,
     NoTally
<1> QED BY <1>1, <1>2, <1>3, <1>4, <1>5 DEF TypeInv, CallInv

LEMMA SpecTyped == Spec => [](TypeInv /\ CallInv)
  BY InitTyped, StepTyped, PTL DEF Spec

\* Every variable keeps its type.
THEOREM TypeCorrect == Spec => []TypeOK
<1>1. TypeInv /\ CallInv => TypeOK
  <2> SUFFICES ASSUME TypeInv, CallInv PROVE TypeOK
    OBVIOUS
  <2>1. ToSet(list) = 1 .. Len(list) /\ Len(list) <= MaxPapers /\ mishaps \in 0 .. MaxMishaps
    BY DEF TypeInv, WindowType
  <2>2. ASSUME NEW s \in Page
        PROVE  /\ cache[s].status \in {"none", "failed", "completed"}
               /\ ToSet(cache[s].papers) \subseteq Paper /\ cache[s].total \in 0 .. Len(list)
    <3>1. cache[s] \in Entry /\ cache[s].total <= Len(list) /\ Len(list) \in Nat
      BY DEF TypeInv, CacheType, WindowType
    <3>2. cache[s].papers \in Seq(Paper)
      BY <3>1 DEF Entry
    <3>3. ToSet(cache[s].papers) \subseteq Paper
      BY <3>2 DEF ToSet
    <3> QED BY <3>1, <3>3 DEF Entry
  <2>3. tally.read \in 0 .. MaxPages /\ job.completed <= job.pages
    BY WindowAssumption DEF CallInv, CallType, TallyInv, PlanInv
  <2> QED BY <2>1, <2>2, <2>3 DEF TypeOK, TypeInv, WorkType, CallInv, CallType, Item, Label
<1> QED BY <1>1, SpecTyped, PTL

\* The job of a call that is done counts the pages that it has rows for.
THEOREM PagesAreAccounted == Spec => []PagesAccounted
<1>1. CallInv => PagesAccounted
  BY DEF CallInv, RowsInv, PagesAccounted, Reported
<1> QED BY <1>1, SpecTyped, PTL

-----------------------------------------------------------------------------
(* The account of the call.                                                *)

\* The pages that are going to be enqueued.
ToEnqueue ==
    {s \in Page : \/ pc = "enqueue" /\ s = Start
                  \/ pc \in {"follow", "join"} /\ s \in todo \cap plan.missing
                  \/ pc = "joined" /\ s \in (todo \ {Least(todo)}) \cap plan.missing}

\* When an item may have the budget of the call.
OursInv ==
    \A s \in Page : item[s].ours =>
        /\ pc \notin {"begin", "budgeted", "enqueue"}
        /\ pc \in {"drain", "first", "admit"} => s = Start
        /\ s \notin ToEnqueue

Unspent == used = 0 /\ \A s \in Page : ~item[s].ours

AccountInv ==
    /\ pc = "begin" => ~gone
    /\ pc \in Early => used = 0
    /\ gone => Unspent /\ pc \in {"budgeted", "enqueue", "drain", "first", "admit", "done", "raised"}

\* The others take no budget, and lose no answer.
LEMMA WorldMoves ==
    ASSUME TypeInv, World
    PROVE  /\ UNCHANGED <<pc, plan, todo, tally, job, rows>>
           /\ \A s \in Page : item'[s].ours => item[s].ours
           /\ \A s \in Page : Readable(s) => Readable(s)'
           /\ \/ used' = used
              \/ \E s \in Page : item[s].ours /\ used' = used + 1
<1>1. UNCHANGED <<pc, plan, todo, tally, job, rows>>
  BY WorldTyped DEF local, report
<1>2. CASE DeadlinePasses \/ Collect \/ Grow
  BY <1>1, <1>2 DEF DeadlinePasses, Collect, Grow, work, Readable
<1>3. ASSUME NEW s \in Page, Others(s)
      PROVE  /\ \A t \in Page : item'[t].ours => item[t].ours
             /\ \A t \in Page : Readable(t) => Readable(t)'
             /\ used' = used \/ (item[s].ours /\ used' = used + 1)
  <2>1. /\ \A t \in Page \ {s} : cache'[t] = cache[t] /\ item'[t] = item[t]
        /\ Readable(s) => Readable(s)'
    BY <1>3, OthersTyped DEF Readable, Written
  <2>2. \A t \in Page : Readable(t) => Readable(t)'
    BY <2>1 DEF Readable
  <2>3. item \in [Page -> Item] /\ used \in Nat
    BY WindowAssumption DEF TypeInv, WorkType
  <2>4. (item'[s].ours => item[s].ours) /\ (used' = used \/ (item[s].ours /\ used' = used + 1))
    <3>1. CASE OthersAsk(s)
      BY <2>3, <3>1 DEF OthersAsk, Joined, Item
    <3>2. CASE OthersRefresh(s)
      BY <3>2 DEF OthersRefresh
    <3>3. CASE TakeItem(s)
      <4>1. \/ item' = [item EXCEPT ![s] = Ended] /\ UNCHANGED used
            \/ \E charged \in BOOLEAN :
                  /\ charged => item[s].ours
                  /\ item' = [item EXCEPT ![s] = [item[s] EXCEPT !.status = "fetching",
                                                                !.ours = charged]]
                  /\ used' = used + IF charged THEN 1 ELSE 0
        BY <3>3, TakeCases
      <4>2. CASE item' = [item EXCEPT ![s] = Ended] /\ UNCHANGED used
        BY <2>3, <4>2 DEF Ended, NoItem
      <4>3. ASSUME NEW charged \in BOOLEAN, charged => item[s].ours,
                   item' = [item EXCEPT ![s] = [item[s] EXCEPT !.status = "fetching",
                                                               !.ours = charged]],
                   used' = used + IF charged THEN 1 ELSE 0
            PROVE  (item'[s].ours => item[s].ours)
                   /\ (used' = used \/ (item[s].ours /\ used' = used + 1))
        <5>1. item'[s].ours = charged
          BY <2>3, <4>3 DEF Item
        <5>2. used' = used \/ (charged /\ used' = used + 1)
          BY <2>3, <4>3
        <5> QED BY <4>3, <5>1, <5>2
      <4> QED BY <4>1, <4>2, <4>3
    <3>4. CASE Answer(s)
      BY <2>3, <3>4 DEF Answer, Ended, NoItem
    <3>5. CASE FetchFails(s)
      BY <2>3, <3>5 DEF FetchFails, Ended, NoItem, Item
    <3>6. CASE RetryDue(s)
      BY <2>3, <3>6 DEF RetryDue, Item
    <3>7. CASE LateAnswer(s)
      BY <3>7 DEF LateAnswer
    <3> QED BY <1>3, <3>1, <3>2, <3>3, <3>4, <3>5, <3>6, <3>7 DEF Others
  <2> QED BY <2>1, <2>2, <2>4
<1> QED BY <1>1, <1>2, <1>3 DEF World

\* What a step of the call does to the items.
LEMMA CallMoves ==
    ASSUME TypeInv, CallInv, Call
    PROVE  \/ UNCHANGED item
           \/ /\ FailActive /\ pc' \in {"done", "first", "finalize"}
           \/ /\ pc = "enqueue" /\ pc' = "drain" /\ ~gone
              /\ item' = [item EXCEPT ![Start] = Joined(Start, TRUE)]
           \/ /\ pc = "join" /\ pc' = "joined" /\ UNCHANGED <<todo, plan>>
              /\ item' = [item EXCEPT ![Least(todo)] = Joined(Least(todo), TRUE)]
  BY DEF Call, Begin, CreateJob, EnqueueFirst, DrainFirst, PlanPages, Admit, RecordPage,
         EnqueuePage, PageEnqueued, DrainPages, RefreshRow, ReadEntry, CheckIntegrity, ReadPapers,
         Finalize, work, FollowUpDeadline, JobEnds, Raise

LEMMA AccountStep ==
    ASSUME TypeInv, CallInv, OursInv, AccountInv, [Next]_vars
    PROVE  AccountInv'
<1>0. used \in Nat /\ job.status \in {"none", "running", "completed", "partial", "overflow"}
      /\ item \in [Page -> Item]
  BY WindowAssumption DEF TypeInv, WorkType, CallInv, CallType
<1>1. CASE Call
  <2>1. UNCHANGED <<used, gone>> /\ pc # "done" /\ pc # "raised" /\ pc' # "begin"
    BY <1>1, CallKeeps DEF limits, Call, Begin, CreateJob, EnqueueFirst, DrainFirst, PlanPages, Admit,
       RecordPage, EnqueuePage, PageEnqueued, DrainPages, RefreshRow, ReadEntry, CheckIntegrity,
       ReadPapers, Finalize, FollowUpDeadline, JobEnds, Raise, NextPage
  <2>2. pc' \in Early => pc \in Early
    BY <1>1 DEF Early, Call, Begin, CreateJob, EnqueueFirst, DrainFirst, PlanPages, Admit,
       RecordPage, EnqueuePage, PageEnqueued, DrainPages, RefreshRow, ReadEntry, CheckIntegrity,
       ReadPapers, Finalize, FollowUpDeadline, JobEnds, Raise, NextPage
  <2>3. ASSUME gone
        PROVE  pc' \in {"budgeted", "enqueue", "drain", "first", "admit", "done", "raised"}
    <3>1. pc \in {"budgeted", "enqueue", "drain", "first", "admit"}
      BY <2>1, <2>3 DEF AccountInv
    <3> QED BY <1>1, <2>3, <3>1 DEF Call, Begin, CreateJob, EnqueueFirst, DrainFirst, PlanPages, Admit,
       RecordPage, EnqueuePage, PageEnqueued, DrainPages, RefreshRow, ReadEntry, CheckIntegrity,
       ReadPapers, Finalize, JobEnds, Raise
  <2>4. ASSUME gone, NEW s \in Page PROVE ~item'[s].ours
    <3>1. ~item[s].ours /\ pc # "join"
      BY <2>4 DEF AccountInv, Unspent
    <3>2. CASE FailActive
      BY <3>2, FailActiveTyped
    <3> QED BY <1>1, <2>4, <3>1, <3>2, CallMoves
  <2> QED BY <2>1, <2>2, <2>3, <2>4 DEF AccountInv, Unspent
<1>2. CASE World
  <2>1. /\ UNCHANGED <<pc, job>>
        /\ \A s \in Page : item'[s].ours => item[s].ours
        /\ used' = used \/ \E s \in Page : item[s].ours /\ used' = used + 1
    BY <1>2, WorldMoves
  <2>2. CASE UNCHANGED gone
    BY <2>1, <2>2 DEF AccountInv, Unspent, OursInv, Early
  <2>3. CASE Collect
    <3>1. pc # "begin" /\ ~Referenced /\ UNCHANGED <<used, item, pc>>
      BY <2>3 DEF Collect, work, local
    <3>2. pc = "budgeted" /\ \A s \in Page : ~item[s].ours
      BY <3>1 DEF Referenced, CallInv, PlanInv, Early
    <3> QED BY <3>1, <3>2 DEF AccountInv, Unspent, Early
  <2> QED BY <1>2, <2>2, <2>3, OthersTyped DEF World, DeadlinePasses, Grow, limits
<1>3. CASE UNCHANGED vars
  BY <1>3 DEF vars, AccountInv, Unspent
<1> QED BY <1>1, <1>2, <1>3, NextCases

\* Where the call goes, as far as the account is concerned.
Moves ==
    \/ pc = "begin" /\ pc' = "budgeted"
    \/ pc = "budgeted" /\ pc' \in {"enqueue", "drain"} /\ UNCHANGED item
    \/ pc = "enqueue" /\ pc' \in {"drain", "done", "raised"}
    \/ pc = "drain" /\ pc' \in {"first", "done"}
    \/ pc = "first" /\ pc' \in {"admit", "done"}
    \/ pc = "admit" /\ pc' = "done"
    \/ /\ pc = "admit" /\ pc' = "follow" /\ todo' = plan.pages /\ UNCHANGED <<plan, item>>
       /\ Admissible
    \/ pc = "follow" /\ pc' = "follow" /\ todo' = todo \ {Least(todo)} /\ UNCHANGED <<plan, item>>
    \/ pc = "follow" /\ pc' = "join" /\ UNCHANGED <<plan, todo, item>>
    \/ pc = "join" /\ pc' = "joined" /\ UNCHANGED <<plan, todo>>
    \/ pc = "joined" /\ pc' = "follow" /\ todo' = todo \ {Least(todo)} /\ UNCHANGED <<plan, item>>
    \/ pc \in Adding /\ pc' \in {"done", "finalize"}
    \/ pc \in Reading /\ pc' \in Reading \cup {"done"} /\ UNCHANGED item

LEMMA CallGoes ==
    ASSUME TypeInv, CallInv, Call
    PROVE  Moves
<1>1. CASE Begin \/ CreateJob \/ EnqueueFirst \/ DrainFirst \/ PlanPages
  BY <1>1 DEF Begin, CreateJob, EnqueueFirst, DrainFirst, PlanPages, JobEnds, Raise, Moves, work
<1>2. CASE Admit
  BY <1>2 DEF Admit, JobEnds, Moves, work
<1>3. CASE RecordPage
  BY <1>3 DEF RecordPage, FollowUpDeadline, JobEnds, Moves, Adding
<1>4. CASE EnqueuePage \/ PageEnqueued \/ DrainPages
  BY <1>4 DEF EnqueuePage, PageEnqueued, DrainPages, FollowUpDeadline, JobEnds, Moves, Adding
<1>5. CASE RefreshRow \/ ReadEntry \/ CheckIntegrity \/ ReadPapers \/ Finalize
  BY <1>5 DEF RefreshRow, ReadEntry, CheckIntegrity, ReadPapers, Finalize, NextPage, JobEnds, Moves,
     Reading, work
<1> QED BY <1>1, <1>2, <1>3, <1>4, <1>5 DEF Call

\* The pages to enqueue are fixed when the call admits them.
LEMMA ToEnqueueFact ==
    ASSUME TypeInv, CallInv, Call
    PROVE  \/ ToEnqueue' \subseteq ToEnqueue
           \/ pc = "budgeted" /\ ToEnqueue' = {Start}
           \/ /\ pc = "admit" /\ pc' = "follow" /\ Admissible /\ UNCHANGED <<plan, item>>
              /\ ToEnqueue' = plan.missing
<1>1. Start \in Page /\ plan.missing \subseteq plan.pages /\ plan.missing \subseteq Page
  BY PageFact DEF CallInv, CallType
<1>2. Moves
  BY CallGoes
<1> QED BY <1>1, <1>2 DEF Moves, ToEnqueue, Adding, Reading

\* An item that the call adds is not to be added any more.
LEMMA JoinsOne ==
    ASSUME TypeInv, CallInv, pc = "join", pc' = "joined", UNCHANGED <<todo, plan>>
    PROVE  Least(todo) \in Page /\ Least(todo) \in ToEnqueue /\ Least(todo) \notin ToEnqueue'
<1>1. Least(todo) \in todo /\ Least(todo) \in Page /\ Least(todo) \in plan.missing
  BY LeastFact DEF CallInv, CallType, PlanInv
<1> QED BY <1>1 DEF ToEnqueue

LEMMA OursStep ==
    ASSUME TypeInv, CallInv, OursInv, [Next]_vars
    PROVE  OursInv'
<1>1. CASE Call
  <2>1. SUFFICES ASSUME NEW s \in Page, item'[s].ours
                 PROVE  /\ pc' \notin {"begin", "budgeted", "enqueue"}
                        /\ pc' \in {"drain", "first", "admit"} => s = Start
                        /\ s \notin ToEnqueue'
    BY DEF OursInv
  <2>2. ~FailActive
    BY <2>1, FailActiveTyped
  <2>3. CASE item[s].ours
    <3>1. /\ pc \notin {"begin", "budgeted", "enqueue"} /\ s \notin ToEnqueue
          /\ pc \in {"drain", "first", "admit"} => s = Start
      BY <2>3 DEF OursInv
    <3>2. /\ pc' \notin {"begin", "budgeted", "enqueue"}
          /\ pc' \in {"drain", "first", "admit"} => pc \in {"drain", "first", "admit"}
      BY <1>1, <3>1, CallGoes DEF Moves, Adding, Reading
    <3>3. pc = "admit" => s \notin plan.missing
      BY <3>1 DEF CallInv, CallType, PlanInv
    <3> QED BY <1>1, <3>1, <3>2, <3>3, ToEnqueueFact
  <2>4. CASE ~item[s].ours
    <3>1. \/ /\ pc' = "drain" /\ s = Start
          \/ /\ pc = "join" /\ pc' = "joined" /\ UNCHANGED <<todo, plan>> /\ s = Least(todo)
      <4>1. item \in [Page -> Item]
        BY DEF TypeInv, WorkType
      <4> QED BY <1>1, <2>1, <2>2, <2>4, <4>1, CallMoves
    <3>2. CASE pc' = "drain" /\ s = Start
      BY <3>2 DEF ToEnqueue
    <3>3. CASE pc = "join" /\ pc' = "joined" /\ UNCHANGED <<todo, plan>> /\ s = Least(todo)
      BY <3>3, JoinsOne
    <3> QED BY <3>1, <3>2, <3>3
  <2> QED BY <2>3, <2>4
<1>2. CASE World
  <2>1. UNCHANGED <<pc, todo, plan>> /\ \A s \in Page : item'[s].ours => item[s].ours
    BY <1>2, WorldMoves
  <2>2. ToEnqueue' = ToEnqueue
    BY <2>1 DEF ToEnqueue
  <2> QED BY <2>1, <2>2 DEF OursInv
<1>3. CASE UNCHANGED vars
  BY <1>3 DEF vars, OursInv, ToEnqueue
<1> QED BY <1>1, <1>2, <1>3, NextCases

LEMMA SpecAccount == Spec => [](TypeInv /\ CallInv /\ OursInv /\ AccountInv)
<1>1. Init => OursInv /\ AccountInv
  BY DEF Init, OursInv, AccountInv, Unspent, NoItem, Early
<1>2. TypeInv /\ CallInv /\ OursInv /\ AccountInv /\ [Next]_vars
        => TypeInv' /\ CallInv' /\ OursInv' /\ AccountInv'
  BY StepTyped, OursStep, AccountStep
<1> QED BY <1>1, <1>2, InitTyped, PTL DEF Spec

\* The account of a call is collected only if nothing was asked for on it.
THEOREM AccountIsKept == Spec => []AccountKept
<1>1. AccountInv => AccountKept
  BY DEF AccountInv, Unspent, AccountKept
<1> QED BY <1>1, SpecAccount, PTL

-----------------------------------------------------------------------------
(* What the call has still to pay for.                                     *)

Owed == {s \in Page : ~Readable(s) /\ (s \in ToEnqueue \/ (item[s].ours /\ item[s].status = "queued"))}

\* Without repeated requests, what is spent and what is owed fit the budget,
\* so no item meets it spent.
Solvent ==
    /\ ~denied
    /\ used + Cardinality(Owed) <= MaxRequests
    /\ \A s \in Page : item[s].status # "delayed" /\ (item[s].ours => item[s].status # "none")

PaidInv ==
    /\ ~retried => Solvent
    /\ pc = "admit" => Readable(Start)

LEMMA OwedFact ==
    /\ IsFiniteSet(Owed) /\ Cardinality(Owed) \in Nat
    /\ \A S \in SUBSET Owed : Cardinality(S) <= Cardinality(Owed) /\ Cardinality(S) \in Nat
    /\ \A s \in Owed : Cardinality(Owed \ {s}) = Cardinality(Owed) - 1 /\ Cardinality(Owed) > 0
<1>1. IsFiniteSet(Owed) /\ Cardinality(Owed) \in Nat
  BY PageFact DEF Owed
<1>2. ASSUME NEW S \in SUBSET Owed
      PROVE  Cardinality(S) <= Cardinality(Owed) /\ Cardinality(S) \in Nat
  BY <1>1, FS_Subset, FS_CardinalityType
<1>3. ASSUME NEW s \in Owed
      PROVE  Cardinality(Owed \ {s}) = Cardinality(Owed) - 1 /\ Cardinality(Owed) > 0
  <2>1. Cardinality(Owed \ {s}) = Cardinality(Owed) - 1
    BY <1>1, FS_RemoveElement
  <2>2. Owed \ {s} \in SUBSET Owed
    OBVIOUS
  <2>3. Cardinality(Owed \ {s}) \in Nat
    BY <1>2, <2>2
  <2> QED BY <1>1, <2>1, <2>3
<1> QED BY <1>1, <1>2, <1>3

\* Nothing is spent, and nothing more is owed.
LEMMA OwesNoMore ==
    ASSUME TypeInv, Solvent, UNCHANGED <<used, denied>>, Owed' \subseteq Owed,
           \A s \in Page : /\ item'[s].status # "delayed"
                           /\ item'[s].ours => item'[s].status # "none"
    PROVE  Solvent'
<1>1. used \in Nat /\ MaxRequests \in Nat
  BY WindowAssumption DEF TypeInv, WorkType
<1>2. PICK n : n = Cardinality(Owed)
  OBVIOUS
<1>3. PICK S : S = Owed'
  OBVIOUS
<1>4. /\ n \in Nat /\ used + n <= MaxRequests
      /\ Cardinality(S) <= n /\ Cardinality(S) \in Nat
  BY <1>2, <1>3, OwedFact DEF Solvent
<1>5. used' + Cardinality(Owed') <= MaxRequests
  <2>1. Cardinality(Owed') = Cardinality(S)
    BY <1>3, Zenon
  <2> QED BY <1>1, <1>4, <2>1
<1> QED BY <1>5 DEF Solvent

LEMMA TakeSolvent ==
    ASSUME TypeInv, CallInv, OursInv, Solvent, NEW s \in Page, TakeItem(s)
    PROVE  Solvent'
<1>1. UNCHANGED <<pc, plan, todo>> /\ item[s].status = "queued" /\ item \in [Page -> Item]
      /\ used \in Nat /\ MaxRequests \in Nat
  <2>1. UNCHANGED <<pc, plan, todo>> /\ item[s].status = "queued"
    BY DEF TakeItem, local
  <2> QED BY <2>1, WindowAssumption DEF TypeInv, WorkType
<1>2. ToEnqueue' = ToEnqueue
  BY <1>1 DEF ToEnqueue
<1>3. \A t \in Page : Readable(t)' <=> Readable(t)
  <2>1. CASE UNCHANGED cache
    BY <2>1 DEF Readable
  <2>2. CASE ~Readable(s) /\ cache' = [cache EXCEPT ![s] = FailedEntry(s)]
    BY <2>2 DEF Readable, FailedEntry, TypeInv, CacheType, Entry
  <2> QED BY <2>1, <2>2, TakeCases
<1>4. CASE item' = [item EXCEPT ![s] = Ended] /\ UNCHANGED <<used, denied>>
  <2>1. Owed' \subseteq Owed
    BY <1>1, <1>2, <1>3, <1>4 DEF Owed, Ended, NoItem
  <2> QED BY <1>1, <1>4, <2>1, OwesNoMore DEF Solvent, Ended, NoItem
<1>5. CASE /\ item' = [item EXCEPT ![s] = Ended] /\ UNCHANGED used /\ ~Readable(s)
           /\ denied' = (denied \/ ~overdue) /\ item[s].ours /\ (overdue \/ Spent)
  <2>1. s \in Owed
    BY <1>1, <1>5 DEF Owed
  <2>2. ~Spent
    <3>1. Cardinality(Owed) \in Nat /\ Cardinality(Owed) > 0 /\ used + Cardinality(Owed) <= MaxRequests
      BY <2>1, OwedFact DEF Solvent
    <3> QED BY <1>1, <3>1 DEF Spent
  <2>3. denied' = denied
    BY <1>5, <2>2 DEF TypeInv, WorkType
  <2> QED BY <1>4, <1>5, <2>3
<1>6. ASSUME ~Readable(s), UNCHANGED <<cache, denied>>, NEW charged \in BOOLEAN,
             charged => item[s].ours,
             item' = [item EXCEPT ![s] = [item[s] EXCEPT !.status = "fetching", !.ours = charged]],
             used' = used + IF charged THEN 1 ELSE 0
      PROVE  Solvent'
  <2>1. /\ item'[s].status = "fetching" /\ (item'[s].ours => item[s].ours)
        /\ \A t \in Page \ {s} : item'[t] = item[t]
    BY <1>1, <1>6 DEF Item
  <2>2. Owed' \subseteq Owed
    BY <1>2, <1>3, <2>1 DEF Owed
  <2>3. \A t \in Page : item'[t].status # "delayed" /\ (item'[t].ours => item'[t].status # "none")
    BY <2>1 DEF Solvent
  <2>4. CASE ~charged
    <3>1. UNCHANGED used
      BY <1>1, <1>6, <2>4
    <3> QED BY <1>6, <2>2, <2>3, <3>1, OwesNoMore
  <2>5. CASE charged
    <3>1. s \in Owed /\ s \notin ToEnqueue
      BY <1>1, <1>6, <2>5 DEF Owed, OursInv
    <3>2. Owed' \subseteq Owed \ {s}
      BY <1>2, <2>1, <2>2, <3>1 DEF Owed
    <3>3. PICK n : n = Cardinality(Owed)
      OBVIOUS
    <3>4. PICK S : S = Owed'
      OBVIOUS
    <3>5. PICK R : R = Owed \ {s}
      OBVIOUS
    <3>6. n \in Nat /\ used + n <= MaxRequests /\ Cardinality(R) = n - 1 /\ IsFiniteSet(R)
      <4>1. IsFiniteSet(R)
        BY <3>5, OwedFact, FS_Subset
      <4> QED BY <3>1, <3>3, <3>5, <4>1, OwedFact DEF Solvent
    <3>7. Cardinality(S) <= n - 1 /\ Cardinality(S) \in Nat
      <4>1. S \in SUBSET R
        BY <3>2, <3>4, <3>5
      <4>2. IsFiniteSet(S) /\ Cardinality(S) <= Cardinality(R)
        BY <3>6, <4>1, FS_Subset
      <4> QED BY <3>6, <4>2, FS_CardinalityType
    <3>8. used' + Cardinality(Owed') <= MaxRequests
      <4>1. Cardinality(Owed') = Cardinality(S)
        BY <3>4, Zenon
      <4>2. used' = used + 1
        BY <1>6, <2>5
      <4> QED BY <1>1, <3>6, <3>7, <4>1, <4>2
    <3> QED BY <1>6, <2>3, <3>8 DEF Solvent
  <2> QED BY <2>4, <2>5
<1> QED BY <1>4, <1>5, <1>6, TakeCases

LEMMA WorldSolvent ==
    ASSUME TypeInv, CallInv, OursInv, Solvent, World, ~retried'
    PROVE  Solvent'
<1>1. /\ UNCHANGED <<pc, plan, todo>> /\ \A t \in Page : item'[t].ours => item[t].ours
      /\ \A t \in Page : Readable(t) => Readable(t)'
      /\ item \in [Page -> Item]
  BY WorldMoves DEF TypeInv, WorkType
<1>2. ToEnqueue' = ToEnqueue
  BY <1>1 DEF ToEnqueue
<1>3. CASE UNCHANGED <<item, used, denied>>
  <2>1. Owed' \subseteq Owed
    BY <1>1, <1>2, <1>3 DEF Owed
  <2> QED BY <1>3, <2>1, OwesNoMore DEF Solvent
<1>4. ASSUME NEW s \in Page, item' = [item EXCEPT ![s] = Ended], UNCHANGED <<used, denied>>
      PROVE  Solvent'
  <2>1. Owed' \subseteq Owed
    BY <1>1, <1>2, <1>4 DEF Owed, Ended, NoItem
  <2> QED BY <1>1, <1>4, <2>1, OwesNoMore DEF Solvent, Ended, NoItem
<1>5. ASSUME NEW s \in Page, OthersAsk(s) PROVE Solvent'
  <2>1. /\ \A t \in Page \ {s} : item'[t] = item[t]
        /\ item'[s].ours = item[s].ours
        /\ item'[s].status = IF item[s].status = "none" THEN "queued" ELSE item[s].status
        /\ UNCHANGED <<used, denied>>
    BY <1>1, <1>5 DEF OthersAsk, Joined, Pending, Item
  <2>2. Owed' \subseteq Owed
    BY <1>1, <1>2, <2>1 DEF Owed, Solvent
  <2>3. \A t \in Page : item'[t].status # "delayed" /\ (item'[t].ours => item'[t].status # "none")
    BY <2>1 DEF Solvent
  <2> QED BY <2>1, <2>2, <2>3, OwesNoMore
<1>6. ASSUME NEW s \in Page, Others(s) PROVE Solvent'
  <2>1. CASE TakeItem(s)
    BY <2>1, TakeSolvent
  <2>2. ~FetchFails(s) /\ ~RetryDue(s)
    BY DEF FetchFails, RetryDue, Solvent
  <2> QED BY <1>3, <1>4, <1>5, <1>6, <2>1, <2>2 DEF Others, OthersRefresh, Answer, LateAnswer
<1> QED BY <1>3, <1>6 DEF World, DeadlinePasses, Collect, Grow, work

LEMMA CallSolvent ==
    ASSUME TypeInv, CallInv, OursInv, AccountInv, Solvent, Call, pc = "admit" => Readable(Start)
    PROVE  Solvent'
<1>1. UNCHANGED <<cache, used, denied>>
  BY CallKeeps
<1>2. item \in [Page -> Item] /\ \A s \in Page : Readable(s)' = Readable(s)
  BY <1>1 DEF TypeInv, WorkType, Readable
<1>3. \A s \in Page : /\ item'[s].status # "delayed"
                      /\ item'[s].ours => item'[s].status # "none"
  <2>1. CASE FailActive
    BY <2>1, FailActiveTyped DEF Solvent, Ended, NoItem
  <2>2. ASSUME NEW s \in Page, item' = [item EXCEPT ![s] = Joined(s, TRUE)]
        PROVE  \A t \in Page : item'[t].status # "delayed" /\ (item'[t].ours => item'[t].status # "none")
    BY <2>2, JoinTyped DEF Solvent
  <2>3. pc = "join" /\ pc' = "joined" /\ UNCHANGED <<todo, plan>> => Least(todo) \in Page
    BY JoinsOne
  <2> QED BY <2>1, <2>2, <2>3, PageFact, CallMoves DEF Solvent
<1>4. \A s \in Page : item'[s].ours /\ item'[s].status = "queued" =>
         \/ item[s].ours /\ item[s].status = "queued"
         \/ s \in ToEnqueue
  <2>1. CASE FailActive
    BY <2>1, FailActiveTyped
  <2>2. CASE pc = "enqueue" /\ item' = [item EXCEPT ![Start] = Joined(Start, TRUE)]
    <3>1. Start \in ToEnqueue
      BY <2>2, PageFact DEF ToEnqueue
    <3> QED BY <1>2, <2>2, <3>1
  <2>3. CASE /\ pc = "join" /\ pc' = "joined" /\ UNCHANGED <<todo, plan>>
             /\ item' = [item EXCEPT ![Least(todo)] = Joined(Least(todo), TRUE)]
    BY <1>2, <2>3, JoinsOne
  <2> QED BY <2>1, <2>2, <2>3, CallMoves
<1>5. CASE ToEnqueue' \subseteq ToEnqueue
  <2>1. Owed' \subseteq Owed
    BY <1>2, <1>4, <1>5 DEF Owed
  <2> QED BY <1>1, <1>3, <2>1, OwesNoMore
<1>6. CASE pc = "budgeted" /\ ToEnqueue' = {Start}
  <2>1. /\ used' = 0 /\ \A s \in Page : ~item'[s].ours
    <3>1. Moves
      BY CallGoes
    <3> QED BY <1>1, <1>6, <3>1 DEF Moves, AccountInv, Early, OursInv, Adding, Reading
  <2>2. PICK S : S = Owed'
    OBVIOUS
  <2>3. S \in SUBSET {Start}
    BY <1>6, <2>1, <2>2 DEF Owed
  <2>4. Cardinality(S) <= 1 /\ Cardinality(S) \in Nat
    <3>1. IsFiniteSet({Start}) /\ Cardinality({Start}) = 1
      BY FS_Singleton
    <3>2. IsFiniteSet(S) /\ Cardinality(S) <= Cardinality({Start})
      BY <2>3, <3>1, FS_Subset
    <3> QED BY <3>1, <3>2, FS_CardinalityType
  <2>5. used' + Cardinality(Owed') <= MaxRequests
    <3>1. Cardinality(Owed') = Cardinality(S)
      BY <2>2, Zenon
    <3> QED BY <2>1, <2>4, <3>1, WindowAssumption
  <2> QED BY <1>1, <1>3, <2>5 DEF Solvent
<1>7. CASE /\ pc = "admit" /\ pc' = "follow" /\ Admissible /\ UNCHANGED <<plan, item>>
           /\ ToEnqueue' = plan.missing
  <2>1. used \in Nat /\ MaxRequests \in Nat /\ plan.missing \subseteq Page
    BY WindowAssumption DEF TypeInv, WorkType, CallInv, CallType
  <2>2. PICK S : S = Owed'
    OBVIOUS
  <2>3. S \in SUBSET plan.missing
    <3>1. ASSUME NEW s \in Owed' PROVE s \in plan.missing
      <4>1. s \in Page /\ ~Readable(s) /\ (s \in plan.missing \/ item[s].ours)
        BY <1>2, <1>7 DEF Owed
      <4>2. item[s].ours => s = Start
        BY <1>7, <4>1 DEF OursInv
      <4> QED BY <1>7, <4>1, <4>2
    <3> QED BY <2>2, <3>1
  <2>4. /\ Cardinality(S) <= Cardinality(plan.missing) /\ Cardinality(S) \in Nat
        /\ Cardinality(plan.missing) \in Nat
    BY <2>1, <2>3, PageFact, FS_Subset, FS_CardinalityType
  <2>5. used' + Cardinality(Owed') <= MaxRequests
    <3>1. Cardinality(Owed') = Cardinality(S)
      BY <2>2, Zenon
    <3> QED BY <1>1, <1>7, <2>1, <2>4, <3>1 DEF Admissible
  <2> QED BY <1>1, <1>3, <2>5 DEF Solvent
<1> QED BY <1>5, <1>6, <1>7, ToEnqueueFact

LEMMA PaidStep ==
    ASSUME TypeInv, CallInv, OursInv, AccountInv, PaidInv, [Next]_vars
    PROVE  PaidInv'
<1>1. CASE Call
  <2>1. UNCHANGED <<cache, retried>>
    BY <1>1, CallKeeps
  <2>2. pc' = "admit" => Readable(Start)
    BY <1>1 DEF Call, Begin, CreateJob, EnqueueFirst, DrainFirst, PlanPages, Admit,
       RecordPage, EnqueuePage, PageEnqueued, DrainPages, RefreshRow, ReadEntry, CheckIntegrity,
       ReadPapers, Finalize, FollowUpDeadline, JobEnds, Raise, NextPage
  <2>3. ~retried' => Solvent'
    BY <1>1, <2>1, CallSolvent DEF PaidInv
  <2> QED BY <2>1, <2>2, <2>3 DEF PaidInv, Readable
<1>2. CASE World
  <2>1. ~retried' => ~retried
    <3>1. CASE \E s \in Page : Others(s)
      BY <3>1 DEF Others, OthersAsk, OthersRefresh, TakeItem, Answer, FetchFails, RetryDue, LateAnswer
    <3> QED BY <1>2, <3>1 DEF World, DeadlinePasses, Collect, Grow, work
  <2>2. ~retried' => Solvent'
    BY <1>2, <2>1, WorldSolvent DEF PaidInv
  <2>3. pc' = "admit" => Readable(Start)'
    BY <1>2, WorldMoves, PageFact DEF PaidInv
  <2> QED BY <2>2, <2>3 DEF PaidInv
<1>3. CASE UNCHANGED vars
  <2>1. UNCHANGED <<cache, item, used, denied, retried, pc, todo, plan>>
    BY <1>3 DEF vars
  <2>2. Owed' = Owed
    BY <2>1 DEF Owed, ToEnqueue, Readable
  <2>3. Solvent' = Solvent
    BY <2>1, <2>2 DEF Solvent
  <2> QED BY <2>1, <2>3 DEF PaidInv, Readable
<1> QED BY <1>1, <1>2, <1>3, NextCases

\* An admitted window whose requests all succeed at once never meets its
\* budget spent.
THEOREM AdmittedIsPaidFor == Spec => []AdmittedIsPaid
<1>1. Init => PaidInv
  <2> SUFFICES ASSUME Init PROVE PaidInv
    OBVIOUS
  <2>1. Owed = {}
    BY DEF Init, Owed, ToEnqueue, NoItem
  <2>2. Cardinality(Owed) = 0
    BY <2>1, FS_EmptySet
  <2> QED BY <2>2, WindowAssumption DEF Init, PaidInv, Solvent, NoItem
<1>2. TypeInv /\ CallInv /\ OursInv /\ AccountInv /\ PaidInv /\ [Next]_vars => PaidInv'
  BY PaidStep
<1>3. PaidInv => AdmittedIsPaid
  BY DEF PaidInv, Solvent, AdmittedIsPaid
<1> QED BY <1>1, <1>2, <1>3, SpecAccount, PTL DEF Spec

-----------------------------------------------------------------------------
(* What a completed job has seen.                                          *)

\* An entry holds papers of the window after its start, whenever it was
\* written, as papers move back only.
PapersInv ==
    \A s \in Page : \A i \in DOMAIN cache[s].papers : cache[s].papers[i] \in Behind(s)

SeenInv ==
    /\ tally.seen \subseteq Behind(Start)
    /\ job.status = "completed" => Cardinality(tally.seen) >= plan.total - Start

LEMMA BehindMono ==
    ASSUME TypeInv, [Next]_vars
    PROVE  \A s \in Nat : Behind(s) \subseteq Behind(s)'
<1>1. CASE UNCHANGED list
  BY <1>1 DEF Behind
<1>2. CASE Grow
  BY <1>2, GrowFact
<1>3. CASE Call
  BY <1>1, <1>3, CallKeeps DEF arxiv
<1>4. CASE \E s \in Page : Others(s)
  BY <1>1, <1>4, OthersTyped
<1> QED BY <1>1, <1>2, <1>3, <1>4, NextCases DEF World, DeadlinePasses, Collect, arxiv, vars

LEMMA PapersStep ==
    ASSUME TypeInv, CallInv, PapersInv, [Next]_vars
    PROVE  PapersInv'
<1>1. \A s \in Page : Behind(s) \subseteq Behind(s)'
  BY BehindMono, PageFact
<1>2. CASE UNCHANGED cache
  BY <1>1, <1>2 DEF PapersInv
<1>3. ASSUME NEW s \in Page, Others(s) PROVE PapersInv'
  <2>1. \A t \in Page \ {s} : cache'[t] = cache[t]
    BY <1>3, OthersTyped
  <2>2. ASSUME NEW i \in DOMAIN cache'[s].papers PROVE cache'[s].papers[i] \in Behind(s)'
    <3>1. CASE cache'[s].papers = cache[s].papers
      BY <1>1, <2>2, <3>1 DEF PapersInv
    <3>2. CASE cache'[s] \in Written(s)
      <4>1. PICK q \in Seq(Paper) :
               /\ \A k \in DOMAIN q : s + k \in 1 .. Len(list) /\ q[k] = list[s + k]
               /\ cache'[s] = [status |-> "completed", total |-> Len(list), papers |-> q]
        BY <3>2 DEF Written
      <4>2. i \in DOMAIN q /\ cache'[s].papers[i] = list[s + i] /\ s + i \in 1 .. Len(list)
        BY <2>2, <4>1
      <4>3. s + i \in (s + 1) .. Len(list)
        <5>1. i \in 1 .. Len(q) /\ s \in Nat
          BY <4>1, <4>2, PageFact
        <5>2. Len(q) \in Nat /\ Len(list) \in Nat
          BY <4>1 DEF TypeInv, WindowType
        <5> QED BY <4>2, <5>1, <5>2
      <4>4. list[s + i] \in Behind(s)
        BY <4>3 DEF Behind
      <4> QED BY <1>1, <4>2, <4>4
    <3> QED BY <1>3, <3>1, <3>2, OthersTyped
  <2>3. ASSUME NEW t \in Page, NEW i \in DOMAIN cache'[t].papers
        PROVE  cache'[t].papers[i] \in Behind(t)'
    <3>1. CASE t = s
      BY <2>2, <2>3, <3>1
    <3>2. CASE t # s
      <4>1. cache'[t] = cache[t]
        BY <2>1, <3>2
      <4> QED BY <1>1, <2>3, <4>1 DEF PapersInv
    <3> QED BY <3>1, <3>2
  <2> QED BY <2>3 DEF PapersInv
<1>4. CASE Call
  BY <1>2, <1>4, CallKeeps
<1> QED BY <1>2, <1>3, <1>4, NextCases DEF World, DeadlinePasses, Collect, Grow, work, vars

LEMMA SeenStep ==
    ASSUME TypeInv, CallInv, PapersInv, SeenInv, [Next]_vars
    PROVE  SeenInv'
<1>1. Behind(Start) \subseteq Behind(Start)'
  BY BehindMono, PageFact
<1>2. CASE UNCHANGED <<plan, tally, job>>
  BY <1>1, <1>2 DEF SeenInv
<1>3. CASE World
  BY <1>2, <1>3, WorldMoves
<1>4. CASE Call
  <2>1. pc \notin {"done", "raised"} /\ job.status # "completed"
    <3>1. pc \notin {"done", "raised"}
      BY <1>4 DEF Call, Begin, CreateJob, EnqueueFirst, DrainFirst, PlanPages, Admit,
       RecordPage, EnqueuePage, PageEnqueued, DrainPages, RefreshRow, ReadEntry, CheckIntegrity,
       ReadPapers, Finalize
    <3>2. job.status \in {"none", "running"}
      BY <3>1 DEF CallInv, PlanInv
    <3> QED BY <3>1, <3>2
  <2>2. CASE Finalize
    <3>1. UNCHANGED <<tally, plan>> /\ job'.status = IF Whole THEN "completed" ELSE "partial"
      BY <2>2 DEF Finalize, JobEnds
    <3>2. job'.status = "completed" => Cardinality(tally.seen) >= plan.total - Start
      BY <3>1 DEF Whole
    <3> QED BY <1>1, <3>1, <3>2 DEF SeenInv
  <2>3. ASSUME ~Finalize PROVE job'.status # "completed"
    <3>1. CASE Begin \/ RefreshRow \/ ReadEntry \/ CheckIntegrity \/ ReadPapers \/ DrainPages
      BY <2>1, <3>1 DEF Begin, RefreshRow, ReadEntry, CheckIntegrity, ReadPapers, DrainPages, report
    <3>2. CASE CreateJob
      BY <3>2 DEF CreateJob, CallInv, CallType
    <3>3. CASE EnqueueFirst \/ DrainFirst \/ Admit
      <4>1. \/ JobEnds("partial", 1, 0, "deadline") \/ JobEnds("partial", 1, 1, "deadline")
            \/ JobEnds("partial", 1, 1, "request_budget") \/ UNCHANGED job
        BY <3>3 DEF EnqueueFirst, DrainFirst, Admit, Raise
      <4> QED BY <2>1, <4>1 DEF JobEnds
    <3>4. CASE PlanPages
      BY <2>1, <3>4 DEF PlanPages, JobEnds
    <3>5. CASE RecordPage \/ EnqueuePage \/ PageEnqueued
      <4>1. FollowUpDeadline \/ UNCHANGED job
        BY <3>5 DEF RecordPage, EnqueuePage, PageEnqueued
      <4>2. JobEnds("partial", 1, 1, "deadline") \/ UNCHANGED job
        BY <4>1 DEF FollowUpDeadline
      <4> QED BY <2>1, <4>2 DEF JobEnds
    <3> QED BY <1>4, <2>3, <3>1, <3>2, <3>3, <3>4, <3>5 DEF Call
  <2>4. CASE ReadPapers
    <3>1. PICK s : s = Least(todo)
      OBVIOUS
    <3>2. s \in Page /\ (s = Start \/ s \in plan.pages) /\ s >= Start
      <4>1. pc = "papers" /\ todo # {} /\ todo \subseteq Page /\ todo \subseteq plan.pages \cup {Start}
            /\ \A t \in plan.pages : t >= Start
        BY <2>4 DEF ReadPapers, CallInv, CallType, PlanInv, Reading
      <4>2. s \in todo
        BY <3>1, <4>1, LeastFact
      <4> QED BY <4>1, <4>2, WindowAssumption
    <3>3. ToSet(cache[s].papers) \subseteq Behind(s)
      BY <3>2 DEF PapersInv, ToSet
    <3>4. Behind(s) \subseteq Behind(Start)
      <4>1. s \in Nat /\ Start \in Nat /\ Len(list) \in Nat
        BY <3>2, PageFact DEF TypeInv, WindowType
      <4>2. (s + 1) .. Len(list) \subseteq (Start + 1) .. Len(list)
        BY <3>2, <4>1
      <4> QED BY <4>2 DEF Behind
    <3>5. tally'.seen = tally.seen \cup ToSet(cache[s].papers)
      BY <2>4, <3>1 DEF ReadPapers, CallInv, CallType
    <3>6. tally'.seen \subseteq Behind(Start)'
      BY <1>1, <3>3, <3>4, <3>5 DEF SeenInv
    <3>7. ~Finalize
      BY <2>4 DEF ReadPapers, Finalize
    <3> QED BY <2>3, <3>6, <3>7 DEF SeenInv
  <2>5. CASE ~ReadPapers /\ ~Finalize
    <3>1. tally'.seen = tally.seen
      BY <1>4, <2>5 DEF Call, Begin, CreateJob, EnqueueFirst, DrainFirst, PlanPages, Admit,
       RecordPage, EnqueuePage, PageEnqueued, DrainPages, RefreshRow, ReadEntry, CheckIntegrity,
       CallInv, CallType
    <3> QED BY <1>1, <2>3, <2>5, <3>1 DEF SeenInv
  <2> QED BY <2>2, <2>4, <2>5
<1>5. CASE UNCHANGED vars
  BY <1>2, <1>5 DEF vars
<1> QED BY <1>3, <1>4, <1>5, NextCases

\* The papers after the first n are at most as many as there are places.
LEMMA BehindCount ==
    ASSUME TypeInv, NEW n \in Nat
    PROVE  /\ IsFiniteSet(Behind(n))
           /\ Cardinality(Behind(n)) <= IF n < Len(list) THEN Len(list) - n ELSE 0
<1> DEFINE I == (n + 1) .. Len(list)
           f == [i \in I |-> list[i]]
<1>1. Len(list) \in Nat
  BY DEF TypeInv, WindowType
<1>2. IsFiniteSet(I) /\ Cardinality(I) = IF n < Len(list) THEN Len(list) - n ELSE 0
  <2>1. n + 1 \in Int /\ Len(list) \in Int
    BY <1>1
  <2>2. IsFiniteSet(I) /\ Cardinality(I) = IF n + 1 > Len(list) THEN 0 ELSE Len(list) - (n + 1) + 1
    BY <2>1, FS_Interval
  <2> HIDE DEF I
  <2> QED BY <1>1, <2>2
<1>3. f \in Surjection(I, Behind(n))
  BY DEF Behind, Surjection
<1> HIDE DEF I, f
<1> QED BY <1>2, <1>3, FS_Surjection

\* A job that is completed has seen every paper of its window, if the window
\* is what it was.
THEOREM CoverHolds == Spec => []CompleteCovers
<1>1. Init => PapersInv /\ SeenInv
  BY DEF Init, PapersInv, SeenInv, Nothing, NoTally
<1>2. TypeInv /\ CallInv /\ PapersInv /\ SeenInv /\ [Next]_vars => PapersInv' /\ SeenInv'
  BY PapersStep, SeenStep
<1>3. TypeInv /\ CallInv /\ SeenInv => CompleteCovers
  <2> SUFFICES ASSUME TypeInv, CallInv, SeenInv, job.status = "completed", plan.total = Len(list)
               PROVE  ToSet(SubSeq(list, Start + 1, Len(list))) \subseteq tally.seen
    BY DEF CompleteCovers
  <2>1. Len(list) \in Nat /\ list \in Seq(Paper) /\ Start \in Nat
    BY PageFact DEF TypeInv, WindowType
  <2>2. ToSet(SubSeq(list, Start + 1, Len(list))) \subseteq Behind(Start)
    <3>1. /\ SubSeq(list, Start + 1, Len(list)) \in Seq(Paper)
          /\ \A i \in DOMAIN SubSeq(list, Start + 1, Len(list)) :
                /\ Start + i \in 1 .. Len(list)
                /\ SubSeq(list, Start + 1, Len(list))[i] = list[Start + i]
      BY <2>1, SliceFact
    <3>2. PICK q : q = SubSeq(list, Start + 1, Len(list))
      OBVIOUS
    <3>3. ASSUME NEW i \in DOMAIN q PROVE q[i] \in Behind(Start)
      <4>1. q \in Seq(Paper) /\ Start + i \in 1 .. Len(list) /\ q[i] = list[Start + i]
        BY <3>1, <3>2, <3>3
      <4>2. i \in 1 .. Len(q) /\ Len(q) \in Nat
        BY <3>3, <4>1
      <4>3. Start + i \in (Start + 1) .. Len(list)
        BY <2>1, <4>1, <4>2
      <4> QED BY <4>1, <4>3 DEF Behind
    <3> QED BY <3>2, <3>3 DEF ToSet
  <2>3. tally.seen \subseteq Behind(Start) /\ Cardinality(tally.seen) >= Len(list) - Start
    BY DEF SeenInv
  <2>4. /\ IsFiniteSet(Behind(Start)) /\ Cardinality(Behind(Start)) \in Nat
        /\ Cardinality(Behind(Start)) <= IF Start < Len(list) THEN Len(list) - Start ELSE 0
    BY <2>1, BehindCount, FS_CardinalityType
  <2>5. /\ IsFiniteSet(tally.seen) /\ Cardinality(tally.seen) <= Cardinality(Behind(Start))
        /\ Cardinality(Behind(Start)) = Cardinality(tally.seen) => Behind(Start) = tally.seen
        /\ Cardinality(tally.seen) \in Nat
    BY <2>3, <2>4, FS_Subset, FS_CardinalityType
  <2>6. Cardinality(Behind(Start)) = Cardinality(tally.seen)
    BY <2>1, <2>3, <2>4, <2>5
  <2> QED BY <2>2, <2>5, <2>6
<1> QED BY <1>1, <1>2, <1>3, SpecTyped, PTL DEF Spec
====
