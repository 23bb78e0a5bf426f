---- MODULE PaperFamilies_proofs ----
(***************************************************************************)
(* Theorems about PaperFamilies, for any workers and any number of         *)
(* versions and changes.                                                   *)
(*                                                                         *)
(* What a harvest reports of a day is the same wherever it went: there is  *)
(* a history `said` of the paper that rows, copies and records all agree   *)
(* with (Truthful).  So a write that lowers no date changes no tombstone   *)
(* either, and dates are not lowered by a worker that fetches, because     *)
(* what it writes back is as new as the rows (Fresh): it read them under   *)
(* the upstream lease, and harvests write under the same lease.            *)
(***************************************************************************)
EXTENDS PaperFamilies, WellFoundedInduction, TLAPS

Table == [Name -> Row]

\* OneShape, of any table.
Shape(t) == t[Base].stored => t[Base].oai /\ Versions(t) = {}

\* A row that no harvest has touched has no date and no tombstone.
Clean(t) ==
    \A n \in Name : /\ t[n].oai => t[n].stored
                    /\ ~t[n].oai => ~t[n].deleted /\ t[n].day = 0

\* Rows do not go away, nor what makes them rows of a harvest.
Grows(t, u) ==
    \A n \in Name : (t[n].stored => u[n].stored) /\ (t[n].oai => u[n].oai)

\* A copy that may be written to a table.
Fits(c, t) ==
    /\ c.oai => t[c.name].oai
    /\ c.name = Base => c.oai
    /\ ~c.oai => ~c.deleted

\* The rows of harvests are those of t, and every date and tombstone of u is
\* that of t, or of a copy in ps.
From(u, t, ps) ==
    \A n \in Name :
        /\ u[n].oai = t[n].oai
        /\ \/ u[n].day = t[n].day /\ u[n].deleted = t[n].deleted
           \/ \E c \in ps : c.oai /\ c.name = n /\ u[n].day = c.day /\ u[n].deleted = c.deleted

CopiesFit == \A w \in Worker : \A c \in copies[w] : Fits(c, paper)

\* Shapes, and what may be written to them.
FamilyInv == TypeOK /\ Shape(paper) /\ Clean(paper) /\ CopiesFit /\ arxiv.holds \in Version

\* r reports what arXiv has said of its day.
Told(r, said) == r.day <= arxiv.day /\ r.deleted = said[r.day]

Truthful(said) ==
    /\ \A n \in Name : paper[n].oai => Told(paper[n], said)
    /\ \A w \in Worker : \A c \in copies[w] : c.oai => Told(c, said)
    /\ Told(record, said) /\ Told(page, said) /\ Told(arxiv, said) /\ Told(NoRecord, said)

\* Nothing is newer than the record that a harvest is about to store.
PageNewest ==
    wire = Harvest =>
        /\ \A n \in Name : paper[n].oai => paper[n].day <= page.day
        /\ \A w \in Worker : \A c \in copies[w] : c.oai => c.day <= page.day

\* As long as no composed answer has put anything back, a copy is no newer than
\* its row, and under the lease it is as new.
CopiesOld ==
    ~undone => \A w \in Worker : \A c \in copies[w] : c.oai => c.day <= paper[c.name].day
Fresh ==
    ~undone => \A w \in Worker : pc[w] \in {"holding", "fetched"} =>
                  \A c \in copies[w] : c.oai => c.day = paper[c.name].day

History == [0 .. MaxDay -> BOOLEAN]

HistoryInv ==
    (\E said \in History : Truthful(said)) /\ PageNewest /\ CopiesOld /\ Fresh

HarvestInv == FamilyInv /\ HistoryInv

-----------------------------------------------------------------------------
(* Tables.                                                                 *)

\* A set of versions that is not empty has a latest one.
LEMMA LatestExists ==
    ASSUME NEW t \in Table, Versions(t) # {}
    PROVE  Latest(t) # {}
<1> DEFINE below == {MaxVersion - v : v \in Versions(t)}
<1>1. below \subseteq Nat /\ below # {}
  BY FamilyAssumption DEF Versions, Version
<1>2. PICK x \in below : \A y \in below : <<y, x>> \notin OpToRel(<, Nat)
  BY <1>1, NatLessThanWellFounded, WFMin
<1>3. \A y \in below : ~(y < x)
  BY <1>1, <1>2 DEF OpToRel
<1>4. PICK v \in Versions(t) : x = MaxVersion - v
  OBVIOUS
<1>5. \A u \in Versions(t) : u <= v
  <2> SUFFICES ASSUME NEW u \in Versions(t) PROVE u <= v
    OBVIOUS
  <2>1. MaxVersion - u \in below
    OBVIOUS
  <2>2. ~(MaxVersion - u < MaxVersion - v)
    BY <2>1, <1>3, <1>4
  <2> HIDE DEF below
  <2> QED
    BY <2>2, FamilyAssumption DEF Versions, Version
<1> QED
  BY <1>5 DEF Latest

LEMMA TargetType ==
    ASSUME NEW t \in Table, NEW p \in Copy
    PROVE  LegacyTarget(t, p) \in Name
  BY FamilyAssumption DEF LegacyTarget, Copy, Name, Base

LEMMA WrittenType ==
    ASSUME NEW old \in Row, NEW p \in Copy
    PROVE  Written(old, p) \in Row
  BY DEF Written, Row, Copy

\* What one upsert does to a table, given a copy that fits it.
LEMMA WriteOne ==
    ASSUME NEW t \in Table, Shape(t), Clean(t), NEW p \in Copy, Fits(p, t)
    PROVE  /\ Upsert(t, p) \in Table
           /\ Shape(Upsert(t, p)) /\ Clean(Upsert(t, p))
           /\ Grows(t, Upsert(t, p))
           /\ From(Upsert(t, p), t, {p})
<1> DEFINE k == LegacyTarget(t, p)
           u == Upsert(t, p)
<1>1. k \in Name /\ Written(t[k], p) \in Row
  BY TargetType, WrittenType DEF Table
<1>2. u \in Table /\ u[k] = Written(t[k], p) /\ \A n \in Name \ {k} : u[n] = t[n]
  BY <1>1 DEF Upsert, Table
<1>3. /\ u[k].stored /\ u[k].oai = (p.oai \/ t[k].oai)
      /\ u[k].day = IF p.oai THEN p.day ELSE t[k].day
      /\ u[k].deleted = IF p.oai \/ ~t[k].stored THEN p.deleted ELSE t[k].deleted
  BY <1>2 DEF Written
<1>4. Grows(t, u)
  BY <1>2, <1>3 DEF Grows
<1>5. p.oai => k = p.name
  BY DEF LegacyTarget
<1>6. Clean(u)
  <2>1. p.oai => t[k].oai
    BY <1>5 DEF Fits
  <2>2. ~t[k].stored => ~t[k].oai /\ t[k].day = 0
    BY <1>1 DEF Clean
  <2>3. ~t[k].oai => ~t[k].deleted /\ t[k].day = 0
    BY <1>1 DEF Clean
  <2> HIDE DEF k, u
  <2> QED
    BY <1>1, <1>2, <1>3, <2>1, <2>2, <2>3 DEF Clean, Fits
<1>7. From(u, t, {p})
  <2>1. p.oai => t[p.name].oai /\ k = p.name
    BY <1>5 DEF Fits
  <2>2. ~t[k].stored => ~t[k].deleted
    BY <1>1 DEF Clean
  <2>3. ~p.oai => ~p.deleted
    BY DEF Fits
  <2> HIDE DEF k, u
  <2>4. \/ u[k].day = t[k].day /\ u[k].deleted = t[k].deleted
        \/ p.oai /\ p.name = k /\ u[k].day = p.day /\ u[k].deleted = p.deleted
    BY <1>3, <2>1, <2>2, <2>3, <1>1 DEF Written, Table, Row, Copy
  <2>5. u[k].oai = t[k].oai
    <3>1. p.oai \in BOOLEAN /\ t[k].oai \in BOOLEAN
      BY <1>1 DEF Table, Row, Copy
    <3> QED BY <1>3, <2>1, <3>1
  <2> QED
    BY <1>2, <2>4, <2>5 DEF From
<1>8. Shape(u)
  <2>1. CASE t[Base].stored
    <3>1. t[Base].oai /\ Versions(t) = {}
      BY <2>1 DEF Shape
    <3>2. k = Base
      BY <3>1, <2>1, FamilyAssumption DEF LegacyTarget, Fits, Clean, Versions, Copy, Name, Version, Base
    <3>3. Versions(u) = Versions(t)
      BY <3>2, <1>2 DEF Versions, Version, Name, Base
    <3> QED
      BY <3>1, <3>2, <3>3, <1>3 DEF Shape
  <2>2. CASE ~t[Base].stored
    <3>1. k # Base
      BY <2>2, FamilyAssumption DEF LegacyTarget, Fits, Clean, Copy, Name, Base
    <3> QED
      BY <3>1, <2>2, <1>2, FamilyAssumption DEF Shape, Name, Base
  <2> QED BY <2>1, <2>2
<1> QED
  BY <1>2, <1>4, <1>6, <1>7, <1>8

\* ... and the upserts of one transaction.
LEMMA WriteAll ==
    ASSUME NEW ps \in SUBSET Copy, paper \in Table, Shape(paper), Clean(paper),
           \A c \in ps : Fits(c, paper),
           UpsertAll(ps)
    PROVE  /\ paper' \in Table
           /\ Shape(paper') /\ Clean(paper')
           /\ Grows(paper, paper')
           /\ From(paper', paper, ps)
<1>1. PICK p \in ps, q \in ps : paper' = Upsert(Upsert(paper, p), q)
  BY DEF UpsertAll
<1> DEFINE t == Upsert(paper, p)
<1>2. /\ t \in Table /\ Shape(t) /\ Clean(t) /\ Grows(paper, t) /\ From(t, paper, {p})
  BY WriteOne
<1>3. Fits(q, t)
  BY <1>2 DEF Fits, Grows, Copy
<1>4. paper' \in Table /\ Shape(paper') /\ Clean(paper') /\ Grows(t, paper') /\ From(paper', t, {q})
  <2> HIDE DEF t
  <2> QED BY <1>1, <1>2, <1>3, WriteOne DEF t
<1>5. Grows(paper, paper')
  BY <1>2, <1>4 DEF Grows
<1>6. From(paper', paper, ps)
  BY <1>2, <1>4 DEF From
<1> QED
  BY <1>4, <1>5, <1>6

-----------------------------------------------------------------------------
(* Shapes.                                                                 *)

Labels == {"idle", "composing", "waiting", "holding", "fetched"}

\* The row that answers for a name is there.
LEMMA KnownStored ==
    ASSUME paper \in Table, NEW ns \in SUBSET Name
    PROVE  \A n \in Known(ns) : n \in Name /\ paper[n].stored
<1> SUFFICES ASSUME NEW m \in ns, NEW n \in Answers(m)
             PROVE  n \in Name /\ paper[n].stored
  BY DEF Known
<1>1. m \in Name /\ Base \in Name
  BY FamilyAssumption DEF Name, Base
<1>2. CASE paper[m].stored
  BY <1>1, <1>2 DEF Answers
<1>3. CASE ~paper[m].stored /\ m # Base
  BY <1>1, <1>3, Zenon DEF Answers, Clean
<1>4. CASE ~paper[m].stored /\ m = Base
  <2>1. n \in Latest(paper)
    BY <1>4 DEF Answers
  <2> QED
    BY <2>1 DEF Latest, Versions, Version, Name
<1> QED
  BY <1>2, <1>3, <1>4

\* What is read from the store may be written to it.
LEMMA CopiesOfRows ==
    ASSUME FamilyInv, NEW ns \in SUBSET Name
    PROVE  /\ Copies(ns) \in SUBSET Copy
           /\ \A c \in Copies(ns) : /\ Fits(c, paper)
                                    /\ c = CopyOf(c.name) /\ c.name \in Name
<1> SUFFICES ASSUME NEW n \in Known(ns)
             PROVE  CopyOf(n) \in Copy /\ Fits(CopyOf(n), paper) /\ CopyOf(n).name = n /\ n \in Name
  BY DEF Copies
<1>1. paper \in Table /\ n \in Name /\ paper[n].stored
  BY KnownStored DEF FamilyInv, TypeOK, Table
<1>2. paper[n] \in Row
  BY <1>1 DEF Table
<1>3. CopyOf(n) \in Copy /\ CopyOf(n).name = n
  BY <1>1, <1>2 DEF CopyOf, Copy, Row
<1>4. Fits(CopyOf(n), paper)
  BY <1>1 DEF CopyOf, Fits, FamilyInv, Shape, Clean
<1> QED
  BY <1>1, <1>3, <1>4

\* What is fetched may be stored.
LEMMA AskedFit ==
    ASSUME FamilyInv, NEW ns \in SUBSET Name
    PROVE  /\ Asked(ns) \in SUBSET Copy
           /\ \A c \in Asked(ns) : Fits(c, paper) /\ ~c.oai
<1> SUFFICES ASSUME NEW v \in Version
             PROVE  Fetched(v) \in Copy /\ Fits(Fetched(v), paper) /\ ~Fetched(v).oai
  BY DEF Asked, FamilyInv, Name, Version, Base
<1> QED
  BY FamilyAssumption DEF Fetched, Copy, Fits, Name, Version, Base

\* A worker that moves keeps the others' copies.
LEMMA WorkerMoves ==
    ASSUME FamilyInv, NEW w \in Worker, NEW label \in Labels, NEW ns \in SUBSET Name,
           NEW ps \in SUBSET Copy, Goto(w, label, ns, ps),
           Grows(paper, paper'), \A c \in ps : Fits(c, paper')
    PROVE  /\ pc' \in [Worker -> Labels] /\ asks' \in [Worker -> SUBSET Name]
           /\ copies' \in [Worker -> SUBSET Copy]
           /\ pc'[w] = label /\ copies'[w] = ps
           /\ \A v \in Worker \ {w} : pc'[v] = pc[v] /\ copies'[v] = copies[v]
           /\ CopiesFit'
<1>1. /\ pc \in [Worker -> Labels] /\ asks \in [Worker -> SUBSET Name]
      /\ copies \in [Worker -> SUBSET Copy]
  BY DEF FamilyInv, TypeOK, Labels
<1>2. /\ pc' \in [Worker -> Labels] /\ asks' \in [Worker -> SUBSET Name]
      /\ copies' \in [Worker -> SUBSET Copy]
      /\ pc'[w] = label /\ copies'[w] = ps
      /\ \A v \in Worker \ {w} : pc'[v] = pc[v] /\ copies'[v] = copies[v]
  BY <1>1 DEF Goto
<1>3. \A v \in Worker : \A c \in copies[v] : c \in Copy /\ Fits(c, paper')
  BY <1>1 DEF FamilyInv, CopiesFit, Fits, Grows, Copy
<1>4. \A v \in Worker : \A c \in copies'[v] : Fits(c, paper')
  BY <1>2, <1>3
<1> QED
  BY <1>2, <1>4 DEF CopiesFit

\* ... also one that has no copies any more.
LEMMA WorkerDrops ==
    ASSUME FamilyInv, NEW w \in Worker, NEW label \in Labels, NEW ns \in SUBSET Name,
           Goto(w, label, ns, {}), Grows(paper, paper')
    PROVE  /\ pc' \in [Worker -> Labels] /\ asks' \in [Worker -> SUBSET Name]
           /\ copies' \in [Worker -> SUBSET Copy]
           /\ pc'[w] = label /\ copies'[w] = {}
           /\ \A v \in Worker \ {w} : pc'[v] = pc[v] /\ copies'[v] = copies[v]
           /\ CopiesFit'
<1>1. PICK ps \in SUBSET Copy : ps = {}
  OBVIOUS
<1>2. Goto(w, label, ns, ps) /\ \A c \in ps : Fits(c, paper')
  BY <1>1
<1>3. /\ pc' \in [Worker -> Labels] /\ asks' \in [Worker -> SUBSET Name]
      /\ copies' \in [Worker -> SUBSET Copy]
      /\ pc'[w] = label /\ copies'[w] = ps
      /\ \A v \in Worker \ {w} : pc'[v] = pc[v] /\ copies'[v] = copies[v]
      /\ CopiesFit'
  BY <1>2, WorkerMoves
<1> QED
  BY <1>1, <1>3

\* The target of a record: the base row, or the latest version stored.
LEMMA OaiTargetIs ==
    ASSUME FamilyInv
    PROVE  \/ OaiTarget = Base /\ (paper[Base].stored \/ Versions(paper) = {})
           \/ /\ OaiTarget \in Latest(paper) /\ OaiTarget \in Versions(paper)
              /\ ~paper[Base].stored
<1>1. paper \in Table
  BY DEF FamilyInv, TypeOK, Table
<1>2. CASE paper[Base].stored \/ Versions(paper) = {}
  BY <1>2 DEF OaiTarget
<1>3. CASE ~(paper[Base].stored \/ Versions(paper) = {})
  <2>1. Latest(paper) # {}
    BY <1>1, <1>3, LatestExists
  <2>2. OaiTarget \in Latest(paper)
    BY <1>3, <2>1 DEF OaiTarget
  <2> QED
    BY <1>3, <2>2 DEF Latest
<1> QED
  BY <1>2, <1>3

\* The table after a checkpoint, and what it says of the rows it touched.
LEMMA CheckpointWrites ==
    ASSUME FamilyInv, Checkpoint
    PROVE  /\ paper' \in Table /\ Shape(paper') /\ Clean(paper') /\ Grows(paper, paper')
           /\ \A n \in Name :
                 \/ paper'[n] = paper[n]
                 \/ /\ paper'[n].stored /\ paper'[n].oai
                    /\ paper'[n].day = page.day /\ paper'[n].deleted = page.deleted
           /\ \A n \in Answers(Base)' :
                 /\ n \in Name /\ paper'[n].stored /\ paper'[n].oai
                 /\ paper'[n].day = page.day /\ paper'[n].deleted = page.deleted
<1>1. paper \in Table /\ page \in Record /\ Shape(paper) /\ Clean(paper)
  BY DEF FamilyInv, TypeOK, Table
<1>b. Base \in Name /\ Version \subseteq Name /\ Base \notin Version
  BY FamilyAssumption DEF Base, Name, Version
<1>2. CASE page.deleted
  <2>1. /\ paper' \in Table
        /\ \A n \in Name : IF paper[n].stored
                           THEN paper'[n] = [paper[n] EXCEPT !.oai = TRUE, !.day = page.day, !.deleted = TRUE]
                           ELSE paper'[n] = paper[n]
    BY <1>1, <1>2 DEF Checkpoint, Table, Row, Record
  <2>2. \A n \in Name : paper'[n].stored = paper[n].stored
    BY <2>1, <1>1 DEF Table, Row
  <2>3. \A n \in Name : paper[n].stored =>
            paper'[n].oai /\ paper'[n].day = page.day /\ paper'[n].deleted = page.deleted
    BY <2>1, <1>1, <1>2 DEF Table, Row
  <2>4. Versions(paper') = Versions(paper)
    BY <2>2, <1>b DEF Versions
  <2>5. Shape(paper') /\ Clean(paper') /\ Grows(paper, paper')
    BY <1>1, <1>b, <2>1, <2>2, <2>3, <2>4 DEF Shape, Clean, Grows
  <2>6. \A n \in Answers(Base)' : n \in Name /\ paper'[n].stored
    <3>1. \A n \in Versions(paper') : n \in Name /\ paper'[n].stored
      BY <1>b DEF Versions
    <3> QED BY <3>1, <1>b DEF Answers, Latest
  <2> QED BY <2>1, <2>2, <2>3, <2>5, <2>6
<1>3. CASE ~page.deleted
  <2> DEFINE k == OaiTarget
             p == [name |-> k, oai |-> TRUE, day |-> page.day, deleted |-> FALSE,
                   holds |-> page.holds]
  <2>1. k \in Name /\ p \in Copy
    BY <1>1, <1>b, OaiTargetIs DEF Copy, Record, Versions
  <2>2. paper' = [paper EXCEPT ![k] = Written(paper[k], p)]
    <3>1. LegacyTarget(paper, p) = k
      BY DEF LegacyTarget
    <3> HIDE DEF k
    <3> QED BY <1>3, <3>1 DEF Checkpoint, Upsert, k
  <2>3. Written(paper[k], p) \in Row
    BY <1>1, <2>1, WrittenType DEF Table
  <2>4. paper' \in Table /\ paper'[k] = Written(paper[k], p) /\ \A n \in Name \ {k} : paper'[n] = paper[n]
    <3> HIDE DEF k, p
    <3> QED BY <1>1, <2>1, <2>2, <2>3 DEF Table
  <2>5. /\ paper'[k].stored /\ paper'[k].oai /\ paper'[k].day = page.day
        /\ paper'[k].deleted = page.deleted
    <3>1. p.oai = TRUE /\ p.day = page.day /\ p.deleted = FALSE
      OBVIOUS
    <3>2. page.deleted = FALSE
      BY <1>1, <1>3 DEF Record
    <3> HIDE DEF k, p
    <3>3. /\ paper'[k].stored = TRUE /\ paper'[k].oai = (p.oai \/ paper[k].oai)
          /\ paper'[k].day = IF p.oai THEN p.day ELSE paper[k].day
          /\ paper'[k].deleted = IF p.oai \/ ~paper[k].stored THEN p.deleted ELSE paper[k].deleted
      BY <2>4 DEF Written
    <3> QED BY <3>1, <3>2, <3>3
  <2> HIDE DEF k, p
  <2>6. Clean(paper') /\ Grows(paper, paper')
    BY <1>1, <2>4, <2>5 DEF Clean, Grows
  <2>7. CASE k = Base /\ (paper[Base].stored \/ Versions(paper) = {})
    <3>1. Versions(paper') = Versions(paper)
      BY <2>4, <2>7, <1>b DEF Versions
    <3>2. Shape(paper')
      BY <1>1, <2>7, <2>5, <3>1 DEF Shape
    <3>3. Answers(Base)' = {Base}
      BY <2>5, <2>7 DEF Answers
    <3> QED BY <1>b, <2>4, <2>5, <2>6, <2>7, <3>2, <3>3
  <2>8. CASE k \in Latest(paper) /\ k \in Versions(paper) /\ ~paper[Base].stored
    <3>1. Versions(paper') = Versions(paper) /\ k \in Version /\ k # Base
      BY <2>4, <2>5, <2>8, <1>b DEF Versions
    <3>2. ~paper'[Base].stored
      BY <2>4, <2>8, <3>1, <1>b
    <3>3. Shape(paper')
      BY <3>2 DEF Shape
    <3>4. Answers(Base)' = Latest(paper')
      BY <3>2 DEF Answers
    <3>5. \A n \in Latest(paper') : n = k
      BY <2>8, <3>1, FamilyAssumption DEF Latest, Versions, Version
    <3> QED BY <2>1, <2>4, <2>5, <2>6, <3>3, <3>4, <3>5
  <2> QED
    BY <2>7, <2>8, OaiTargetIs DEF k
<1> QED
  BY <1>2, <1>3 DEF FamilyInv, TypeOK, Record

\* What stands when a step leaves the rows and the copies alone.
LEMMA FamilyInit == Init => FamilyInv
<1> SUFFICES ASSUME Init PROVE FamilyInv
  OBVIOUS
<1>a. 0 \in 0 .. MaxDay /\ 1 \in 0 .. MaxDay /\ 0 \in 0 .. MaxVersion /\ 1 \in 0 .. MaxVersion
  BY FamilyAssumption
<1>b. Absent \in Row /\ NoRecord \in Record
  BY <1>a DEF Absent, NoRecord, Row, Record
<1>c. [NoRecord EXCEPT !.day = 1, !.holds = 1] \in Record
  BY <1>a, <1>b DEF NoRecord, Record
<1>1. Absent \in Row /\ NoRecord \in Record /\ [NoRecord EXCEPT !.day = 1, !.holds = 1] \in Record
  BY <1>b, <1>c
<1>2. TypeOK
  BY <1>1, FamilyAssumption DEF Init, TypeOK
<1>3. Base \in Name /\ \A n \in Name : ~paper[n].stored /\ ~paper[n].oai /\ ~paper[n].deleted /\ paper[n].day = 0
  BY FamilyAssumption DEF Init, Absent, Base, Name
<1>4. Shape(paper) /\ Clean(paper)
  BY <1>3 DEF Shape, Clean
<1>5. CopiesFit /\ arxiv.holds \in Version
  BY FamilyAssumption DEF Init, CopiesFit, NoRecord, Version
<1> QED
  BY <1>2, <1>4, <1>5 DEF FamilyInv

LEMMA WorkerStep ==
    ASSUME FamilyInv, NEW w \in Worker,
           \/ PlanList(w) \/ AskUpstream(w) \/ Win(w) \/ Fetch(w) \/ Store(w)
           \/ Compose(w) \/ Abandon(w)
    PROVE  FamilyInv' /\ Grows(paper, paper')
<1>1. /\ paper \in Table /\ record \in Record /\ arxiv \in Record /\ page \in Record
      /\ wire \in Worker \cup {Nobody, Harvest} /\ undone \in BOOLEAN
      /\ pc \in [Worker -> Labels] /\ asks \in [Worker -> SUBSET Name]
      /\ copies \in [Worker -> SUBSET Copy]
      /\ \A v \in Worker : wire = v <=> pc[v] \in {"holding", "fetched"}
      /\ Shape(paper) /\ Clean(paper) /\ CopiesFit /\ arxiv.holds \in Version
  BY DEF FamilyInv, TypeOK, Table, Labels
<1>2. Nobody \notin Worker /\ Harvest \notin Worker /\ Nobody # Harvest
  BY FamilyAssumption
<1>3. SUBSET (Base .. arxiv.holds) \subseteq SUBSET Name
  BY <1>1, FamilyAssumption DEF Base, Name, Version
<1>4. Labels = {"idle", "composing", "waiting", "holding", "fetched"}
  BY DEF Labels
<1>5. paper' = paper => Grows(paper, paper')
  BY DEF Grows
<1>6. {} \in SUBSET Name
  OBVIOUS
<1> HIDE DEF Labels
<1>7. CASE PlanList(w)
  <2>1. PICK ns \in SUBSET Name :
          Goto(w, IF Missing(ns) = {} THEN "composing" ELSE "waiting", ns, Copies(ns))
    BY <1>3, <1>7 DEF PlanList
  <2>2. paper' = paper /\ UNCHANGED <<record, arxiv, wire, page, undone>>
    BY <1>7 DEF PlanList
  <2>3. CopiesFit' /\ pc' \in [Worker -> Labels] /\ asks' \in [Worker -> SUBSET Name]
        /\ copies' \in [Worker -> SUBSET Copy]
        /\ pc'[w] \in {"composing", "waiting"}
        /\ \A v \in Worker \ {w} : pc'[v] = pc[v]
    BY <1>4, <1>5, <2>1, <2>2, CopiesOfRows, WorkerMoves
  <2>4. \A v \in Worker : wire' = v <=> pc'[v] \in {"holding", "fetched"}
    BY <1>1, <1>7, <2>2, <2>3 DEF PlanList
  <2> QED BY <1>1, <1>5, <2>2, <2>3, <2>4 DEF FamilyInv, TypeOK, Table, Labels, Shape, Clean, Versions
<1>8. CASE AskUpstream(w)
  <2>1. PICK ns \in SUBSET Name : Goto(w, "holding", ns, {})
    BY <1>3, <1>8 DEF AskUpstream
  <2>2. paper' = paper /\ wire = Nobody /\ wire' = w /\ UNCHANGED <<record, arxiv, page, undone>>
    BY <1>8 DEF AskUpstream
  <2>3. CopiesFit' /\ pc' \in [Worker -> Labels] /\ asks' \in [Worker -> SUBSET Name]
        /\ copies' \in [Worker -> SUBSET Copy]
        /\ pc'[w] = "holding"
        /\ \A v \in Worker \ {w} : pc'[v] = pc[v]
    BY <1>4, <1>5, <2>1, <2>2, WorkerDrops
  <2>4. \A v \in Worker : wire' = v <=> pc'[v] \in {"holding", "fetched"}
    BY <1>1, <1>2, <2>2, <2>3
  <2> QED BY <1>1, <1>5, <2>2, <2>3, <2>4 DEF FamilyInv, TypeOK, Table, Labels, Shape, Clean, Versions
<1>9. CASE Win(w)
  <2>0. asks[w] \in SUBSET Name /\ Missing(asks[w]) \in SUBSET Name
    BY <1>1 DEF Missing
  <2>1. paper' = paper /\ wire = Nobody /\ UNCHANGED <<record, arxiv, page, undone>>
    BY <1>9 DEF Win
  <2>2. \/ wire' = wire /\ Goto(w, "composing", asks[w], Copies(asks[w]))
        \/ wire' = w /\ Goto(w, "holding", Missing(asks[w]), Copies(asks[w]))
    BY <1>9 DEF Win
  <2>3. CopiesFit' /\ pc' \in [Worker -> Labels] /\ asks' \in [Worker -> SUBSET Name]
        /\ copies' \in [Worker -> SUBSET Copy]
        /\ \/ wire' = wire /\ pc'[w] = "composing"
           \/ wire' = w /\ pc'[w] = "holding"
        /\ \A v \in Worker \ {w} : pc'[v] = pc[v]
    BY <1>4, <1>5, <2>0, <2>1, <2>2, CopiesOfRows, WorkerMoves
  <2>4. \A v \in Worker : wire' = v <=> pc'[v] \in {"holding", "fetched"}
    BY <1>1, <1>2, <2>1, <2>3
  <2> QED BY <1>1, <1>5, <2>1, <2>3, <2>4 DEF FamilyInv, TypeOK, Table, Labels, Shape, Clean, Versions
<1>10. CASE Fetch(w)
  <2>1. PICK ns \in SUBSET Name : Goto(w, "fetched", asks[w], copies[w] \cup Asked(ns))
    BY <1>1, <1>10 DEF Fetch
  <2>2. paper' = paper /\ pc[w] = "holding" /\ UNCHANGED <<record, arxiv, wire, page, undone>>
    BY <1>10 DEF Fetch
  <2>3. /\ copies[w] \cup Asked(ns) \in SUBSET Copy
        /\ \A c \in copies[w] \cup Asked(ns) : Fits(c, paper)
    BY <1>1, AskedFit DEF CopiesFit
  <2>4. asks[w] \in SUBSET Name
    BY <1>1
  <2>5. CopiesFit' /\ pc' \in [Worker -> Labels] /\ asks' \in [Worker -> SUBSET Name]
        /\ copies' \in [Worker -> SUBSET Copy]
        /\ pc'[w] = "fetched"
        /\ \A v \in Worker \ {w} : pc'[v] = pc[v]
    BY <1>4, <1>5, <2>1, <2>2, <2>3, <2>4, WorkerMoves
  <2>6. \A v \in Worker : wire' = v <=> pc'[v] \in {"holding", "fetched"}
    BY <1>1, <2>2, <2>5
  <2> QED BY <1>1, <1>5, <2>2, <2>5, <2>6 DEF FamilyInv, TypeOK, Table, Labels, Shape, Clean, Versions
<1>11. CASE Store(w)
  <2>1. UpsertAll(copies[w]) /\ Goto(w, "idle", {}, {}) /\ pc[w] = "fetched"
        /\ wire' = Nobody /\ UNCHANGED <<record, arxiv, page, undone>>
    BY <1>11 DEF Store
  <2>2. paper' \in Table /\ Shape(paper') /\ Clean(paper') /\ Grows(paper, paper')
    BY <1>1, <2>1, WriteAll DEF CopiesFit
  <2>3. CopiesFit' /\ pc' \in [Worker -> Labels] /\ asks' \in [Worker -> SUBSET Name]
        /\ copies' \in [Worker -> SUBSET Copy]
        /\ pc'[w] = "idle"
        /\ \A v \in Worker \ {w} : pc'[v] = pc[v]
    BY <1>4, <1>6, <2>1, <2>2, WorkerDrops
  <2>4. \A v \in Worker : wire' = v <=> pc'[v] \in {"holding", "fetched"}
    BY <1>1, <1>2, <2>1, <2>3
  <2> QED BY <1>1, <2>1, <2>2, <2>3, <2>4 DEF FamilyInv, TypeOK, Table, Labels, Shape, Clean, Versions
<1>12. CASE Compose(w)
  <2>1. UpsertAll(copies[w]) /\ Goto(w, "idle", {}, {}) /\ pc[w] = "composing"
        /\ UNCHANGED <<record, arxiv, page, wire>>
        /\ undone' \in BOOLEAN
    BY <1>1, <1>12 DEF Compose
  <2>2. paper' \in Table /\ Shape(paper') /\ Clean(paper') /\ Grows(paper, paper')
    BY <1>1, <2>1, WriteAll DEF CopiesFit
  <2>3. CopiesFit' /\ pc' \in [Worker -> Labels] /\ asks' \in [Worker -> SUBSET Name]
        /\ copies' \in [Worker -> SUBSET Copy]
        /\ pc'[w] = "idle"
        /\ \A v \in Worker \ {w} : pc'[v] = pc[v]
    BY <1>4, <1>6, <2>1, <2>2, WorkerDrops
  <2>4. \A v \in Worker : wire' = v <=> pc'[v] \in {"holding", "fetched"}
    BY <1>1, <2>1, <2>3
  <2> QED BY <1>1, <2>1, <2>2, <2>3, <2>4 DEF FamilyInv, TypeOK, Table, Labels, Shape, Clean, Versions
<1>13. CASE Abandon(w)
  <2>1. paper' = paper /\ Goto(w, "idle", {}, {}) /\ wire' = (IF wire = w THEN Nobody ELSE wire)
        /\ UNCHANGED <<record, arxiv, page, undone>>
    BY <1>13 DEF Abandon
  <2>2. CopiesFit' /\ pc' \in [Worker -> Labels] /\ asks' \in [Worker -> SUBSET Name]
        /\ copies' \in [Worker -> SUBSET Copy]
        /\ pc'[w] = "idle"
        /\ \A v \in Worker \ {w} : pc'[v] = pc[v]
    BY <1>4, <1>5, <1>6, <2>1, WorkerDrops
  <2>3. \A v \in Worker : wire' = v <=> pc'[v] \in {"holding", "fetched"}
    BY <1>1, <1>2, <2>1, <2>2
  <2> QED BY <1>1, <1>5, <2>1, <2>2, <2>3 DEF FamilyInv, TypeOK, Table, Labels, Shape, Clean, Versions
<1> QED
  BY <1>7, <1>8, <1>9, <1>10, <1>11, <1>12, <1>13

\* Steps of harvests and of arXiv leave the workers where they are.
LEMMA OtherStep ==
    ASSUME FamilyInv, ListRecords \/ Checkpoint \/ HarvestFails \/ Change
    PROVE  FamilyInv' /\ Grows(paper, paper')
<1>1. /\ paper \in Table /\ record \in Record /\ arxiv \in Record /\ page \in Record
      /\ wire \in Worker \cup {Nobody, Harvest} /\ undone \in BOOLEAN
      /\ pc \in [Worker -> Labels] /\ asks \in [Worker -> SUBSET Name]
      /\ copies \in [Worker -> SUBSET Copy]
      /\ \A v \in Worker : wire = v <=> pc[v] \in {"holding", "fetched"}
      /\ Shape(paper) /\ Clean(paper) /\ CopiesFit /\ arxiv.holds \in Version
  BY DEF FamilyInv, TypeOK, Table, Labels
<1>2. Nobody \notin Worker /\ Harvest \notin Worker /\ Nobody # Harvest
  BY FamilyAssumption
<1>3. NoRecord \in Record
  BY FamilyAssumption DEF NoRecord, Record
<1>4. UNCHANGED workers /\ undone' = undone
  BY DEF ListRecords, Checkpoint, HarvestFails, Change
<1>5. paper' \in Table /\ Shape(paper') /\ Clean(paper') /\ Grows(paper, paper')
  <2>1. CASE Checkpoint
    BY <2>1, CheckpointWrites
  <2>2. CASE paper' = paper
    BY <1>1, <2>2 DEF Grows
  <2> QED
    BY <2>1, <2>2 DEF ListRecords, HarvestFails, Change
<1>6. CopiesFit'
  <2>1. \A v \in Worker : \A c \in copies[v] : c.name \in Name /\ Fits(c, paper')
    BY <1>1, <1>5 DEF CopiesFit, Fits, Grows, Copy
  <2> QED BY <1>4, <2>1 DEF CopiesFit, workers
<1>7. /\ record' \in Record /\ page' \in Record /\ wire' \in Worker \cup {Nobody, Harvest}
      /\ \A v \in Worker : wire' = v <=> wire = v
  BY <1>1, <1>2, <1>3 DEF ListRecords, Checkpoint, HarvestFails, Change
<1>8. arxiv' \in Record /\ arxiv'.holds \in Version
  <2>1. CASE Change
    <3>1. arxiv.day \in 0 .. MaxDay /\ arxiv.holds \in 0 .. MaxVersion /\ arxiv.deleted \in BOOLEAN
      BY <1>1 DEF Record
    <3>2. CASE ~arxiv.deleted /\ arxiv.holds < MaxVersion
               /\ arxiv' = [arxiv EXCEPT !.day = @ + 1, !.holds = @ + 1]
      <4>1. arxiv.day + 1 \in 0 .. MaxDay /\ arxiv.holds + 1 \in 0 .. MaxVersion /\ arxiv.holds + 1 \in Version
        BY <2>1, <3>1, <3>2, FamilyAssumption DEF Change, Version
      <4> QED BY <1>1, <3>2, <4>1 DEF Record
    <3>3. CASE arxiv' = [arxiv EXCEPT !.day = @ + 1, !.deleted = ~@]
      <4>1. arxiv.day + 1 \in 0 .. MaxDay
        BY <2>1, <3>1, FamilyAssumption DEF Change
      <4> QED BY <1>1, <3>3, <4>1 DEF Record
    <3> QED BY <2>1, <3>2, <3>3 DEF Change
  <2>2. CASE arxiv' = arxiv
    BY <1>1, <2>2
  <2> QED
    BY <2>1, <2>2 DEF ListRecords, HarvestFails, Checkpoint
<1> QED
  BY <1>1, <1>4, <1>5, <1>6, <1>7, <1>8 DEF FamilyInv, TypeOK, Table, Labels, workers

LEMMA FamilyStep ==
    ASSUME FamilyInv, [Next]_vars
    PROVE  FamilyInv' /\ Grows(paper, paper')
<1>1. CASE UNCHANGED vars
  <2>1. FamilyInv'
    BY <1>1 DEF vars, FamilyInv, TypeOK, Shape, Clean, CopiesFit, Fits, Versions
  <2> QED BY <1>1, <2>1 DEF vars, Grows
<1>2. CASE Next
  BY <1>2, WorkerStep, OtherStep DEF Next
<1> QED
  BY <1>1, <1>2

-----------------------------------------------------------------------------
(* Theorems about shapes.                                                  *)

\* Every variable keeps its type; a worker holds the upstream lease exactly
\* between its gate and its write.
THEOREM TypeCorrect == Spec => []TypeOK
<1>1. FamilyInv => TypeOK
  BY DEF FamilyInv
<1> QED
  BY <1>1, FamilyInit, FamilyStep, PTL DEF Spec

\* However searches, lists, composed answers and harvests interleave, the
\* upserts never leave a base row beside version rows.
THEOREM ShapeHolds == Spec => []OneShape
<1>1. FamilyInv => OneShape
  BY DEF FamilyInv, Shape, OneShape
<1> QED
  BY <1>1, FamilyInit, FamilyStep, PTL DEF Spec

\* No write makes an ID unreadable that could be read: rows only grow, and a
\* family with rows has one that answers.
THEOREM AliasesHold == Spec => AliasesLast
<1>1. ASSUME FamilyInv, [Next]_vars, NEW n \in Name, Answers(n) # {}
      PROVE  Answers(n)' # {}
  <2>1. paper \in Table /\ paper' \in Table /\ Grows(paper, paper')
    BY <1>1, FamilyStep DEF FamilyInv, TypeOK, Table
  <2>b. Base \in Name /\ Version \subseteq Name
    BY FamilyAssumption DEF Base, Name, Version
  <2>2. CASE paper'[n].stored
    BY <2>2 DEF Answers
  <2>3. CASE ~paper'[n].stored /\ n # Base
    <3>1. ~paper[n].stored
      BY <2>1, <2>3 DEF Grows
    <3>2. paper[Base].stored /\ paper[Base].oai
      BY <1>1, <2>3, <3>1 DEF Answers
    <3>3. paper'[Base].stored /\ paper'[Base].oai
      BY <2>1, <2>b, <3>2 DEF Grows
    <3> QED BY <2>3, <3>3 DEF Answers
  <2>4. CASE ~paper'[n].stored /\ n = Base
    <3>1. ~paper[n].stored
      BY <2>1, <2>4 DEF Grows
    <3>2. Latest(paper) # {}
      BY <1>1, <2>4, <3>1 DEF Answers
    <3>3. Versions(paper') # {}
      BY <2>1, <2>b, <3>2 DEF Latest, Versions, Grows
    <3>4. Latest(paper') # {}
      BY <2>1, <3>3, LatestExists
    <3> QED BY <2>4, <3>4 DEF Answers
  <2> QED BY <2>2, <2>3, <2>4
<1>2. FamilyInv /\ [Next]_vars => (\A n \in Name : Answers(n) # {} => Answers(n)' # {})
  BY <1>1
<1> QED
  BY <1>2, FamilyInit, FamilyStep, PTL DEF Spec, AliasesLast

\* The reader of the base name sees the record that was just checkpointed,
\* whichever row it was merged into: OaiTarget is the row that answers.
THEOREM HarvestIsVisible == Spec => HarvestVisible
<1>1. FamilyInv /\ Checkpoint =>
         \A n \in Answers(Base)' :
            paper'[n].oai /\ paper'[n].day = record'.day /\ paper'[n].deleted = record'.deleted
  BY CheckpointWrites DEF Checkpoint
<1> QED
  BY <1>1, FamilyInit, FamilyStep, PTL DEF Spec, HarvestVisible

-----------------------------------------------------------------------------
(* Dates and tombstones.                                                   *)

Under == {"holding", "fetched"}

\* A worker that reads rows, fetches or gives up.
LEMMA ReadsKeep ==
    ASSUME HarvestInv, NEW w \in Worker,
           UNCHANGED <<paper, record, arxiv, page, undone>>,
           wire' = Harvest => wire = Harvest,
           \A v \in Worker \ {w} : pc'[v] = pc[v] /\ copies'[v] = copies[v],
           \A c \in copies'[w] : c.oai =>
               \/ c \in copies[w] /\ (pc'[w] \in Under => pc[w] \in Under)
               \/ /\ c.name \in Name /\ paper[c.name].oai
                  /\ c.day = paper[c.name].day /\ c.deleted = paper[c.name].deleted
    PROVE  HistoryInv'
<1>1. PICK said \in History : Truthful(said)
  BY DEF HarvestInv, HistoryInv
<1>2. paper' = paper /\ record' = record /\ arxiv' = arxiv /\ page' = page /\ undone' = undone
  OBVIOUS
<1>3. paper \in Table /\ arxiv.day \in Int
  BY FamilyAssumption DEF HarvestInv, FamilyInv, TypeOK, Table, Record
<1>4. Truthful(said)'
  <2>1. \A c \in copies'[w] : c.oai => Told(c, said)'
    BY <1>1, <1>2 DEF Truthful, Told
  <2>2. \A v \in Worker \ {w} : \A c \in copies'[v] : c.oai => Told(c, said)'
    BY <1>1, <1>2 DEF Truthful, Told
  <2> QED BY <1>1, <1>2, <2>1, <2>2 DEF Truthful, Told
<1>5. PageNewest'
  <2> SUFFICES ASSUME wire' = Harvest
               PROVE  /\ \A n \in Name : paper[n].oai => paper[n].day <= page.day
                      /\ \A v \in Worker : \A c \in copies'[v] : c.oai => c.day <= page.day
    BY <1>2 DEF PageNewest
  <2>1. /\ \A n \in Name : paper[n].oai => paper[n].day <= page.day
        /\ \A v \in Worker : \A c \in copies[v] : c.oai => c.day <= page.day
    BY DEF HarvestInv, HistoryInv, PageNewest
  <2>2. \A c \in copies'[w] : c.oai => c.day <= page.day
    BY <2>1
  <2> QED BY <2>1, <2>2
<1>6. CopiesOld'
  <2> SUFFICES ASSUME ~undone, NEW v \in Worker, NEW c \in copies'[v], c.oai
               PROVE  c.day <= paper[c.name].day
    BY <1>2 DEF CopiesOld
  <2>1. \A u \in Worker : \A d \in copies[u] : d.oai => d.day <= paper[d.name].day
    BY DEF HarvestInv, HistoryInv, CopiesOld
  <2>2. \A n \in Name : paper[n].day <= paper[n].day
    BY <1>3, FamilyAssumption DEF Table, Row
  <2>3. CASE v = w
    BY <2>1, <2>2, <2>3
  <2>4. CASE v # w
    BY <2>1, <2>4
  <2> QED BY <2>3, <2>4
<1>7. Fresh'
  <2> SUFFICES ASSUME ~undone, NEW v \in Worker, pc'[v] \in Under, NEW c \in copies'[v], c.oai
               PROVE  c.day = paper[c.name].day
    BY <1>2 DEF Fresh, Under
  <2>1. \A u \in Worker : pc[u] \in Under => \A d \in copies[u] : d.oai => d.day = paper[d.name].day
    BY DEF HarvestInv, HistoryInv, Fresh, Under
  <2> QED BY <2>1
<1> QED
  BY <1>1, <1>4, <1>5, <1>6, <1>7 DEF HistoryInv

\* A worker that writes, and does not lower a date while ~undone.
LEMMA WritesKeep ==
    ASSUME HarvestInv, NEW w \in Worker, UpsertAll(copies[w]),
           UNCHANGED <<record, arxiv, page>>, undone => undone',
           wire' = Harvest => wire = Harvest,
           pc'[w] = "idle", copies'[w] = {},
           \A v \in Worker \ {w} : pc'[v] = pc[v] /\ copies'[v] = copies[v],
           ~undone' => \A n \in Name : paper'[n].day = paper[n].day
    PROVE  HistoryInv'
<1>1. PICK said \in History : Truthful(said)
  BY DEF HarvestInv, HistoryInv
<1>2. From(paper', paper, copies[w])
  BY WriteAll DEF HarvestInv, FamilyInv, TypeOK, CopiesFit, Table
<1>3. \A v \in Worker : \A c \in copies'[v] : v # w /\ c \in copies[v] /\ c.name \in Name
  BY DEF HarvestInv, FamilyInv, TypeOK, Copy
<1>4. Truthful(said)'
  <2>1. \A n \in Name : paper'[n].oai => Told(paper'[n], said)
    BY <1>1, <1>2 DEF Truthful, Told, From
  <2> QED BY <1>1, <1>3, <2>1 DEF Truthful, Told
<1>5. PageNewest'
  <2> SUFFICES ASSUME wire' = Harvest
               PROVE  /\ \A n \in Name : paper'[n].oai => paper'[n].day <= page.day
                      /\ \A v \in Worker : \A c \in copies'[v] : c.oai => c.day <= page.day
    BY DEF PageNewest
  <2>1. /\ \A n \in Name : paper[n].oai => paper[n].day <= page.day
        /\ \A v \in Worker : \A c \in copies[v] : c.oai => c.day <= page.day
    BY DEF HarvestInv, HistoryInv, PageNewest
  <2> QED BY <1>2, <1>3, <2>1 DEF From
<1>6. CopiesOld'
  BY <1>3 DEF HarvestInv, HistoryInv, CopiesOld
<1>7. Fresh'
  BY <1>3 DEF HarvestInv, HistoryInv, Fresh
<1> QED
  BY <1>1, <1>4, <1>5, <1>6, <1>7 DEF HistoryInv

\* What a worker stores under the lease changes no date and no tombstone.
LEMMA FetchedIsFresh ==
    ASSUME HarvestInv, ~undone, NEW w \in Worker, pc[w] = "fetched", UpsertAll(copies[w])
    PROVE  \A n \in Name : paper'[n].day = paper[n].day /\ paper'[n].deleted = paper[n].deleted
<1>1. PICK said \in History : Truthful(said)
  BY DEF HarvestInv, HistoryInv
<1>2. From(paper', paper, copies[w])
  BY WriteAll DEF HarvestInv, FamilyInv, TypeOK, CopiesFit, Table
<1>3. \A c \in copies[w] : c.oai => c.day = paper[c.name].day /\ paper[c.name].oai
  BY DEF HarvestInv, HistoryInv, Fresh, FamilyInv, CopiesFit, Fits
<1>4. \A c \in copies[w] : c.oai /\ c.name \in Name => c.deleted = paper[c.name].deleted
  BY <1>1, <1>3 DEF Truthful, Told
<1> QED
  BY <1>2, <1>3, <1>4 DEF From

\* A composed answer that lowers no date changes none.
LEMMA ComposedIsOld ==
    ASSUME HarvestInv, ~undone, NEW w \in Worker, UpsertAll(copies[w]),
           \A n \in Name : Keeps(n)
    PROVE  \A n \in Name : paper'[n].day = paper[n].day
<1>1. /\ From(paper', paper, copies[w]) /\ paper' \in Table
  BY WriteAll DEF HarvestInv, FamilyInv, TypeOK, CopiesFit, Table
<1>2. \A c \in copies[w] : c.oai => c.day <= paper[c.name].day
  BY DEF HarvestInv, HistoryInv, CopiesOld
<1>3. \A n \in Name : paper[n].day \in Int /\ paper'[n].day \in Int
  BY <1>1, FamilyAssumption DEF HarvestInv, FamilyInv, TypeOK, Table, Row
<1>4. \A n \in Name : paper'[n].day >= paper[n].day
  BY DEF Keeps
<1> QED
  BY <1>1, <1>2, <1>3, <1>4 DEF From

LEMMA HarvestInit == Init => HarvestInv
<1> SUFFICES ASSUME Init PROVE HistoryInv
  BY FamilyInit DEF HarvestInv
<1> DEFINE none == [d \in 0 .. MaxDay |-> FALSE]
<1>a. 0 \in 0 .. MaxDay /\ 1 \in 0 .. MaxDay
  BY FamilyAssumption
<1>1. /\ none \in History /\ none[0] = FALSE /\ none[1] = FALSE
  BY <1>a DEF History
<1>2. /\ \A n \in Name : ~paper[n].oai
      /\ \A w \in Worker : copies[w] = {}
      /\ record.day = 0 /\ record.deleted = FALSE /\ page.day = 0 /\ page.deleted = FALSE
      /\ arxiv.day = 1 /\ arxiv.deleted = FALSE
      /\ NoRecord.day = 0 /\ NoRecord.deleted = FALSE
  BY DEF Init, Absent, NoRecord
<1> HIDE DEF none
<1>3. Truthful(none)
  <2>1. Told(record, none) /\ Told(page, none) /\ Told(arxiv, none) /\ Told(NoRecord, none)
    <3>1. 0 <= 1 /\ 1 <= 1
      OBVIOUS
    <3> QED BY <1>1, <1>2, <3>1 DEF Told
  <2> QED BY <1>2, <2>1 DEF Truthful
<1>4. PageNewest /\ CopiesOld /\ Fresh
  BY <1>2 DEF PageNewest, CopiesOld, Fresh
<1> QED
  BY <1>1, <1>3, <1>4 DEF HistoryInv

LEMMA WorkerKeeps ==
    ASSUME HarvestInv, NEW w \in Worker,
           \/ PlanList(w) \/ AskUpstream(w) \/ Win(w) \/ Fetch(w) \/ Store(w)
           \/ Compose(w) \/ Abandon(w)
    PROVE  HistoryInv'
<1>1. /\ pc \in [Worker -> Labels] /\ copies \in [Worker -> SUBSET Copy]
      /\ asks \in [Worker -> SUBSET Name] /\ paper \in Table
      /\ w # Harvest /\ Nobody # Harvest /\ undone \in BOOLEAN
  BY FamilyAssumption DEF HarvestInv, FamilyInv, TypeOK, Labels, Table
<1>2. SUBSET (Base .. arxiv.holds) \subseteq SUBSET Name
  BY FamilyAssumption DEF HarvestInv, FamilyInv, Base, Name, Version
<1>3. ASSUME NEW label, NEW ns, NEW ps, Goto(w, label, ns, ps)
      PROVE  /\ pc'[w] = label /\ copies'[w] = ps
             /\ \A v \in Worker \ {w} : pc'[v] = pc[v] /\ copies'[v] = copies[v]
  BY <1>1, <1>3 DEF Goto
<1>4. \A ns \in SUBSET Name : \A c \in Copies(ns) : c.oai =>
          /\ c.name \in Name /\ paper[c.name].oai
          /\ c.day = paper[c.name].day /\ c.deleted = paper[c.name].deleted
  <2> SUFFICES ASSUME NEW ns \in SUBSET Name, NEW c \in Copies(ns)
               PROVE  /\ c.name \in Name /\ c.oai = paper[c.name].oai
                      /\ c.day = paper[c.name].day /\ c.deleted = paper[c.name].deleted
    OBVIOUS
  <2>1. c = CopyOf(c.name) /\ c.name \in Name
    BY CopiesOfRows DEF HarvestInv
  <2>2. \A n \in Name : /\ CopyOf(n).oai = paper[n].oai /\ CopyOf(n).day = paper[n].day
                        /\ CopyOf(n).deleted = paper[n].deleted
    BY DEF CopyOf
  <2> QED BY <2>1, <2>2
<1>5. CASE PlanList(w)
  <2>1. PICK ns \in SUBSET Name :
          Goto(w, IF Missing(ns) = {} THEN "composing" ELSE "waiting", ns, Copies(ns))
    BY <1>2, <1>5 DEF PlanList
  <2> QED BY <1>3, <1>4, <1>5, <2>1, ReadsKeep DEF PlanList
<1>6. CASE AskUpstream(w)
  <2>1. PICK ns \in SUBSET Name : Goto(w, "holding", ns, {})
    BY <1>2, <1>6 DEF AskUpstream
  <2>2. copies'[w] = {}
    BY <1>3, <2>1
  <2> QED BY <1>1, <1>3, <1>6, <2>1, <2>2, ReadsKeep DEF AskUpstream
<1>7. CASE Win(w)
  <2>1. \/ wire' = wire /\ Goto(w, "composing", asks[w], Copies(asks[w]))
        \/ wire' = w /\ Goto(w, "holding", Missing(asks[w]), Copies(asks[w]))
    BY <1>7 DEF Win
  <2>2. asks[w] \in SUBSET Name
    BY <1>1
  <2>3. copies'[w] = Copies(asks[w]) /\ (wire' = wire \/ wire' = w)
        /\ \A v \in Worker \ {w} : pc'[v] = pc[v] /\ copies'[v] = copies[v]
    BY <1>3, <2>1
  <2> QED BY <1>1, <1>4, <1>7, <2>2, <2>3, ReadsKeep DEF Win
<1>8. CASE Fetch(w)
  <2>1. PICK ns \in SUBSET Name : Goto(w, "fetched", asks[w], copies[w] \cup Asked(ns))
    BY <1>1, <1>8 DEF Fetch
  <2>2. \A c \in Asked(ns) : ~c.oai
    BY AskedFit DEF HarvestInv
  <2>3. pc'[w] = "fetched" /\ copies'[w] = copies[w] \cup Asked(ns)
        /\ \A v \in Worker \ {w} : pc'[v] = pc[v] /\ copies'[v] = copies[v]
    BY <1>3, <2>1
  <2>4. pc[w] \in Under
    BY <1>8 DEF Fetch, Under
  <2> QED BY <1>8, <2>2, <2>3, <2>4, ReadsKeep DEF Fetch
<1>9. CASE Store(w)
  <2>1. /\ UpsertAll(copies[w]) /\ Goto(w, "idle", {}, {}) /\ pc[w] = "fetched"
        /\ wire' = Nobody /\ UNCHANGED <<record, arxiv, page, undone>>
    BY <1>9 DEF Store
  <2>2. ~undone' => \A n \in Name : paper'[n].day = paper[n].day
    BY <2>1, FetchedIsFresh
  <2> QED BY <1>1, <1>3, <2>1, <2>2, WritesKeep
<1>10. CASE Compose(w)
  <2>1. /\ UpsertAll(copies[w]) /\ Goto(w, "idle", {}, {})
        /\ undone' = (undone \/ \E n \in Name : ~Keeps(n))
        /\ UNCHANGED <<record, arxiv, wire, page>>
    BY <1>10 DEF Compose
  <2>2. ~undone' => ~undone /\ \A n \in Name : Keeps(n)
    BY <2>1
  <2>3. ~undone' => \A n \in Name : paper'[n].day = paper[n].day
    BY <2>1, <2>2, ComposedIsOld
  <2>4. undone => undone'
    BY <2>1
  <2> QED BY <1>3, <2>1, <2>3, <2>4, WritesKeep
<1>11. CASE Abandon(w)
  <2>1. Goto(w, "idle", {}, {}) /\ (wire' = Nobody \/ wire' = wire)
        /\ UNCHANGED <<paper, record, arxiv, page, undone>>
    BY <1>11 DEF Abandon
  <2>2. copies'[w] = {}
    BY <1>3, <2>1
  <2> QED BY <1>1, <1>3, <2>1, <2>2, ReadsKeep
<1> QED
  BY <1>5, <1>6, <1>7, <1>8, <1>9, <1>10, <1>11

\* Harvests and changes at arXiv.
LEMMA OthersKeep ==
    ASSUME HarvestInv, ListRecords \/ Checkpoint \/ HarvestFails \/ Change
    PROVE  HistoryInv'
<1>1. PICK said \in History : Truthful(said)
  BY DEF HarvestInv, HistoryInv
<1>2. /\ paper \in Table /\ record \in Record /\ page \in Record /\ arxiv \in Record
      /\ copies \in [Worker -> SUBSET Copy]
      /\ \A w \in Worker : pc[w] \in Under => wire = w
      /\ 0 .. MaxDay \subseteq Int /\ 0 \in 0 .. MaxDay
  BY FamilyAssumption DEF HarvestInv, FamilyInv, TypeOK, Table, Under
<1>3. Nobody # Harvest /\ Harvest \notin Worker
  BY FamilyAssumption
<1>4. CopiesOld /\ Fresh /\ PageNewest
  BY DEF HarvestInv, HistoryInv
<1>5. UNCHANGED <<pc, copies, undone>>
  BY DEF ListRecords, Checkpoint, HarvestFails, Change, workers
<1>6. CASE ListRecords
  <2>1. paper' = paper /\ record' = record /\ arxiv' = arxiv /\ page' = arxiv
    BY <1>6 DEF ListRecords
  <2>2. Truthful(said)'
    BY <1>1, <1>5, <2>1 DEF Truthful, Told
  <2>3. PageNewest'
    BY <1>1, <1>5, <2>1 DEF PageNewest, Truthful, Told
  <2>4. CopiesOld' /\ Fresh'
    BY <1>4, <1>5, <2>1 DEF CopiesOld, Fresh
  <2> QED BY <2>2, <2>3, <2>4 DEF HistoryInv
<1>7. CASE Checkpoint
  <2>1. wire = Harvest /\ wire' = Nobody /\ record' = page /\ page' = NoRecord /\ arxiv' = arxiv
    BY <1>7 DEF Checkpoint
  <2>2. \A n \in Name :
           \/ paper'[n] = paper[n]
           \/ /\ paper'[n].oai
              /\ paper'[n].day = page.day /\ paper'[n].deleted = page.deleted
    BY <1>7, CheckpointWrites DEF HarvestInv
  <2>3. Truthful(said)'
    BY <1>1, <1>5, <2>1, <2>2 DEF Truthful, Told
  <2>4. PageNewest'
    BY <1>3, <2>1 DEF PageNewest
  <2>5. Fresh'
    BY <1>2, <1>3, <1>5, <2>1 DEF Fresh, Under
  <2>6. CopiesOld'
    <3> SUFFICES ASSUME ~undone, NEW w \in Worker, NEW c \in copies[w], c.oai
                 PROVE  c.day <= paper'[c.name].day
      BY <1>5 DEF CopiesOld
    <3>1. c.name \in Name
      BY <1>2 DEF Copy
    <3>2. c.day <= paper[c.name].day /\ c.day <= page.day
      BY <1>4, <2>1 DEF CopiesOld, PageNewest
    <3> QED BY <2>2, <3>1, <3>2
  <2> QED BY <2>3, <2>4, <2>5, <2>6 DEF HistoryInv
<1>8. CASE HarvestFails
  <2>1. wire' = Nobody /\ page' = NoRecord /\ UNCHANGED <<paper, record, arxiv>>
    BY <1>8 DEF HarvestFails
  <2>2. Truthful(said)'
    BY <1>1, <1>5, <2>1 DEF Truthful, Told
  <2>3. PageNewest'
    BY <1>3, <2>1 DEF PageNewest
  <2>4. CopiesOld' /\ Fresh'
    BY <1>4, <1>5, <2>1 DEF CopiesOld, Fresh
  <2> QED BY <2>2, <2>3, <2>4 DEF HistoryInv
<1>9. CASE Change
  <2>1. /\ UNCHANGED <<paper, record, wire, page>>
        /\ arxiv'.day = arxiv.day + 1 /\ arxiv.day + 1 \in 0 .. MaxDay
    <3>1. arxiv.day < MaxDay /\ arxiv.day \in Int /\ UNCHANGED <<paper, record, wire, page>>
      BY <1>2, <1>9 DEF Change, Record
    <3>2. arxiv'.day = arxiv.day + 1
      BY <1>2, <1>9 DEF Change, Record
    <3> QED BY <1>2, <3>1, <3>2, FamilyAssumption DEF Record
  <2>2. arxiv'.deleted \in BOOLEAN
    BY <1>2, <1>9 DEF Change, Record
  <2>a. PICK heard \in History : heard = [said EXCEPT ![arxiv'.day] = arxiv'.deleted]
    BY <2>1, <2>2 DEF History
  <2>3. /\ heard[arxiv'.day] = arxiv'.deleted
        /\ \A d \in 0 .. MaxDay : d <= arxiv.day => heard[d] = said[d] /\ d <= arxiv'.day
    <3>1. arxiv.day \in Int
      BY <1>2 DEF Record
    <3> QED BY <1>2, <2>1, <2>2, <2>a, <3>1 DEF History
  <2>4. Truthful(heard)'
    <3>1. \A r : r.day \in 0 .. MaxDay /\ Told(r, said)
                     => r.day <= arxiv'.day /\ r.deleted = heard[r.day]
      BY <2>3 DEF Told
    <3>2. \A n \in Name : paper[n].oai => Told(paper[n], heard)'
      <4>1. \A n \in Name : paper[n].day \in 0 .. MaxDay
        BY <1>2 DEF Table, Row
      <4> QED BY <1>1, <2>1, <3>1, <4>1 DEF Truthful, Told
    <3>3. \A w \in Worker : \A c \in copies[w] : c.oai => Told(c, heard)'
      <4>1. \A w \in Worker : \A c \in copies[w] : c.day \in 0 .. MaxDay
        BY <1>2 DEF Copy
      <4> QED BY <1>1, <3>1, <4>1 DEF Truthful, Told
    <3>4. Told(record, heard)' /\ Told(page, heard)' /\ Told(NoRecord, heard)'
      <4>1. record.day \in 0 .. MaxDay /\ page.day \in 0 .. MaxDay /\ NoRecord.day \in 0 .. MaxDay
        BY <1>2 DEF Record, NoRecord
      <4> QED BY <1>1, <2>1, <3>1, <4>1 DEF Truthful, Told
    <3>5. Told(arxiv, heard)'
      BY <2>1, <2>3, <1>2 DEF Told, Record
    <3> QED BY <1>5, <2>1, <3>2, <3>3, <3>4, <3>5 DEF Truthful
  <2>5. PageNewest' /\ CopiesOld' /\ Fresh'
    BY <1>4, <1>5, <2>1 DEF PageNewest, CopiesOld, Fresh
  <2> QED BY <2>3, <2>4, <2>5 DEF HistoryInv
<1> QED
  BY <1>6, <1>7, <1>8, <1>9

LEMMA HarvestStep == HarvestInv /\ [Next]_vars => HarvestInv'
<1>1. ASSUME HarvestInv, UNCHANGED vars PROVE HistoryInv'
  <2>1. PICK said \in History : Truthful(said)
    BY <1>1 DEF HarvestInv, HistoryInv
  <2>2. Truthful(said)'
    BY <1>1, <2>1 DEF Truthful, Told, vars
  <2> QED BY <1>1, <2>2 DEF HarvestInv, HistoryInv, PageNewest, CopiesOld, Fresh, vars
<1>2. ASSUME HarvestInv, Next PROVE HistoryInv'
  BY <1>2, WorkerKeeps, OthersKeep DEF Next
<1> QED
  BY <1>1, <1>2, FamilyStep DEF HarvestInv

\* A row's tombstone is that of the record whose date it carries, although
\* copies of rows are written back long after they were read: all of them
\* report what arXiv said on that day.
THEOREM ProvenanceHolds == Spec => []ProvenanceExact
<1>1. ASSUME HarvestInv PROVE ProvenanceExact
  <2>1. PICK said \in History : Truthful(said)
    BY <1>1 DEF HarvestInv, HistoryInv
  <2> QED BY <2>1 DEF ProvenanceExact, Truthful, Told
<1> QED
  BY <1>1, HarvestInit, HarvestStep, PTL DEF Spec

\* Writing back the papers a plan knew undoes no harvest, because plan, fetch
\* and write are made under the lease that harvests write under.
THEOREM FetchKeeps == Spec => FetchKeepsHarvest
<1>1. ASSUME HarvestInv, [Next]_vars, NEW w \in Worker,
             ~undone, pc[w] = "fetched", pc'[w] = "idle", NEW n \in Name
      PROVE  Keeps(n)
  <2>1. /\ paper \in Table /\ pc \in [Worker -> Labels]
    BY <1>1 DEF HarvestInv, FamilyInv, TypeOK, Table, Labels
  <2>2. paper[n].day \in Int
    BY <2>1, FamilyAssumption DEF Table, Row
  <2>3. CASE paper' = paper
    BY <2>2, <2>3 DEF Keeps
  <2>4. CASE \E v \in Worker : Store(v)
    <3>1. PICK v \in Worker : Store(v)
      BY <2>4
    <3>2. pc[v] = "fetched" /\ UpsertAll(copies[v])
      BY <3>1 DEF Store
    <3> QED BY <1>1, <2>2, <3>2, FetchedIsFresh DEF Keeps
  <2>5. ASSUME NEW v \in Worker, Compose(v) PROVE FALSE
    <3>1. pc[v] = "composing" /\ pc' = [pc EXCEPT ![v] = "idle"]
      BY <2>5 DEF Compose, Goto
    <3> QED BY <1>1, <2>1, <3>1
  <2>6. ~Checkpoint
    BY <1>1 DEF Checkpoint, workers
  <2> QED
    BY <1>1, <2>3, <2>4, <2>5, <2>6
       DEF Next, vars, PlanList, AskUpstream, Win, Fetch, Abandon, ListRecords, HarvestFails, Change
<1>2. HarvestInv /\ [Next]_vars =>
         (\A w \in Worker : ~undone /\ pc[w] = "fetched" /\ pc'[w] = "idle"
             => \A n \in Name : Keeps(n))
  BY <1>1
<1> QED
  BY <1>2, HarvestInit, HarvestStep, PTL DEF Spec, FetchKeepsHarvest
====
