---- MODULE PaperFamilies ----
(***************************************************************************)
(* The rows of one paper in the paper store (src/src/huldra/db.py): the    *)
(* base row that a harvest makes, and the rows of single versions that     *)
(* legacy answers make.  Harvests, searches, requests for IDs and answers  *)
(* composed from the store write them in any order; each write is one      *)
(* transaction, over papers that were read or fetched earlier.             *)
(*                                                                         *)
(* Fetches, of workers and of harvests, and the writes of what they        *)
(* brought are made under the upstream lease (UpstreamLimiter); nobody is  *)
(* suspended past it here.  What is composed from the store is not.        *)
(* Legacy answers name a version, OAI records name the base.               *)
(***************************************************************************)
EXTENDS Integers, FiniteSets

CONSTANTS
    Worker,      \* workers and callers of ensure
    Nobody,      \* the upstream lease is free
    Harvest,     \* ... or a harvest has it
    MaxVersion,  \* bound on the versions published
    MaxDay       \* bound on the changes of the paper at arXiv

ASSUME FamilyAssumption ==
    /\ MaxVersion \in Nat \ {0}
    /\ MaxDay \in Nat \ {0}
    /\ Nobody \notin Worker /\ Harvest \notin Worker /\ Nobody # Harvest

Base == 0
Version == 1 .. MaxVersion
Name == 0 .. MaxVersion

VARIABLES
    paper,   \* papers: the rows of the family
    record,  \* oai_records: the last OAI record
    arxiv,   \* external: the paper at arXiv
    wire,    \* who may talk to arXiv: the lease `upstream_fetch`
    page,    \* the record a harvest has fetched
    pc,      \* where each worker is
    asks,    \* the names it was asked for
    copies,  \* papers_by_id, or the papers it is to write
    undone   \* ghost: a composed answer has put back what a harvest replaced

workers == <<pc, asks, copies>>
vars == <<paper, record, arxiv, wire, page, pc, asks, copies, undone>>

\* day is oai_datestamp; holds, the version that title and abstract are of.
Row == [stored : BOOLEAN, oai : BOOLEAN, day : 0 .. MaxDay, deleted : BOOLEAN,
        holds : 0 .. MaxVersion]

Absent == [stored |-> FALSE, oai |-> FALSE, day |-> 0, deleted |-> FALSE, holds |-> 0]

\* An ArxivPaper in memory.
Copy == [name : Name, oai : BOOLEAN, day : 0 .. MaxDay, deleted : BOOLEAN,
         holds : 0 .. MaxVersion]

CopyOf(n) == [name |-> n, oai |-> paper[n].oai, day |-> paper[n].day,
              deleted |-> paper[n].deleted, holds |-> paper[n].holds]

\* What the Atom parser makes of version v.
Fetched(v) == [name |-> v, oai |-> FALSE, day |-> 0, deleted |-> FALSE, holds |-> v]

Record == [day : 0 .. MaxDay, deleted : BOOLEAN, holds : 0 .. MaxVersion]
NoRecord == [day |-> 0, deleted |-> FALSE, holds |-> 0]

Init ==
    /\ paper = [n \in Name |-> Absent]
    /\ record = NoRecord
    /\ arxiv = [NoRecord EXCEPT !.day = 1, !.holds = 1]
    /\ wire = Nobody
    /\ page = NoRecord
    /\ pc = [w \in Worker |-> "idle"]
    /\ asks = [w \in Worker |-> {}]
    /\ copies = [w \in Worker |-> {}]
    /\ undone = FALSE

-----------------------------------------------------------------------------
(* Rows.                                                                   *)

Versions(table) == {v \in Version : table[v].stored}

\* The version with the greatest _version_family_merge_preference.
Latest(table) == {v \in Versions(table) : \A u \in Versions(table) : u <= v}

\* Mutant: a legacy version is stored beside the base row.
LegacyTargetOwn(table, p) == p.name

\* _legacy_paper_for_existing_oai_base_row
LegacyTarget(table, p) ==
    IF ~p.oai /\ p.name # Base /\ table[Base].stored /\ table[Base].oai /\ Versions(table) = {}
    THEN Base
    ELSE p.name

\* Mutant: the deleted flag is taken from whoever writes.
WrittenFlag(old, p) ==
    [stored |-> TRUE, holds |-> p.holds, deleted |-> p.deleted,
     oai |-> p.oai \/ old.oai,
     day |-> IF p.oai THEN p.day ELSE old.day]

\* Mutant: the OAI columns are those of the last writer.
WrittenLast(old, p) ==
    [stored |-> TRUE, holds |-> p.holds, deleted |-> p.deleted, oai |-> p.oai, day |-> p.day]

\* The ON CONFLICT clause: a paper without OAI identifier leaves the OAI
\* columns and the deleted flag alone.
Written(old, p) ==
    [stored |-> TRUE, holds |-> p.holds,
     deleted |-> IF p.oai \/ ~old.stored THEN p.deleted ELSE old.deleted,
     oai |-> p.oai \/ old.oai,
     day |-> IF p.oai THEN p.day ELSE old.day]

\* _upsert_paper_conn
Upsert(table, p) ==
    LET n == LegacyTarget(table, p) IN [table EXCEPT ![n] = Written(@, p)]

\* One transaction upserts the papers of an answer in its order.
UpsertAll(ps) ==
    \E p, q \in ps : ps = {p, q} /\ paper' = Upsert(Upsert(paper, p), q)

\* Mutant: a record is merged into the oldest version.
OaiTargetOldest ==
    IF Versions(paper) = {} THEN Base
    ELSE CHOOSE v \in Versions(paper) : \A u \in Versions(paper) : v <= u

\* _oai_paper_for_existing_version_family
OaiTarget ==
    IF paper[Base].stored \/ Versions(paper) = {} THEN Base
    ELSE CHOOSE v \in Latest(paper) : TRUE

\* The row that answers for a name, if there is one: get_papers_by_ids and
\* get_paper.
Answers(n) ==
    CASE paper[n].stored -> {n}
      [] ~paper[n].stored /\ n # Base ->
            IF paper[Base].stored /\ paper[Base].oai THEN {Base} ELSE {}
      [] ~paper[n].stored /\ n = Base -> Latest(paper)

Known(ns) == UNION {Answers(n) : n \in ns}
Missing(ns) == {n \in ns : Answers(n) = {}}

-----------------------------------------------------------------------------
(* Workers.                                                                *)

Goto(w, label, ns, ps) ==
    /\ pc' = [pc EXCEPT ![w] = label]
    /\ asks' = [asks EXCEPT ![w] = ns]
    /\ copies' = [copies EXCEPT ![w] = ps]

Copies(ns) == {CopyOf(n) : n \in Known(ns)}

\* _plan_id_list_fetch, and _try_compose_cached_id_list up to its write.
PlanList(w) ==
    /\ pc[w] = "idle"
    /\ \E ns \in SUBSET (Base .. arxiv.holds) :
          /\ Cardinality(ns) \in {1, 2}
          /\ Goto(w, IF Missing(ns) = {} THEN "composing" ELSE "waiting", ns, Copies(ns))
    /\ UNCHANGED <<paper, record, arxiv, wire, page, undone>>

\* A search that finds the paper, or the refresh of a list of IDs: neither
\* has a plan.
AskUpstream(w) ==
    /\ pc[w] = "idle" /\ wire = Nobody
    /\ wire' = w
    /\ \E ns \in SUBSET (Base .. arxiv.holds) :
          Cardinality(ns) \in {1, 2} /\ Goto(w, "holding", ns, {})
    /\ UNCHANGED <<paper, record, arxiv, page, undone>>

\* Mutant: the plan is not made again under the lease.
WinBlind(w) ==
    /\ pc[w] = "waiting" /\ wire = Nobody
    /\ wire' = w
    /\ Goto(w, "holding", Missing(asks[w]) \cup (asks[w] \ {c.name : c \in copies[w]}), copies[w])
    /\ UNCHANGED <<paper, record, arxiv, page, undone>>

\* before_request, then _revalidate_id_list_fetch_plan, at the two gates.
Win(w) ==
    /\ pc[w] = "waiting" /\ wire = Nobody
    /\ IF Missing(asks[w]) = {}
       THEN UNCHANGED wire /\ Goto(w, "composing", asks[w], Copies(asks[w]))
       ELSE wire' = w /\ Goto(w, "holding", Missing(asks[w]), Copies(asks[w]))
    /\ UNCHANGED <<paper, record, arxiv, page, undone>>

\* The versions that are asked for by name; the base name brings the latest.
Asked(ns) == {Fetched(v) : v \in ns \ {Base}}
             \cup {Fetched(arxiv.holds) : n \in ns \cap {Base}}

\* The answer, with what the plan knew: both are written. The base name is
\* filled by the first version of the answer.
Fetch(w) ==
    /\ pc[w] = "holding"
    /\ \E ns \in {asks[w], asks[w] \ {Base}} \ {{}} :
          Goto(w, "fetched", asks[w], copies[w] \cup Asked(ns))
    /\ UNCHANGED <<paper, record, arxiv, wire, page, undone>>

\* Mutant: the lease is left to run out.
StoreOnly(w) ==
    /\ pc[w] = "fetched"
    /\ UpsertAll(copies[w])
    /\ Goto(w, "idle", {}, {})
    /\ UNCHANGED <<record, arxiv, wire, page, undone>>

\* record_completed_cache_entry, and then after_success.
Store(w) ==
    /\ pc[w] = "fetched"
    /\ UpsertAll(copies[w])
    /\ wire' = Nobody
    /\ Goto(w, "idle", {}, {})
    /\ UNCHANGED <<record, arxiv, page, undone>>

\* The row n still says what the last harvest of it said.
Keeps(n) == paper'[n].day >= paper[n].day /\ (paper[n].deleted => paper'[n].deleted)

\* record_completed_cache_entry for an answer made from the store alone.
Compose(w) ==
    /\ pc[w] = "composing"
    /\ UpsertAll(copies[w])
    /\ undone' = (undone \/ \E n \in Name : ~Keeps(n))
    /\ Goto(w, "idle", {}, {})
    /\ UNCHANGED <<record, arxiv, wire, page>>

\* The plan is blocked, the fetch fails, or the worker dies (and its lease
\* runs out).
Abandon(w) ==
    /\ pc[w] # "idle"
    /\ wire' = IF wire = w THEN Nobody ELSE wire
    /\ Goto(w, "idle", {}, {})
    /\ UNCHANGED <<paper, record, arxiv, page, undone>>

-----------------------------------------------------------------------------
(* Harvests.                                                               *)

ListRecords ==
    /\ wire = Nobody
    /\ wire' = Harvest
    /\ page' = arxiv
    /\ UNCHANGED <<paper, record, arxiv, workers, undone>>

\* _upsert_oai_records_conn, called by checkpoint_oai_page. A deleted record
\* marks every row of the family.
Checkpoint ==
    /\ wire = Harvest
    /\ wire' = Nobody
    /\ page' = NoRecord
    /\ record' = page
    /\ paper' = IF page.deleted
                THEN [n \in Name |->
                        IF paper[n].stored
                        THEN [paper[n] EXCEPT !.oai = TRUE, !.day = page.day, !.deleted = TRUE]
                        ELSE paper[n]]
                ELSE Upsert(paper, [name |-> OaiTarget, oai |-> TRUE, day |-> page.day,
                                    deleted |-> FALSE, holds |-> page.holds])
    /\ UNCHANGED <<arxiv, workers, undone>>

HarvestFails ==
    /\ wire = Harvest
    /\ wire' = Nobody
    /\ page' = NoRecord
    /\ UNCHANGED <<paper, record, arxiv, workers, undone>>

-----------------------------------------------------------------------------
(* arXiv.                                                                  *)

\* A change of the paper: a new version, a deletion, a return.
Change ==
    /\ arxiv.day < MaxDay
    /\ \/ /\ ~arxiv.deleted /\ arxiv.holds < MaxVersion
          /\ arxiv' = [arxiv EXCEPT !.day = @ + 1, !.holds = @ + 1]
       \/ arxiv' = [arxiv EXCEPT !.day = @ + 1, !.deleted = ~@]
    /\ UNCHANGED <<paper, record, wire, page, workers, undone>>

Next ==
    \/ \E w \in Worker :
          \/ PlanList(w) \/ AskUpstream(w) \/ Win(w) \/ Fetch(w) \/ Store(w)
          \/ Compose(w) \/ Abandon(w)
    \/ ListRecords \/ Checkpoint \/ HarvestFails
    \/ Change

Spec == Init /\ [][Next]_vars

-----------------------------------------------------------------------------
(* Properties.                                                             *)

TypeOK ==
    /\ paper \in [Name -> Row]
    /\ record \in Record /\ arxiv \in Record /\ page \in Record
    /\ wire \in Worker \cup {Nobody, Harvest}
    /\ \A w \in Worker : wire = w <=> pc[w] \in {"holding", "fetched"}
    /\ pc \in [Worker -> {"idle", "composing", "waiting", "holding", "fetched"}]
    /\ asks \in [Worker -> SUBSET Name]
    /\ copies \in [Worker -> SUBSET Copy]
    /\ undone \in BOOLEAN

\* "merging version-family rows in both directions" (CHANGELOG.md:103-104):
\* in whatever order they come, a family has one row that a harvest made for
\* the base name, or rows of versions, and never both.
OneShape ==
    paper[Base].stored => paper[Base].oai /\ Versions(paper) = {}

\* An ID that could be read once can be read for ever, although rows are
\* merged under other names: a composed answer never loses a paper.
AliasesLast ==
    [][\A n \in Name : Answers(n) # {} => Answers(n)' # {}]_vars

\* Date and tombstone of a row come from one record: a row that carries the
\* date of the last record agrees with it.
ProvenanceExact ==
    \A n \in Name : paper[n].oai /\ paper[n].day = record.day
                        => paper[n].deleted = record.deleted

\* What a harvest has said is what a reader of the base name is told next,
\* wherever the record was merged.
HarvestVisible ==
    [][Checkpoint => \A n \in Answers(Base)' :
          paper'[n].oai /\ paper'[n].day = record'.day /\ paper'[n].deleted = record'.deleted]_vars

\* A worker that fetches undoes nothing a harvest has stored, though it
\* writes back what it knew of other papers before its fetch.
FetchKeepsHarvest ==
    [][\A w \in Worker : ~undone /\ pc[w] = "fetched" /\ pc'[w] = "idle"
          => \A n \in Name : Keeps(n)]_vars

\* Mixed records are reconciled "by preserving OAI provenance and tombstones"
\* (CHANGELOG.md:103-104): an answer composed from the store, which reads the
\* papers in one transaction and writes them back in another, clears no
\* tombstone.
ComposeKeepsTombstone ==
    [][\A w \in Worker : pc[w] = "composing" /\ pc'[w] = "idle"
          => \A n \in Name : paper[n].deleted => paper'[n].deleted]_vars
====
