---- MODULE ListMirror ----
(***************************************************************************)
(* What the harvests of a scope promise of the list they copy, with        *)
(* nothing said of jobs' cursors, of leases or of runs that die, resume or *)
(* overlap:                                                                *)
(*   - what is stored is a walk from the first page, a page at a time:     *)
(*     nothing is stored that no stored page leads to;                     *)
(*   - a job sends no more requests than its budget has;                   *)
(*   - the watermark moves forward only, to a day that has come, and not   *)
(*     before the whole list is stored;                                    *)
(*   - nor is a job completed before that.                                 *)
(* OaiHarvest implements it.                                               *)
(***************************************************************************)
EXTENDS Integers

CONSTANTS Cursor, None, Job, Lists, MaxRequests

VARIABLES
    list,        \* the list the server serves
    today,       \* the server's day
    stored,      \* the pages in the store, by the cursors that request them
    sent,        \* the requests of each job
    watermark,   \* the day up to which the store is said to be complete
    completed    \* the jobs that are said to be completed

vars == <<list, today, stored, sent, watermark, completed>>

Init ==
    /\ list \in Lists
    /\ today = 1
    /\ stored = {}
    /\ sent = [j \in Job |-> 0]
    /\ watermark = 0
    /\ completed = {}

\* The first page is stored, and with every page the next one.
Whole ==
    /\ None \in stored
    /\ \A c \in stored : list.next[c] = None \/ list.next[c] \in stored

Request(j) ==
    /\ sent[j] < MaxRequests
    /\ sent' = [sent EXCEPT ![j] = @ + 1]
    /\ UNCHANGED <<list, today, stored, watermark, completed>>

\* The first page, or the next one of a page that is there.
StorePage(c) ==
    /\ c = None \/ \E d \in stored : list.next[d] = c
    /\ stored' = stored \cup {c}
    /\ UNCHANGED <<list, today, sent, watermark, completed>>

Advance ==
    /\ Whole
    /\ watermark < watermark' /\ watermark' <= today
    /\ UNCHANGED <<list, today, stored, sent, completed>>

Complete(j) ==
    /\ Whole
    /\ watermark > 0
    /\ completed' = completed \cup {j}
    /\ UNCHANGED <<list, today, stored, sent, watermark>>

\* A run that did not notice writes another status over it.
Overwrite(j) ==
    /\ completed' = completed \ {j}
    /\ UNCHANGED <<list, today, stored, sent, watermark>>

Tomorrow ==
    /\ today' = today + 1
    /\ UNCHANGED <<list, stored, sent, watermark, completed>>

Next ==
    \/ \E j \in Job : Request(j) \/ Complete(j) \/ Overwrite(j)
    \/ \E c \in Cursor : StorePage(c)
    \/ Advance
    \/ Tomorrow

Spec == Init /\ [][Next]_vars
====
