---- MODULE PacedUpstream ----
(***************************************************************************)
(* What Huldra's upstream limiter promises to arXiv, with nothing said of  *)
(* leases, of SQLite or of the order in which processes touch it:          *)
(*   - at most one request is in flight;                                   *)
(*   - a request starts no earlier than Interval after the last answer the *)
(*     limiter accounted for, and no earlier than the cooldown in force;   *)
(*   - the accounts change only while nothing is in flight, and a cooldown *)
(*     that still runs is never shortened.                                 *)
(* UpstreamLimiter implements it.                                          *)
(***************************************************************************)
EXTENDS Integers

CONSTANTS Proc, Interval

VARIABLES
    clock,       \* the time
    flying,      \* the processes whose HTTP request is on the wire
    accounted,   \* when the last answer the limiter recorded came back
    cooldown     \* no request starts before this time

vars == <<clock, flying, accounted, cooldown>>

Init ==
    /\ clock = 0
    /\ flying = {}
    /\ accounted = 0 - Interval
    /\ cooldown = 0

\* A process puts its request on the wire.
Start(p) ==
    /\ flying = {}
    /\ clock >= accounted + Interval
    /\ clock >= cooldown
    /\ flying' = {p}
    /\ UNCHANGED <<clock, accounted, cooldown>>

\* The request in flight ends: an answer, an error, or the death of its process.
Land ==
    /\ flying # {}
    /\ flying' = {}
    /\ UNCHANGED <<clock, accounted, cooldown>>

\* The limiter records an answer. It may set, prolong or, once it has run
\* out, clear the cooldown.
Account ==
    /\ flying = {}
    /\ accounted <= accounted'
    /\ accounted' <= clock
    /\ \/ cooldown <= clock
       \/ cooldown <= cooldown'
    /\ UNCHANGED <<clock, flying>>

Advance ==
    /\ clock' = clock + 1
    /\ UNCHANGED <<flying, accounted, cooldown>>

Next ==
    \/ \E p \in Proc : Start(p)
    \/ Land
    \/ Account
    \/ Advance

Spec == Init /\ [][Next]_vars
====
