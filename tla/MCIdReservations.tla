---- MODULE MCIdReservations ----
(***************************************************************************)
(* An instance of IdReservations for TLC: two lists that overlap.          *)
(***************************************************************************)
EXTENDS IdReservations, TLC

CONSTANTS a, b, c, ab, bc

Lists == (ab :> {a, b}) @@ (bc :> {b, c})
====
