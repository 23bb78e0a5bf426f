---- MODULE MCUpstreamLimiter ----
(***************************************************************************)
(* Instances of UpstreamLimiter for TLC: workers w1, w2 and one harvest.   *)
(***************************************************************************)
EXTENDS UpstreamLimiter, TLC

CONSTANTS w1, w2, h1
====
