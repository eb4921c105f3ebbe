---------------------------- MODULE MCMetering ----------------------------
(* Small instances of Metering for TLC. *)
EXTENDS Metering, TLC

CONSTANTS i1, w1, w2, p1, p2

\* Transactions and publishers are alike; no liveness is checked with this.
Alike == Permutations(Writers) \cup Permutations(Publishers)
=============================================================================
