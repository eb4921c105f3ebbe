--------------------------- MODULE MCModelImport ---------------------------
(* Small instances of ModelImport for TLC. *)
EXTENDS ModelImport, TLC

CONSTANTS h1, h2, r1, r2

\* The NATS handler and the recovery loop of one process.
OneProcess == [h \in Handlers |-> "w1"]

=============================================================================
