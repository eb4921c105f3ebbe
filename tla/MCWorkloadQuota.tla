-------------------------- MODULE MCWorkloadQuota --------------------------
(* Small instances of WorkloadQuota for TLC. *)
EXTENDS WorkloadQuota, TLC

CONSTANTS i1, i2

\* The first instance takes one GPU, the second one two.
OneAndTwo == [i \in {i1, i2} |-> IF i = i1 THEN 1 ELSE 2]
OneEach   == [i \in {i1} |-> 1]
=============================================================================
