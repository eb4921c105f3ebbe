------------------------- MODULE MCInferenceService -------------------------
(* Small instances of InferenceService for TLC. *)
EXTENDS InferenceService, TLC

\* Worker replicas and API replicas are interchangeable.
Symmetry == Permutations(Workers) \cup Permutations(Clients)
=============================================================================
