------------------------ MODULE MCGatewayIdempotency ------------------------
(* A small instance of GatewayIdempotency for TLC. *)
EXTENDS GatewayIdempotency, TLC

CONSTANTS a1, a2, a3, b1

\* Three requests are retries of each other, the last one differs.
Retries == [r \in {a1, a2, a3, b1} |-> IF r = b1 THEN "b" ELSE "a"]
=============================================================================
