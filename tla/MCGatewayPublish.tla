-------------------------- MODULE MCGatewayPublish --------------------------
(***************************************************************************)
(* GatewayPublish for TLC: two publishers and the smallest lease that      *)
(* LoadConfig accepts.  No symmetry set, because the run checks liveness.  *)
(***************************************************************************)
EXTENDS GatewayPublish
=============================================================================
