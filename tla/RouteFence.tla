----------------------------- MODULE RouteFence -----------------------------
(***************************************************************************)
(* What the AI Gateway publisher promises to the inference reconciler.     *)
(*                                                                         *)
(* The reconciler stops, restarts or deletes a runtime only after the      *)
(* publication row says that the route of this generation is withdrawn     *)
(* (repository.PublicationWithdrawn).  The promise behind that row is      *)
(* about the cluster: once withdrawal is confirmed, and until somebody     *)
(* asks for the route again, no gateway object of the service exists.      *)
(***************************************************************************)
VARIABLES
    wanted,     \* is the route asked for (publication_desired)?
    confirmed,  \* has the current request been confirmed in the row?
    objects     \* the gateway objects of the service that exist

fenceVars == <<wanted, confirmed, objects>>

CONSTANT Kinds

FenceInit ==
    /\ wanted = FALSE
    /\ confirmed = TRUE
    /\ objects = {}

(***************************************************************************)
(* A stop, restart or delete is recorded, or a runtime became ready: the   *)
(* request changes and nothing is confirmed any more.                      *)
(***************************************************************************)
Ask ==
    /\ wanted' \in BOOLEAN
    /\ confirmed' = FALSE
    /\ UNCHANGED objects

(***************************************************************************)
(* An object appears or disappears.  Withdrawal that has been confirmed is *)
(* final until the next request.                                           *)
(***************************************************************************)
ChangeObjects ==
    /\ ~(confirmed /\ ~wanted)
    /\ objects' \in SUBSET Kinds
    /\ UNCHANGED <<wanted, confirmed>>

(***************************************************************************)
(* Withdrawal may be confirmed only when nothing is left, publication only *)
(* when every object is there.                                             *)
(***************************************************************************)
Confirm ==
    /\ ~confirmed
    /\ objects = IF wanted THEN Kinds ELSE {}
    /\ confirmed' = TRUE
    /\ UNCHANGED <<wanted, objects>>

FenceNext == Ask \/ ChangeObjects \/ Confirm

FenceSpec == FenceInit /\ [][FenceNext]_fenceVars

(***************************************************************************)
(* The fact the reconciler relies on.                                      *)
(***************************************************************************)
WithdrawnMeansGone == (confirmed /\ ~wanted) => objects = {}
=============================================================================
