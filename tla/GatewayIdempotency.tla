------------------------- MODULE GatewayIdempotency -------------------------
(***************************************************************************)
(* The idempotency middleware of the gateway                               *)
(* (services/ani-gateway/internal/middleware/idempotency.go): the requests *)
(* that arrive with one idempotency key for one identity, method and path, *)
(* at any number of gateway replicas, and the records of the key in the    *)
(* shared cache.  Two requests with the key may differ (print stands for   *)
(* the fingerprint).  On the path that issues sandbox tokens a second      *)
(* record, the tombstone, outlives the answer.                             *)
(*                                                                         *)
(* A cache call is one step; one that fails may have been carried out.     *)
(* Records live for 24 hours, an answer with a token as long as its token. *)
(***************************************************************************)
EXTENDS Naturals

CONSTANTS
    Requests,   \* requests with the key
    Fingerprint,      \* the fingerprint of each request
    None        \* no fingerprint, no request

ASSUME NoneAssumption == None \notin Requests /\ \A r \in Requests : Fingerprint[r] # None

VARIABLES
    issues,     \* does the path issue sandbox tokens?
    entry,      \* the record of the key
    tombstone,  \* the fingerprint in the record ":metadata" of the key
    pc,         \* what the middleware does for each request
    out,        \* what the handler has answered to each request
    answer,     \* what the client is told
    kept        \* history: answers below 500 of these 24 hours, without those
                \* the cache has refused to keep

vars == <<issues, entry, tombstone, pc, out, answer, kept>>

Owning == {"next", "bury", "keep", "drop"}
Resting == {"idle", "done", "dead"}
Final == {"ok", "refused"}      \* answers below 500

NoEntry == [state |-> "absent", print |-> None, body |-> None]
NoAnswer == [kind |-> "none", of |-> None]

Init ==
    /\ issues \in BOOLEAN
    /\ entry = NoEntry
    /\ tombstone = None
    /\ pc = [r \in Requests |-> "idle"]
    /\ out = [r \in Requests |-> "none"]
    /\ answer = [r \in Requests |-> NoAnswer]
    /\ kept = {}

Goes(r, place) == pc' = [pc EXCEPT ![r] = place]

Tells(r, kind, q) ==
    /\ Goes(r, "done")
    /\ answer' = [answer EXCEPT ![r] = [kind |-> kind, of |-> q]]

Arrive(r) ==
    /\ pc[r] = "idle" /\ Goes(r, "read")
    /\ UNCHANGED <<issues, entry, tombstone, out, answer, kept>>

-----------------------------------------------------------------------------
(***************************************************************************)
(* Before the handler.                                                     *)
(***************************************************************************)
\* Mutant: the fingerprint is not compared.
MeetAnyone(r) ==
    IF entry.state = "completed" THEN Tells(r, "replay", entry.body)
    ELSE Tells(r, "in progress", None)

\* There is a record: somebody was here before.
Meet(r) ==
    \/ entry.print # Fingerprint[r] /\ Tells(r, "reused", None)
    \/ /\ entry.print = Fingerprint[r]
       /\ IF entry.state = "completed" THEN Tells(r, "replay", entry.body)
          ELSE Tells(r, "in progress", None)

Read(r) ==
    /\ pc[r] = "read"
    /\ \/ entry # NoEntry /\ Meet(r)
       \/ /\ entry = NoEntry /\ UNCHANGED answer
          /\ Goes(r, IF issues THEN "metadata" ELSE "claim")
    /\ UNCHANGED <<issues, entry, tombstone, out, kept>>

ReadMetadata(r) ==
    /\ pc[r] = "metadata"
    /\ \/ tombstone = None /\ Goes(r, "claim") /\ UNCHANGED answer
       \/ tombstone = Fingerprint[r] /\ Tells(r, "expired", None)
       \/ tombstone \notin {None, Fingerprint[r]} /\ Tells(r, "reused", None)
    /\ UNCHANGED <<issues, entry, tombstone, out, kept>>

Processing(r) == [state |-> "processing", print |-> Fingerprint[r], body |-> None]

\* Mutant: SET in place of SETNX.
ClaimOver(r) ==
    /\ pc[r] = "claim"
    /\ entry' = Processing(r) /\ Goes(r, "next")
    /\ UNCHANGED <<issues, tombstone, out, answer, kept>>

Claim(r) ==
    /\ pc[r] = "claim"
    /\ \/ entry = NoEntry /\ entry' = Processing(r) /\ Goes(r, "next")
       \/ entry # NoEntry /\ Goes(r, "reread") /\ UNCHANGED entry
    /\ UNCHANGED <<issues, tombstone, out, answer, kept>>

Reread(r) ==
    /\ pc[r] = "reread"
    /\ \/ entry # NoEntry /\ Meet(r)
       \/ Tells(r, "in progress", None)     \* gone, or the read fails
    /\ UNCHANGED <<issues, entry, tombstone, out, kept>>

\* A failing SETNX may have left a record that nobody owns.
CacheFails(r) ==
    /\ pc[r] \in {"read", "metadata", "claim"}
    /\ Tells(r, "unavailable", None)
    /\ \/ UNCHANGED entry
       \/ pc[r] = "claim" /\ entry = NoEntry /\ entry' = Processing(r)
    /\ UNCHANGED <<issues, tombstone, out, kept>>

-----------------------------------------------------------------------------
(***************************************************************************)
(* The handler, and what is kept of its answer.                            *)
(***************************************************************************)
AfterNext(result) ==
    IF result = "error" THEN "drop" ELSE IF result = "ok" /\ issues THEN "bury" ELSE "keep"

Execute(r, result) ==
    /\ pc[r] = "next"
    /\ out' = [out EXCEPT ![r] = result]
    /\ kept' = IF result \in Final THEN kept \cup {r} ELSE kept
    /\ Goes(r, AfterNext(result))
    /\ UNCHANGED <<issues, entry, tombstone, answer>>

\* Mutant: only the answer is kept, as on any other path.
KeepNoTombstone(r) ==
    /\ pc[r] = "bury" /\ Goes(r, "keep")
    /\ UNCHANGED <<issues, entry, tombstone, out, answer, kept>>

Bury(r) ==
    /\ pc[r] = "bury"
    /\ tombstone' = Fingerprint[r] /\ Goes(r, "keep")
    /\ UNCHANGED <<issues, entry, out, answer, kept>>

Completed(r) == [state |-> "completed", print |-> Fingerprint[r], body |-> r]

Keep(r) ==
    /\ pc[r] = "keep"
    /\ entry' = Completed(r)
    /\ Tells(r, "own", r)
    /\ UNCHANGED <<issues, tombstone, out, kept>>

\* The tombstone or the answer cannot be stored, or its answer is lost.
KeepFails(r) ==
    /\ Goes(r, "drop") /\ kept' = kept \ {r}
    /\ \/ /\ pc[r] = "bury" /\ tombstone' \in {tombstone, Fingerprint[r]} /\ UNCHANGED entry
       \/ /\ pc[r] = "keep" /\ entry' \in {entry, Completed(r)} /\ UNCHANGED tombstone
    /\ UNCHANGED <<issues, out, answer>>

\* Delete; its error is ignored.
Drop(r) ==
    /\ pc[r] = "drop"
    /\ entry' \in {entry, NoEntry}
    /\ Tells(r, "own", r)
    /\ UNCHANGED <<issues, tombstone, out, kept>>

\* The gateway dies or the handler panics: nothing is cleaned up.
Die(r) ==
    /\ pc[r] \notin Resting
    /\ Goes(r, "dead")
    /\ UNCHANGED <<issues, entry, tombstone, out, answer, kept>>

-----------------------------------------------------------------------------
(***************************************************************************)
(* Time.  A token, like the 24 hours, lives longer than a request takes    *)
(* from its reads to the end of its work.                                  *)
(***************************************************************************)
Settled == \A r \in Requests : pc[r] \in Resting \cup {"read", "reread"}

HoldsToken == issues /\ entry.state = "completed" /\ out[entry.body] = "ok"

TokenExpires ==
    /\ Settled
    /\ HoldsToken
    /\ entry' = NoEntry
    /\ UNCHANGED <<issues, tombstone, pc, out, answer, kept>>

\* Mutant: a record in state processing has no TTL.
OnlyAnswersExpire ==
    /\ Settled
    /\ entry.state = "completed" /\ ~HoldsToken
    /\ entry' = NoEntry /\ kept' = {}
    /\ UNCHANGED <<issues, tombstone, pc, out, answer>>

EntryExpires ==
    /\ Settled
    /\ entry # NoEntry /\ ~HoldsToken
    /\ entry' = NoEntry /\ kept' = {}
    /\ UNCHANGED <<issues, tombstone, pc, out, answer>>

\* It was written after the claim, and a token lives for an hour at most.
TombstoneExpires ==
    /\ Settled
    /\ tombstone # None /\ entry = NoEntry
    /\ tombstone' = None /\ kept' = {}
    /\ UNCHANGED <<issues, entry, pc, out, answer>>

Work(r) ==
    \/ Read(r) \/ ReadMetadata(r) \/ Claim(r) \/ Reread(r)
    \/ \E result \in Final \cup {"error"} : Execute(r, result)
    \/ Bury(r) \/ Keep(r) \/ KeepFails(r) \/ Drop(r)

Next ==
    \/ \E r \in Requests : Arrive(r) \/ Work(r) \/ CacheFails(r) \/ Die(r)
    \/ TokenExpires \/ EntryExpires \/ TombstoneExpires

Spec == Init /\ [][Next]_vars

(* A request at work goes on, and the 24 hours end.                        *)
Fairness == (\A r \in Requests : WF_vars(Work(r))) /\ WF_vars(EntryExpires)

LiveSpec == Spec /\ Fairness

-----------------------------------------------------------------------------
Places == {"read", "metadata", "claim", "reread"} \cup Owning \cup Resting
Prints == {Fingerprint[r] : r \in Requests}
Kinds == {"none", "own", "replay", "reused", "expired", "in progress", "unavailable"}

Entries == [state : {"absent", "processing", "completed"},
            print : Prints \cup {None}, body : Requests \cup {None}]

(* The shape of the state.                                                 *)
TypeOK ==
    /\ issues \in BOOLEAN
    /\ entry \in Entries
    /\ tombstone \in Prints \cup {None}
    /\ pc \in [Requests -> Places]
    /\ out \in [Requests -> Final \cup {"none", "error"}]
    /\ answer \in [Requests -> [kind : Kinds, of : Requests \cup {None}]]
    /\ kept \in SUBSET Requests

(***************************************************************************)
(* No two requests with the key are between SETNX and the end of their     *)
(* work: the handler never runs twice side by side, and no request deletes *)
(* or overwrites the record of another one (SETNX is the only way in,      *)
(* idempotency.go:87).                                                     *)
(***************************************************************************)
OneOwner ==
    \A r, q \in Requests : pc[r] \in Owning /\ pc[q] \in Owning => r = q

(***************************************************************************)
(* Within 24 hours the handler gives at most one answer below 500 that the *)
(* cache has not refused to keep: neither a retry that read before the     *)
(* claim of another one, nor a death between answer and record, nor the    *)
(* end of a token makes it run again (idempotency.go:52-135).              *)
(***************************************************************************)
ExecutedOnce == \A r, q \in kept : r = q

(***************************************************************************)
(* What a retry is told is true: a replay is an answer below 500 to the    *)
(* same request, and "expired" follows a token issued for the same request *)
(* (idempotency_test.go:94, :149, :202).                                   *)
(***************************************************************************)
AnswersAreTrue ==
    \A r \in Requests :
        /\ answer[r].kind = "replay" =>
               /\ answer[r].of \in Requests /\ out[answer[r].of] \in Final
               /\ Fingerprint[answer[r].of] = Fingerprint[r]
        /\ answer[r].kind = "expired" =>
               \E q \in Requests : out[q] = "ok" /\ Fingerprint[q] = Fingerprint[r]

(***************************************************************************)
(* A key is not blocked for ever: a record whose request has died stops    *)
(* refusing the retries (idempotencyTTL, idempotency.go:19).               *)
(***************************************************************************)
KeyIsFreed == entry.state = "processing" ~> entry.state # "processing"
=============================================================================
