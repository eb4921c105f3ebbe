---------------------- MODULE GatewayIdempotencyProofs ----------------------
(***************************************************************************)
(* Theorems about GatewayIdempotency, for any set of requests.             *)
(***************************************************************************)
EXTENDS GatewayIdempotency, TLAPS

-----------------------------------------------------------------------------
(* The inductive invariant.                                                *)

\* The handler has not answered before the request comes to it, and where the
\* request goes afterwards depends on its answer.
OutInv ==
    \A r \in Requests :
        /\ pc[r] \in {"idle", "read", "metadata", "claim", "reread", "next"} => out[r] = "none"
        /\ pc[r] = "bury" => out[r] = "ok"
        /\ pc[r] = "keep" => out[r] \in Final

\* The record of the key is the owner's.
OwnerInv ==
    \A r \in Requests :
        /\ pc[r] \in {"next", "bury", "keep"} => entry = Processing(r)
        /\ pc[r] = "drop" => entry \in {Processing(r), Completed(r)}

\* The records tell the truth.
RecordInv ==
    /\ entry.state = "completed" =>
           \E q \in Requests : entry = Completed(q) /\ out[q] \in Final
    /\ entry.state = "absent" => entry = NoEntry
    /\ tombstone # None =>
           \E q \in Requests : out[q] = "ok" /\ Fingerprint[q] = tombstone

\* An answer that is kept bars the way to the handler: by its record, or by the
\* tombstone when nobody has got past it.
BarInv ==
    /\ \A q \in Requests : pc[q] \in {"next", "drop"} => kept = {}
    /\ \A q \in Requests : pc[q] \in {"bury", "keep"} => q \in kept
    /\ \A r \in kept :
        /\ entry \in {NoEntry, Processing(r), Completed(r)}
        /\ entry = NoEntry =>
               issues /\ tombstone # None /\ \A q \in Requests : pc[q] # "claim"
        /\ issues /\ out[r] = "ok" /\ (pc[r] = "keep" \/ entry = Completed(r)) => tombstone # None

IInv ==
    /\ TypeOK /\ OutInv /\ OwnerInv /\ RecordInv /\ BarInv
    /\ OneOwner /\ ExecutedOnce /\ AnswersAreTrue
-----------------------------------------------------------------------------
(* The records differ from each other.                                     *)
LEMMA Records ==
    ASSUME NEW r \in Requests
    PROVE  /\ Processing(r) # NoEntry /\ Completed(r) # NoEntry
           /\ Processing(r).state = "processing" /\ Completed(r).state = "completed"
           /\ NoEntry.state = "absent"
           /\ Completed(r).body = r /\ Completed(r).print = Fingerprint[r]
           /\ Processing(r).print = Fingerprint[r]
  BY DEF Processing, Completed, NoEntry

\* A request that goes on, or ends, without touching the records.
LEMMA Passing ==
    ASSUME IInv, NEW r \in Requests, NEW place, NEW told,
           TypeOK', pc' = [pc EXCEPT ![r] = place], answer' = [answer EXCEPT ![r] = told],
           place \in {"read", "metadata", "claim", "reread", "done", "dead"},
           place \in {"done", "dead"} \/ out[r] = "none",
           place = "claim" => entry # NoEntry \/ kept = {},
           told.kind = "replay" =>
               /\ told.of \in Requests /\ out[told.of] \in Final
               /\ Fingerprint[told.of] = Fingerprint[r],
           told.kind = "expired" =>
               \E q \in Requests : out[q] = "ok" /\ Fingerprint[q] = Fingerprint[r],
           UNCHANGED <<issues, entry, tombstone, out, kept>>
    PROVE  IInv'
<1>1. /\ pc'[r] = place /\ answer'[r] = told
      /\ \A q \in Requests \ {r} : pc'[q] = pc[q] /\ answer'[q] = answer[q]
  BY DEF IInv, TypeOK
<1>2. OutInv'
  BY <1>1 DEF IInv, OutInv
<1>3. OwnerInv'
  BY <1>1 DEF IInv, OwnerInv, Processing, Completed
<1>4. RecordInv'
  BY DEF IInv, RecordInv, Completed, NoEntry
<1>5. BarInv'
  BY <1>1 DEF IInv, BarInv, Processing, Completed, NoEntry
<1>6. OneOwner'
  BY <1>1 DEF IInv, OneOwner, Owning
<1>7. ExecutedOnce'
  BY DEF IInv, ExecutedOnce
<1>8. AnswersAreTrue'
  BY <1>1 DEF IInv, AnswersAreTrue
<1> QED
  BY <1>2, <1>3, <1>4, <1>5, <1>6, <1>7, <1>8 DEF IInv

\* As before, and the client has been told nothing.
LEMMA Silent ==
    ASSUME IInv, NEW r \in Requests, NEW place,
           TypeOK', pc' = [pc EXCEPT ![r] = place],
           place \in {"read", "metadata", "claim", "dead", "reread"},
           place = "dead" \/ out[r] = "none",
           place = "claim" => entry # NoEntry \/ kept = {},
           UNCHANGED <<issues, entry, tombstone, out, answer, kept>>
    PROVE  IInv'
<1>1. answer' = [answer EXCEPT ![r] = answer[r]]
  BY DEF IInv, TypeOK
<1>2. /\ answer[r].kind = "replay" =>
             /\ answer[r].of \in Requests /\ out[answer[r].of] \in Final
             /\ Fingerprint[answer[r].of] = Fingerprint[r]
      /\ answer[r].kind = "expired" =>
             \E q \in Requests : out[q] = "ok" /\ Fingerprint[q] = Fingerprint[r]
  BY DEF IInv, AnswersAreTrue
<1> QED
  BY <1>1, <1>2, Passing

\* An answer that quotes nobody.
LEMMA Plain ==
    ASSUME IInv, NEW r \in Requests, NEW kind, NEW q, TypeOK', Tells(r, kind, q),
           kind \notin {"replay", "expired"},
           UNCHANGED <<issues, entry, tombstone, out, kept>>
    PROVE  IInv'
<1> DEFINE told == [kind |-> kind, of |-> q]
<1>1. pc' = [pc EXCEPT ![r] = "done"] /\ answer' = [answer EXCEPT ![r] = told]
  BY DEF Tells, Goes
<1>2. told.kind = kind
  OBVIOUS
<1> HIDE DEF told
<1> QED
  BY <1>1, <1>2, Passing

LEMMA MeetPreserves ==
    ASSUME IInv, NEW r \in Requests, entry # NoEntry, Meet(r), TypeOK',
           UNCHANGED <<issues, entry, tombstone, out, kept>>
    PROVE  IInv'
<1>1. CASE Tells(r, "reused", None) \/ Tells(r, "in progress", None)
  BY <1>1, Plain
<1>2. CASE /\ entry.print = Fingerprint[r] /\ entry.state = "completed"
           /\ Tells(r, "replay", entry.body)
  <2> DEFINE told == [kind |-> "replay", of |-> entry.body]
  <2>1. PICK q \in Requests : entry = Completed(q) /\ out[q] \in Final
    BY <1>2 DEF IInv, RecordInv
  <2>2. told.kind = "replay" /\ told.of = q /\ Fingerprint[q] = Fingerprint[r]
    BY <1>2, <2>1, Records
  <2>3. pc' = [pc EXCEPT ![r] = "done"] /\ answer' = [answer EXCEPT ![r] = told]
    BY <1>2 DEF Tells, Goes
  <2> HIDE DEF told
  <2> QED
    BY <2>1, <2>2, <2>3, Passing
<1> QED
  BY <1>1, <1>2 DEF Meet

-----------------------------------------------------------------------------
(* The type invariant, action by action.                                   *)
LEMMA RecordType ==
    ASSUME NEW r \in Requests
    PROVE  Processing(r) \in Entries /\ Completed(r) \in Entries /\ NoEntry \in Entries
  BY DEF Processing, Completed, NoEntry, Entries, Prints

LEMMA TellsType ==
    ASSUME TypeOK, NEW r \in Requests, NEW kind \in Kinds, NEW q \in Requests \cup {None},
           Tells(r, kind, q)
    PROVE  /\ pc' \in [Requests -> Places]
           /\ answer' \in [Requests -> [kind : Kinds, of : Requests \cup {None}]]
  BY DEF TypeOK, Tells, Goes, Places, Resting

LEMMA MeetType ==
    ASSUME TypeOK, NEW r \in Requests, Meet(r)
    PROVE  /\ pc' \in [Requests -> Places]
           /\ answer' \in [Requests -> [kind : Kinds, of : Requests \cup {None}]]
<1>1. entry.body \in Requests \cup {None} /\ {"reused", "replay", "in progress"} \subseteq Kinds
  BY DEF TypeOK, Kinds, Entries
<1> QED
  BY <1>1, TellsType DEF Meet

LEMMA TypePreserved ==
    ASSUME IInv, [Next]_vars
    PROVE  TypeOK'
<1> USE NoneAssumption DEF IInv, TypeOK, Places, Owning, Resting, Final, Kinds, Prints, Goes
<1>1. ASSUME NEW r \in Requests, Arrive(r)
      PROVE  TypeOK'
  BY <1>1 DEF Arrive
<1>2. ASSUME NEW r \in Requests, Read(r)
      PROVE  TypeOK'
  BY <1>2, MeetType DEF Read
<1>3. ASSUME NEW r \in Requests, ReadMetadata(r)
      PROVE  TypeOK'
  BY <1>3, TellsType DEF ReadMetadata
<1>4. ASSUME NEW r \in Requests, Claim(r)
      PROVE  TypeOK'
  BY <1>4, RecordType DEF Claim
<1>5. ASSUME NEW r \in Requests, Reread(r)
      PROVE  TypeOK'
  BY <1>5, MeetType, TellsType DEF Reread
<1>6. ASSUME NEW r \in Requests, CacheFails(r)
      PROVE  TypeOK'
  BY <1>6, TellsType, RecordType DEF CacheFails
<1>7. ASSUME NEW r \in Requests, NEW result \in Final \cup {"error"}, Execute(r, result)
      PROVE  TypeOK'
  BY <1>7 DEF Execute, AfterNext
<1>8. ASSUME NEW r \in Requests, Bury(r)
      PROVE  TypeOK'
  BY <1>8 DEF Bury
<1>9. ASSUME NEW r \in Requests, Keep(r)
      PROVE  TypeOK'
  BY <1>9, TellsType, RecordType DEF Keep
<1>10. ASSUME NEW r \in Requests, KeepFails(r)
       PROVE  TypeOK'
  BY <1>10, RecordType DEF KeepFails
<1>11. ASSUME NEW r \in Requests, Drop(r)
       PROVE  TypeOK'
  BY <1>11, TellsType, RecordType DEF Drop
<1>12. ASSUME NEW r \in Requests, Die(r)
       PROVE  TypeOK'
  BY <1>12 DEF Die
<1>13. CASE TokenExpires
  BY <1>13 DEF TokenExpires, NoEntry, Entries
<1>14. CASE EntryExpires
  BY <1>14 DEF EntryExpires, NoEntry, Entries
<1>15. CASE TombstoneExpires
  BY <1>15 DEF TombstoneExpires
<1>16. CASE UNCHANGED vars
  BY <1>16 DEF vars
<1> QED
  BY <1>1, <1>2, <1>3, <1>4, <1>5, <1>6, <1>7, <1>8, <1>9, <1>10, <1>11, <1>12, <1>13,
     <1>14, <1>15, <1>16 DEF Next, Work

-----------------------------------------------------------------------------
(* The steps before the handler.                                           *)
LEMMA ArrivePreserves ==
    ASSUME IInv, NEW r \in Requests, Arrive(r), TypeOK'
    PROVE  IInv'
<1>1. out[r] = "none"
  BY DEF IInv, OutInv, Arrive
<1> QED
  BY <1>1, Silent DEF Arrive, Goes

LEMMA ReadPreserves ==
    ASSUME IInv, NEW r \in Requests, Read(r), TypeOK'
    PROVE  IInv'
<1>1. CASE entry # NoEntry /\ Meet(r)
  BY <1>1, MeetPreserves DEF Read
<1>2. CASE entry = NoEntry /\ UNCHANGED answer /\ Goes(r, IF issues THEN "metadata" ELSE "claim")
  <2>1. out[r] = "none"
    BY DEF IInv, OutInv, Read
  <2>2. ~issues => kept = {}
    BY <1>2 DEF IInv, BarInv
  <2> QED
    BY <1>2, <2>1, <2>2, Silent DEF Read, Goes
<1> QED
  BY <1>1, <1>2 DEF Read

LEMMA ReadMetadataPreserves ==
    ASSUME IInv, NEW r \in Requests, ReadMetadata(r), TypeOK'
    PROVE  IInv'
<1>1. CASE tombstone = None /\ Goes(r, "claim") /\ UNCHANGED answer
  <2>1. out[r] = "none"
    BY DEF IInv, OutInv, ReadMetadata
  <2>2. entry # NoEntry \/ kept = {}
    BY <1>1 DEF IInv, BarInv
  <2> QED
    BY <1>1, <2>1, <2>2, Silent DEF ReadMetadata, Goes
<1>2. CASE tombstone = Fingerprint[r] /\ Tells(r, "expired", None)
  <2> DEFINE told == [kind |-> "expired", of |-> None]
  <2>1. \E q \in Requests : out[q] = "ok" /\ Fingerprint[q] = Fingerprint[r]
    BY <1>2, NoneAssumption DEF IInv, RecordInv
  <2>2. pc' = [pc EXCEPT ![r] = "done"] /\ answer' = [answer EXCEPT ![r] = told]
    BY <1>2 DEF Tells, Goes
  <2>3. told.kind = "expired"
    OBVIOUS
  <2> HIDE DEF told
  <2> QED
    BY <2>1, <2>2, <2>3, Passing DEF ReadMetadata
<1>3. CASE Tells(r, "reused", None)
  BY <1>3, Plain DEF ReadMetadata
<1> QED
  BY <1>1, <1>2, <1>3 DEF ReadMetadata

LEMMA RereadPreserves ==
    ASSUME IInv, NEW r \in Requests, Reread(r), TypeOK'
    PROVE  IInv'
<1>1. CASE entry # NoEntry /\ Meet(r)
  BY <1>1, MeetPreserves DEF Reread
<1>2. CASE Tells(r, "in progress", None)
  BY <1>2, Plain DEF Reread
<1> QED
  BY <1>1, <1>2 DEF Reread

\* A record in state processing appears: the one who sets it may become the owner.
LEMMA Claiming ==
    ASSUME IInv, NEW r \in Requests, pc[r] = "claim", entry = NoEntry, TypeOK',
           entry' = Processing(r), NEW place \in {"next", "done"},
           pc' = [pc EXCEPT ![r] = place],
           \A q \in Requests \ {r} : answer'[q] = answer[q],
           answer'[r].kind \notin {"replay", "expired"} \/ answer' = answer,
           UNCHANGED <<issues, tombstone, out, kept>>
    PROVE  IInv'
<1>1. pc'[r] = place /\ \A q \in Requests \ {r} : pc'[q] = pc[q]
  BY DEF IInv, TypeOK
<1>2. \A q \in Requests : pc[q] \notin Owning
  BY Records DEF IInv, OwnerInv, Owning
<1>3. kept = {} /\ out[r] = "none"
  BY DEF IInv, BarInv, OutInv
<1>4. OutInv'
  BY <1>1, <1>3 DEF IInv, OutInv
<1>5. OwnerInv'
  BY <1>1, <1>2 DEF OwnerInv, Owning, Processing
<1>6. RecordInv'
  BY Records DEF IInv, RecordInv
<1>7. BarInv'
  BY <1>1, <1>2, <1>3 DEF BarInv, Owning
<1>8. OneOwner'
  BY <1>1, <1>2 DEF OneOwner
<1>9. ExecutedOnce'
  BY DEF IInv, ExecutedOnce
<1>10. AnswersAreTrue'
  BY DEF IInv, AnswersAreTrue
<1> QED
  BY <1>4, <1>5, <1>6, <1>7, <1>8, <1>9, <1>10 DEF IInv

LEMMA ClaimPreserves ==
    ASSUME IInv, NEW r \in Requests, Claim(r), TypeOK'
    PROVE  IInv'
<1>1. CASE entry = NoEntry /\ entry' = Processing(r) /\ Goes(r, "next")
  BY <1>1, Claiming DEF Claim, Goes
<1>2. CASE entry # NoEntry /\ Goes(r, "reread") /\ UNCHANGED entry
  <2>1. out[r] = "none"
    BY DEF IInv, OutInv, Claim
  <2> QED
    BY <1>2, <2>1, Silent DEF Claim, Goes
<1> QED
  BY <1>1, <1>2 DEF Claim

LEMMA CacheFailsPreserves ==
    ASSUME IInv, NEW r \in Requests, CacheFails(r), TypeOK'
    PROVE  IInv'
<1>1. CASE UNCHANGED entry
  BY <1>1, Plain DEF CacheFails
<1>2. CASE pc[r] = "claim" /\ entry = NoEntry /\ entry' = Processing(r)
  <2>1. /\ answer'[r].kind = "unavailable"
        /\ \A q \in Requests \ {r} : answer'[q] = answer[q]
        /\ pc' = [pc EXCEPT ![r] = "done"]
    BY DEF CacheFails, Tells, Goes, IInv, TypeOK
  <2> QED
    BY <1>2, <2>1, Claiming DEF CacheFails
<1> QED
  BY <1>1, <1>2 DEF CacheFails

-----------------------------------------------------------------------------
(* The owner's steps.                                                      *)
LEMMA Owner ==
    ASSUME IInv, NEW r \in Requests, pc[r] \in Owning
    PROVE  /\ \A q \in Requests \ {r} : pc[q] \notin Owning
           /\ entry \in {Processing(r), Completed(r)} /\ entry # NoEntry
           /\ kept \subseteq {r}
  BY Records DEF IInv, OneOwner, OwnerInv, BarInv, ExecutedOnce, Owning

LEMMA ExecutePreserves ==
    ASSUME IInv, NEW r \in Requests, NEW result \in Final \cup {"error"}, Execute(r, result),
           TypeOK'
    PROVE  IInv'
<1>1. /\ pc'[r] \in {"bury", "keep", "drop"} /\ out'[r] = result
      /\ pc'[r] = "drop" <=> result = "error"
      /\ pc'[r] = "bury" <=> issues /\ result = "ok"
      /\ \A q \in Requests \ {r} : pc'[q] = pc[q] /\ out'[q] = out[q]
  BY DEF IInv, TypeOK, Execute, Goes, AfterNext, Final
<1>2. /\ out[r] = "none" /\ entry = Processing(r) /\ kept = {}
      /\ \A q \in Requests \ {r} : pc[q] \notin Owning
  BY Owner DEF Execute, IInv, OutInv, OwnerInv, BarInv, Owning
<1>3. kept' = IF result \in Final THEN {r} ELSE {}
  BY <1>2 DEF Execute
<1>4. UNCHANGED <<issues, entry, tombstone, answer>>
  BY DEF Execute
<1>5. \A q \in Requests : out[q] # "none" => out'[q] = out[q]
  BY <1>1, <1>2
<1>6. OutInv'
  BY <1>1 DEF IInv, OutInv, Final
<1>7. OwnerInv'
  BY <1>1, <1>2, <1>4 DEF OwnerInv, Owning, Processing, Completed
<1>8. RecordInv'
  BY <1>2, <1>4, <1>5, Records DEF IInv, RecordInv
<1>9. BarInv'
  BY <1>1, <1>2, <1>3, <1>4, Records DEF BarInv, Owning, Final, Processing, Completed, NoEntry
<1>10. OneOwner'
  BY <1>1, <1>2 DEF OneOwner
<1>11. ExecutedOnce'
  BY <1>3 DEF ExecutedOnce
<1>12. AnswersAreTrue'
  BY <1>4, <1>5 DEF IInv, AnswersAreTrue, Final
<1> QED
  BY <1>6, <1>7, <1>8, <1>9, <1>10, <1>11, <1>12 DEF IInv

LEMMA BuryPreserves ==
    ASSUME IInv, NEW r \in Requests, Bury(r), TypeOK'
    PROVE  IInv'
<1>1. pc'[r] = "keep" /\ \A q \in Requests \ {r} : pc'[q] = pc[q]
  BY DEF IInv, TypeOK, Bury, Goes
<1>2. /\ out[r] = "ok" /\ entry = Processing(r) /\ kept = {r}
      /\ \A q \in Requests \ {r} : pc[q] \notin Owning
  BY Owner DEF Bury, IInv, OutInv, OwnerInv, BarInv, Owning
<1>3. tombstone' = Fingerprint[r] /\ UNCHANGED <<issues, entry, out, answer, kept>>
  BY DEF Bury
<1>4. OutInv'
  BY <1>1, <1>2, <1>3 DEF IInv, OutInv, Final
<1>5. OwnerInv'
  BY <1>1, <1>2, <1>3 DEF OwnerInv, Owning, Processing, Completed
<1>6. RecordInv'
  BY <1>2, <1>3, Records DEF IInv, RecordInv
<1>7. BarInv'
  BY <1>1, <1>2, <1>3, Records, NoneAssumption
     DEF BarInv, Owning, Processing, Completed, NoEntry
<1>8. OneOwner'
  BY <1>1, <1>2 DEF OneOwner
<1>9. ExecutedOnce'
  BY <1>3 DEF IInv, ExecutedOnce
<1>10. AnswersAreTrue'
  BY <1>3 DEF IInv, AnswersAreTrue
<1> QED
  BY <1>4, <1>5, <1>6, <1>7, <1>8, <1>9, <1>10 DEF IInv

\* The answer is stored, and the request ends or goes on to delete it again.
LEMMA Storing ==
    ASSUME IInv, NEW r \in Requests, pc[r] = "keep", TypeOK',
           entry' = Completed(r), UNCHANGED <<issues, tombstone, out>>,
           NEW place \in {"done", "drop"}, pc' = [pc EXCEPT ![r] = place],
           kept' = IF place = "done" THEN kept ELSE {},
           \A q \in Requests \ {r} : answer'[q] = answer[q],
           answer' = answer \/ answer'[r].kind \notin {"replay", "expired"}
    PROVE  IInv'
<1>1. pc'[r] = place /\ \A q \in Requests \ {r} : pc'[q] = pc[q]
  BY DEF IInv, TypeOK
<1>2. /\ out[r] \in Final /\ kept = {r}
      /\ \A q \in Requests \ {r} : pc[q] \notin Owning
      /\ issues /\ out[r] = "ok" => tombstone # None
  BY Owner DEF IInv, OutInv, BarInv, Owning
<1>3. OutInv'
  BY <1>1 DEF IInv, OutInv
<1>4. OwnerInv'
  BY <1>1, <1>2 DEF OwnerInv, Owning, Completed
<1>5. RecordInv'
  BY <1>2, Records DEF IInv, RecordInv, Completed
<1>6. BarInv'
  BY <1>1, <1>2, Records DEF BarInv, Owning, Completed, NoEntry
<1>7. OneOwner'
  BY <1>1, <1>2 DEF OneOwner
<1>8. ExecutedOnce'
  BY DEF IInv, ExecutedOnce
<1>9. AnswersAreTrue'
  BY DEF IInv, AnswersAreTrue
<1> QED
  BY <1>3, <1>4, <1>5, <1>6, <1>7, <1>8, <1>9 DEF IInv

LEMMA KeepPreserves ==
    ASSUME IInv, NEW r \in Requests, Keep(r), TypeOK'
    PROVE  IInv'
<1>1. /\ answer'[r].kind = "own" /\ \A q \in Requests \ {r} : answer'[q] = answer[q]
      /\ pc' = [pc EXCEPT ![r] = "done"]
  BY DEF Keep, Tells, Goes, IInv, TypeOK
<1> QED
  BY <1>1, Storing DEF Keep

LEMMA KeepFailsPreserves ==
    ASSUME IInv, NEW r \in Requests, KeepFails(r), TypeOK'
    PROVE  IInv'
<1>1. pc[r] \in {"bury", "keep"} /\ kept' = {} /\ pc' = [pc EXCEPT ![r] = "drop"]
  BY Owner DEF KeepFails, Goes, Owning
<1>2. CASE pc[r] = "keep" /\ entry' = Completed(r) /\ UNCHANGED tombstone
  BY <1>1, <1>2, Storing DEF KeepFails
<1>3. CASE UNCHANGED entry /\ (UNCHANGED tombstone \/ (pc[r] = "bury" /\ tombstone' = Fingerprint[r]))
  <2>1. pc'[r] = "drop" /\ \A q \in Requests \ {r} : pc'[q] = pc[q]
    BY <1>1 DEF IInv, TypeOK
  <2>2. /\ pc[r] = "bury" => out[r] = "ok"
        /\ entry \in {Processing(r), Completed(r)}
        /\ \A q \in Requests \ {r} : pc[q] \notin Owning
    BY <1>1, Owner DEF IInv, OutInv, Owning
  <2>3. UNCHANGED <<issues, out, answer>>
    BY DEF KeepFails
  <2>4. OutInv'
    BY <2>1, <2>3 DEF IInv, OutInv
  <2>5. OwnerInv'
    BY <1>3, <2>1, <2>2 DEF OwnerInv, Owning, Processing, Completed
  <2>6. RecordInv'
    BY <1>3, <2>2, <2>3 DEF IInv, RecordInv, Completed, NoEntry
  <2>7. BarInv'
    BY <1>1, <2>1, <2>2 DEF BarInv, Owning
  <2>8. OneOwner'
    BY <2>1, <2>2 DEF OneOwner
  <2>9. ExecutedOnce' /\ AnswersAreTrue'
    BY <1>1, <2>3 DEF IInv, ExecutedOnce, AnswersAreTrue
  <2> QED
    BY <2>4, <2>5, <2>6, <2>7, <2>8, <2>9 DEF IInv
<1>4. CASE pc[r] = "bury"
  <2>1. UNCHANGED entry /\ tombstone' \in {tombstone, Fingerprint[r]}
    BY <1>4 DEF KeepFails
  <2> QED
    BY <1>3, <1>4, <2>1
<1>5. CASE pc[r] = "keep"
  <2>1. UNCHANGED tombstone /\ (entry' = entry \/ entry' = Completed(r))
    BY <1>5 DEF KeepFails
  <2> QED
    BY <1>2, <1>3, <1>5, <2>1
<1> QED
  BY <1>1, <1>4, <1>5

LEMMA DropPreserves ==
    ASSUME IInv, NEW r \in Requests, Drop(r), TypeOK'
    PROVE  IInv'
<1>1. CASE UNCHANGED entry
  BY <1>1, Plain DEF Drop
<1>2. CASE entry' = NoEntry
  <2>1. /\ pc'[r] = "done" /\ answer'[r].kind = "own"
        /\ \A q \in Requests \ {r} : pc'[q] = pc[q] /\ answer'[q] = answer[q]
    BY DEF Drop, Tells, Goes, IInv, TypeOK
  <2>2. kept = {} /\ \A q \in Requests \ {r} : pc[q] \notin Owning
    BY Owner DEF Drop, IInv, BarInv, Owning
  <2>3. UNCHANGED <<issues, tombstone, out, kept>>
    BY DEF Drop
  <2>4. OutInv'
    BY <2>1, <2>3 DEF IInv, OutInv
  <2>5. OwnerInv'
    BY <2>1, <2>2 DEF OwnerInv, Owning
  <2>6. RecordInv'
    BY <1>2, <2>3 DEF IInv, RecordInv, NoEntry
  <2>7. BarInv'
    BY <2>1, <2>2, <2>3 DEF BarInv, Owning
  <2>8. OneOwner'
    BY <2>1, <2>2 DEF OneOwner, Owning
  <2>9. ExecutedOnce' /\ AnswersAreTrue'
    BY <2>1, <2>3 DEF IInv, ExecutedOnce, AnswersAreTrue
  <2> QED
    BY <2>4, <2>5, <2>6, <2>7, <2>8, <2>9 DEF IInv
<1> QED
  BY <1>1, <1>2 DEF Drop

LEMMA DiePreserves ==
    ASSUME IInv, NEW r \in Requests, Die(r), TypeOK'
    PROVE  IInv'
  BY Silent DEF Die, Goes

-----------------------------------------------------------------------------
(* Time.                                                                   *)

\* Nobody is between the reads and the end of the work.
LEMMA NobodyThere ==
    ASSUME Settled, NEW q \in Requests
    PROVE  pc[q] \notin Owning \cup {"claim", "metadata", "next", "bury", "keep", "drop"}
  BY DEF Settled, Resting, Owning

\* A record goes. What is kept is barred by the tombstone, or nothing is kept.
LEMMA Expiring ==
    ASSUME IInv, Settled, TypeOK', entry' = NoEntry, UNCHANGED <<issues, tombstone, pc, out, answer>>,
           kept' = {} \/ (kept' = kept /\ (kept # {} => issues /\ tombstone # None))
    PROVE  IInv'
<1>1. \A q \in Requests : /\ pc[q] \notin Owning
                          /\ pc[q] \notin {"claim", "metadata", "next", "bury", "keep", "drop"}
  BY NobodyThere
<1>2. OutInv' /\ OwnerInv' /\ OneOwner'
  BY <1>1 DEF IInv, OutInv, OwnerInv, OneOwner
<1>3. RecordInv'
  <2>1. NoEntry.state = "absent"
    BY DEF NoEntry
  <2> QED
    BY <2>1 DEF IInv, RecordInv
<1>4. BarInv'
  BY <1>1, Records DEF IInv, BarInv, NoEntry, Completed
<1>5. ExecutedOnce' /\ AnswersAreTrue'
  BY DEF IInv, ExecutedOnce, AnswersAreTrue
<1> QED
  BY <1>2, <1>3, <1>4, <1>5 DEF IInv

LEMMA TokenExpiresPreserves ==
    ASSUME IInv, TokenExpires, TypeOK'
    PROVE  IInv'
<1>1. PICK q \in Requests : entry = Completed(q) /\ out[q] = "ok"
  <2>1. PICK q \in Requests : entry = Completed(q)
    BY DEF IInv, RecordInv, TokenExpires, HoldsToken
  <2> QED
    BY <2>1, Records DEF TokenExpires, HoldsToken
<1>2. ASSUME NEW r \in kept
      PROVE  tombstone # None
  <2>1. r \in Requests /\ entry \in {NoEntry, Processing(r), Completed(r)}
    BY DEF IInv, TypeOK, BarInv
  <2>2. r = q /\ entry = Completed(r)
    BY <1>1, <2>1, Records
  <2> QED
    BY <1>1, <2>1, <2>2 DEF IInv, BarInv, TokenExpires, HoldsToken
<1>3. kept # {} => issues /\ tombstone # None
  BY <1>2 DEF TokenExpires, HoldsToken
<1> QED
  BY <1>3, Expiring DEF TokenExpires

LEMMA TombstoneExpiresPreserves ==
    ASSUME IInv, TombstoneExpires, TypeOK'
    PROVE  IInv'
<1>1. \A q \in Requests : /\ pc[q] \notin Owning
                          /\ pc[q] \notin {"claim", "metadata", "next", "bury", "keep", "drop"}
  BY NobodyThere DEF TombstoneExpires
<1>2. kept' = {} /\ UNCHANGED <<issues, entry, pc, out, answer>> /\ tombstone' = None
  BY DEF TombstoneExpires
<1>3. OutInv' /\ OwnerInv' /\ OneOwner'
  BY <1>1, <1>2 DEF IInv, OutInv, OwnerInv, OneOwner
<1>4. RecordInv'
  BY <1>2 DEF IInv, RecordInv, Completed, NoEntry
<1>5. BarInv'
  BY <1>1, <1>2 DEF BarInv
<1>6. ExecutedOnce' /\ AnswersAreTrue'
  BY <1>2 DEF IInv, ExecutedOnce, AnswersAreTrue
<1> QED
  BY <1>3, <1>4, <1>5, <1>6 DEF IInv

-----------------------------------------------------------------------------
LEMMA InitialStates ==
    ASSUME Init
    PROVE  IInv
<1>1. TypeOK
  BY NoneAssumption
     DEF Init, TypeOK, Entries, Places, Resting, Final, Kinds, NoEntry, NoAnswer
<1>2. \A r \in Requests : pc[r] = "idle" /\ out[r] = "none" /\ answer[r] = NoAnswer
  BY DEF Init
<1>3. entry = NoEntry /\ tombstone = None /\ kept = {}
  BY DEF Init
<1>4. AnswersAreTrue
  <2>1. NoAnswer.kind = "none"
    BY DEF NoAnswer
  <2> QED
    BY <1>2, <2>1 DEF AnswersAreTrue
<1>5. OutInv /\ OwnerInv /\ OneOwner
  BY <1>2 DEF OutInv, OwnerInv, OneOwner, Owning
<1>6. RecordInv
  BY <1>3 DEF RecordInv, NoEntry
<1>7. BarInv /\ ExecutedOnce
  BY <1>2, <1>3 DEF BarInv, ExecutedOnce
<1> QED
  BY <1>1, <1>4, <1>5, <1>6, <1>7 DEF IInv

LEMMA Unchanged ==
    ASSUME IInv, UNCHANGED vars
    PROVE  IInv'
  BY DEF vars, IInv, TypeOK, OutInv, OwnerInv, RecordInv, BarInv, OneOwner, ExecutedOnce,
         AnswersAreTrue, Processing, Completed

LEMMA StepPreserves ==
    ASSUME IInv, [Next]_vars
    PROVE  IInv'
<1>1. TypeOK'
  BY TypePreserved
<1>2. ASSUME NEW r \in Requests, Work(r)
      PROVE  IInv'
  BY <1>1, <1>2, ReadPreserves, ReadMetadataPreserves, ClaimPreserves, RereadPreserves,
     ExecutePreserves, BuryPreserves, KeepPreserves, KeepFailsPreserves, DropPreserves DEF Work
<1>3. ASSUME NEW r \in Requests, Arrive(r) \/ CacheFails(r) \/ Die(r)
      PROVE  IInv'
  BY <1>1, <1>3, ArrivePreserves, CacheFailsPreserves, DiePreserves
<1>4. CASE TokenExpires
  BY <1>1, <1>4, TokenExpiresPreserves
<1>5. CASE EntryExpires
  BY <1>1, <1>5, Expiring DEF EntryExpires
<1>6. CASE TombstoneExpires
  BY <1>1, <1>6, TombstoneExpiresPreserves
<1>7. CASE UNCHANGED vars
  BY <1>7, Unchanged
<1> QED
  BY <1>2, <1>3, <1>4, <1>5, <1>6, <1>7 DEF Next

(***************************************************************************)
(* The inductive invariant holds in every reachable state, for any number  *)
(* of requests and any fingerprints.                                       *)
(***************************************************************************)
THEOREM Invariance == Spec => []IInv
<1>1. Init => IInv
  BY InitialStates
<1>2. IInv /\ [Next]_vars => IInv'
  BY StepPreserves
<1> QED
  BY <1>1, <1>2, PTL DEF Spec

(***************************************************************************)
(* The state keeps its shape.                                              *)
(***************************************************************************)
THEOREM ShapeIsKept == Spec => []TypeOK
<1>1. IInv => TypeOK
  BY DEF IInv
<1> QED
  BY <1>1, Invariance, PTL

(***************************************************************************)
(* The handler never runs twice side by side for one key, and no request   *)
(* deletes or overwrites the record of another one.                        *)
(***************************************************************************)
THEOREM NeverSideBySide == Spec => []OneOwner
<1>1. IInv => OneOwner
  BY DEF IInv
<1> QED
  BY <1>1, Invariance, PTL

(***************************************************************************)
(* A mutation that was kept is not carried out again for 24 hours, however *)
(* many retries come and wherever the gateways die.                        *)
(***************************************************************************)
THEOREM OnceInADay == Spec => []ExecutedOnce
<1>1. IInv => ExecutedOnce
  BY DEF IInv
<1> QED
  BY <1>1, Invariance, PTL

(***************************************************************************)
(* A retry is told the answer to its own request or of the token issued    *)
(* for it, never another request's.                                        *)
(***************************************************************************)
THEOREM RetriesHearTheTruth == Spec => []AnswersAreTrue
<1>1. IInv => AnswersAreTrue
  BY DEF IInv
<1> QED
  BY <1>1, Invariance, PTL
=============================================================================
