---------------------------- MODULE QuotaLedger ----------------------------
(***************************************************************************)
(* What the resource quota promises to whoever runs GPU instances          *)
(* (ports.QuotaService): a reservation is tried once, then either          *)
(* cancelled or confirmed, a confirmed one is released at most once, and   *)
(* what is reserved or confirmed never exceeds the tenant's total.         *)
(* There are no counters here: what is taken is the sum of the amounts of  *)
(* the live reservations.                                                  *)
(***************************************************************************)
EXTENDS Integers, FiniteSetsExt

CONSTANT
    Txs         \* reservation identities (tx_id)

VARIABLES
    limit,      \* the tenant's total
    phase,      \* the state of each reservation
    size        \* the amount of each reservation

ledgerVars == <<limit, phase, size>>

Live == {"reserved", "confirmed"}

Taken == MapThenSumSet(LAMBDA t : size[t], {t \in Txs : phase[t] \in Live})

LedgerInit ==
    /\ limit \in Nat
    /\ phase = [t \in Txs |-> "none"]
    /\ size = [t \in Txs |-> 0]

Try(t, n) ==
    /\ phase[t] = "none"
    /\ n > 0 /\ Taken + n <= limit
    /\ phase' = [phase EXCEPT ![t] = "reserved"]
    /\ size' = [size EXCEPT ![t] = n]
    /\ UNCHANGED limit

Move(t, from, to) ==
    /\ phase[t] = from
    /\ phase' = [phase EXCEPT ![t] = to]
    /\ UNCHANGED <<limit, size>>

\* An administrator sets the total, never below what is taken.
Adjust ==
    /\ limit' \in Nat /\ Taken <= limit'
    /\ UNCHANGED <<phase, size>>

\* Or deletes the quota of the tenant, reservations included.
Purge ==
    /\ limit' \in Nat
    /\ phase' = [t \in Txs |-> IF phase[t] = "none" THEN "none" ELSE "gone"]
    /\ UNCHANGED size

LedgerNext ==
    \/ \E t \in Txs :
        \/ \E n \in 1..limit : Try(t, n)
        \/ Move(t, "reserved", "confirmed")
        \/ Move(t, "reserved", "cancelled")
        \/ Move(t, "confirmed", "released")
    \/ Adjust \/ Purge

LedgerSpec == LedgerInit /\ [][LedgerNext]_ledgerVars
=============================================================================
