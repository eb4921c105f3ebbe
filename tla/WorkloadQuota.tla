--------------------------- MODULE WorkloadQuota ---------------------------
(***************************************************************************)
(* The GPU quota of one tenant and the GPU instances it is charged for     *)
(* (pkg/adapters/runtime): the quota row and the reservations of           *)
(* PostgresQuota, the workload_instances rows, their Deployments, and the  *)
(* four kinds of process that move quota and status together: a create     *)
(* (QuotaAwareInstanceOrchestrator), a lifecycle request                   *)
(* (LocalInstanceService.applyLifecycle), the reconcile controller         *)
(* (ReconcileNow) and the gateway's read repair, which refreshes a row     *)
(* from the cluster and delegates to ReconcileNow.                         *)
(*                                                                         *)
(* A database transaction, a Kubernetes call and a read are one step each. *)
(* Rows are written whole and unconditionally (upsertStatusInTx), so a     *)
(* write carries back everything its process read before.                  *)
(***************************************************************************)
EXTENDS Integers, FiniteSetsExt

CONSTANTS
    Instances,      \* instances of the tenant, each created at most once
    Gpus,           \* the GPU count of each instance
    Controllers,    \* processes that run the reconcile loop
    Readers,        \* gateways that answer GET and list with read repair
    Handlers,       \* gateways that serve lifecycle requests
    Totals,         \* totals an administrator may set
    Allocs,         \* allocations an administrator may set
    Default,        \* default_quota of the resource type
    MaxPurges,      \* bound: deletions of the tenant's quota
    MaxTx,          \* bound: reservations
    MaxReads,       \* bound: reads with read repair
    MaxCalls,       \* bound: lifecycle requests
    ApiActions,     \* the lifecycle requests users send
    Faults          \* TRUE: calls may fail, creates may die

ASSUME InstancesAssumption == Instances # {}
ASSUME GpusAssumption == Gpus \in [Instances -> Nat \ {0}]
ASSUME TotalsAssumption == Totals \subseteq Nat /\ Totals # {} /\ Allocs \subseteq Nat /\ Default \in Nat
ASSUME BoundsAssumption ==
    MaxTx \in Nat /\ MaxReads \in Nat /\ MaxCalls \in Nat /\ MaxPurges \in Nat
ASSUME ActionsAssumption == ApiActions \subseteq {"start", "stop", "delete", "other"}
ASSUME FlagsAssumption == Faults \in BOOLEAN
ASSUME ProcessAssumption == Controllers \cap Readers = {}

VARIABLES
    book,       \* the resource_quota row (here: it exists), the allocation of the
                \* tenant and the resource_reservations
    row,        \* the workload_instances row of each instance
    deploy,     \* the Deployment of each instance
    old,        \* has the provisioning deadline of CreatedAt passed?
    make,       \* the create of each instance
    rec,        \* ReconcileNow: one call at a time for each caller
    gw,         \* refreshOneStoreStatus of each reader
    api,        \* applyLifecycle of each handler
    reads, calls, purges

vars == <<book, row, deploy, old, make, rec, gw, api, reads, calls, purges>>

Txs == 1..MaxTx
Callers == Controllers \cup Readers
States == {"absent", "pending", "provisioning", "running", "stopped", "failed", "deleted"}
Gone == {"absent", "deleted"}
Transient == {"pending", "provisioning"}

\* Reservation 0 stands for "no reservation"; by = "rec" says that the last
\* observed fields are those a controller writes.
NoAlloc == -1
NoRow == [state |-> "absent", refs |-> FALSE, tx |-> 0, by |-> "api"]
Resting(i) == [pc |-> "idle", i |-> i, snap |-> NoRow, next |-> "absent"]
AtRest == Resting(CHOOSE i \in Instances : TRUE)

Init ==
    /\ book \in {[here |-> TRUE, total |-> n, alloc |-> NoAlloc, reserved |-> 0, used |-> 0,
                  resv |-> [t \in Txs |-> [state |-> "none", amount |-> 0]]] : n \in Totals}
    /\ row = [i \in Instances |-> NoRow]
    /\ deploy = [i \in Instances |-> "absent"]
    /\ old = [i \in Instances |-> FALSE]
    /\ make = [i \in Instances |-> [pc |-> "idle", tx |-> 0, seen |-> "absent"]]
    /\ rec = [c \in Callers |-> AtRest]
    /\ gw = [g \in Readers |-> AtRest]
    /\ api = [h \in Handlers |-> AtRest]
    /\ reads = 0 /\ calls = 0 /\ purges = 0

-----------------------------------------------------------------------------
(***************************************************************************)
(* PostgresQuota: each operation on the quota row and one reservation.     *)
(* Confirm, Cancel and Release skip a reservation in any other state and   *)
(* fail if it does not exist.                                              *)
(***************************************************************************)
Free(b) == {t \in Txs : b.resv[t].state = "none"}
NewTx(b) == CHOOSE t \in Free(b) : TRUE

Max2(m, n) == IF m < n THEN n ELSE m
Taken(b) == b.reserved + b.used

\* A missing quota row is made with the default.
Opened(b) == IF b.here THEN b ELSE [b EXCEPT !.here = TRUE, !.total = Default]

CanTry(b, n) == Taken(b) + n <= Opened(b).total /\ Free(b) # {}

TryTx(b, n) ==
    [Opened(b) EXCEPT !.reserved = @ + n, !.resv[NewTx(b)] = [state |-> "reserved", amount |-> n]]

\* The gates of a create, in the transaction of its Try: what is allocated to
\* the tenant, or the total.  A retry from failed does not ask for them.
Allocated(b) == IF b.alloc = NoAlloc THEN b.total ELSE b.alloc

\* Mutant: what is only reserved does not count.
MayCreateOnUsed(b, n) == b.here /\ b.used + n <= Allocated(b) /\ Free(b) # {}

MayCreate(b, n) == b.here /\ Taken(b) + n <= Allocated(b) /\ CanTry(b, n)

In(b, t, s) == t \in Txs /\ b.resv[t].state = s

\* Is there a row for every reservation id the caller has?
Found(b, t) == ~In(b, t, "gone")

\* Mutant: Confirm without its look at the state of the reservation.
ConfirmTxAgain(b, t) ==
    IF t \in Txs
    THEN [b EXCEPT !.reserved = @ - b.resv[t].amount, !.used = @ + b.resv[t].amount,
                   !.resv[t].state = "confirmed"]
    ELSE b

ConfirmTx(b, t) ==
    IF In(b, t, "reserved")
    THEN [b EXCEPT !.reserved = @ - b.resv[t].amount, !.used = @ + b.resv[t].amount,
                   !.resv[t].state = "confirmed"]
    ELSE b

\* Mutant: Cancel takes a reservation in any live state.
CancelTxAny(b, t) ==
    IF In(b, t, "reserved") \/ In(b, t, "confirmed")
    THEN [b EXCEPT !.reserved = @ - b.resv[t].amount, !.resv[t].state = "cancelled"]
    ELSE b

CancelTx(b, t) ==
    IF In(b, t, "reserved")
    THEN [b EXCEPT !.reserved = @ - b.resv[t].amount, !.resv[t].state = "cancelled"]
    ELSE b

ReleaseTx(b, t) ==
    IF In(b, t, "confirmed")
    THEN [b EXCEPT !.used = @ - b.resv[t].amount, !.resv[t].state = "released"]
    ELSE b

\* Mutant: the delete releases and does not cancel.
FreeTxReleaseOnly(b, t) == ReleaseTx(b, t)

FreeTx(b, t) == ReleaseTx(CancelTx(b, t), t)

-----------------------------------------------------------------------------
(* The administrator.                                                      *)

Writes(b) == book' = b /\ UNCHANGED <<row, deploy, old, make, rec, gw, api, reads, calls>>

\* Put overwrites the total; a CHECK of the table refuses one that is too small.
Put(n) ==
    /\ Taken(book) <= n
    /\ Writes([book EXCEPT !.here = TRUE, !.total = n]) /\ UNCHANGED purges

\* A total that is not given (zero) means the default.
Given(n) == IF n = 0 THEN Default ELSE n

CreateTenantQuota(n) ==
    /\ ~book.here
    /\ Writes([book EXCEPT !.here = TRUE, !.total = Given(n)]) /\ UNCHANGED purges

\* A total is never set below what is taken.
UpdateTenantQuota(n) ==
    /\ book.here
    /\ Writes([book EXCEPT !.total = Max2(n, Taken(book))]) /\ UNCHANGED purges

UpsertTenantQuota(n) ==
    /\ Writes([book EXCEPT !.here = TRUE, !.total = Max2(Given(n), Taken(book))])
    /\ UNCHANGED purges

PutReservation(n) ==
    /\ book.here /\ n <= book.total
    /\ Writes([book EXCEPT !.alloc = Max2(n, Taken(book))])
    /\ UNCHANGED purges

\* DeleteTenantQuota asks neither for instances nor for what is taken.
DeleteTenantQuota ==
    /\ purges < MaxPurges /\ purges' = purges + 1
    /\ Writes([book EXCEPT !.here = FALSE, !.total = 0, !.reserved = 0, !.used = 0,
                  !.resv = [t \in Txs |-> IF @[t].state = "none" THEN @[t]
                                         ELSE [@[t] EXCEPT !.state = "gone"]]])

-----------------------------------------------------------------------------
Making(i) == make[i].pc \in {"apply", "upsert", "observe", "persist"}

(***************************************************************************)
(* Create.  The reservation is taken in a transaction of its own; then the *)
(* inner orchestrator applies the manifests, writes the row without        *)
(* resource refs, observes, and writes it again with them.                 *)
(***************************************************************************)
MakeTry(i) ==
    /\ make[i].pc = "idle"
    /\ MayCreate(book, Gpus[i])
    /\ book' = TryTx(book, Gpus[i])
    /\ make' = [make EXCEPT ![i] = [@ EXCEPT !.pc = "apply", !.tx = NewTx(book)]]
    /\ UNCHANGED <<row, deploy, old, rec, gw, api, reads, calls, purges>>

MakeApply(i) ==
    /\ make[i].pc = "apply"
    /\ deploy' = [deploy EXCEPT ![i] = "pending"]
    /\ make' = [make EXCEPT ![i].pc = "upsert"]
    /\ UNCHANGED <<book, row, old, rec, gw, api, reads, calls, purges>>

MakeUpsert(i) ==
    /\ make[i].pc = "upsert"
    /\ row' = [row EXCEPT ![i] = [state |-> "provisioning", refs |-> FALSE,
                                  tx |-> make[i].tx, by |-> "api"]]
    /\ make' = [make EXCEPT ![i].pc = "observe"]
    /\ UNCHANGED <<book, deploy, old, rec, gw, api, reads, calls, purges>>

MakeObserve(i) ==
    /\ make[i].pc = "observe" /\ deploy[i] # "absent"
    /\ make' = [make EXCEPT ![i] = [@ EXCEPT !.pc = "persist",
                  !.seen = IF deploy[i] = "ready" THEN "running" ELSE "provisioning"]]
    /\ UNCHANGED <<book, row, deploy, old, rec, gw, api, reads, calls, purges>>

MakePersist(i) ==
    /\ make[i].pc = "persist"
    /\ make[i].seen = "running" => Found(book, make[i].tx)
    /\ row' = [row EXCEPT ![i] = [state |-> make[i].seen, refs |-> TRUE,
                                  tx |-> make[i].tx, by |-> "api"]]
    /\ book' = IF make[i].seen = "running" THEN ConfirmTx(book, make[i].tx) ELSE book
    /\ make' = [make EXCEPT ![i].pc = "done"]
    /\ UNCHANGED <<deploy, old, rec, gw, api, reads, calls, purges>>

\* Apply is refused: markApplyFailed writes the failed row and cancels.
MakeRefused(i) ==
    /\ Faults
    /\ make[i].pc = "apply" /\ Found(book, make[i].tx)
    /\ row' = [row EXCEPT ![i] = [state |-> "failed", refs |-> FALSE,
                                  tx |-> make[i].tx, by |-> "api"]]
    /\ book' = CancelTx(book, make[i].tx)
    /\ make' = [make EXCEPT ![i].pc = "done"]
    /\ UNCHANGED <<deploy, old, rec, gw, api, reads, calls, purges>>

\* Any other error: the outer orchestrator cancels, the row stays as it is.
MakeFails(i) ==
    /\ \/ Faults
       \/ make[i].pc = "observe" /\ deploy[i] = "absent"
       \/ make[i].pc = "persist" /\ make[i].seen = "running" /\ ~Found(book, make[i].tx)
    /\ Making(i)
    /\ book' = CancelTx(book, make[i].tx)
    /\ make' = [make EXCEPT ![i].pc = "done"]
    /\ UNCHANGED <<row, deploy, old, rec, gw, api, reads, calls, purges>>

MakeDies(i) ==
    /\ Faults /\ Making(i)
    /\ make' = [make EXCEPT ![i].pc = "done"]
    /\ UNCHANGED <<book, row, deploy, old, rec, gw, api, reads, calls, purges>>

-----------------------------------------------------------------------------
(***************************************************************************)
(* ReconcileNow.                                                           *)
(***************************************************************************)
\* Mutant: no provisioning deadline.
BeginWithoutDeadline(i) ==
    [pc |-> "observe", i |-> i, snap |-> row[i], next |-> "absent"]

Begin(i) ==
    [pc |-> IF row[i].state \in Transient /\ old[i] THEN "timeout" ELSE "observe",
     i |-> i, snap |-> row[i], next |-> "absent"]

RecRead(c, i) ==
    /\ rec[c].pc = "idle"
    /\ row[i].state \notin Gone
    /\ rec' = [rec EXCEPT ![c] = Begin(i)]
    /\ UNCHANGED <<book, row, deploy, old, make, gw, api, reads, calls, purges>>

\* What a caller of ReconcileNow writes: its snapshot with a new state.
Written(c, state, tx) ==
    row' = [row EXCEPT ![rec[c].i] = [rec[c].snap EXCEPT !.state = state, !.tx = tx, !.by = "rec"]]

RecEnds(c) == rec' = [rec EXCEPT ![c] = AtRest]

\* The deadline is measured from CreatedAt, whatever made the row transient.
RecTimeout(c) ==
    /\ rec[c].pc = "timeout" /\ Found(book, rec[c].snap.tx)
    /\ book' = CancelTx(book, rec[c].snap.tx)
    /\ Written(c, "failed", rec[c].snap.tx)
    /\ RecEnds(c)
    /\ UNCHANGED <<deploy, old, make, gw, api, reads, calls, purges>>

\* A Deployment scaled to zero has phase Pending, which means provisioning.
Mapped(i) ==
    CASE deploy[i] = "absent" -> "failed"
      [] deploy[i] = "ready"  -> "running"
      [] OTHER                -> "provisioning"

\* Mutant: an unchanged running row is left alone, nothing is healed.
RecObserveNoHeal(c) ==
    LET l    == rec[c]
        next == Mapped(l.i)
        held == l.snap.state = "failed" /\ next = "provisioning"
        changed == ~held /\ (next # l.snap.state \/ next = "failed" \/ l.snap.by # "rec")
    IN  /\ l.pc = "observe"
        /\ rec' = [rec EXCEPT ![c] =
                     IF l.snap.refs /\ changed THEN [l EXCEPT !.pc = "write", !.next = next]
                     ELSE AtRest]
        /\ UNCHANGED <<book, row, deploy, old, make, gw, api, reads, calls, purges>>

RecObserve(c) ==
    LET l    == rec[c]
        next == Mapped(l.i)
        held == l.snap.state = "failed" /\ next = "provisioning"
        changed == ~held /\ (next # l.snap.state \/ next = "failed" \/ l.snap.by # "rec")
    IN  /\ l.pc = "observe"
        /\ rec' = [rec EXCEPT ![c] =
                     CASE l.snap.refs /\ changed -> [l EXCEPT !.pc = "write", !.next = next]
                       [] l.snap.refs /\ ~changed /\ next = "running" -> [l EXCEPT !.pc = "heal"]
                       [] OTHER -> AtRest]
        /\ UNCHANGED <<book, row, deploy, old, make, gw, api, reads, calls, purges>>

\* applyStateTransition: the quota action that goes with a change of state.
Retries(s, next) == s = "failed" /\ next = "running"

Settles(s, next) ==
    \/ s \in Transient /\ next \in {"running", "failed"}
    \/ s = "running" /\ next = "failed"

Settled(b, t, s, next) ==
    CASE s \in Transient /\ next = "running"                 -> ConfirmTx(b, t)
      [] s \in Transient \cup {"running"} /\ next = "failed" -> FreeTx(b, t)
      [] OTHER                                               -> b

RecWrite(c) ==
    LET l == rec[c]
    IN  /\ l.pc = "write" /\ ~Retries(l.snap.state, l.next)
        /\ Settles(l.snap.state, l.next) => Found(book, l.snap.tx)
        /\ book' = Settled(book, l.snap.tx, l.snap.state, l.next)
        /\ Written(c, l.next, l.snap.tx)
        /\ RecEnds(c)
        /\ UNCHANGED <<deploy, old, make, gw, api, reads, calls, purges>>

RecRetry(c) ==
    LET l == rec[c]
        n == Gpus[l.i]
    IN  /\ l.pc = "write" /\ Retries(l.snap.state, l.next)
        /\ CanTry(book, n)
        /\ book' = TryTx(book, n)
        /\ Written(c, l.next, NewTx(book))
        /\ RecEnds(c)
        /\ UNCHANGED <<deploy, old, make, gw, api, reads, calls, purges>>

RecHeal(c) ==
    /\ rec[c].pc = "heal"
    /\ book' = ConfirmTx(book, rec[c].snap.tx)
    /\ RecEnds(c)
    /\ UNCHANGED <<row, deploy, old, make, gw, api, reads, calls, purges>>

\* The quota is exceeded, the reservation is not found, or any call fails: the
\* target is backed off.
RecFails(c) ==
    /\ rec[c].pc # "idle"
    /\ \/ Faults
       \/ ~Found(book, rec[c].snap.tx) /\ rec[c].pc \in {"timeout", "write"}
       \/ /\ rec[c].pc = "write" /\ Retries(rec[c].snap.state, rec[c].next)
          /\ ~CanTry(book, Gpus[rec[c].i])
    /\ RecEnds(c)
    /\ UNCHANGED <<book, row, deploy, old, make, gw, api, reads, calls, purges>>

-----------------------------------------------------------------------------
(***************************************************************************)
(* Read repair: refresh a row read before from the Deployment, delegate a  *)
(* change of state to ReconcileNow, then write the refreshed row.          *)
(***************************************************************************)
GwRead(g, i) ==
    /\ gw[g].pc = "idle" /\ reads < MaxReads
    /\ row[i].state \notin Gone
    /\ gw' = [gw EXCEPT ![g] = [pc |-> "observe", i |-> i, snap |-> row[i], next |-> "absent"]]
    /\ reads' = reads + 1
    /\ UNCHANGED <<book, row, deploy, old, make, rec, api, calls, purges>>

Refreshed(s, d) ==
    CASE d = "absent"       -> "failed"
      [] s = "stopped"      -> "stopped"
      [] d = "ready"        -> "running"
      [] d = "scaled"       -> "stopped"
      [] OTHER              -> d

GwObserve(g) ==
    LET l    == gw[g]
        next == Refreshed(l.snap.state, deploy[l.i])
    IN  /\ l.pc = "observe"
        /\ gw' = [gw EXCEPT ![g] =
                    CASE l.snap.state = "stopped" /\ deploy[l.i] = "absent" -> AtRest
                      [] next # l.snap.state -> [l EXCEPT !.pc = "delegate", !.next = next]
                      [] OTHER               -> [l EXCEPT !.pc = "upsert", !.next = next]]
        /\ UNCHANGED <<book, row, deploy, old, make, rec, api, reads, calls, purges>>

GwDelegate(g) ==
    LET i == gw[g].i
    IN  /\ gw[g].pc = "delegate"
        /\ gw' = [gw EXCEPT ![g].pc = "upsert"]
        /\ rec' = IF row[i].state \in Gone THEN rec ELSE [rec EXCEPT ![g] = Begin(i)]
        /\ UNCHANGED <<book, row, deploy, old, make, api, reads, calls, purges>>

GwUpsert(g) ==
    /\ gw[g].pc = "upsert" /\ rec[g].pc = "idle"
    /\ row' = [row EXCEPT ![gw[g].i] = [gw[g].snap EXCEPT !.state = gw[g].next, !.by = "gw"]]
    /\ gw' = [gw EXCEPT ![g] = AtRest]
    /\ UNCHANGED <<book, deploy, old, make, rec, api, reads, calls, purges>>

-----------------------------------------------------------------------------
(***************************************************************************)
(* applyLifecycle: read the row, call the provider, write the row.         *)
(* "other" stands for the requests that keep the state of the row.         *)
(***************************************************************************)
Transition(s, a) ==
    CASE a = "start"  -> "running"
      [] a = "stop"   -> "stopped"
      [] a = "delete" -> "deleted"
      [] OTHER        -> s

ApiRead(h, i, a) ==
    /\ api[h].pc = "idle" /\ calls < MaxCalls
    /\ row[i].state # "absent"
    /\ row[i].state = "deleted" => a = "delete"
    /\ a \in {"start", "stop"} => row[i].refs
    /\ api' = [api EXCEPT ![h] = [pc |-> a, i |-> i, snap |-> row[i],
                                  next |-> Transition(row[i].state, a)]]
    /\ calls' = calls + 1
    /\ UNCHANGED <<book, row, deploy, old, make, rec, gw, reads, purges>>

\* deleteResources deletes what the row refers to; patchScale needs the object.
Scaled(l, d) ==
    CASE l.pc = "delete" /\ l.snap.refs     -> "absent"
      [] l.pc = "stop"                      -> "scaled"
      [] l.pc = "start" /\ d = "scaled"     -> "pending"
      [] OTHER                              -> d

\* Mutant: every start takes a new reservation.
ApiApplyAfresh(h) ==
    LET l == api[h]
    IN  /\ l.pc \in {"start", "stop", "delete", "other"}
        /\ l.pc \in {"start", "stop"} => deploy[l.i] # "absent"
        /\ deploy' = [deploy EXCEPT ![l.i] = Scaled(l, deploy[l.i])]
        /\ api' = [api EXCEPT ![h].pc = IF l.pc = "start" THEN "retry" ELSE "persist"]
        /\ UNCHANGED <<book, row, old, make, rec, gw, reads, calls, purges>>

ApiApply(h) ==
    LET l == api[h]
    IN  /\ l.pc \in {"start", "stop", "delete", "other"}
        /\ l.pc \in {"start", "stop"} => deploy[l.i] # "absent"
        /\ deploy' = [deploy EXCEPT ![l.i] = Scaled(l, deploy[l.i])]
        /\ api' = [api EXCEPT ![h].pc = IF l.pc = "start" /\ l.snap.state = "failed"
                                        THEN "retry" ELSE "persist"]
        /\ UNCHANGED <<book, row, old, make, rec, gw, reads, calls, purges>>

ApiWritten(h, tx) ==
    row' = [row EXCEPT ![api[h].i] =
              [api[h].snap EXCEPT !.state = api[h].next, !.tx = tx, !.by = "api"]]

\* persistLifecycleWithQuota
ApiPersist(h) ==
    LET l == api[h]
    IN  /\ l.pc = "persist"
        /\ l.next = "deleted" => Found(book, l.snap.tx)
        /\ book' = IF l.next = "deleted" THEN FreeTx(book, l.snap.tx) ELSE book
        /\ ApiWritten(h, l.snap.tx)
        /\ api' = [api EXCEPT ![h] = AtRest]
        /\ UNCHANGED <<deploy, old, make, rec, gw, reads, calls, purges>>

ApiRetry(h) ==
    LET n == Gpus[api[h].i]
    IN  /\ api[h].pc = "retry"
        /\ CanTry(book, n)
        /\ book' = TryTx(book, n)
        /\ ApiWritten(h, NewTx(book))
        /\ api' = [api EXCEPT ![h] = AtRest]
        /\ UNCHANGED <<deploy, old, make, rec, gw, reads, calls, purges>>

ApiFails(h) ==
    /\ api[h].pc # "idle"
    /\ \/ Faults
       \/ api[h].pc \in {"start", "stop"} /\ deploy[api[h].i] = "absent"
       \/ api[h].pc = "persist" /\ api[h].next = "deleted" /\ ~Found(book, api[h].snap.tx)
       \/ api[h].pc = "retry" /\ ~CanTry(book, Gpus[api[h].i])
    /\ api' = [api EXCEPT ![h] = AtRest]
    /\ UNCHANGED <<book, row, deploy, old, make, rec, gw, reads, calls, purges>>

-----------------------------------------------------------------------------
\* The cluster: pods come up and go down, a Deployment is removed by hand.
Cluster(i) ==
    /\ \/ deploy[i] = "pending" /\ deploy' = [deploy EXCEPT ![i] = "provisioning"]
       \/ deploy[i] = "provisioning" /\ deploy' = [deploy EXCEPT ![i] = "ready"]
       \/ deploy[i] = "ready" /\ deploy' = [deploy EXCEPT ![i] = "provisioning"]
       \/ Faults /\ deploy[i] # "absent" /\ deploy' = [deploy EXCEPT ![i] = "absent"]
    /\ UNCHANGED <<book, row, old, make, rec, gw, api, reads, calls, purges>>

Deadline(i) ==
    /\ row[i].state # "absent" /\ ~old[i]
    /\ old' = [old EXCEPT ![i] = TRUE]
    /\ UNCHANGED <<book, row, deploy, make, rec, gw, api, reads, calls, purges>>

Create(i) ==
    \/ MakeTry(i) \/ MakeApply(i) \/ MakeUpsert(i) \/ MakeObserve(i) \/ MakePersist(i)
    \/ MakeRefused(i) \/ MakeFails(i) \/ MakeDies(i)

Reconcile(c) ==
    RecTimeout(c) \/ RecObserve(c) \/ RecWrite(c) \/ RecRetry(c) \/ RecHeal(c) \/ RecFails(c)

Reader(g) == (\E i \in Instances : GwRead(g, i)) \/ GwObserve(g) \/ GwDelegate(g) \/ GwUpsert(g)

Handler(h) ==
    \/ \E i \in Instances, a \in ApiActions : ApiRead(h, i, a)
    \/ ApiApply(h) \/ ApiPersist(h) \/ ApiRetry(h) \/ ApiFails(h)

Next ==
    \/ \E i \in Instances : Create(i) \/ Cluster(i) \/ Deadline(i)
    \/ \E c \in Controllers, i \in Instances : RecRead(c, i)
    \/ \E c \in Callers : Reconcile(c)
    \/ \E g \in Readers : Reader(g)
    \/ \E h \in Handlers : Handler(h)
    \/ \E n \in Totals :
        \/ Put(n) \/ CreateTenantQuota(n) \/ UpdateTenantQuota(n) \/ UpsertTenantQuota(n)
    \/ \E n \in Allocs : PutReservation(n)
    \/ DeleteTenantQuota

Spec == Init /\ [][Next]_vars

(***************************************************************************)
(* Fairness: a process that is at work goes on, time passes, and the       *)
(* controller comes back to every target: there are no more targets than   *)
(* MaxConcurrentReconciles, and its loop runs again and again (which is    *)
(* what LeaderElection's LoopComesBack is about).  Nobody has to send      *)
(* requests.                                                               *)
(***************************************************************************)
Fairness ==
    /\ \A i \in Instances :
        /\ WF_vars(MakeApply(i) \/ MakeUpsert(i) \/ MakeObserve(i) \/ MakePersist(i) \/ MakeFails(i))
        /\ WF_vars(Deadline(i))
        /\ \A c \in Controllers : SF_vars(RecRead(c, i))
    /\ \A c \in Callers : WF_vars(Reconcile(c))
    /\ \A g \in Readers : WF_vars(GwObserve(g) \/ GwDelegate(g) \/ GwUpsert(g))
    /\ \A h \in Handlers : WF_vars(ApiApply(h) \/ ApiPersist(h) \/ ApiRetry(h) \/ ApiFails(h))

LiveSpec == Spec /\ Fairness

-----------------------------------------------------------------------------
(***************************************************************************)
(* The bookkeeping is exact: reserved and used are what the reservations   *)
(* say, however often and in whatever order the processes confirm, cancel  *)
(* and release (PostgresQuota's state guards).                             *)
(***************************************************************************)
AmountIn(s) == MapThenSumSet(LAMBDA t : book.resv[t].amount, {t \in Txs : In(book, t, s)})

Balanced == book.reserved = AmountIn("reserved") /\ book.used = AmountIn("confirmed")

(***************************************************************************)
(* Concurrent creates, retries and changes of the total never oversell the *)
(* tenant's quota (the WHERE clause of tryInTx and the CHECK of the table).*)
(***************************************************************************)
NoOversell == book.reserved + book.used <= book.total

(***************************************************************************)
(* A deleted row holds no quota, whatever state the instance was in and    *)
(* whoever worked on it meanwhile (Cancel and Release in the delete's      *)
(* transaction).                                                           *)
(***************************************************************************)
DeletedHoldsNothing ==
    \A i \in Instances : row[i].state = "deleted" =>
        book.resv[row[i].tx].state \in {"cancelled", "released", "gone"}

(***************************************************************************)
(* All processes together keep the promise of the quota service.           *)
(***************************************************************************)
Ledger == INSTANCE QuotaLedger WITH
    limit <- Opened(book).total,
    phase <- [t \in Txs |-> book.resv[t].state],
    size <- [t \in Txs |-> book.resv[t].amount]

KeepsPromise == Ledger!LedgerSpec

(***************************************************************************)
(* The reservation of a running instance does not stay reserved for ever   *)
(* (selfHealConfirm), unless the row changes.  The row must still name its *)
(* objects: Observe is refused without resource refs, and a read repair in *)
(* the middle of a create writes them away.                                *)
(***************************************************************************)
Pending(i, t) ==
    row[i].state = "running" /\ row[i].refs /\ row[i].tx = t /\ In(book, t, "reserved")

RunningSettles == \A i \in Instances, t \in Txs : Pending(i, t) ~> ~Pending(i, t)

(***************************************************************************)
(* No instance stays provisioning for ever (checkProvisioningTimeout),     *)
(* unless the administrator has deleted its reservation: every Cancel then *)
(* fails.                                                                  *)
(***************************************************************************)
ProvisioningEnds ==
    \A i \in Instances :
        row[i].state \in Transient ~> (row[i].state \notin Transient \/ ~Found(book, row[i].tx))

(***************************************************************************)
(* As long as no call fails no quota leaks before the provisioning         *)
(* deadline of an instance has passed: a reservation counts while a row    *)
(* that is not deleted or a create under way names it.  After the deadline *)
(* a timeout skips a confirmed reservation (reconcile_controller.go:610),  *)
(* and the next start takes another (prd-gpu-spec-quota.md, section 8,     *)
(* knows no leak at all).                                                  *)
(***************************************************************************)
LeaksOnlyLate ==
    \A t \in Txs : In(book, t, "reserved") \/ In(book, t, "confirmed") =>
        \E i \in Instances : \/ row[i].tx = t /\ row[i].state \notin Gone
                             \/ make[i].tx = t /\ Making(i)
                             \/ old[i]
=============================================================================
