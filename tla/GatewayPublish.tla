--------------------------- MODULE GatewayPublish ---------------------------
(***************************************************************************)
(* The AI Gateway publisher of the inference service                       *)
(* (services/inference-service/internal/gatewaypublish) and the            *)
(* publication columns of one inference_services row.                      *)
(*                                                                         *)
(* Several publishers poll the row.  One claims it under a lease, then     *)
(* applies or deletes three Kubernetes objects with plain HTTP calls that  *)
(* carry no fencing token, and finally records the result with a           *)
(* compare-and-set on generation, lease token and lease time.  The only    *)
(* thing that keeps two publishers from writing to the cluster at the same *)
(* time is arithmetic: a publisher renews its lease before a call once     *)
(* half of the lease has passed, a call is cut off after RequestTimeout,   *)
(* and LoadConfig refuses LeaseDuration <= 2 * RequestTimeout.             *)
(*                                                                         *)
(* Time is discrete and relative: every timer is the number of ticks it    *)
(* has left.  A publisher that holds a claim is identified with its lease  *)
(* token, because it runs one claim at a time and forgets the old token    *)
(* when it takes a new one.                                                *)
(***************************************************************************)
EXTENDS Naturals

CONSTANTS
    Publishers,      \* publisher replicas
    NoPublisher,     \* publication_lease_token IS NULL
    LeaseDuration,   \* Config.LeaseDuration, in ticks
    RequestTimeout,  \* Config.RequestTimeout, in ticks
    MaxGeneration    \* bound: how often the service asks for a change

ASSUME PublishersAssumption == NoPublisher \notin Publishers

(***************************************************************************)
(* LoadConfig accepts only positive durations with this relation.          *)
(***************************************************************************)
ASSUME TimingAssumption ==
    /\ LeaseDuration \in Nat /\ RequestTimeout \in Nat
    /\ RequestTimeout > 0
    /\ LeaseDuration > 2 * RequestTimeout

ASSUME BoundAssumption == MaxGeneration \in Nat

VARIABLES
    gen,        \* publication_generation
    obs,        \* publication_observed_generation
    desired,    \* publication_desired
    phase,      \* publication_phase
    url,        \* invocation_url IS NOT NULL
    holder,     \* whose token is in publication_lease_token
    leaseLeft,  \* ticks until publication_lease_until
    label,      \* generation label of each gateway object, 0: NotFound
    dying,      \* objects deleted but not yet gone (finalizers)
    pc,         \* where each publisher is in RunOnce
    at,         \* the object it works on
    tgtGen,     \* target.Generation of its claim
    tgtWant,    \* target.Desired of its claim
    renewLeft,  \* ticks until lease.nextRenew
    call,       \* its Kubernetes call: none, sent, owned (Get has answered)
    callLeft    \* ticks until the request context expires

row  == <<gen, obs, desired, phase, url, holder, leaseLeft>>
kube == <<label, dying>>
proc == <<pc, at, tgtGen, tgtWant, renewLeft, call, callLeft>>
vars == <<row, kube, proc>>

Kinds == {"Backend", "AIServiceBackend", "AIGatewayRoute"}
Wants == {"published", "unpublished"}
Phases == {"pending", "publishing", "published", "unpublishing", "unpublished", "failed"}
Steps == {"idle", "claimed", "apply", "ready", "delete", "gone",
          "completing", "complete", "failing", "fail"}

Init ==
    /\ gen = 0 /\ obs = 0
    /\ desired = "unpublished" /\ phase = "unpublished" /\ url = FALSE
    /\ holder = NoPublisher /\ leaseLeft = 0
    /\ label = [k \in Kinds |-> 0] /\ dying = {}
    /\ pc = [p \in Publishers |-> "idle"]
    /\ at = [p \in Publishers |-> "Backend"]
    /\ tgtGen = [p \in Publishers |-> 0]
    /\ tgtWant = [p \in Publishers |-> "unpublished"]
    /\ renewLeft = [p \in Publishers |-> 0]
    /\ call = [p \in Publishers |-> "none"]
    /\ callLeft = [p \in Publishers |-> 0]

-----------------------------------------------------------------------------
(* What the rest of the inference service does to the row.                 *)

Settled == obs = gen /\ phase \in {"published", "unpublished"}

(***************************************************************************)
(* MutateService for stop, restart and delete: the route must go.  The     *)
(* lease columns are left alone, so a publisher of the old generation      *)
(* keeps its lease until it expires.                                       *)
(***************************************************************************)
WithdrawKeepsUrl ==
    /\ gen < MaxGeneration
    /\ gen' = gen + 1
    /\ desired' = "unpublished" /\ phase' = "pending"
    /\ UNCHANGED <<obs, url, holder, leaseLeft, kube, proc>>

Withdraw ==
    /\ gen < MaxGeneration
    /\ gen' = gen + 1
    /\ desired' = "unpublished" /\ phase' = "pending" /\ url' = FALSE
    /\ UNCHANGED <<obs, holder, leaseLeft, kube, proc>>

(***************************************************************************)
(* ApplyObservation completing create, start or restart.  A restart asks   *)
(* for the route under the generation whose withdrawal was confirmed, a    *)
(* create or start under a later one; each of them ran only after the      *)
(* route was confirmed away (or never existed).                            *)
(***************************************************************************)
AskPublish ==
    /\ Settled /\ desired = "unpublished"
    /\ gen' \in {gen, gen + 1} /\ gen' \in 1..MaxGeneration
    /\ desired' = "published" /\ phase' = "pending" /\ url' = FALSE
    /\ UNCHANGED <<obs, holder, leaseLeft, kube, proc>>

-----------------------------------------------------------------------------
(* Lease of the row: claimPublicationSQL, renewPublicationSQL.             *)

RenewAfter == LeaseDuration \div 2

\* The WHERE clause of claimPublicationSQL, and two ways to get it wrong.
ClaimableWhileLeased == gen # obs \/ phase \in {"pending", "publishing", "unpublishing", "failed"}

ClaimableUnlessFailed ==
    /\ gen # obs \/ phase \in {"pending", "publishing", "unpublishing"}
    /\ leaseLeft = 0

Claimable ==
    /\ gen # obs \/ phase \in {"pending", "publishing", "unpublishing", "failed"}
    /\ leaseLeft = 0

Claim(p) ==
    /\ pc[p] = "idle" /\ Claimable
    /\ phase' = IF desired = "published" THEN "publishing" ELSE "unpublishing"
    /\ holder' = p /\ leaseLeft' = LeaseDuration
    /\ pc' = [pc EXCEPT ![p] = "claimed"]
    /\ tgtGen' = [tgtGen EXCEPT ![p] = gen]
    /\ tgtWant' = [tgtWant EXCEPT ![p] = desired]
    /\ UNCHANGED <<gen, obs, desired, url, kube, at, renewLeft, call, callLeft>>

\* The WHERE clause of renewPublicationSQL.
Renewable(p) ==
    /\ holder = p /\ leaseLeft > 0
    /\ gen = tgtGen[p]
    /\ phase \in {"publishing", "unpublishing"}

\* renewLease asks the store only when forced or when nextRenew has come.
RenewOnlyWhenForced(p) == pc[p] \in {"claimed", "completing", "failing"}

MustRenew(p) ==
    \/ pc[p] \in {"claimed", "completing", "failing"}
    \/ pc[p] \in {"apply", "delete", "ready", "gone"} /\ renewLeft[p] = 0

RenewFromExpiry(p) ==
    /\ Renewable(p)
    /\ leaseLeft' = leaseLeft + LeaseDuration
    /\ renewLeft' = [renewLeft EXCEPT ![p] = RenewAfter]

RenewLease(p) ==
    /\ Renewable(p)
    /\ leaseLeft' = LeaseDuration
    /\ renewLeft' = [renewLeft EXCEPT ![p] = RenewAfter]

(***************************************************************************)
(* errPublicationLeaseLost: RunOnce returns and leaves the row alone.      *)
(***************************************************************************)
LoseLease(p) ==
    /\ MustRenew(p) /\ call[p] = "none"
    /\ ~Renewable(p)
    /\ pc' = [pc EXCEPT ![p] = "idle"]
    /\ renewLeft' = [renewLeft EXCEPT ![p] = 0]
    /\ UNCHANGED <<row, kube, at, tgtGen, tgtWant, call, callLeft>>

(***************************************************************************)
(* RunOnce after the claim: forced renewal, then publish or unpublish.     *)
(***************************************************************************)
Open(p) ==
    /\ pc[p] = "claimed"
    /\ RenewLease(p)
    /\ IF tgtWant[p] = "published"
         THEN /\ pc' = [pc EXCEPT ![p] = "apply"]
              /\ at' = [at EXCEPT ![p] = "Backend"]
         ELSE /\ pc' = [pc EXCEPT ![p] = "delete"]
              /\ at' = [at EXCEPT ![p] = "AIGatewayRoute"]
    /\ UNCHANGED <<gen, obs, desired, phase, url, holder, kube, tgtGen, tgtWant,
                   call, callLeft>>

-----------------------------------------------------------------------------
(* Kubernetes calls.                                                       *)

(***************************************************************************)
(* apply and delete of the reconciler: renew if half of the lease is gone, *)
(* then start a request whose context lives for RequestTimeout.            *)
(***************************************************************************)
BeginCall(p) ==
    /\ pc[p] \in {"apply", "delete"} /\ call[p] = "none"
    /\ IF MustRenew(p) THEN RenewLease(p) ELSE UNCHANGED <<leaseLeft, renewLeft>>
    /\ call' = [call EXCEPT ![p] = "sent"]
    /\ callLeft' = [callLeft EXCEPT ![p] = RequestTimeout]
    /\ UNCHANGED <<gen, obs, desired, phase, url, holder, kube, pc, at, tgtGen, tgtWant>>

\* Leaves the call and goes on to step s at object k.
Goto(p, s, k) ==
    /\ pc' = [pc EXCEPT ![p] = s]
    /\ at' = [at EXCEPT ![p] = k]
    /\ call' = [call EXCEPT ![p] = "none"]
    /\ callLeft' = [callLeft EXCEPT ![p] = 0]
    /\ UNCHANGED <<tgtGen, tgtWant, renewLeft>>

(***************************************************************************)
(* The Get that opens KubeClient.Apply and KubeClient.Delete:              *)
(* sameManagedOwner refuses an object of a later generation; deleting an   *)
(* object that is not there succeeds at once.                              *)
(***************************************************************************)
Inspect(p) ==
    /\ call[p] = "sent"
    /\ \/ /\ label[at[p]] > tgtGen[p]
          /\ Goto(p, "failing", at[p])
       \/ /\ pc[p] = "delete" /\ label[at[p]] = 0
          /\ Goto(p, "gone", at[p])
       \/ /\ label[at[p]] <= tgtGen[p] /\ ~(pc[p] = "delete" /\ label[at[p]] = 0)
          /\ call' = [call EXCEPT ![p] = "owned"]
          /\ UNCHANGED <<pc, at, tgtGen, tgtWant, renewLeft, callLeft>>
    /\ UNCHANGED <<row, kube>>

\* publish applies the backends before the route that refers to them.
RouteAfterBackend(k) == "AIGatewayRoute"

AfterApply(k) ==
    CASE k = "Backend" -> "AIServiceBackend"
      [] k = "AIServiceBackend" -> "AIGatewayRoute"
      [] OTHER -> "AIGatewayRoute"

(***************************************************************************)
(* The PATCH or DELETE reaches the API server.  The answer may be lost, in *)
(* which case the step fails although it took effect.                      *)
(***************************************************************************)
Write(p) ==
    /\ call[p] = "owned"
    /\ \/ /\ pc[p] = "apply"
          /\ label' = [label EXCEPT ![at[p]] = tgtGen[p]]
          /\ dying' = dying
          /\ \/ Goto(p, IF at[p] = "AIGatewayRoute" THEN "ready" ELSE "apply", AfterApply(at[p]))
             \/ Goto(p, "failing", at[p])
       \/ /\ pc[p] = "delete"
          /\ label' = label
          /\ dying' = dying \cup (IF label[at[p]] = 0 THEN {} ELSE {at[p]})
          /\ Goto(p, "gone", at[p]) \/ Goto(p, "failing", at[p])
    /\ UNCHANGED row

(***************************************************************************)
(* A deleted object disappears once its finalizers have run.               *)
(***************************************************************************)
Collect(k) ==
    /\ k \in dying
    /\ label' = [label EXCEPT ![k] = 0]
    /\ dying' = dying \ {k}
    /\ UNCHANGED <<row, proc>>

(***************************************************************************)
(* Render error, a refused or timed out call, a status that does not       *)
(* become current: the step gives up and goes to fail().                   *)
(***************************************************************************)
StepFails(p) ==
    /\ pc[p] \in {"apply", "delete", "ready", "gone"}
    /\ Goto(p, "failing", at[p])
    /\ UNCHANGED <<row, kube>>

-----------------------------------------------------------------------------
(* Polling.                                                                *)

\* Every round of waitCurrent and waitNotFound starts with renewLease.
PollRenew(p) ==
    /\ pc[p] \in {"ready", "gone"} /\ MustRenew(p)
    /\ RenewLease(p)
    /\ UNCHANGED <<gen, obs, desired, phase, url, holder, kube, pc, at, tgtGen, tgtWant,
                   call, callLeft>>

\* ready(): all objects exist and their controllers accepted them.
Ready(p) ==
    /\ pc[p] = "ready" /\ ~MustRenew(p)
    /\ \A k \in Kinds : label[k] # 0
    /\ Goto(p, "completing", at[p])
    /\ UNCHANGED <<row, kube>>

\* The Get of waitNotFound; a deletion timestamp is not enough.
DyingIsEnough(k) == label[k] = 0 \/ k \in dying

NotFound(k) == label[k] = 0

\* unpublish: the route goes first, the backends after it.
Gone(p) ==
    /\ pc[p] = "gone" /\ ~MustRenew(p)
    /\ NotFound(at[p])
    /\ CASE at[p] = "AIGatewayRoute" -> Goto(p, "delete", "AIServiceBackend")
         [] at[p] = "AIServiceBackend" -> Goto(p, "delete", "Backend")
         [] OTHER -> Goto(p, "completing", "Backend")
    /\ UNCHANGED <<row, kube>>

-----------------------------------------------------------------------------
(* Recording the result.                                                   *)

\* The forced renewal in front of CompletePublication and FailPublication.
SettleRenew(p) ==
    /\ pc[p] \in {"completing", "failing"}
    /\ RenewLease(p)
    /\ pc' = [pc EXCEPT ![p] = IF pc[p] = "completing" THEN "complete" ELSE "fail"]
    /\ UNCHANGED <<gen, obs, desired, phase, url, holder, kube, at, tgtGen, tgtWant,
                   call, callLeft>>

Release(p) ==
    /\ holder' = NoPublisher /\ leaseLeft' = 0
    /\ pc' = [pc EXCEPT ![p] = "idle"]
    /\ renewLeft' = [renewLeft EXCEPT ![p] = 0]
    /\ UNCHANGED <<at, tgtGen, tgtWant, call, callLeft>>

\* The WHERE clause of completePublicationSQL.
CompleteAllowed(p) ==
    /\ gen = tgtGen[p] /\ holder = p /\ leaseLeft > 0
    /\ desired = tgtWant[p]
    /\ phase = IF tgtWant[p] = "published" THEN "publishing" ELSE "unpublishing"

CompletePublication(p) ==
    /\ pc[p] = "complete" /\ CompleteAllowed(p)
    /\ obs' = tgtGen[p]
    /\ phase' = tgtWant[p]
    /\ url' = (tgtWant[p] = "published")
    /\ Release(p)
    /\ UNCHANGED <<gen, desired, kube>>

\* failPublicationSQL: generation, token and lease time, but not the phase.
FailAllowed(p) == gen = tgtGen[p] /\ holder = p /\ leaseLeft > 0

FailPublication(p) ==
    /\ pc[p] = "fail" /\ FailAllowed(p)
    /\ phase' = "failed"
    /\ url' = IF desired = "published" THEN FALSE ELSE url
    /\ Release(p)
    /\ UNCHANGED <<gen, obs, desired, kube>>

\* Zero rows affected: the result is dropped.
StaleResult(p) ==
    /\ \/ pc[p] = "complete" /\ ~CompleteAllowed(p)
       \/ pc[p] = "fail" /\ ~FailAllowed(p)
    /\ pc' = [pc EXCEPT ![p] = "idle"]
    /\ renewLeft' = [renewLeft EXCEPT ![p] = 0]
    /\ UNCHANGED <<row, kube, at, tgtGen, tgtWant, call, callLeft>>

-----------------------------------------------------------------------------

\* The process dies; its open connection dies with it.
Crash(p) ==
    /\ pc[p] # "idle"
    /\ pc' = [pc EXCEPT ![p] = "idle"]
    /\ renewLeft' = [renewLeft EXCEPT ![p] = 0]
    /\ call' = [call EXCEPT ![p] = "none"]
    /\ callLeft' = [callLeft EXCEPT ![p] = 0]
    /\ UNCHANGED <<row, kube, at, tgtGen, tgtWant>>

Down(n) == IF n = 0 THEN 0 ELSE n - 1

(***************************************************************************)
(* One tick of the clock.  A request context that has run out ends its     *)
(* call before time goes on.                                               *)
(***************************************************************************)
Tick ==
    /\ \A p \in Publishers : call[p] # "none" => callLeft[p] > 0
    /\ leaseLeft' = Down(leaseLeft)
    /\ renewLeft' = [p \in Publishers |-> Down(renewLeft[p])]
    /\ callLeft' = [p \in Publishers |-> Down(callLeft[p])]
    /\ UNCHANGED <<gen, obs, desired, phase, url, holder, kube, pc, at, tgtGen, tgtWant, call>>

Publisher(p) ==
    \/ Claim(p) \/ Open(p) \/ LoseLease(p)
    \/ BeginCall(p) \/ Inspect(p) \/ Write(p) \/ StepFails(p)
    \/ PollRenew(p) \/ Ready(p) \/ Gone(p)
    \/ SettleRenew(p) \/ CompletePublication(p) \/ FailPublication(p) \/ StaleResult(p)
    \/ Crash(p)

Next ==
    \/ Withdraw
    \/ AskPublish
    \/ \E k \in Kinds : Collect(k)
    \/ \E p \in Publishers : Publisher(p)
    \/ Tick

Spec == Init /\ [][Next]_vars

(***************************************************************************)
(* Fairness.  The clock runs, finalizers finish and every replica calls    *)
(* RunOnce in a loop, so each publisher keeps taking the steps it can, and *)
(* a status that keeps being right when polled is seen in the end.         *)
(* Crashes, failed calls and calls slower than the lease may happen any    *)
(* number of times, but not for ever: from some point on replicas stay up  *)
(* and time passes only while they wait.                                   *)
(***************************************************************************)
Work(p) ==
    \/ Claim(p) \/ Open(p) \/ LoseLease(p)
    \/ BeginCall(p) \/ Inspect(p) \/ (Write(p) /\ pc'[p] # "failing")
    \/ PollRenew(p) \/ Ready(p) \/ Gone(p)
    \/ SettleRenew(p) \/ CompletePublication(p) \/ FailPublication(p) \/ StaleResult(p)

Fault(p) == Crash(p) \/ StepFails(p) \/ (Write(p) /\ pc'[p] = "failing")

Waiting(p) == pc[p] = "idle" \/ (pc[p] \in {"ready", "gone"} /\ ~MustRenew(p))

Calm == \A p \in Publishers : ~Fault(p) /\ (Tick => Waiting(p))

Fairness ==
    /\ WF_vars(Tick)
    /\ \A k \in Kinds : WF_vars(Collect(k))
    /\ \A p \in Publishers : WF_vars(Work(p)) /\ SF_vars(Ready(p) \/ Gone(p))
    /\ <>[][Calm]_vars

LiveSpec == Spec /\ Fairness

-----------------------------------------------------------------------------
(* Properties.                                                             *)

TypeOK ==
    /\ gen \in Nat /\ obs \in Nat
    /\ desired \in Wants /\ phase \in Phases /\ url \in BOOLEAN
    /\ holder \in Publishers \cup {NoPublisher}
    /\ leaseLeft \in 0..LeaseDuration
    /\ label \in [Kinds -> Nat] /\ dying \in SUBSET Kinds
    /\ pc \in [Publishers -> Steps] /\ at \in [Publishers -> Kinds]
    /\ tgtGen \in [Publishers -> Nat] /\ tgtWant \in [Publishers -> Wants]
    /\ renewLeft \in [Publishers -> 0..LeaseDuration]
    /\ call \in [Publishers -> {"none", "sent", "owned"}]
    /\ callLeft \in [Publishers -> 0..RequestTimeout]

\* What PublicationWithdrawn reads.
Withdrawn == Settled /\ phase = "unpublished" /\ desired = "unpublished"

(***************************************************************************)
(* The reconciler stops or deletes the runtime when publicationWithdrawnSQL*)
(* finds the row withdrawn.  At that moment, and as long as the row says   *)
(* so, no gateway object of the service exists: no publisher, however      *)
(* late, still creates one.                                                *)
(***************************************************************************)
WithdrawnMeansNoObjects == Withdrawn => \A k \in Kinds : label[k] = 0

(***************************************************************************)
(* Two publishers never have a Kubernetes call open at the same time,      *)
(* although neither the calls nor the API server check the lease.          *)
(***************************************************************************)
SingleMutator ==
    \A p, q \in Publishers : call[p] # "none" /\ call[q] # "none" => p = q

(***************************************************************************)
(* A route never refers to a backend that is not there: publish creates    *)
(* the backends first and unpublish removes the route first, across        *)
(* crashes, failures and handovers between replicas.                       *)
(***************************************************************************)
RouteNeverDangles ==
    label["AIGatewayRoute"] # 0 => \A k \in Kinds : label[k] # 0

(***************************************************************************)
(* An invocation URL is handed out only while all objects exist with the   *)
(* generation of the row and none of them is being deleted.                *)
(***************************************************************************)
UrlMeansRouted ==
    url => /\ desired = "published"
           /\ \A k \in Kinds : label[k] = gen /\ k \notin dying

(***************************************************************************)
(* The publisher implements the fence the reconciler was written against.  *)
(***************************************************************************)
Fence == INSTANCE RouteFence WITH
    wanted <- desired = "published",
    confirmed <- Settled,
    objects <- {k \in Kinds : label[k] # 0}

ImplementsFence == Fence!FenceSpec

(***************************************************************************)
(* Every request is settled in the end: RunOnce, lease expiry and retries  *)
(* carry it through crashes and failed steps.                              *)
(***************************************************************************)
EveryRequestSettles == (~Settled) ~> Settled
=============================================================================
