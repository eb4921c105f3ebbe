-------------------------- MODULE InferenceService --------------------------
(***************************************************************************)
(* The control plane of one inference service                              *)
(* (services/inference-service/internal): its row in inference_services,   *)
(* its rows in inference_operations, the API requests that change them,    *)
(* the reconcile workers that carry the operations out, and the Core       *)
(* platform workload behind it (pkg/adapters/runtime).                     *)
(*                                                                         *)
(* Every database transaction and every Core call is one step; what a      *)
(* process read before is kept in its own variables, so anything may       *)
(* happen between a read and the write that depends on it.  The gateway    *)
(* publisher is the abstract RouteFence, which GatewayPublish implements.  *)
(* Specs are abstracted to their replica count, clocks to flags that say   *)
(* that a time limit has passed.                                           *)
(***************************************************************************)
EXTENDS Naturals

CONSTANTS
    Workers,         \* reconcile worker replicas
    Clients,         \* API requests that call Core themselves
    NoWorker,        \* lease_token IS NULL or lease_until has passed
    Replicas,        \* replica counts users ask for
    MaxOps,          \* bound: operations of the service
    Actions,         \* the operations users ask for after create
    LeaseHolds       \* TRUE: RunOnce always ends within leaseDuration

ASSUME WorkersAssumption == NoWorker \notin Workers
ASSUME ReplicasAssumption == Replicas \subseteq Nat \ {0}
ASSUME BoundAssumption == MaxOps \in Nat \ {0}
ASSUME ActionsAssumption == Actions \subseteq {"scale", "start", "stop", "restart", "delete"}
ASSUME LeaseAssumption == LeaseHolds \in BOOLEAN

VARIABLES
    svc,        \* the inference_services row
    ops,        \* the inference_operations rows by operation number
    wanted,     \* publication_desired = published
    confirmed,  \* publication_observed_generation has caught up
    objects,    \* gateway objects in the cluster
    pubGen,     \* publication_generation
    core,       \* the platform workload
    intents,    \* platform_workload_intents: Core's idempotency keys
    grace,      \* requestPathEnsureGrace has not passed since create
    pc, loc,    \* each worker: step of RunOnce and what it has read
    cpc, req    \* each client: step of its request and what it has read

row   == <<svc, ops>>
gate  == <<wanted, confirmed, objects, pubGen>>
coreVars == <<core, intents>>
wk    == <<pc, loc>>
cl    == <<cpc, req>>
vars  == <<row, gate, coreVars, grace, wk, cl>>

OpIds == 1..MaxOps
Active == {"pending", "running"}
Ended == {"completed", "failed", "cancelled", "erased"}

Fence == INSTANCE RouteFence WITH Kinds <- {"route"}

NoRow == [here |-> "none", status |-> "pending", desired |-> "running", gen |-> 0,
          spec |-> 0, applied |-> 0, ref |-> FALSE, cur |-> 0]

\* What a process that is not at work remembers.
NoLoc == [op |-> 1, rb |-> 0, code |-> "none", snap |-> NoRow, note |-> "none"]
NoReq == [op |-> 1, type |-> "create", r |-> 0, before |-> NoRow, ref |-> FALSE, note |-> "none"]

Init ==
    /\ svc = NoRow
    /\ ops = [o \in OpIds |-> [type |-> "none", state |-> "none", target |-> 0, rb |-> 0,
                               spec |-> 0, before |-> 0, code |-> "none", lease |-> NoWorker,
                               spent |-> FALSE]]
    /\ Fence!FenceInit /\ pubGen = 0
    /\ core = [state |-> "none", up |-> FALSE, replicas |-> 0]
    /\ intents = {}
    /\ grace = TRUE
    /\ pc = [w \in Workers |-> "idle"]
    /\ loc = [w \in Workers |-> NoLoc]
    /\ cpc = [c \in Clients |-> "idle"]
    /\ req = [c \in Clients |-> NoReq]

-----------------------------------------------------------------------------
(* Core: idempotent calls on the platform workload.                        *)

MutationKey(gen) == <<"generation", gen>>
RollbackKey(o, gen) == <<"rollback", gen, o>>
CleanupKey(gen) == <<"cleanup", gen>>

(***************************************************************************)
(* What a call with an idempotency key can do.  A key seen before with     *)
(* another fingerprint is a conflict, a finished one is answered from the  *)
(* record.  Otherwise the call may be refused, may get stuck after its     *)
(* intent was recorded, or may take effect; then the answer may be lost.   *)
(***************************************************************************)
Outcome(c, i, reply) == [core |-> c, intents |-> i, reply |-> reply]

\* The call was carried out before (and a bug: its record is never found).
NeverRecorded(key, fp) == FALSE

Recorded(key, fp) == [key |-> key, fp |-> fp, done |-> TRUE] \in intents

CoreCall(key, fp, allowed, half, after) ==
    LET intent(done) == [key |-> key, fp |-> fp, done |-> done]
        others == {i \in intents : i.key # key}
    IN  IF \E i \in intents : i.key = key /\ i.fp # fp
          THEN {Outcome(core, intents, "conflict")}
        ELSE IF Recorded(key, fp)
          THEN {Outcome(core, intents, r) : r \in {"ok", "error"}}
        ELSE IF ~allowed /\ others = intents
          THEN {Outcome(core, intents, "notfound")}
        ELSE {Outcome(core, intents, "error"), Outcome(core, intents, "fatal")}
             \cup {Outcome(half, others \cup {intent(FALSE)}, "error")}
             \cup {Outcome(after, others \cup {intent(TRUE)}, r) : r \in {"ok", "error"}}

\* Create: POST /platform-workloads; the answer carries the reference unless it is lost.
PostWorkload(key, r) ==
    LET made == [state |-> "live", up |-> TRUE, replicas |-> r]
        outcomes == CoreCall(key, <<"create", r>>, core.state # "live", [made EXCEPT !.up = FALSE], made)
    IN  outcomes \cup {[x EXCEPT !.reply = "ref_error"] : x \in {y \in outcomes : y.reply = "ok"}}

\* UpdateReplicas: PATCH /platform-workloads/{id}.
PatchReplicas(key, r) ==
    LET scaled == [core EXCEPT !.replicas = r]
    IN  CoreCall(key, <<"scale", r>>, core.state = "live", scaled, scaled)

\* ApplyLifecycle: POST /platform-workloads/{id}/lifecycle.
Lifecycle(key, action) ==
    CoreCall(key, <<action, 0>>, core.state = "live",
             IF action = "restart" THEN [core EXCEPT !.up = FALSE] ELSE core,
             [core EXCEPT !.up = (action # "stop")])

\* Delete: DELETE /platform-workloads/{id}; it answers for deleted workloads too.
DeleteWorkload(key) ==
    CoreCall(key, <<"delete", 0>>, core.state # "none",
             [core EXCEPT !.up = FALSE], [core EXCEPT !.state = "deleted", !.up = FALSE])

\* Runtime.Ensure of the Core adapter.
Ensure(key, ref, r) == IF ref THEN PatchReplicas(key, r) ELSE PostWorkload(key, r)

Apply(x) == core' = x.core /\ intents' = x.intents

-----------------------------------------------------------------------------
(* The API: create, MutateService and the dispatch to Core.                *)

\* The request goes on to step s, or is answered.
ClientGoes(c, s) ==
    /\ cpc' = [cpc EXCEPT ![c] = s]
    /\ IF s = "idle" THEN req' = [req EXCEPT ![c] = NoReq] ELSE UNCHANGED req

HasActive == svc.cur # 0 /\ ops[svc.cur].state \in Active
NewOp == CHOOSE o \in OpIds : ops[o].state = "none" /\ \A q \in OpIds : q < o => ops[q].state # "none"
OpLeft == \E o \in OpIds : ops[o].state = "none"

Row(type, target, spec, before) ==
    [type |-> type, state |-> "pending", target |-> target, rb |-> 0, spec |-> spec,
     before |-> before, code |-> "none", lease |-> NoWorker, spent |-> FALSE]

\* The operation has ended: its lease is cleared, nobody reads its clock and error code again.
Closed(o, state) ==
    [ops EXCEPT ![o].state = state, ![o].lease = NoWorker, ![o].spent = FALSE, ![o].code = "none"]

\* CreateWithOperation.
CreateWithOperation(c, r) ==
    /\ svc.here = "none" /\ cpc[c] = "idle"
    /\ svc' = [svc EXCEPT !.here = "live", !.gen = 1, !.spec = r, !.cur = 1]
    /\ ops' = [ops EXCEPT ![1] = Row("create", 1, r, 0)]
    /\ cpc' = [cpc EXCEPT ![c] = "dispatch"]
    /\ req' = [req EXCEPT ![c] = [NoReq EXCEPT !.r = r]]
    /\ UNCHANGED <<gate, coreVars, grace, wk>>

\* actionAllowed.
ActionAllowed(a) ==
    CASE a = "scale" -> svc.status \in {"running", "deploying"}
      [] a = "restart" -> svc.status = "running"
      [] a = "start" -> svc.status = "stopped"
      [] a = "stop" -> svc.status \in {"pending", "deploying", "running"}
      [] a = "delete" -> TRUE

CanPreempt(next, active) ==
    \/ next = "delete" /\ active # "delete"
    \/ next = "scale" /\ active = "scale"
    \/ next = "stop" /\ active \in {"create", "scale", "start", "restart"}

\* TransitionAlreadyDesired.
AlreadyDesired(a, r) ==
    \/ a = "stop" /\ svc.desired = "stopped" /\ ~(HasActive /\ ops[svc.cur].type = "stop")
    \/ a = "start" /\ svc.desired = "running" /\ svc.status = "running"
    \/ /\ a = "scale" /\ svc.desired = "running" /\ svc.status = "running"
       /\ ~HasActive /\ r = svc.spec

\* BeginTransition, validatePreemptionFence and cancelOperationSQL let it through.
MayPreempt(a) ==
    HasActive => /\ CanPreempt(a, ops[svc.cur].type)
                 /\ ops[svc.cur].state = "pending"
                 /\ ~(ops[svc.cur].type = "create" /\ ~svc.ref)

MayBegin(a, r) ==
    /\ svc.here = "live" /\ OpLeft
    /\ svc.desired # "deleted" /\ ~AlreadyDesired(a, r)
    /\ ActionAllowed(a) /\ MayPreempt(a)

\* requiresPublicationWithdrawal (and a bug: restart is forgotten).
RestartKeepsRoute(a) == a \in {"stop", "delete"}

NeedsWithdrawal(a) == a \in {"stop", "restart", "delete"}

\* Scale sets the replicas (and a bug: it adds them).
AddedReplicas(a, r) == svc.spec + r

TargetSpec(a, r) == IF a = "scale" THEN r ELSE svc.spec

\* cancelOperationSQL (and a bug: the preempted operation stays queued).
KeepPreempted == ops

CancelPreempted ==
    IF HasActive THEN Closed(svc.cur, "cancelled") ELSE ops

\* MutateService with TransitionCreated.
MutateService(a, r) ==
    LET target == TargetSpec(a, r)
        gen == svc.gen + 1
    IN  /\ MayBegin(a, r)
        /\ ops' = [CancelPreempted EXCEPT ![NewOp] = Row(a, gen, target, svc.applied)]
        /\ svc' = [svc EXCEPT !.gen = gen, !.cur = NewOp, !.spec = target,
                     !.status = IF a \in {"stop", "delete"} THEN "stopping" ELSE "deploying",
                     !.desired = CASE a = "stop" -> "stopped" [] a = "delete" -> "deleted"
                                   [] OTHER -> "running"]
        /\ IF NeedsWithdrawal(a)
             THEN /\ wanted' = FALSE /\ confirmed' = FALSE /\ pubGen' = gen
                  /\ UNCHANGED objects
             ELSE UNCHANGED gate

\* The no-op answer is recorded as a completed operation and becomes current.
AnswerAlreadyDesired(a, r) ==
    /\ svc.here = "live" /\ OpLeft /\ svc.desired # "deleted" /\ AlreadyDesired(a, r)
    /\ ops' = [ops EXCEPT ![NewOp] = [Row(a, svc.gen, svc.spec, svc.applied) EXCEPT !.state = "completed"]]
    /\ svc' = [svc EXCEPT !.cur = NewOp]
    /\ UNCHANGED gate

\* Lifecycle(stop, restart) and Delete only write the database.
RequestWithdrawn(a) ==
    /\ a \in Actions \cap {"stop", "restart", "delete"}
    /\ MutateService(a, 0) \/ AnswerAlreadyDesired(a, 0)
    /\ UNCHANGED <<coreVars, grace, wk, cl>>

\* Scale and start read the service first and call Core afterwards.
ReadBefore(c, a, r) ==
    /\ cpc[c] = "idle" /\ svc.here = "live"
    /\ a \in Actions \cap {"scale", "start"}
    /\ cpc' = [cpc EXCEPT ![c] = "mutate"]
    /\ req' = [req EXCEPT ![c] = [NoReq EXCEPT !.type = a, !.r = r, !.before = svc]]
    /\ UNCHANGED <<row, gate, coreVars, grace, wk>>

RequestMutation(c) ==
    /\ cpc[c] = "mutate"
    /\ \/ /\ MutateService(req[c].type, req[c].r)
          /\ cpc' = [cpc EXCEPT ![c] = "dispatch"]
          /\ req' = [req EXCEPT ![c].op = NewOp, ![c].ref = svc.ref]
       \/ /\ AnswerAlreadyDesired(req[c].type, req[c].r)
          /\ ClientGoes(c, "idle")
    /\ UNCHANGED <<coreVars, grace, wk>>

\* A refused request, and a request whose process dies, leave everything as it is.
DropRequest(c) ==
    /\ cpc[c] # "idle"
    /\ ClientGoes(c, "idle")
    /\ UNCHANGED <<row, gate, coreVars, grace, wk>>

(***************************************************************************)
(* dispatchCreate and dispatchMutation: the request path calls Core with   *)
(* the key the worker would use.  Any error, a lost answer included, is    *)
(* taken for a refusal and the mutation is aborted.                        *)
(***************************************************************************)
Dispatch(c) ==
    LET o == ops[req[c].op]
        key == MutationKey(o.target)
        ref == req[c].ref
        outcomes == IF o.type = "start" /\ ref THEN Lifecycle(key, "start") ELSE Ensure(key, ref, o.spec)
    IN  /\ cpc[c] = "dispatch"
        /\ \E x \in outcomes :
              /\ Apply(x)
              /\ IF x.reply \in {"ok", "ref_error"} /\ ~req[c].before.ref
                   THEN /\ cpc' = [cpc EXCEPT ![c] = "bind"]
                        /\ req' = [req EXCEPT ![c].note = x.reply]
                   ELSE ClientGoes(c, IF x.reply = "ok" THEN "idle" ELSE "abort")
        /\ UNCHANGED <<row, gate, grace, wk>>

\* BindRuntimeRef; a failed create keeps its bound runtime.
BindRuntime(c) ==
    LET o == req[c].op
        fits == svc.here = "live" /\ svc.gen = ops[o].target /\ svc.cur = o
    IN  /\ cpc[c] = "bind"
        /\ svc' = IF fits THEN [svc EXCEPT !.ref = TRUE, !.status = "deploying"] ELSE svc
        /\ ClientGoes(c, IF fits /\ req[c].note = "ref_error" /\ req[c].type # "create"
                           THEN "abort" ELSE "idle")
        /\ UNCHANGED <<ops, gate, coreVars, grace, wk>>

\* AbortCreate deletes both rows if nobody has touched them.
AbortCreate(c) ==
    LET o == req[c].op IN
    /\ cpc[c] = "abort" /\ req[c].type = "create"
    /\ svc.here = "live" /\ svc.cur = o /\ ~svc.ref /\ svc.status \in {"pending", "deploying"}
    /\ ops[o].state = "pending"
    /\ svc' = [svc EXCEPT !.here = "erased", !.cur = 0]
    /\ ops' = Closed(o, "erased")
    /\ ClientGoes(c, "idle")
    /\ UNCHANGED <<gate, coreVars, grace, wk>>

\* The WHERE clause of abortPendingMutationServiceSQL (and a bug: it is missing).
AbortUnchecked(c) == svc.here = "live"

AbortFits(c) ==
    LET o == req[c].op IN
    svc.here = "live" /\ svc.gen = ops[o].target /\ svc.cur = o /\ ops[o].state = "pending"

\* AbortPendingMutation writes back what the request read before it started.
AbortPendingMutation(c) ==
    LET o == req[c].op
        b == req[c].before
    IN  /\ cpc[c] = "abort" /\ req[c].type # "create" /\ AbortFits(c)
        /\ svc' = [svc EXCEPT !.spec = b.spec, !.desired = b.desired, !.gen = b.gen,
                              !.status = b.status, !.cur = 0]
        /\ ops' = Closed(o, "cancelled")
        /\ ClientGoes(c, "idle")
        /\ UNCHANGED <<gate, coreVars, grace, wk>>

Client(c) ==
    \/ \E r \in Replicas : CreateWithOperation(c, r)
    \/ \E r \in Replicas : ReadBefore(c, "scale", r)
    \/ ReadBefore(c, "start", 0)
    \/ RequestMutation(c) \/ Dispatch(c) \/ BindRuntime(c)
    \/ AbortCreate(c) \/ AbortPendingMutation(c) \/ DropRequest(c)

-----------------------------------------------------------------------------
(* The reconcile worker: RunOnce.                                          *)

\* The lease check of every write a worker makes (and a bug: it is missing).
LeaseIgnored(w) == TRUE

Leased(w) == ops[loc[w].op].state = "running" /\ ops[loc[w].op].lease = w

\* generationMatches.
GenerationMatches(o) ==
    /\ svc.cur = o /\ ops[o].state \in Active
    /\ svc.gen = IF ops[o].rb # 0 THEN ops[o].rb ELSE ops[o].target

Goes(w, s) ==
    /\ pc' = [pc EXCEPT ![w] = s]
    /\ UNCHANGED loc

\* Goes on to step s, which records code.
With(w, s, code) ==
    /\ pc' = [pc EXCEPT ![w] = s]
    /\ loc' = [loc EXCEPT ![w].code = code]

\* RunOnce returns.
Returns(w) ==
    /\ pc' = [pc EXCEPT ![w] = "idle"]
    /\ loc' = [loc EXCEPT ![w] = NoLoc]

\* conclude: a retryable failure is queued again or, past the limits, given up.
Concludes(w) ==
    IF ops[loc[w].op].spent THEN With(w, "abandon", "fatal") ELSE With(w, "retry", "retry")

\* The WHERE clause of claimOperationSQL (and a bug: it takes fresh operations only).
ClaimsPending(o) == ops[o].state = "pending"

Claimable(o) == ops[o].state \in Active /\ ops[o].lease = NoWorker

\* ClaimOperation.
Claim(w) ==
    /\ pc[w] = "idle"
    /\ \E o \in OpIds :
          /\ Claimable(o)
          /\ ops' = [ops EXCEPT ![o].state = "running", ![o].lease = w]
          /\ loc' = [loc EXCEPT ![w] = [NoLoc EXCEPT !.op = o, !.rb = ops[o].rb, !.code = ops[o].code]]
    /\ pc' = [pc EXCEPT ![w] = "load"]
    /\ UNCHANGED <<svc, gate, coreVars, grace, cl>>

\* shouldAbandon and requestPathOwnsCreate.
Decided(o, code, ref) ==
    CASE code = "fatal" \/ (code # "none" /\ ops[o].spent) -> "abandon"
      [] ops[o].type = "create" /\ ~ref /\ grace -> "retry"
      [] OTHER -> "act"

\* GetService after the claim.
Load(w) ==
    LET o == loc[w].op
        next == IF ~GenerationMatches(o) THEN "terminal"
                ELSE IF svc.desired = "deleted" /\ ops[o].type # "delete" THEN "idle"
                ELSE IF loc[w].rb # 0 THEN "rollback"
                ELSE IF NeedsWithdrawal(ops[o].type) THEN "fence"
                ELSE Decided(o, loc[w].code, svc.ref)
    IN  /\ pc[w] = "load"
        /\ \/ /\ svc.here = "live" /\ next # "idle"
              /\ pc' = [pc EXCEPT ![w] = next]
              /\ loc' = [loc EXCEPT ![w].snap = svc, ![w].code = IF next = "retry" THEN "retry" ELSE @]
           \/ svc.here = "live" /\ next = "idle" /\ Returns(w)
           \/ With(w, "retry", "retry")
        /\ UNCHANGED <<row, gate, coreVars, grace, cl>>

\* PublicationWithdrawn, and the same condition on the fresh snapshot.
Withdrawn(o) == svc.here = "live" /\ pubGen = ops[o].target /\ confirmed /\ ~wanted

(***************************************************************************)
(* Stop, restart and delete wait for the gateway: PublicationWithdrawn,    *)
(* then a second GetService that must still agree.  Waiting clears the     *)
(* error code and uses up no attempt.                                      *)
(***************************************************************************)
FenceCheck(w) ==
    /\ pc[w] = "fence"
    /\ \/ Withdrawn(loc[w].op) /\ Goes(w, "refetch")
       \/ With(w, "retry", "none")
    /\ UNCHANGED <<row, gate, coreVars, grace, cl>>

Refetch(w) ==
    LET o == loc[w].op IN
    /\ pc[w] = "refetch"
    /\ \/ GenerationMatches(o) /\ Withdrawn(o)
          /\ pc' = [pc EXCEPT ![w] = Decided(o, loc[w].code, svc.ref)]
          /\ loc' = [loc EXCEPT ![w].snap = svc]
       \/ ~GenerationMatches(o) /\ Goes(w, "terminal")
       \/ With(w, "retry", "none")
    /\ UNCHANGED <<row, gate, coreVars, grace, cl>>

(***************************************************************************)
(* The call to Core: Delete, or applyRuntimeIntent.  A missing reference   *)
(* is answered by the adapter without a call.                              *)
(***************************************************************************)
Unbound == {Outcome(core, intents, "notfound")}

Seen == {Outcome(core, intents, r) : r \in {"error", IF core.state = "live" THEN "ok" ELSE "notfound"}}

Intended(type, key, ref, r) ==
    CASE type = "delete" -> IF ref THEN DeleteWorkload(key) ELSE Unbound
      [] type = "stop" -> IF ref THEN Lifecycle(key, "stop") ELSE Unbound
      [] type = "create" -> IF ref THEN Seen ELSE PostWorkload(key, r)
      [] type \in {"start", "restart"} -> IF ref THEN Lifecycle(key, type) ELSE PostWorkload(key, r)
      [] type = "scale" -> Ensure(key, ref, r)

Act(w) ==
    LET o == ops[loc[w].op]
        ref == loc[w].snap.ref
    IN  /\ pc[w] = "act"
        /\ \E x \in Intended(o.type, MutationKey(o.target), ref, o.spec) :
              /\ Apply(x)
              /\ CASE x.reply \in {"ok", "ref_error"} /\ ~ref ->
                         /\ pc' = [pc EXCEPT ![w] = "bind"]
                         /\ loc' = [loc EXCEPT ![w].note = x.reply]
                   [] x.reply = "ok" /\ ref -> Goes(w, "observe")
                   [] x.reply = "fatal" /\ o.type # "delete" -> With(w, "abandon", "fatal")
                   [] OTHER -> Concludes(w)
        /\ UNCHANGED <<row, gate, grace, cl>>

\* The WHERE clause of applyObservationSQL.
Applies(w) == Leased(w) /\ svc.gen = ops[loc[w].op].target /\ svc.cur = loc[w].op

\* ApplyObservation that saves the reference Core has just answered.
Bind(w) ==
    /\ pc[w] = "bind"
    /\ IF Applies(w)
         THEN /\ svc' = [svc EXCEPT !.ref = TRUE, !.status = "deploying"]
              /\ IF loc[w].note = "ok"
                   THEN /\ pc' = [pc EXCEPT ![w] = "observe"]
                        /\ loc' = [loc EXCEPT ![w].snap.ref = TRUE]
                   ELSE LET over == ops[loc[w].op].spent IN
                        /\ pc' = [pc EXCEPT ![w] = IF over THEN "abandon" ELSE "retry"]
                        /\ loc' = [loc EXCEPT ![w].snap.ref = TRUE, ![w].code = IF over THEN "fatal" ELSE "retry"]
         ELSE svc' = svc /\ Returns(w)
    /\ UNCHANGED <<ops, gate, coreVars, grace, cl>>

\* Observe; readiness of a running workload is up to the cluster.
Observe(w) ==
    LET o == ops[loc[w].op]
        down == CASE o.type = "delete" -> core.state # "live"
                  [] o.type = "stop" -> ~core.up
                  [] OTHER -> FALSE
    IN  /\ pc[w] = "observe"
        /\ \/ down /\ Goes(w, "finish")
           \/ /\ o.type \notin {"delete", "stop"} /\ core.state = "live"
              /\ \E n \in {"notready"} \cup (IF core.up /\ core.replicas = o.spec THEN {"ready"} ELSE {}) :
                    loc' = [loc EXCEPT ![w].note = n]
              /\ pc' = [pc EXCEPT ![w] = "partial"]
           \/ Concludes(w)
        /\ UNCHANGED <<row, gate, coreVars, grace, cl>>

\* ApplyObservation of what was seen, then Health and Smoke.
Partial(w) ==
    /\ pc[w] = "partial"
    /\ IF Applies(w)
         THEN /\ svc' = [svc EXCEPT !.ref = TRUE, !.status = "deploying"]
              /\ (loc[w].note = "ready" /\ Goes(w, "finish")) \/ Concludes(w)
         ELSE svc' = svc /\ Returns(w)
    /\ UNCHANGED <<ops, gate, coreVars, grace, cl>>

\* publishesAfterRuntimeSuccess.
Publishes(type) == type \in {"create", "start", "restart"}

\* The final ApplyObservation: result, operation and publication in one transaction.
Finish(w) ==
    LET o == loc[w].op
        type == ops[o].type
    IN  /\ pc[w] = "finish"
        /\ IF Applies(w)
             THEN /\ svc' = [svc EXCEPT !.here = IF type = "delete" THEN "gone" ELSE @,
                                !.status = IF type \in {"delete", "stop"} THEN "stopped" ELSE "running",
                                !.applied = ops[o].spec, !.ref = (type # "delete")]
                  /\ ops' = Closed(o, "completed")
                  /\ IF Publishes(type) /\ svc.desired = "running"
                       THEN wanted' = TRUE /\ confirmed' = FALSE /\ pubGen' = ops[o].target /\ objects' = objects
                       ELSE UNCHANGED gate
             ELSE UNCHANGED <<row, gate>>
        /\ Returns(w)
        /\ UNCHANGED <<coreVars, grace, cl>>

\* FailOperation with RetryAt.
Retry(w) ==
    /\ pc[w] = "retry"
    /\ ops' = IF Leased(w)
                THEN [ops EXCEPT ![loc[w].op].state = "pending", ![loc[w].op].code = loc[w].code,
                                 ![loc[w].op].lease = NoWorker]
                ELSE ops
    /\ Returns(w)
    /\ UNCHANGED <<svc, gate, coreVars, grace, cl>>

\* FailOperation for good: failed and dead_letter are one state here.
Terminal(w) ==
    LET o == loc[w].op IN
    /\ pc[w] = "terminal"
    /\ IF Leased(w)
         THEN /\ ops' = Closed(o, "failed")
              /\ svc' = IF svc.gen = ops[o].target /\ svc.cur = o THEN [svc EXCEPT !.status = "failed"] ELSE svc
         ELSE UNCHANGED row
    /\ Returns(w)
    /\ UNCHANGED <<gate, coreVars, grace, cl>>

-----------------------------------------------------------------------------
(* Giving up: cleanup of a failed start, rollback of a failed scale.       *)

\* rollbackScale and BeginScaleRollback.
BeginScaleRollback(w) ==
    LET o == loc[w].op
        rb == IF ops[o].rb # 0 THEN ops[o].rb ELSE svc.gen + 1
    IN  CASE svc.desired = "deleted" -> Returns(w) /\ UNCHANGED row
          [] svc.desired # "deleted" /\ ops[o].rb = 0 /\ ~(svc.cur = o /\ Leased(w)) ->
                With(w, "retry", "retry") /\ UNCHANGED row
          [] OTHER ->
                /\ pc' = [pc EXCEPT ![w] = "rollback"]
                /\ loc' = [loc EXCEPT ![w].rb = rb, ![w].snap.spec = loc[w].snap.applied]
                /\ IF ops[o].rb # 0 THEN UNCHANGED row
                   ELSE /\ svc' = [svc EXCEPT !.spec = svc.applied, !.gen = rb, !.status = "deploying"]
                        /\ ops' = [ops EXCEPT ![o].rb = rb, ![o].code = "retry"]

\* cleanupRuntime: the Delete that takes back what the operation has started.
CleanupRuntime(w) ==
    \E x \in DeleteWorkload(CleanupKey(ops[loc[w].op].target)) :
        /\ Apply(x)
        /\ Goes(w, IF x.reply \in {"ok", "notfound"} THEN "terminal" ELSE "retry")

\* abandonWithCode.
Abandon(w) ==
    LET type == ops[loc[w].op].type
        snap == loc[w].snap
    IN  /\ pc[w] = "abandon"
        /\ CASE snap.desired = "deleted" /\ type # "delete" -> Returns(w) /\ UNCHANGED <<row, coreVars>>
             [] snap.desired # "deleted" /\ type = "scale" -> BeginScaleRollback(w) /\ UNCHANGED coreVars
             [] snap.desired # "deleted" /\ Publishes(type) /\ snap.ref -> CleanupRuntime(w) /\ UNCHANGED row
             [] OTHER -> Goes(w, "terminal") /\ UNCHANGED <<row, coreVars>>
        /\ UNCHANGED <<gate, grace, cl>>

\* FinishScaleRollback.
FinishScaleRollback(w, success) ==
    LET o == loc[w].op IN
    IF Leased(w) /\ svc.gen = loc[w].rb /\ svc.cur = o
      THEN /\ svc' = [svc EXCEPT !.status = IF success THEN "running" ELSE "failed",
                                 !.ref = @ \/ success,
                                 !.applied = IF success /\ loc[w].snap.applied # 0 THEN loc[w].snap.applied
                                             ELSE IF success THEN ops[o].before ELSE @]
           /\ ops' = Closed(o, "failed")
      ELSE UNCHANGED row

(***************************************************************************)
(* reconcileScaleRollback.  timedOut measures from updated_at, which the   *)
(* claim of this very run has just set, so the rollback itself has no time *)
(* limit: it ends when the old replicas are back or Core refuses for good. *)
(***************************************************************************)
Rollback(w) ==
    LET o == ops[loc[w].op]
        spec == IF loc[w].snap.spec # 0 THEN loc[w].snap.spec ELSE o.before
        call == Ensure(RollbackKey(loc[w].op, loc[w].rb), loc[w].snap.ref, spec)
        nothing == {Outcome(core, intents, "fatal")}
    IN  /\ pc[w] = "rollback"
        /\ \E x \in IF spec = 0 THEN nothing ELSE call :
              /\ Apply(x)
              /\ \/ /\ x.reply = "fatal" \/ (x.reply = "ok" /\ x.core.up /\ x.core.replicas = spec)
                    /\ pc' = [pc EXCEPT ![w] = "rbFinish"]
                    /\ loc' = [loc EXCEPT ![w].note = x.reply]
                 \/ x.reply # "fatal" /\ With(w, "retry", "retry")
        /\ UNCHANGED <<row, gate, grace, cl>>

FinishRollback(w) ==
    /\ pc[w] = "rbFinish"
    /\ FinishScaleRollback(w, loc[w].note = "ok")
    /\ Returns(w)
    /\ UNCHANGED <<gate, coreVars, grace, cl>>

-----------------------------------------------------------------------------
(* The environment.                                                        *)

\* The process dies, or a database error ends RunOnce.
Crash(w) ==
    /\ pc[w] # "idle" /\ Returns(w)
    /\ UNCHANGED <<row, gate, coreVars, grace, cl>>

\* lease_until passes.
LeaseExpires(o) ==
    LET w == ops[o].lease IN
    /\ w # NoWorker
    /\ LeaseHolds => pc[w] = "idle" \/ loc[w].op # o
    /\ ops' = [ops EXCEPT ![o].lease = NoWorker]
    /\ UNCHANGED <<svc, gate, coreVars, grace, wk, cl>>

\* deployTimeout passes or the attempts are used up.
Age(o) ==
    /\ ops[o].state \in Active /\ ~ops[o].spent
    /\ ops' = [ops EXCEPT ![o].spent = TRUE]
    /\ UNCHANGED <<svc, gate, coreVars, grace, wk, cl>>

\* requestPathEnsureGrace has passed since create.
GraceOver ==
    /\ ops[1].state \in Active /\ grace /\ grace' = FALSE
    /\ UNCHANGED <<row, gate, coreVars, wk, cl>>

\* The gateway publisher works on live rows.
Publish ==
    /\ svc.here = "live"
    /\ Fence!ChangeObjects \/ Fence!Confirm
    /\ UNCHANGED <<row, pubGen, coreVars, grace, wk, cl>>

Worker(w) ==
    \/ Claim(w) \/ Load(w) \/ FenceCheck(w) \/ Refetch(w)
    \/ Act(w) \/ Bind(w) \/ Observe(w) \/ Partial(w) \/ Finish(w)
    \/ Retry(w) \/ Terminal(w) \/ Abandon(w) \/ Rollback(w) \/ FinishRollback(w)

Next ==
    \/ \E c \in Clients : Client(c)
    \/ \E a \in Actions : RequestWithdrawn(a)
    \/ \E w \in Workers : Worker(w) \/ Crash(w)
    \/ \E o \in OpIds : LeaseExpires(o) \/ Age(o)
    \/ GraceOver
    \/ Publish

Spec == Init /\ [][Next]_vars

(***************************************************************************)
(* Fairness.  Run calls RunOnce once a second, so a worker keeps taking    *)
(* the steps it can; clocks run; the publisher settles every request       *)
(* (GatewayPublish, EveryRequestSettles).  Worker crashes, failing         *)
(* database reads and a Core that cannot even delete may happen any number *)
(* of times but not for ever.  Core may answer every other call with an    *)
(* error, and a runtime may never become ready.                            *)
(***************************************************************************)
ReadFails(w) ==
    \/ pc[w] = "load" /\ pc'[w] = "retry" /\ loc'[w].snap = loc[w].snap
    \/ pc[w] \in {"fence", "refetch"} /\ Withdrawn(loc[w].op) /\ pc'[w] = "retry" /\ loc'[w].code = "none"

CleanupFails(w) == pc[w] = "abandon" /\ pc'[w] = "retry"

Calm == \A w \in Workers : ~(Crash(w) \/ ReadFails(w) \/ CleanupFails(w))

Fairness ==
    /\ \A w \in Workers : WF_vars(Worker(w))
    /\ \A o \in OpIds : WF_vars(LeaseExpires(o)) /\ WF_vars(Age(o))
    /\ WF_vars(GraceOver)
    /\ []<>confirmed
    /\ <>[][Calm]_vars

LiveSpec == Spec /\ Fairness

-----------------------------------------------------------------------------
(* Properties.                                                             *)

Statuses == {"pending", "deploying", "running", "stopping", "stopped", "failed"}
Steps == {"idle", "load", "fence", "refetch", "act", "bind", "observe", "partial", "finish",
          "retry", "terminal", "abandon", "rollback", "rbFinish"}
Replies == {"none", "ok", "ref_error", "error", "fatal", "notfound", "conflict", "ready", "notready"}
Counts == Replicas \cup {0}

RowType ==
    [here : {"none", "live", "gone", "erased"}, status : Statuses,
     desired : {"running", "stopped", "deleted"}, gen : Nat, spec : Counts, applied : Counts,
     ref : BOOLEAN, cur : OpIds \cup {0}]

TypeOK ==
    /\ svc \in RowType
    /\ ops \in [OpIds -> [type : {"none", "create"} \cup Actions, state : {"none"} \cup Active \cup Ended,
                         target : Nat, rb : Nat, spec : Counts, before : Counts,
                         code : {"none", "retry", "fatal"}, lease : Workers \cup {NoWorker},
                         spent : BOOLEAN]]
    /\ wanted \in BOOLEAN /\ confirmed \in BOOLEAN /\ objects \subseteq {"route"} /\ pubGen \in Nat
    /\ core \in [state : {"none", "live", "deleted"}, up : BOOLEAN, replicas : Counts]
    /\ grace \in BOOLEAN
    /\ pc \in [Workers -> Steps]
    /\ loc \in [Workers -> [op : OpIds, rb : Nat, code : {"none", "retry", "fatal"}, snap : RowType, note : Replies]]
    /\ cpc \in [Clients -> {"idle", "mutate", "dispatch", "bind", "abort"}]
    /\ req \in [Clients -> [op : OpIds, type : {"create", "scale", "start"}, r : Counts,
                           before : RowType, ref : BOOLEAN, note : Replies]]

(***************************************************************************)
(* One operation at a time: an operation that can still run is the current *)
(* one of a live service.  Preemption, abort and completion never leave a  *)
(* second queue entry behind that a worker could pick up later.            *)
(***************************************************************************)
OneActiveOperation ==
    \A o \in OpIds : ops[o].state \in Active => svc.here = "live" /\ svc.cur = o

(***************************************************************************)
(* An ended operation stays as it ended: a worker that lost its lease, a   *)
(* late abort or a second finish never rewrites the outcome.               *)
(***************************************************************************)
OutcomeIsFinal ==
    [][\A o \in OpIds : ops[o].state \in Ended => ops'[o].state = ops[o].state]_vars

(***************************************************************************)
(* Delete wins: once deletion is asked for, no abort, rollback, late       *)
(* result or new request gives the service another desired state.          *)
(***************************************************************************)
DeleteWins == [][svc.desired = "deleted" => svc'.desired = "deleted"]_vars

(***************************************************************************)
(* The tombstone is written only when Core has released the workload, and  *)
(* no replay of an older request brings it back.                           *)
(***************************************************************************)
TombstoneMeansReclaimed == svc.here = "gone" => core.state # "live"

(***************************************************************************)
(* A runtime is taken down only when no gateway route points to it: stop,  *)
(* restart and delete wait for the withdrawal, and cleanup hits only       *)
(* runtimes that were never published.                                     *)
(***************************************************************************)
NoTakedownUnderRoute == [][(core.up /\ ~core'.up) => objects = {}]_vars

(***************************************************************************)
(* Every operation comes to an end or to its rollback, through crashes,    *)
(* lost answers, a Core that refuses and a runtime that never becomes      *)
(* ready: the deploy timeout and the attempt budget see to it.  The        *)
(* rollback of a scale itself has no limit (see Rollback): every claim     *)
(* restarts its clock.                                                     *)
(***************************************************************************)
OperationEnds ==
    \A o \in OpIds : ops[o].state \in Active ~> (ops[o].state \in Ended \/ ops[o].rb # 0)
=============================================================================
