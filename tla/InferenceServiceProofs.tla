----------------------- MODULE InferenceServiceProofs -----------------------
(***************************************************************************)
(* Theorems about InferenceService, for any number of workers, requests,   *)
(* operations and replica counts.  The invariants come in layers, each     *)
(* proved with the ones before it: the types, the queue of operations,     *)
(* what processes remember of them, and what Core has recorded.            *)
(***************************************************************************)
EXTENDS InferenceService, FiniteSetTheorems, WellFoundedInduction, TLAPS

-----------------------------------------------------------------------------
(* Types.                                                                  *)

OpType ==
    [type : {"none", "create"} \cup Actions, state : {"none"} \cup Active \cup Ended,
     target : Nat, rb : Nat, spec : Counts, before : Counts,
     code : {"none", "retry", "fatal"}, lease : Workers \cup {NoWorker}, spent : BOOLEAN]

CoreType == [state : {"none", "live", "deleted"}, up : BOOLEAN, replicas : Counts]

LocType == [op : OpIds, rb : Nat, code : {"none", "retry", "fatal"}, snap : RowType, note : Replies]

ReqType == [op : OpIds, type : {"create", "scale", "start"}, r : Counts,
            before : RowType, ref : BOOLEAN, note : Replies]

\* A request that has read the service is one users may ask for.
Asks == \A c \in Clients : cpc[c] = "mutate" => req[c].type \in Actions

TypeInv ==
    /\ svc \in RowType /\ ops \in [OpIds -> OpType]
    /\ wanted \in BOOLEAN /\ confirmed \in BOOLEAN /\ objects \subseteq {"route"} /\ pubGen \in Nat
    /\ core \in CoreType /\ grace \in BOOLEAN
    /\ pc \in [Workers -> Steps] /\ loc \in [Workers -> LocType]
    /\ cpc \in [Clients -> {"idle", "mutate", "dispatch", "bind", "abort"}]
    /\ req \in [Clients -> ReqType]
    /\ Asks

-----------------------------------------------------------------------------
(* The queue of operations.                                                *)

\* Operation o has been asked for.
Known(x, o) == x[o].state # "none"

\* From operations x to y nothing is forgotten, what was asked for stays what
\* it is, and what has ended stays as it ended.
Follows(x, y) ==
    \A o \in OpIds : Known(x, o) =>
        /\ Known(y, o)
        /\ y[o].type = x[o].type /\ y[o].target = x[o].target /\ y[o].spec = x[o].spec
        /\ x[o].state \in Ended => y[o].state = x[o].state

DesiredOf(type) ==
    CASE type = "stop" -> "stopped" [] type = "delete" -> "deleted" [] OTHER -> "running"

\* Nothing is asked for before create, and nobody creates twice.
CreateInv ==
    /\ svc.here = "none" => svc = NoRow /\ \A o \in OpIds : ~Known(ops, o)
    /\ svc.here # "none" => Known(ops, 1) /\ ops[1].type = "create"
    /\ \A o \in OpIds : Known(ops, o) => ops[o].type # "none" /\ (ops[o].type = "create" => o = 1)
    /\ \A o \in OpIds : ops[o].rb # 0 => ops[o].type = "scale"

\* An operation that can still run is the current one, and what the service is after.
ActiveInv ==
    \A o \in OpIds : ops[o].state \in Active =>
        /\ svc.here = "live" /\ svc.cur = o
        /\ svc.status # "running" /\ svc.desired = DesiredOf(ops[o].type)

\* A service without a runtime has only been created, or is being deleted.
UnboundInv ==
    (svc.here = "live" /\ ~svc.ref) =>
        /\ svc.desired # "stopped"
        /\ \A o \in OpIds : Known(ops, o) => ops[o].type \in {"create", "delete"}
        /\ \/ ops[1].state \in Active /\ svc.status = "pending" /\ svc.gen = ops[1].target
           \/ svc.status \in {"failed", "stopping"}

QueueInv == CreateInv /\ ActiveInv /\ UnboundInv

-----------------------------------------------------------------------------
(* What processes remember, and what Core has recorded.                    *)

\* Core has carried the create out and answers for it from its record.
CreateRecorded == Recorded(MutationKey(ops[1].target), <<"create", ops[1].spec>>)

CoreInv ==
    /\ (svc.here = "live" /\ svc.ref) => CreateRecorded
    /\ svc.here = "gone" => CreateRecorded /\ core.state # "live"
    /\ core.up => CreateRecorded /\ svc.here # "none"

ClientInv(c) ==
    /\ cpc[c] \in {"dispatch", "bind", "abort"} =>
          Known(ops, req[c].op) /\ ops[req[c].op].type = req[c].type
    /\ cpc[c] = "dispatch" => IF req[c].ref THEN CreateRecorded ELSE req[c].type = "create"
    /\ cpc[c] = "bind" => CreateRecorded

WorkerInv(w) ==
    LET l == loc[w]
        type == ops[l.op].type
    IN  pc[w] # "idle" =>
        /\ Known(ops, l.op)
        /\ l.rb # 0 => type = "scale"
        /\ l.snap.ref => CreateRecorded
        /\ pc[w] \in {"fence", "refetch", "act", "abandon"} => l.snap.ref \/ type \in {"create", "delete"}
        /\ pc[w] \in {"rollback", "rbFinish"} => l.snap.ref /\ type = "scale"
        /\ pc[w] = "bind" => CreateRecorded
        /\ pc[w] \in {"observe", "partial", "finish"} => l.snap.ref
        /\ pc[w] = "partial" => type # "delete"
        /\ (pc[w] = "finish" /\ type = "delete") => core.state # "live"

ProcessInv == CoreInv /\ (\A c \in Clients : ClientInv(c)) /\ (\A w \in Workers : WorkerInv(w))

-----------------------------------------------------------------------------
(* The route, when no lease runs out under its worker and nobody scales.   *)

Withheld == confirmed /\ ~wanted

LeaseInv == \A w \in Workers : pc[w] # "idle" => Leased(w)

\* Past the fence: a worker that may take the runtime down, or has done so.
Fenced == {"act", "bind", "observe", "partial", "finish", "abandon"}

PastFence(w) == pc[w] \in Fenced /\ NeedsWithdrawal(ops[loc[w].op].type)

RouteInv ==
    /\ Withheld => objects = {}
    /\ svc.here = "none" => Withheld
    /\ \A o \in OpIds : (ops[o].state \in Active /\ ops[o].type \in {"create", "start"}) => Withheld
    /\ (svc.here = "live" /\ svc.status = "stopped") => Withheld
    /\ \A w \in Workers : PastFence(w) => Withheld

IInv == TypeInv /\ QueueInv /\ ProcessInv

-----------------------------------------------------------------------------
(* Type correctness.                                                       *)

\* The lowest free operation number is one.
LEMMA NewOpIsFree ==
    ASSUME OpLeft
    PROVE  NewOp \in OpIds /\ ops[NewOp].state = "none"
  <1> DEFINE F == {1 .. o : o \in {p \in OpIds : ops[p].state = "none"}}
  <1>1. OpIds \in SUBSET Nat /\ \A o \in OpIds : 1 .. o \in FiniteSubsetsOf(OpIds)
    <2>1. \A o \in OpIds : 1 .. o \subseteq OpIds /\ o \in Int
      BY BoundAssumption DEF OpIds
    <2>2. \A o \in OpIds : IsFiniteSet(1 .. o)
      BY <2>1, FS_Interval
    <2>3. QED
      BY <2>1, <2>2, BoundAssumption DEF FiniteSubsetsOf, OpIds
  <1>2. F # {} /\ F \subseteq FiniteSubsetsOf(OpIds)
    BY <1>1 DEF OpLeft
  <1>3. IsWellFoundedOn(StrictSubsetOrdering(OpIds), FiniteSubsetsOf(OpIds))
    BY FS_StrictSubsetOrderingWellFounded
  <1>4. PICK S \in F : \A T \in F : <<T, S>> \notin StrictSubsetOrdering(OpIds)
    <2> HIDE DEF F
    <2>1. QED
      BY <1>2, <1>3, WFMin
  <1>5. PICK o \in OpIds : S = 1 .. o /\ ops[o].state = "none"
    BY DEF F
  <1>6. ASSUME NEW q \in OpIds, q < o, ops[q].state = "none" PROVE FALSE
    <2>1. 1 .. q \in F /\ <<1 .. q, 1 .. o>> \notin StrictSubsetOrdering(OpIds)
      BY <1>4, <1>5, <1>6
    <2>2. 1 .. q \subseteq OpIds /\ 1 .. o \subseteq OpIds
      BY <1>1 DEF FiniteSubsetsOf
    <2>3. 1 .. q \subseteq 1 .. o /\ o \in 1 .. o /\ o \notin 1 .. q
      BY <1>1, <1>6, BoundAssumption DEF OpIds
    <2>4. QED
      BY <2>1, <2>2, <2>3 DEF StrictSubsetOrdering
  <1>7. \E p \in OpIds : ops[p].state = "none" /\ \A q \in OpIds : q < p => ops[q].state # "none"
    BY <1>5, <1>6
  <1>8. QED
    BY <1>7 DEF NewOp

LEMMA ClosedFits ==
    ASSUME ops \in [OpIds -> OpType], NEW o \in OpIds, NEW s \in Ended
    PROVE  /\ Closed(o, s) \in [OpIds -> OpType]
           /\ \A q \in OpIds : q # o => Closed(o, s)[q] = ops[q]
           /\ Closed(o, s)[o].state = s /\ Closed(o, s)[o].rb = ops[o].rb
           /\ Closed(o, s)[o].type = ops[o].type /\ Closed(o, s)[o].target = ops[o].target
           /\ Closed(o, s)[o].spec = ops[o].spec
  <1> DEFINE r == [ops[o] EXCEPT !.state = s, !.lease = NoWorker, !.spent = FALSE, !.code = "none"]
  <1>1. ops[o] \in OpType
    OBVIOUS
  <1>2. /\ r \in OpType /\ r.state = s /\ r.rb = ops[o].rb
        /\ r.type = ops[o].type /\ r.target = ops[o].target /\ r.spec = ops[o].spec
    BY <1>1 DEF OpType
  <1>3. Closed(o, s) = [ops EXCEPT ![o] = r]
    BY DEF Closed
  <1> HIDE DEF r
  <1>4. QED
    BY <1>2, <1>3

LEMMA RowFits ==
    ASSUME NEW a \in {"create"} \cup Actions, NEW t \in Nat, NEW s \in Counts, NEW b \in Counts
    PROVE  /\ Row(a, t, s, b) \in OpType
           /\ [Row(a, t, s, b) EXCEPT !.state = "completed"] \in OpType
  BY DEF Row, OpType, Active, Ended

\* What a Core call leaves behind.
Fits(x) == x.core \in CoreType /\ x.reply \in Replies

LEMMA CallFits ==
    ASSUME core \in CoreType, NEW half \in CoreType, NEW after \in CoreType,
           NEW key, NEW fp, NEW allowed, NEW x \in CoreCall(key, fp, allowed, half, after)
    PROVE  Fits(x)
  BY DEF CoreCall, Fits, Outcome, Replies

LEMMA PostFits ==
    ASSUME core \in CoreType, NEW key, NEW r \in Counts, NEW x \in PostWorkload(key, r)
    PROVE  Fits(x)
  <1> DEFINE made == [state |-> "live", up |-> TRUE, replicas |-> r]
             calls == CoreCall(key, <<"create", r>>, core.state # "live", [made EXCEPT !.up = FALSE], made)
  <1>1. made \in CoreType /\ [made EXCEPT !.up = FALSE] \in CoreType
    BY DEF CoreType
  <1> HIDE DEF made
  <1>2. \A y \in calls : Fits(y)
    BY <1>1, CallFits
  <1>3. \A y \in calls : Fits([y EXCEPT !.reply = "ref_error"])
    <2>1. \A y \in calls : \E c, i, r2 : y = Outcome(c, i, r2)
      BY DEF CoreCall
    <2>2. QED
      BY <1>2, <2>1 DEF Fits, Outcome, Replies
  <1>4. x \in calls \cup {[y EXCEPT !.reply = "ref_error"] : y \in {z \in calls : z.reply = "ok"}}
    BY DEF PostWorkload, made
  <1>5. QED
    BY <1>2, <1>3, <1>4

LEMMA CallsFit ==
    ASSUME core \in CoreType, NEW key, NEW r \in Counts
    PROVE  /\ \A x \in PatchReplicas(key, r) : Fits(x)
           /\ \A a : \A x \in Lifecycle(key, a) : Fits(x)
           /\ \A x \in DeleteWorkload(key) : Fits(x)
           /\ \A ref \in BOOLEAN : \A x \in Ensure(key, ref, r) : Fits(x)
  <1>1. \A x \in PatchReplicas(key, r) : Fits(x)
    <2>1. [core EXCEPT !.replicas = r] \in CoreType
      BY DEF CoreType
    <2>2. QED
      BY <2>1, CallFits DEF PatchReplicas
  <1>2. ASSUME NEW a, NEW x \in Lifecycle(key, a) PROVE Fits(x)
    <2>1. /\ [core EXCEPT !.up = FALSE] \in CoreType
          /\ [core EXCEPT !.up = (a # "stop")] \in CoreType
      BY DEF CoreType
    <2>2. (IF a = "restart" THEN [core EXCEPT !.up = FALSE] ELSE core) \in CoreType
      BY <2>1
    <2>3. QED
      BY <1>2, <2>1, <2>2, CallFits DEF Lifecycle
  <1>3. \A x \in DeleteWorkload(key) : Fits(x)
    <2>1. /\ [core EXCEPT !.up = FALSE] \in CoreType
          /\ [core EXCEPT !.state = "deleted", !.up = FALSE] \in CoreType
      BY DEF CoreType
    <2>2. QED
      BY <2>1, CallFits DEF DeleteWorkload
  <1>4. QED
    BY <1>1, <1>2, <1>3, PostFits DEF Ensure

LEMMA NothingFits == NoRow \in RowType /\ NoLoc \in LocType /\ NoReq \in ReqType
  <1>1. NoRow \in RowType
    BY DEF NoRow, RowType, Counts, Statuses
  <1>2. 1 \in OpIds
    BY BoundAssumption DEF OpIds
  <1>3. QED
    BY <1>1, <1>2 DEF NoLoc, NoReq, LocType, ReqType, Counts, Replies

LEMMA MutateTypes ==
    ASSUME TypeInv, NEW a \in Actions, NEW r \in Counts,
           MutateService(a, r) \/ AnswerAlreadyDesired(a, r)
    PROVE  /\ svc' \in RowType /\ ops' \in [OpIds -> OpType]
           /\ wanted' \in BOOLEAN /\ confirmed' \in BOOLEAN /\ objects' \subseteq {"route"} /\ pubGen' \in Nat
           /\ NewOp \in OpIds
  <1>1. /\ svc \in RowType /\ ops \in [OpIds -> OpType] /\ svc.gen \in Nat
        /\ svc.spec \in Counts /\ svc.applied \in Counts /\ svc.cur \in OpIds \cup {0}
    BY DEF TypeInv, RowType
  <1>2. NewOp \in OpIds
    BY NewOpIsFree DEF MutateService, AnswerAlreadyDesired, MayBegin
  <1>3. CASE MutateService(a, r)
    <2> DEFINE gen == svc.gen + 1
               target == TargetSpec(a, r)
               status == IF a \in {"stop", "delete"} THEN "stopping" ELSE "deploying"
               desired == CASE a = "stop" -> "stopped" [] a = "delete" -> "deleted" [] OTHER -> "running"
    <2>1. /\ gen \in Nat /\ target \in Counts /\ status \in Statuses
          /\ desired \in {"running", "stopped", "deleted"}
      BY <1>1 DEF TargetSpec, Statuses
    <2>2. /\ ops' = [CancelPreempted EXCEPT ![NewOp] = Row(a, gen, target, svc.applied)]
          /\ svc' = [svc EXCEPT !.gen = gen, !.cur = NewOp, !.spec = target,
                       !.status = status, !.desired = desired]
          /\ \/ wanted' = FALSE /\ confirmed' = FALSE /\ pubGen' = gen /\ objects' = objects
             \/ UNCHANGED gate
      BY <1>3 DEF MutateService
    <2> HIDE DEF gen, target, status, desired
    <2>3. CancelPreempted \in [OpIds -> OpType]
      BY <1>1, ClosedFits DEF CancelPreempted, HasActive, Ended
    <2>4. Row(a, gen, target, svc.applied) \in OpType
      BY <1>1, <2>1, RowFits
    <2>5. ops' \in [OpIds -> OpType]
      BY <1>2, <2>2, <2>3, <2>4
    <2>6. svc' \in RowType
      BY <1>1, <1>2, <2>1, <2>2 DEF RowType
    <2>7. QED
      BY <1>2, <2>1, <2>2, <2>5, <2>6 DEF TypeInv, gate
  <1>4. CASE AnswerAlreadyDesired(a, r)
    <2> DEFINE new == [Row(a, svc.gen, svc.spec, svc.applied) EXCEPT !.state = "completed"]
    <2>1. new \in OpType
      BY <1>1, RowFits
    <2>2. ops' = [ops EXCEPT ![NewOp] = new] /\ svc' = [svc EXCEPT !.cur = NewOp] /\ UNCHANGED gate
      BY <1>4 DEF AnswerAlreadyDesired
    <2> HIDE DEF new
    <2>3. QED
      BY <1>1, <1>2, <2>1, <2>2 DEF TypeInv, RowType, gate
  <1>5. QED
    BY <1>3, <1>4

ClientPlaces == {"idle", "mutate", "dispatch", "bind", "abort"}

\* A request that moves on without reading anything new.
LEMMA ClientGoesTypes ==
    ASSUME TypeInv, NEW c \in Clients, NEW s \in ClientPlaces \ {"mutate"}, ClientGoes(c, s)
    PROVE  cpc' \in [Clients -> ClientPlaces] /\ req' \in [Clients -> ReqType] /\ Asks'
  BY NothingFits DEF TypeInv, ClientGoes, ClientPlaces, Asks

LEMMA ClientTypes ==
    ASSUME TypeInv, NEW c \in Clients, Client(c)
    PROVE  TypeInv'
  <1>1. /\ svc \in RowType /\ ops \in [OpIds -> OpType] /\ core \in CoreType
        /\ cpc \in [Clients -> ClientPlaces] /\ req \in [Clients -> ReqType]
        /\ req[c] \in ReqType /\ req[c].op \in OpIds /\ ops[req[c].op] \in OpType
        /\ ops[req[c].op].spec \in Counts /\ req[c].r \in Counts /\ req[c].ref \in BOOLEAN
    BY DEF TypeInv, ReqType, OpType, ClientPlaces
  <1>2. CASE \E r \in Replicas : CreateWithOperation(c, r)
    <2>1. PICK r \in Replicas : CreateWithOperation(c, r)
      BY <1>2
    <2>2. r \in Counts /\ 1 \in OpIds /\ 1 \in Nat /\ 0 \in Counts
      BY BoundAssumption DEF Counts, OpIds
    <2>3. Row("create", 1, r, 0) \in OpType
      BY <2>2, RowFits
    <2>4. svc' \in RowType
      BY <1>1, <2>1, <2>2 DEF CreateWithOperation, RowType
    <2>5. [NoReq EXCEPT !.r = r] \in ReqType
      BY <2>2, NothingFits DEF ReqType
    <2>6. QED
      BY <2>1, <2>2, <2>3, <2>4, <2>5 DEF CreateWithOperation, TypeInv, Asks, gate, coreVars, wk
  <1>3. ASSUME NEW a \in {"scale", "start"}, NEW r \in Counts, ReadBefore(c, a, r) PROVE TypeInv'
    <2>1. [NoReq EXCEPT !.type = a, !.r = r, !.before = svc] \in ReqType
      BY <1>1, NothingFits DEF ReqType
    <2>2. req' = [req EXCEPT ![c] = [NoReq EXCEPT !.type = a, !.r = r, !.before = svc]]
          /\ cpc' = [cpc EXCEPT ![c] = "mutate"] /\ a \in Actions
      BY <1>3 DEF ReadBefore
    <2>3. req'[c].type = a
      BY <1>1, <2>2 DEF NoReq
    <2>4. Asks'
      BY <1>1, <2>2, <2>3 DEF TypeInv, Asks, ClientPlaces
    <2>5. QED
      BY <1>1, <1>3, <2>1, <2>2, <2>4 DEF ReadBefore, TypeInv, ClientPlaces, row, gate, coreVars, wk
  <1>4. CASE RequestMutation(c)
    <2>1. req[c].type \in Actions
      BY <1>4 DEF RequestMutation, TypeInv, Asks
    <2>2. /\ svc' \in RowType /\ ops' \in [OpIds -> OpType]
          /\ wanted' \in BOOLEAN /\ confirmed' \in BOOLEAN /\ objects' \subseteq {"route"} /\ pubGen' \in Nat
          /\ NewOp \in OpIds
      BY <1>1, <1>4, <2>1, MutateTypes DEF RequestMutation
    <2>3. CASE cpc' = [cpc EXCEPT ![c] = "dispatch"] /\ req' = [req EXCEPT ![c].op = NewOp, ![c].ref = svc.ref]
      <3>1. [req[c] EXCEPT !.op = NewOp, !.ref = svc.ref] \in ReqType
        BY <1>1, <2>2 DEF ReqType, RowType
      <3>2. req' = [req EXCEPT ![c] = [req[c] EXCEPT !.op = NewOp, !.ref = svc.ref]]
        BY <2>3
      <3>3. Asks'
        BY <1>1, <2>3 DEF TypeInv, Asks, ClientPlaces
      <3>4. QED
        BY <1>1, <1>4, <2>2, <2>3, <3>1, <3>2, <3>3 DEF RequestMutation, TypeInv, ClientPlaces, coreVars, wk
    <2>4. CASE ClientGoes(c, "idle")
      <3>1. cpc' \in [Clients -> ClientPlaces] /\ req' \in [Clients -> ReqType] /\ Asks'
        BY <2>4, ClientGoesTypes DEF ClientPlaces
      <3>2. QED
        BY <1>4, <2>2, <3>1 DEF RequestMutation, TypeInv, ClientPlaces, coreVars, wk
    <2>5. QED
      BY <1>4, <2>3, <2>4 DEF RequestMutation
  <1>5. CASE Dispatch(c)
    <2> DEFINE o == ops[req[c].op]
               key == MutationKey(o.target)
               outcomes == IF o.type = "start" /\ req[c].ref THEN Lifecycle(key, "start")
                           ELSE Ensure(key, req[c].ref, o.spec)
    <2>1. PICK x \in outcomes :
              /\ Apply(x)
              /\ IF x.reply \in {"ok", "ref_error"} /\ ~req[c].before.ref
                   THEN /\ cpc' = [cpc EXCEPT ![c] = "bind"]
                        /\ req' = [req EXCEPT ![c].note = x.reply]
                   ELSE ClientGoes(c, IF x.reply = "ok" THEN "idle" ELSE "abort")
      BY <1>5 DEF Dispatch
    <2>2. Fits(x)
      BY <1>1, <2>1, CallsFit
    <2>3. cpc' \in [Clients -> ClientPlaces] /\ req' \in [Clients -> ReqType] /\ Asks'
      <3>1. CASE x.reply \in {"ok", "ref_error"} /\ ~req[c].before.ref
        <4>1. cpc' = [cpc EXCEPT ![c] = "bind"] /\ req' = [req EXCEPT ![c] = [req[c] EXCEPT !.note = x.reply]]
          BY <2>1, <3>1
        <4>2. [req[c] EXCEPT !.note = x.reply] \in ReqType
          BY <1>1, <2>2 DEF Fits, ReqType
        <4>3. Asks
          BY DEF TypeInv
        <4>4. QED
          BY <1>1, <4>1, <4>2, <4>3 DEF Asks, ClientPlaces
      <3>2. CASE ~(x.reply \in {"ok", "ref_error"} /\ ~req[c].before.ref)
        <4>1. \E s \in ClientPlaces \ {"mutate"} : ClientGoes(c, s)
          BY <2>1, <3>2 DEF ClientPlaces
        <4>2. QED
          BY <4>1, ClientGoesTypes
      <3>3. QED
        BY <3>1, <3>2
    <2>4. QED
      BY <1>5, <2>1, <2>2, <2>3 DEF Dispatch, Apply, Fits, TypeInv, ClientPlaces, row, gate, wk
  <1>6. CASE BindRuntime(c)
    <2>1. cpc' \in [Clients -> ClientPlaces] /\ req' \in [Clients -> ReqType] /\ Asks'
      BY <1>6, ClientGoesTypes DEF BindRuntime, ClientPlaces
    <2>2. svc' \in RowType
      BY <1>1, <1>6 DEF BindRuntime, RowType, Statuses
    <2>3. QED
      BY <1>6, <2>1, <2>2 DEF BindRuntime, TypeInv, ClientPlaces, gate, coreVars, wk
  <1>7. CASE AbortCreate(c) \/ AbortPendingMutation(c)
    <2>1. cpc' \in [Clients -> ClientPlaces] /\ req' \in [Clients -> ReqType] /\ Asks'
      BY <1>7, ClientGoesTypes DEF AbortCreate, AbortPendingMutation, ClientPlaces
    <2>2. svc' \in RowType
      <3>1. req[c].before \in RowType
        BY <1>1 DEF ReqType
      <3>2. QED
        BY <1>1, <1>7, <3>1 DEF AbortCreate, AbortPendingMutation, RowType
    <2>3. ops' \in [OpIds -> OpType]
      BY <1>1, <1>7, ClosedFits DEF AbortCreate, AbortPendingMutation, Ended
    <2>4. UNCHANGED <<gate, coreVars, grace, wk>>
      BY <1>7 DEF AbortCreate, AbortPendingMutation
    <2>5. QED
      BY <2>1, <2>2, <2>3, <2>4 DEF TypeInv, ClientPlaces, gate, coreVars, wk
  <1>8. CASE DropRequest(c)
    <2>1. cpc' \in [Clients -> ClientPlaces] /\ req' \in [Clients -> ReqType] /\ Asks'
      BY <1>8, ClientGoesTypes DEF DropRequest, ClientPlaces
    <2>2. QED
      BY <1>8, <2>1 DEF DropRequest, TypeInv, ClientPlaces, row, gate, coreVars, wk
  <1>9. Replicas \subseteq Counts /\ 0 \in Counts
    BY DEF Counts
  <1>10. QED
    BY <1>2, <1>3, <1>4, <1>5, <1>6, <1>7, <1>8, <1>9 DEF Client

AtWork == pc \in [Workers -> Steps] /\ loc \in [Workers -> LocType]

\* A worker that moves on without reading anything new.
LEMMA MoveTypes ==
    ASSUME AtWork, NEW w \in Workers
    PROVE  /\ \A s \in Steps : Goes(w, s) => AtWork'
           /\ \A s \in Steps, k \in {"none", "retry", "fatal"} : With(w, s, k) => AtWork'
           /\ Returns(w) => AtWork'
           /\ Concludes(w) => AtWork'
  <1>1. loc[w] \in LocType
    BY DEF AtWork
  <1>2. ASSUME NEW s \in Steps, NEW k \in {"none", "retry", "fatal"}, With(w, s, k) PROVE AtWork'
    <2>1. [loc[w] EXCEPT !.code = k] \in LocType
      BY <1>1 DEF LocType
    <2>2. loc' = [loc EXCEPT ![w] = [loc[w] EXCEPT !.code = k]] /\ pc' = [pc EXCEPT ![w] = s]
      BY <1>2 DEF With
    <2>3. QED
      BY <2>1, <2>2 DEF AtWork
  <1>3. ASSUME NEW s \in Steps, Goes(w, s) PROVE AtWork'
    BY <1>3 DEF Goes, AtWork
  <1>4. ASSUME Returns(w) PROVE AtWork'
    BY <1>4, NothingFits DEF Returns, AtWork, Steps
  <1>5. ASSUME Concludes(w) PROVE AtWork'
    BY <1>2, <1>5 DEF Concludes, Steps
  <1>6. QED
    BY <1>2, <1>3, <1>4, <1>5

\* Steps that only read.
LEMMA ReadTypes ==
    ASSUME TypeInv, NEW w \in Workers, Load(w) \/ FenceCheck(w) \/ Refetch(w) \/ Observe(w) \/ Crash(w)
    PROVE  TypeInv'
  <1>1. /\ AtWork /\ loc[w] \in LocType /\ svc \in RowType /\ ops \in [OpIds -> OpType]
        /\ loc[w].op \in OpIds
    BY DEF TypeInv, AtWork, LocType
  <1>2. AtWork'
    <2>1. CASE Load(w)
      <3> DEFINE next == IF ~GenerationMatches(loc[w].op) THEN "terminal"
                ELSE IF svc.desired = "deleted" /\ ops[loc[w].op].type # "delete" THEN "idle"
                ELSE IF loc[w].rb # 0 THEN "rollback"
                ELSE IF NeedsWithdrawal(ops[loc[w].op].type) THEN "fence"
                ELSE Decided(loc[w].op, loc[w].code, svc.ref)
      <3>1. next \in Steps
        BY DEF Decided, Steps
      <3>2. \/ /\ pc' = [pc EXCEPT ![w] = next]
               /\ loc' = [loc EXCEPT ![w].snap = svc, ![w].code = IF next = "retry" THEN "retry" ELSE @]
            \/ Returns(w) \/ With(w, "retry", "retry")
        BY <2>1 DEF Load
      <3> HIDE DEF next
      <3>3. CASE /\ pc' = [pc EXCEPT ![w] = next]
                 /\ loc' = [loc EXCEPT ![w].snap = svc, ![w].code = IF next = "retry" THEN "retry" ELSE @]
        <4> DEFINE k == IF next = "retry" THEN "retry" ELSE loc[w].code
        <4>1. loc' = [loc EXCEPT ![w] = [loc[w] EXCEPT !.snap = svc, !.code = k]]
          BY <1>1, <3>3 DEF AtWork
        <4>2. k \in {"none", "retry", "fatal"}
          BY <1>1 DEF LocType
        <4>3. [loc[w] EXCEPT !.snap = svc, !.code = k] \in LocType
          BY <1>1, <4>2 DEF LocType
        <4>4. QED
          BY <1>1, <3>1, <3>3, <4>1, <4>3 DEF AtWork
      <3>4. QED
        BY <1>1, <3>2, <3>3, MoveTypes DEF Steps
    <2>2. CASE FenceCheck(w)
      BY <1>1, <2>2, MoveTypes DEF FenceCheck, Steps
    <2>3. CASE Refetch(w)
      <3> DEFINE next == Decided(loc[w].op, loc[w].code, svc.ref)
      <3>1. next \in Steps
        BY DEF Decided, Steps
      <3>2. \/ pc' = [pc EXCEPT ![w] = next] /\ loc' = [loc EXCEPT ![w].snap = svc]
            \/ Goes(w, "terminal") \/ With(w, "retry", "none")
        BY <2>3 DEF Refetch
      <3>3. [loc[w] EXCEPT !.snap = svc] \in LocType
        BY <1>1 DEF LocType
      <3> HIDE DEF next
      <3>4. QED
        BY <1>1, <3>1, <3>2, <3>3, MoveTypes DEF AtWork, Steps
    <2>4. CASE Observe(w)
      <3>1. ASSUME NEW n \in {"ready", "notready"}, loc' = [loc EXCEPT ![w].note = n],
                   pc' = [pc EXCEPT ![w] = "partial"]
            PROVE  AtWork'
        <4>1. [loc[w] EXCEPT !.note = n] \in LocType
          BY <1>1 DEF LocType, Replies
        <4>2. QED
          BY <1>1, <3>1, <4>1 DEF AtWork, Steps
      <3>2. QED
        BY <1>1, <2>4, <3>1, MoveTypes DEF Observe, Steps
    <2>5. CASE Crash(w)
      BY <1>1, <2>5, MoveTypes DEF Crash
    <2>6. QED
      BY <2>1, <2>2, <2>3, <2>4, <2>5
  <1>3. UNCHANGED <<row, gate, coreVars, grace, cl>>
    BY DEF Load, FenceCheck, Refetch, Observe, Crash
  <1>4. QED
    BY <1>2, <1>3 DEF TypeInv, AtWork, Asks, row, gate, coreVars, cl

\* Steps that call Core.
LEMMA CallTypes ==
    ASSUME TypeInv, NEW w \in Workers, pc[w] = "act" => ops[loc[w].op].type # "none",
           Act(w) \/ Rollback(w)
    PROVE  TypeInv'
  <1>1. /\ AtWork /\ loc[w] \in LocType /\ core \in CoreType /\ ops \in [OpIds -> OpType]
        /\ loc[w].op \in OpIds /\ loc[w].snap \in RowType /\ loc[w].snap.ref \in BOOLEAN
        /\ loc[w].snap.spec \in Counts /\ 0 \in Counts
    BY DEF TypeInv, AtWork, LocType, RowType, Counts
  <1> DEFINE o == ops[loc[w].op]
  <1>2. o \in OpType /\ o.spec \in Counts /\ o.before \in Counts
    BY <1>1 DEF OpType
  <1>3. ASSUME NEW n \in Replies, NEW s \in Steps, pc' = [pc EXCEPT ![w] = s],
               loc' = [loc EXCEPT ![w].note = n]
        PROVE  AtWork'
    <2>1. [loc[w] EXCEPT !.note = n] \in LocType
      BY <1>1 DEF LocType
    <2>2. QED
      BY <1>1, <1>3, <2>1 DEF AtWork
  <1>4. CASE Act(w)
    <2>1. PICK x \in Intended(o.type, MutationKey(o.target), loc[w].snap.ref, o.spec) :
              /\ Apply(x)
              /\ \/ pc' = [pc EXCEPT ![w] = "bind"] /\ loc' = [loc EXCEPT ![w].note = x.reply]
                 \/ Goes(w, "observe") \/ With(w, "abandon", "fatal") \/ Concludes(w)
      BY <1>4 DEF Act
    <2>2. Fits(x)
      <3>1. \A k : \A r \in Counts : \A y \in PostWorkload(k, r) : Fits(y)
        BY <1>1, PostFits
      <3>2. \A y \in Unbound \cup Seen : Fits(y)
        BY <1>1 DEF Unbound, Seen, Fits, Outcome, Replies
      <3> DEFINE key == MutationKey(o.target)
                 ref == loc[w].snap.ref
      <3>3. x \in Unbound \cup Seen \cup PostWorkload(key, o.spec) \cup DeleteWorkload(key)
                  \cup Lifecycle(key, "stop") \cup Lifecycle(key, o.type) \cup Ensure(key, ref, o.spec)
        <4>1. o.type \in {"delete", "stop", "create", "start", "restart", "scale"}
          BY <1>2, <1>4, ActionsAssumption DEF OpType, Act
        <4>2. QED
          BY <2>1, <4>1 DEF Intended
      <3> HIDE DEF key, ref, o
      <3>4. QED
        <4>1. ref \in BOOLEAN
          BY <1>1 DEF ref
        <4>2. o.spec \in Counts
          BY <1>2 DEF o
        <4>3. /\ \A y \in DeleteWorkload(key) : Fits(y)
              /\ \A a : \A y \in Lifecycle(key, a) : Fits(y)
              /\ \A y \in Ensure(key, ref, o.spec) : Fits(y)
          BY <1>1, <4>1, <4>2, CallsFit
        <4>4. \A y \in PostWorkload(key, o.spec) : Fits(y)
          BY <3>1, <4>2
        <4>5. QED
          BY <3>2, <3>3, <4>3, <4>4
    <2>3. AtWork'
      BY <1>1, <1>3, <2>1, <2>2, MoveTypes DEF Fits, Steps
    <2>4. QED
      BY <1>4, <2>1, <2>2, <2>3 DEF Act, Apply, Fits, TypeInv, AtWork, Asks, row, gate, cl
  <1>5. CASE Rollback(w)
    <2> DEFINE spec == IF loc[w].snap.spec # 0 THEN loc[w].snap.spec ELSE o.before
               call == Ensure(RollbackKey(loc[w].op, loc[w].rb), loc[w].snap.ref, spec)
               nothing == {Outcome(core, intents, "fatal")}
    <2>1. PICK x \in IF spec = 0 THEN nothing ELSE call :
              /\ Apply(x)
              /\ \/ pc' = [pc EXCEPT ![w] = "rbFinish"] /\ loc' = [loc EXCEPT ![w].note = x.reply]
                 \/ With(w, "retry", "retry")
      BY <1>5 DEF Rollback
    <2>2. Fits(x)
      <3>1. spec \in Counts
        BY <1>1, <1>2
      <3>2. \A y \in nothing : Fits(y)
        BY <1>1 DEF Fits, Outcome, Replies
      <3>3. \A y \in call : Fits(y)
        BY <1>1, <3>1, CallsFit
      <3>4. QED
        BY <2>1, <3>2, <3>3
    <2>3. AtWork'
      BY <1>1, <1>3, <2>1, <2>2, MoveTypes DEF Fits, Steps
    <2>4. QED
      BY <1>5, <2>1, <2>2, <2>3 DEF Rollback, Apply, Fits, TypeInv, AtWork, Asks, row, gate, cl
  <1>6. QED
    BY <1>4, <1>5

\* Steps that write the row of the service or of the operation.
LEMMA WriteTypes ==
    ASSUME TypeInv, NEW w \in Workers,
           Claim(w) \/ Bind(w) \/ Partial(w) \/ Finish(w) \/ Retry(w) \/ Terminal(w) \/ FinishRollback(w)
    PROVE  TypeInv'
  <1>1. /\ AtWork /\ loc[w] \in LocType /\ svc \in RowType /\ ops \in [OpIds -> OpType]
        /\ loc[w].op \in OpIds /\ loc[w].snap \in RowType
    BY DEF TypeInv, AtWork, LocType
  <1> DEFINE o == loc[w].op
  <1>2. ops[o] \in OpType /\ ops[o].spec \in Counts /\ ops[o].before \in Counts /\ ops[o].target \in Nat
    BY <1>1 DEF OpType
  <1>3. CASE Claim(w)
    <2>1. PICK p \in OpIds :
             /\ ops' = [ops EXCEPT ![p].state = "running", ![p].lease = w]
             /\ loc' = [loc EXCEPT ![w] = [NoLoc EXCEPT !.op = p, !.rb = ops[p].rb, !.code = ops[p].code]]
      BY <1>3 DEF Claim
    <2>2. ops[p] \in OpType /\ [ops[p] EXCEPT !.state = "running", !.lease = w] \in OpType
      BY <1>1 DEF OpType, Active
    <2>3. [NoLoc EXCEPT !.op = p, !.rb = ops[p].rb, !.code = ops[p].code] \in LocType
      BY <2>2, NothingFits DEF LocType, OpType
    <2>4. ops' \in [OpIds -> OpType]
      BY <1>1, <2>1, <2>2
    <2>5. AtWork'
      BY <1>1, <1>3, <2>1, <2>3 DEF Claim, AtWork, Steps
    <2>6. QED
      BY <1>3, <2>4, <2>5 DEF Claim, TypeInv, AtWork, Asks, gate, coreVars, cl
  <1>4. CASE Bind(w)
    <2>1. svc' \in RowType
      BY <1>1, <1>4 DEF Bind, RowType, Statuses
    <2>2. AtWork'
      <3>1. Returns(w) => AtWork'
        BY <1>1, MoveTypes
      <3>2. \A k \in {"none", "retry", "fatal"} :
               [loc[w] EXCEPT !.snap = [loc[w].snap EXCEPT !.ref = TRUE], !.code = k] \in LocType
        BY <1>1 DEF LocType, RowType
      <3>3. CASE pc' = [pc EXCEPT ![w] = "observe"] /\ loc' = [loc EXCEPT ![w].snap.ref = TRUE]
        <4>1. loc' = [loc EXCEPT ![w] = [loc[w] EXCEPT !.snap = [loc[w].snap EXCEPT !.ref = TRUE],
                                                       !.code = loc[w].code]]
          BY <1>1, <3>3 DEF AtWork, LocType
        <4>2. QED
          BY <1>1, <3>2, <3>3, <4>1 DEF AtWork, Steps, LocType
      <3>4. ASSUME NEW s \in {"abandon", "retry"}, NEW k \in {"retry", "fatal"},
                   pc' = [pc EXCEPT ![w] = s], loc' = [loc EXCEPT ![w].snap.ref = TRUE, ![w].code = k]
            PROVE  AtWork'
        <4>1. loc' = [loc EXCEPT ![w] = [loc[w] EXCEPT !.snap = [loc[w].snap EXCEPT !.ref = TRUE], !.code = k]]
          BY <1>1, <3>4 DEF AtWork, LocType
        <4>2. [loc[w] EXCEPT !.snap = [loc[w].snap EXCEPT !.ref = TRUE], !.code = k] \in LocType
          BY <1>1 DEF LocType, RowType
        <4>3. QED
          BY <1>1, <3>4, <4>1, <4>2 DEF AtWork, Steps
      <3>5. \/ Returns(w)
            \/ pc' = [pc EXCEPT ![w] = "observe"] /\ loc' = [loc EXCEPT ![w].snap.ref = TRUE]
            \/ \E s \in {"abandon", "retry"}, k \in {"retry", "fatal"} :
                  pc' = [pc EXCEPT ![w] = s] /\ loc' = [loc EXCEPT ![w].snap.ref = TRUE, ![w].code = k]
        BY <1>4, Zenon DEF Bind
      <3>6. QED
        BY <3>1, <3>3, <3>4, <3>5
    <2>3. QED
      BY <1>4, <2>1, <2>2 DEF Bind, TypeInv, AtWork, Asks, gate, coreVars, cl
  <1>5. CASE Partial(w)
    <2>1. svc' \in RowType
      BY <1>1, <1>5 DEF Partial, RowType, Statuses
    <2>2. AtWork'
      BY <1>1, <1>5, MoveTypes DEF Partial, Steps
    <2>3. QED
      BY <1>5, <2>1, <2>2 DEF Partial, TypeInv, AtWork, Asks, gate, coreVars, cl
  <1>6. CASE Finish(w)
    <2>1. svc' \in RowType
      BY <1>1, <1>2, <1>6 DEF Finish, RowType, Statuses, row
    <2>2. ops' \in [OpIds -> OpType]
      BY <1>1, <1>6, ClosedFits DEF Finish, Ended, row
    <2>3. AtWork'
      BY <1>1, <1>6, MoveTypes DEF Finish
    <2>4. wanted' \in BOOLEAN /\ confirmed' \in BOOLEAN /\ objects' \subseteq {"route"} /\ pubGen' \in Nat
      BY <1>2, <1>6 DEF Finish, TypeInv, gate
    <2>5. QED
      BY <1>6, <2>1, <2>2, <2>3, <2>4 DEF Finish, TypeInv, AtWork, Asks, coreVars, cl
  <1>7. CASE Retry(w)
    <2>1. [ops[o] EXCEPT !.state = "pending", !.code = loc[w].code, !.lease = NoWorker] \in OpType
      BY <1>1, <1>2 DEF OpType, LocType, Active
    <2>2. \/ ops' = ops
          \/ ops' = [ops EXCEPT ![o] = [ops[o] EXCEPT !.state = "pending", !.code = loc[w].code,
                                                      !.lease = NoWorker]]
      BY <1>7 DEF Retry
    <2>3. AtWork'
      BY <1>1, <1>7, MoveTypes DEF Retry
    <2>4. QED
      BY <1>1, <1>7, <2>1, <2>2, <2>3 DEF Retry, TypeInv, AtWork, Asks, gate, coreVars, cl
  <1>8. CASE Terminal(w)
    <2>1. svc' \in RowType
      BY <1>1, <1>8 DEF Terminal, RowType, Statuses, row
    <2>2. ops' \in [OpIds -> OpType]
      BY <1>1, <1>8, ClosedFits DEF Terminal, Ended, row
    <2>3. AtWork'
      BY <1>1, <1>8, MoveTypes DEF Terminal
    <2>4. QED
      BY <1>8, <2>1, <2>2, <2>3 DEF Terminal, TypeInv, AtWork, Asks, gate, coreVars, cl
  <1>9. CASE FinishRollback(w)
    <2>1. svc' \in RowType /\ ops' \in [OpIds -> OpType]
      <3>1. loc[w].snap.applied \in Counts /\ svc.ref \in BOOLEAN
        BY <1>1 DEF RowType
      <3>2. svc' \in RowType
        BY <1>1, <1>2, <1>9, <3>1 DEF FinishRollback, FinishScaleRollback, RowType, Statuses, row
      <3>3. QED
        BY <1>1, <1>9, <3>2, ClosedFits DEF FinishRollback, FinishScaleRollback, Ended, row
    <2>2. AtWork'
      BY <1>1, <1>9, MoveTypes DEF FinishRollback
    <2>3. QED
      BY <1>9, <2>1, <2>2 DEF FinishRollback, TypeInv, AtWork, Asks, gate, coreVars, cl
  <1>10. QED
    BY <1>3, <1>4, <1>5, <1>6, <1>7, <1>8, <1>9

LEMMA AbandonTypes ==
    ASSUME TypeInv, NEW w \in Workers, Abandon(w)
    PROVE  TypeInv'
  <1>1. /\ AtWork /\ loc[w] \in LocType /\ svc \in RowType /\ ops \in [OpIds -> OpType]
        /\ loc[w].op \in OpIds /\ loc[w].snap \in RowType /\ core \in CoreType
        /\ svc.gen \in Nat /\ ops[loc[w].op] \in OpType /\ loc[w].snap.applied \in Counts
    BY DEF TypeInv, AtWork, LocType, RowType
  <1> DEFINE o == loc[w].op
  <1>2. \/ BeginScaleRollback(w) /\ UNCHANGED coreVars
        \/ CleanupRuntime(w) /\ UNCHANGED row
        \/ (Returns(w) \/ Goes(w, "terminal")) /\ UNCHANGED <<row, coreVars>>
    BY DEF Abandon
  <1>3. UNCHANGED <<gate, grace, cl>>
    BY DEF Abandon
  <1>4. CASE BeginScaleRollback(w) /\ UNCHANGED coreVars
    <2> DEFINE rb == IF ops[o].rb # 0 THEN ops[o].rb ELSE svc.gen + 1
    <2>1. rb \in Nat
      BY <1>1 DEF OpType
    <2>2. \/ (Returns(w) \/ With(w, "retry", "retry")) /\ UNCHANGED row
          \/ /\ pc' = [pc EXCEPT ![w] = "rollback"]
             /\ loc' = [loc EXCEPT ![w].rb = rb, ![w].snap.spec = loc[w].snap.applied]
             /\ \/ UNCHANGED row
                \/ /\ svc' = [svc EXCEPT !.spec = svc.applied, !.gen = rb, !.status = "deploying"]
                   /\ ops' = [ops EXCEPT ![o].rb = rb, ![o].code = "retry"]
      BY <1>4 DEF BeginScaleRollback
    <2> HIDE DEF rb
    <2>3. AtWork'
      <3>1. [loc[w] EXCEPT !.rb = rb, !.snap = [loc[w].snap EXCEPT !.spec = loc[w].snap.applied]] \in LocType
        BY <1>1, <2>1 DEF LocType, RowType
      <3>2. ASSUME pc' = [pc EXCEPT ![w] = "rollback"],
                   loc' = [loc EXCEPT ![w].rb = rb, ![w].snap.spec = loc[w].snap.applied]
            PROVE  AtWork'
        <4>1. loc' = [loc EXCEPT ![w] = [loc[w] EXCEPT !.rb = rb,
                                            !.snap = [loc[w].snap EXCEPT !.spec = loc[w].snap.applied]]]
          BY <1>1, <3>2 DEF AtWork, LocType
        <4>2. QED
          BY <1>1, <3>1, <3>2, <4>1 DEF AtWork, Steps
      <3>3. QED
        BY <1>1, <2>2, <3>2, MoveTypes DEF Steps
    <2>4. [svc EXCEPT !.spec = svc.applied, !.gen = rb, !.status = "deploying"] \in RowType
      BY <1>1, <2>1 DEF RowType, Statuses
    <2>5. [ops[o] EXCEPT !.rb = rb, !.code = "retry"] \in OpType
      BY <1>1, <2>1 DEF OpType
    <2>6. [ops EXCEPT ![o].rb = rb, ![o].code = "retry"] \in [OpIds -> OpType]
      <3>1. [ops EXCEPT ![o].rb = rb, ![o].code = "retry"]
              = [ops EXCEPT ![o] = [ops[o] EXCEPT !.rb = rb, !.code = "retry"]]
        BY <1>1
      <3>2. QED
        BY <1>1, <2>5, <3>1
    <2>7. svc' \in RowType /\ ops' \in [OpIds -> OpType]
      BY <1>1, <2>2, <2>4, <2>6 DEF row
    <2>8. QED
      BY <1>3, <1>4, <2>3, <2>7 DEF TypeInv, AtWork, Asks, gate, coreVars, cl
  <1>5. CASE CleanupRuntime(w) /\ UNCHANGED row
    <2>1. PICK x \in DeleteWorkload(CleanupKey(ops[o].target)) :
              Apply(x) /\ Goes(w, IF x.reply \in {"ok", "notfound"} THEN "terminal" ELSE "retry")
      BY <1>5 DEF CleanupRuntime
    <2>2. Fits(x)
      <3>1. 0 \in Counts
        BY DEF Counts
      <3>2. QED
        BY <1>1, <2>1, <3>1, CallsFit
    <2>3. AtWork'
      BY <1>1, <2>1, MoveTypes DEF Steps
    <2>4. QED
      BY <1>3, <1>5, <2>1, <2>2, <2>3 DEF Apply, Fits, TypeInv, AtWork, Asks, row, gate, cl
  <1>6. CASE (Returns(w) \/ Goes(w, "terminal")) /\ UNCHANGED <<row, coreVars>>
    <2>1. AtWork'
      BY <1>1, <1>6, MoveTypes DEF Steps
    <2>2. QED
      BY <1>3, <1>6, <2>1 DEF TypeInv, AtWork, Asks, row, gate, coreVars, cl
  <1>7. QED
    BY <1>2, <1>4, <1>5, <1>6

LEMMA OtherTypes ==
    ASSUME TypeInv,
           \/ \E a \in Actions : RequestWithdrawn(a)
           \/ \E o \in OpIds : LeaseExpires(o) \/ Age(o)
           \/ GraceOver \/ Publish
    PROVE  TypeInv'
  <1>1. ops \in [OpIds -> OpType]
    BY DEF TypeInv
  <1>2. ASSUME NEW a \in Actions, RequestWithdrawn(a) PROVE TypeInv'
    <2>1. MutateService(a, 0) \/ AnswerAlreadyDesired(a, 0)
      BY <1>2 DEF RequestWithdrawn
    <2>2. /\ svc' \in RowType /\ ops' \in [OpIds -> OpType]
          /\ wanted' \in BOOLEAN /\ confirmed' \in BOOLEAN /\ objects' \subseteq {"route"} /\ pubGen' \in Nat
      <3>1. 0 \in Counts
        BY DEF Counts
      <3>2. QED
        BY <2>1, <3>1, MutateTypes
    <2>3. QED
      BY <1>2, <2>2 DEF RequestWithdrawn, TypeInv, Asks, coreVars, wk, cl
  <1>3. ASSUME NEW o \in OpIds, LeaseExpires(o) \/ Age(o) PROVE TypeInv'
    <2>1. /\ [ops[o] EXCEPT !.lease = NoWorker] \in OpType
          /\ [ops[o] EXCEPT !.spent = TRUE] \in OpType
      BY <1>1 DEF OpType
    <2>2. ops' \in [OpIds -> OpType]
      BY <1>1, <1>3, <2>1 DEF LeaseExpires, Age
    <2>3. QED
      BY <1>3, <2>2 DEF LeaseExpires, Age, TypeInv, Asks, gate, coreVars, wk, cl
  <1>4. CASE GraceOver
    BY <1>4 DEF GraceOver, TypeInv, Asks, row, gate, coreVars, wk, cl
  <1>5. CASE Publish
    <2>1. wanted' \in BOOLEAN /\ confirmed' \in BOOLEAN /\ objects' \subseteq {"route"}
      BY <1>5 DEF Publish, TypeInv, Fence!ChangeObjects, Fence!Confirm
    <2>2. QED
      BY <1>5, <2>1 DEF Publish, TypeInv, Asks, row, coreVars, wk, cl
  <1>6. QED
    BY <1>2, <1>3, <1>4, <1>5

LEMMA TypeInit == Init => TypeInv
  <1> SUFFICES ASSUME Init PROVE TypeInv
    OBVIOUS
  <1> DEFINE new == [type |-> "none", state |-> "none", target |-> 0, rb |-> 0, spec |-> 0,
                     before |-> 0, code |-> "none", lease |-> NoWorker, spent |-> FALSE]
  <1>1. new \in OpType /\ [state |-> "none", up |-> FALSE, replicas |-> 0] \in CoreType
    BY DEF OpType, CoreType, Counts
  <1>2. ops = [o \in OpIds |-> new]
    BY DEF Init
  <1> HIDE DEF new
  <1>3. wanted = FALSE /\ confirmed = TRUE /\ objects = {}
    BY DEF Init, Fence!FenceInit
  <1>4. QED
    BY <1>1, <1>2, <1>3, NothingFits DEF Init, TypeInv, Asks, Steps

LEMMA TypeNext ==
    ASSUME TypeInv, [Next]_vars,
           \A w \in Workers : pc[w] = "act" => ops[loc[w].op].type # "none"
    PROVE  TypeInv'
  <1>1. ASSUME NEW w \in Workers, Worker(w) \/ Crash(w) PROVE TypeInv'
    BY <1>1, ReadTypes, CallTypes, WriteTypes, AbandonTypes DEF Worker
  <1>2. CASE UNCHANGED vars
    BY <1>2 DEF vars, row, gate, coreVars, wk, cl, TypeInv, Asks
  <1>3. QED
    BY <1>1, <1>2, ClientTypes, OtherTypes DEF Next

-----------------------------------------------------------------------------
(* The queue: what each way of writing the rows keeps.                     *)

LEMMA SameFollows == ASSUME NEW x PROVE Follows(x, x)
  BY DEF Follows

LEMMA ActiveIsCurrent ==
    ASSUME QueueInv, NEW o \in OpIds, ops[o].state \in Active
    PROVE  /\ svc.here = "live" /\ svc.cur = o /\ HasActive /\ Known(ops, o) /\ o # 0
           /\ \A q \in OpIds : ops[q].state \in Active => q = o
  BY BoundAssumption DEF QueueInv, ActiveInv, HasActive, Known, Active, OpIds

LEMMA OnlyCreateIsFirst ==
    ASSUME QueueInv, NEW o \in OpIds, Known(ops, o)
    PROVE  svc.here # "none" /\ (o = 1 <=> ops[o].type = "create") /\ ops[o].type # "none"
  BY DEF QueueInv, CreateInv

\* What an operation does needs a runtime, unless it makes one or takes it away.
LEMMA BoundByType ==
    ASSUME QueueInv, NEW o \in OpIds, Known(ops, o), ops[o].type \notin {"create", "delete"},
           svc.here = "live"
    PROVE  svc.ref
  BY DEF QueueInv, UnboundInv

\* The lease, the clock, the error code or the place in the queue of an operation change.
LEMMA TouchKeeps ==
    ASSUME TypeInv, QueueInv, NEW o \in OpIds, NEW r \in OpType,
           r.type = ops[o].type, r.target = ops[o].target, r.spec = ops[o].spec, r.rb = ops[o].rb,
           r.state = ops[o].state \/ (r.state \in Active /\ ops[o].state \in Active),
           ops' = [ops EXCEPT ![o] = r], svc' = svc
    PROVE  QueueInv' /\ Follows(ops, ops')
  <1>1. /\ ops \in [OpIds -> OpType]
        /\ \A q \in OpIds : ops'[q] = IF q = o THEN r ELSE ops[q]
    BY DEF TypeInv
  <1>2. \A q \in OpIds : /\ ops'[q].type = ops[q].type /\ ops'[q].target = ops[q].target
                         /\ ops'[q].spec = ops[q].spec /\ ops'[q].rb = ops[q].rb
                         /\ (ops'[q].state \in Active <=> ops[q].state \in Active)
                         /\ (Known(ops', q) <=> Known(ops, q))
                         /\ (ops[q].state \in Ended => ops'[q].state = ops[q].state)
    BY <1>1 DEF Known, Active, Ended
  <1>3. 1 \in OpIds
    BY BoundAssumption DEF OpIds
  <1>4. Follows(ops, ops')
    BY <1>2 DEF Follows
  <1>5. CreateInv'
    <2>1. CreateInv
      BY DEF QueueInv
    <2>2. svc'.here = "none" => svc' = NoRow /\ \A q \in OpIds : ~Known(ops', q)
      BY <1>2, <2>1 DEF CreateInv
    <2>3. svc'.here # "none" => Known(ops', 1) /\ ops'[1].type = "create"
      BY <1>2, <1>3, <2>1 DEF CreateInv
    <2>4. \A q \in OpIds : /\ Known(ops', q) => ops'[q].type # "none" /\ (ops'[q].type = "create" => q = 1)
                           /\ ops'[q].rb # 0 => ops'[q].type = "scale"
      <3> SUFFICES ASSUME NEW q \in OpIds
                   PROVE  /\ Known(ops', q) => ops'[q].type # "none" /\ (ops'[q].type = "create" => q = 1)
                          /\ ops'[q].rb # 0 => ops'[q].type = "scale"
        OBVIOUS
      <3>1. /\ Known(ops, q) => ops[q].type # "none" /\ (ops[q].type = "create" => q = 1)
            /\ ops[q].rb # 0 => ops[q].type = "scale"
        BY <2>1 DEF CreateInv
      <3>2. /\ ops'[q].type = ops[q].type /\ ops'[q].rb = ops[q].rb
            /\ Known(ops', q) <=> Known(ops, q)
        BY <1>2
      <3>3. QED
        BY <3>1, <3>2
    <2>5. QED
      BY <2>2, <2>3, <2>4 DEF CreateInv
  <1>6. ActiveInv'
    BY <1>2 DEF QueueInv, ActiveInv
  <1>7. UnboundInv'
    BY <1>2, <1>3 DEF QueueInv, UnboundInv
  <1>8. QED
    BY <1>4, <1>5, <1>6, <1>7 DEF QueueInv

\* The current operation ends, and the service with it or not.
LEMMA CloseKeeps ==
    ASSUME TypeInv, QueueInv, NEW o \in OpIds, ops[o].state \in Active, NEW s \in Ended,
           ops' = Closed(o, s), svc'.here # "none", UnboundInv'
    PROVE  QueueInv' /\ Follows(ops, ops') /\ \A q \in OpIds : ops'[q].state \notin Active
  <1>1. ops \in [OpIds -> OpType] /\ 1 \in OpIds
    BY BoundAssumption DEF TypeInv, OpIds
  <1>2. \A q \in OpIds : /\ ops'[q].type = ops[q].type /\ ops'[q].target = ops[q].target
                         /\ ops'[q].spec = ops[q].spec /\ ops'[q].rb = ops[q].rb
                         /\ ops'[q].state = IF q = o THEN s ELSE ops[q].state
    BY <1>1, ClosedFits
  <1>3. \A q \in OpIds : ops'[q].state \notin Active
    BY <1>2, ActiveIsCurrent DEF Active, Ended
  <1>4. \A q \in OpIds : Known(ops', q) <=> Known(ops, q)
    BY <1>2 DEF Known, Active, Ended
  <1>5. Follows(ops, ops')
    BY <1>2, <1>4 DEF Follows, Active, Ended
  <1>6. CreateInv'
    BY <1>1, <1>2, <1>4, ActiveIsCurrent DEF QueueInv, CreateInv
  <1>7. QED
    BY <1>3, <1>5, <1>6 DEF QueueInv, ActiveInv

\* The service learns of its runtime.
LEMMA BoundKeeps ==
    ASSUME TypeInv, QueueInv, svc.here = "live", ops' = ops,
           svc' = [svc EXCEPT !.ref = TRUE, !.status = "deploying"]
    PROVE  QueueInv' /\ Follows(ops, ops')
  <1>1. /\ svc'.here = "live" /\ svc'.ref = TRUE /\ svc'.status = "deploying"
        /\ svc'.cur = svc.cur /\ svc'.desired = svc.desired
    BY DEF TypeInv, RowType
  <1>2. QED
    BY <1>1, SameFollows DEF QueueInv, CreateInv, ActiveInv, UnboundInv, Known

LEMMA CreateKeeps ==
    ASSUME TypeInv, QueueInv, NEW c \in Clients, NEW r \in Replicas, CreateWithOperation(c, r)
    PROVE  QueueInv' /\ Follows(ops, ops')
  <1>1. svc = NoRow /\ (\A o \in OpIds : ~Known(ops, o)) /\ 1 \in OpIds
    BY BoundAssumption DEF CreateWithOperation, QueueInv, CreateInv, OpIds
  <1>2. /\ svc'.here = "live" /\ svc'.cur = 1 /\ svc'.gen = 1 /\ svc'.status = "pending"
        /\ svc'.desired = "running"
    BY <1>1 DEF CreateWithOperation, NoRow
  <1>3. /\ ops \in [OpIds -> OpType]
        /\ \A q \in OpIds : ops'[q] = IF q = 1 THEN Row("create", 1, r, 0) ELSE ops[q]
    BY <1>1 DEF TypeInv, CreateWithOperation
  <1>4. LET n == Row("create", 1, r, 0)
        IN  n.type = "create" /\ n.state = "pending" /\ n.target = 1 /\ n.rb = 0
    BY DEF Row
  <1>5. Follows(ops, ops') /\ CreateInv'
    BY <1>1, <1>2, <1>3, <1>4 DEF Follows, QueueInv, CreateInv, Known
  <1>6. ActiveInv'
    BY <1>1, <1>2, <1>3, <1>4 DEF ActiveInv, Known, Active, DesiredOf
  <1>7. UnboundInv'
    BY <1>1, <1>2, <1>3, <1>4 DEF UnboundInv, Known, Active
  <1>8. QED
    BY <1>5, <1>6, <1>7 DEF QueueInv

\* Nothing but delete is asked of a service without a runtime.
LEMMA BeginIsBound ==
    ASSUME TypeInv, QueueInv, NEW a \in Actions, NEW r, MayBegin(a, r) \/ AlreadyDesired(a, r),
           svc.here = "live"
    PROVE  svc.ref \/ (a = "delete" /\ MayBegin(a, r))
  <1> SUFFICES ASSUME ~svc.ref PROVE a = "delete" /\ MayBegin(a, r)
    BY DEF TypeInv, RowType
  <1>1. /\ svc.desired # "stopped" /\ svc.status \in {"pending", "failed", "stopping"}
        /\ svc.status = "pending" => ops[1].state \in Active
    BY DEF QueueInv, UnboundInv
  <1>2. a \in {"scale", "start", "stop", "restart", "delete"}
    BY ActionsAssumption
  <1>3. ~AlreadyDesired(a, r)
    BY <1>1, <1>2 DEF AlreadyDesired
  <1>4. ASSUME svc.status = "pending" PROVE a # "stop"
    <2>1. 1 \in OpIds
      BY BoundAssumption DEF OpIds
    <2>2. HasActive /\ svc.cur = 1 /\ Known(ops, 1)
      BY <1>1, <1>4, <2>1, ActiveIsCurrent
    <2>3. ops[1].type = "create"
      BY <2>1, <2>2, OnlyCreateIsFirst
    <2>4. QED
      BY <1>3, <2>2, <2>3 DEF MayBegin, MayPreempt
  <1>5. ActionAllowed(a)
    BY <1>3 DEF MayBegin
  <1>6. a \notin {"scale", "restart", "start"}
    BY <1>1, <1>5 DEF ActionAllowed
  <1>7. a = "stop" => svc.status = "pending"
    BY <1>1, <1>5 DEF ActionAllowed
  <1>8. QED
    BY <1>2, <1>3, <1>4, <1>6, <1>7

\* A new operation is queued, or recorded as done already.
LEMMA QueueKeeps ==
    ASSUME TypeInv, QueueInv, NEW a \in Actions, NEW r \in Counts,
           MutateService(a, r) \/ AnswerAlreadyDesired(a, r)
    PROVE  /\ QueueInv' /\ Follows(ops, ops')
           /\ svc.here = "live" /\ svc'.here = "live" /\ svc'.ref = svc.ref
           /\ NewOp \in OpIds /\ Known(ops', NewOp) /\ ops'[NewOp].type = a
           /\ (MutateService(a, r) /\ a # "delete") => svc.ref
           /\ svc.desired # "deleted"
  <1>1. /\ ops \in [OpIds -> OpType] /\ svc \in RowType /\ svc.here = "live" /\ svc.desired # "deleted"
        /\ 1 \in OpIds /\ svc.cur \in OpIds \cup {0}
    BY BoundAssumption DEF MutateService, AnswerAlreadyDesired, MayBegin, TypeInv, RowType, OpIds
  <1>2. NewOp \in OpIds /\ ~Known(ops, NewOp)
    BY NewOpIsFree DEF MutateService, AnswerAlreadyDesired, MayBegin, Known
  <1>3. NewOp # 1 /\ a \notin {"none", "create"}
    BY <1>1, <1>2, ActionsAssumption DEF QueueInv, CreateInv
  <1>4. CASE MutateService(a, r)
    <2> DEFINE mid == CancelPreempted
               new == Row(a, svc.gen + 1, TargetSpec(a, r), svc.applied)
    <2>1. /\ mid \in [OpIds -> OpType]
          /\ \A q \in OpIds : /\ mid[q].type = ops[q].type /\ mid[q].target = ops[q].target
                              /\ mid[q].spec = ops[q].spec /\ mid[q].rb = ops[q].rb
                              /\ mid[q].state = ops[q].state
                                   \/ (mid[q].state = "cancelled" /\ ops[q].state \in Active)
                              /\ mid[q].state \notin Active
      <3>1. CASE HasActive
        <4>1. svc.cur \in OpIds /\ ops[svc.cur].state \in Active /\ "cancelled" \in Ended
          BY <1>1, <3>1 DEF HasActive, Ended
        <4>2. \A q \in OpIds : ops[q].state \in Active => q = svc.cur
          BY <4>1, ActiveIsCurrent
        <4>3. QED
          BY <1>1, <3>1, <4>1, <4>2, ClosedFits DEF CancelPreempted, Active
      <3>2. CASE ~HasActive
        <4>1. \A q \in OpIds : ops[q].state \notin Active
          BY <3>2, ActiveIsCurrent
        <4>2. QED
          BY <1>1, <3>2, <4>1 DEF CancelPreempted
      <3>3. QED
        BY <3>1, <3>2
    <2>2. /\ new.type = a /\ new.rb = 0 /\ new.state = "pending"
          /\ ops' = [mid EXCEPT ![NewOp] = new]
      BY <1>4 DEF MutateService, Row
    <2>3. /\ svc'.here = "live" /\ svc'.cur = NewOp /\ svc'.ref = svc.ref
          /\ svc'.status = IF a \in {"stop", "delete"} THEN "stopping" ELSE "deploying"
          /\ svc'.desired = DesiredOf(a)
      BY <1>1, <1>4 DEF MutateService, RowType, DesiredOf
    <2> HIDE DEF mid, new
    <2>4. \A q \in OpIds : ops'[q] = IF q = NewOp THEN new ELSE mid[q]
      BY <2>1, <2>2
    <2>5. \A q \in OpIds : q # NewOp => (Known(ops', q) <=> Known(ops, q))
      BY <2>1, <2>4 DEF Known, Active
    <2>6. Known(ops', NewOp) /\ ops'[NewOp].type = a
      BY <1>2, <2>2, <2>4 DEF Known
    <2>7. Follows(ops, ops')
      BY <1>2, <2>1, <2>4, <2>5 DEF Follows, Active, Ended
    <2>8. CreateInv'
      <3>1. CreateInv
        BY DEF QueueInv
      <3>2. Known(ops', 1) /\ ops'[1].type = "create"
        BY <1>1, <1>3, <2>1, <2>4, <2>5, <3>1 DEF CreateInv
      <3>3. \A q \in OpIds : /\ Known(ops', q) => ops'[q].type # "none" /\ (ops'[q].type = "create" => q = 1)
                             /\ ops'[q].rb # 0 => ops'[q].type = "scale"
        BY <1>2, <1>3, <2>1, <2>2, <2>4, <2>5, <3>1 DEF CreateInv
      <3>4. QED
        BY <2>3, <3>2, <3>3 DEF CreateInv
    <2>9. ActiveInv'
      BY <2>1, <2>2, <2>3, <2>4 DEF ActiveInv
    <2>10. svc.ref \/ a = "delete"
      BY <1>1, <1>4, BeginIsBound DEF MutateService
    <2>11. UnboundInv'
      <3>1. ASSUME ~svc'.ref PROVE UnboundInv'
        <4>1. a = "delete" /\ ~svc.ref
          BY <2>3, <2>10, <3>1
        <4>2. svc'.status = "stopping" /\ svc'.desired = "deleted"
          BY <2>3, <4>1 DEF DesiredOf
        <4>3. \A q \in OpIds : Known(ops', q) => ops'[q].type \in {"create", "delete"}
          BY <1>1, <2>1, <2>4, <2>5, <2>6, <4>1 DEF QueueInv, UnboundInv
        <4>4. QED
          BY <4>2, <4>3 DEF UnboundInv
      <3>2. QED
        BY <3>1 DEF UnboundInv
    <2>12. QED
      BY <1>1, <1>2, <2>3, <2>6, <2>7, <2>8, <2>9, <2>10, <2>11 DEF QueueInv
  <1>5. CASE AnswerAlreadyDesired(a, r)
    <2> DEFINE new == [Row(a, svc.gen, svc.spec, svc.applied) EXCEPT !.state = "completed"]
    <2>1. /\ new.type = a /\ new.rb = 0 /\ new.state = "completed"
          /\ ops' = [ops EXCEPT ![NewOp] = new]
      BY <1>5 DEF AnswerAlreadyDesired, Row
    <2>2. /\ svc'.here = "live" /\ svc'.ref = svc.ref
          /\ svc'.status = svc.status /\ svc'.desired = svc.desired /\ svc'.gen = svc.gen
      BY <1>1, <1>5 DEF AnswerAlreadyDesired, RowType
    <2> HIDE DEF new
    <2>3. \A q \in OpIds : ops'[q] = IF q = NewOp THEN new ELSE ops[q]
      BY <1>1, <2>1
    <2>4. \A q \in OpIds : ops[q].state \notin Active
      <3>1. ASSUME NEW q \in OpIds, ops[q].state \in Active PROVE FALSE
        <4>1. /\ HasActive /\ svc.cur = q /\ Known(ops, q)
          BY <3>1, ActiveIsCurrent
        <4>2. svc.status # "running" /\ svc.desired = DesiredOf(ops[q].type)
          BY <3>1 DEF QueueInv, ActiveInv
        <4>3. a = "stop" /\ svc.desired = "stopped" /\ ops[q].type # "stop"
          BY <1>5, <4>1, <4>2 DEF AnswerAlreadyDesired, AlreadyDesired
        <4>4. DesiredOf(ops[q].type) \in {"running", "deleted"}
          BY <4>3 DEF DesiredOf
        <4>5. QED
          BY <4>2, <4>3, <4>4
      <3>2. QED
        BY <3>1
    <2>5. \A q \in OpIds : q # NewOp => (Known(ops', q) <=> Known(ops, q))
      BY <2>3 DEF Known
    <2>6. Known(ops', NewOp) /\ ops'[NewOp].type = a
      BY <1>2, <2>1, <2>3 DEF Known
    <2>7. Follows(ops, ops')
      BY <1>2, <2>3, <2>5 DEF Follows
    <2>8. CreateInv'
      BY <1>1, <1>2, <1>3, <2>1, <2>2, <2>3, <2>5 DEF QueueInv, CreateInv
    <2>9. ActiveInv'
      BY <2>1, <2>3, <2>4 DEF ActiveInv, Active
    <2>10. svc.ref
      <3>1. AlreadyDesired(a, r)
        BY <1>5 DEF AnswerAlreadyDesired
      <3>2. a # "delete"
        BY <3>1 DEF AlreadyDesired
      <3>3. QED
        BY <1>1, <3>1, <3>2, BeginIsBound
    <2>11. UnboundInv'
      BY <2>2, <2>10 DEF UnboundInv
    <2>12. QED
      BY <1>1, <1>2, <2>2, <2>6, <2>7, <2>8, <2>9, <2>10, <2>11 DEF QueueInv
  <1>6. QED
    BY <1>4, <1>5

-----------------------------------------------------------------------------
(* Every step keeps the queue in order.                                    *)

LEMMA IdleRows ==
    ASSUME QueueInv, UNCHANGED row
    PROVE  QueueInv' /\ Follows(ops, ops')
  BY SameFollows DEF row, QueueInv, CreateInv, ActiveInv, UnboundInv, Known

LEMMA ClientQueue ==
    ASSUME TypeInv, QueueInv, ProcessInv, NEW c \in Clients, Client(c)
    PROVE  QueueInv' /\ Follows(ops, ops')
  <1> DEFINE o == req[c].op
  <1>1. /\ o \in OpIds /\ req[c].r \in Counts /\ svc \in RowType
        /\ ClientInv(c) /\ req[c].type \in {"create", "scale", "start"}
    BY DEF TypeInv, ReqType, ProcessInv
  <1>2. CASE \E r \in Replicas : CreateWithOperation(c, r)
    BY <1>2, CreateKeeps
  <1>3. CASE (\E r \in Replicas : ReadBefore(c, "scale", r)) \/ ReadBefore(c, "start", 0)
             \/ Dispatch(c) \/ DropRequest(c)
    BY <1>3, IdleRows DEF ReadBefore, Dispatch, DropRequest
  <1>4. CASE RequestMutation(c)
    <2>1. req[c].type \in Actions
      BY <1>4 DEF RequestMutation, TypeInv, Asks
    <2>2. QED
      BY <1>1, <1>4, <2>1, QueueKeeps DEF RequestMutation
  <1>5. CASE BindRuntime(c)
    BY <1>5, IdleRows, BoundKeeps DEF BindRuntime, row
  <1>6. CASE AbortCreate(c)
    <2>1. /\ ops[o].state \in Active /\ ops' = Closed(o, "erased") /\ svc'.here = "erased"
          /\ "erased" \in Ended
      BY <1>1, <1>6 DEF AbortCreate, Active, Ended, RowType
    <2>2. UnboundInv'
      BY <2>1 DEF UnboundInv
    <2>3. QED
      BY <1>1, <2>1, <2>2, CloseKeeps
  <1>7. CASE AbortPendingMutation(c)
    <2>1. /\ ops[o].state \in Active /\ ops' = Closed(o, "cancelled") /\ svc'.here = "live"
          /\ svc'.ref = svc.ref /\ "cancelled" \in Ended /\ svc.here = "live"
      BY <1>1, <1>7 DEF AbortPendingMutation, AbortFits, Active, Ended, RowType
    <2>2. ops[o].type \in {"scale", "start"} /\ Known(ops, o)
      BY <1>1, <1>7 DEF AbortPendingMutation, ClientInv
    <2>3. UnboundInv'
      BY <1>1, <2>1, <2>2, BoundByType DEF UnboundInv
    <2>4. QED
      BY <1>1, <2>1, <2>3, CloseKeeps
  <1>8. QED
    BY <1>2, <1>3, <1>4, <1>5, <1>6, <1>7 DEF Client

LEMMA WorkerQueue ==
    ASSUME TypeInv, QueueInv, ProcessInv, NEW w \in Workers, Worker(w)
    PROVE  QueueInv' /\ Follows(ops, ops')
  <1> DEFINE o == loc[w].op
  <1>1. /\ o \in OpIds /\ svc \in RowType /\ ops \in [OpIds -> OpType] /\ ops[o] \in OpType
        /\ loc[w] \in LocType /\ WorkerInv(w)
    BY DEF TypeInv, LocType, ProcessInv
  <1>2. Leased(w) => ops[o].state \in Active /\ svc.here = "live" /\ svc.cur = o
    BY <1>1, ActiveIsCurrent DEF Leased, Active
  <1>3. CASE Load(w) \/ FenceCheck(w) \/ Refetch(w) \/ Act(w) \/ Observe(w) \/ Rollback(w)
    BY <1>3, IdleRows DEF Load, FenceCheck, Refetch, Act, Observe, Rollback
  <1>4. CASE Claim(w)
    <2>1. PICK p \in OpIds : Claimable(p) /\ ops' = [ops EXCEPT ![p].state = "running", ![p].lease = w]
      BY <1>4 DEF Claim
    <2> DEFINE r == [ops[p] EXCEPT !.state = "running", !.lease = w]
    <2>2. /\ r \in OpType /\ r.type = ops[p].type /\ r.target = ops[p].target /\ r.spec = ops[p].spec
          /\ r.rb = ops[p].rb /\ r.state \in Active /\ ops[p].state \in Active
      BY <1>1, <2>1 DEF OpType, Active, Claimable
    <2>3. ops' = [ops EXCEPT ![p] = r] /\ svc' = svc
      BY <1>4, <2>1 DEF Claim
    <2> HIDE DEF r
    <2>4. QED
      BY <2>2, <2>3, TouchKeeps
  <1>5. CASE Retry(w)
    <2> DEFINE r == [ops[o] EXCEPT !.state = "pending", !.code = loc[w].code, !.lease = NoWorker]
    <2>1. CASE Leased(w)
      <3>1. /\ r \in OpType /\ r.type = ops[o].type /\ r.target = ops[o].target /\ r.spec = ops[o].spec
            /\ r.rb = ops[o].rb /\ r.state \in Active /\ ops[o].state \in Active
        BY <1>1, <1>2, <2>1 DEF OpType, LocType, Active
      <3>2. ops' = [ops EXCEPT ![o] = r] /\ svc' = svc
        BY <1>5, <2>1 DEF Retry
      <3> HIDE DEF r
      <3>3. QED
        BY <1>1, <3>1, <3>2, TouchKeeps
    <2>2. CASE ~Leased(w)
      BY <1>5, <2>2, IdleRows DEF Retry, row
    <2>3. QED
      BY <2>1, <2>2
  <1>6. CASE Bind(w) \/ Partial(w)
    <2>1. \/ svc' = svc
          \/ svc.here = "live" /\ svc' = [svc EXCEPT !.ref = TRUE, !.status = "deploying"]
      BY <1>2, <1>6 DEF Bind, Partial, Applies
    <2>2. ops' = ops
      BY <1>6 DEF Bind, Partial
    <2>3. QED
      BY <2>1, <2>2, IdleRows, BoundKeeps DEF row
  <1>7. CASE Finish(w)
    <2>1. CASE Applies(w)
      <3>1. /\ ops[o].state \in Active /\ ops' = Closed(o, "completed") /\ "completed" \in Ended
            /\ svc.here = "live"
        BY <1>2, <1>7, <2>1 DEF Finish, Applies, Ended
      <3>2. svc'.here \in {"live", "gone"} /\ (svc'.here = "live" => svc'.ref)
        BY <1>1, <1>7, <2>1, <3>1 DEF Finish, RowType
      <3>3. UnboundInv'
        BY <3>2 DEF UnboundInv
      <3>4. QED
        BY <1>1, <3>1, <3>2, <3>3, CloseKeeps
    <2>2. CASE ~Applies(w)
      BY <1>7, <2>2, IdleRows DEF Finish
    <2>3. QED
      BY <2>1, <2>2
  <1>8. CASE Terminal(w)
    <2>1. CASE Leased(w)
      <3>1. /\ ops[o].state \in Active /\ ops' = Closed(o, "failed") /\ "failed" \in Ended
            /\ svc.here = "live" /\ svc.cur = o
        BY <1>2, <1>8, <2>1 DEF Terminal, Ended
      <3>2. /\ svc'.here = "live" /\ svc'.ref = svc.ref /\ svc'.desired = svc.desired
            /\ svc'.status = IF svc.gen = ops[o].target THEN "failed" ELSE svc.status
        BY <1>1, <1>8, <2>1, <3>1 DEF Terminal, RowType
      <3>3. ASSUME ~svc.ref PROVE UnboundInv'
        <4>1. \A q \in OpIds : Known(ops', q) => ops'[q].type \in {"create", "delete"}
          BY <1>1, <3>1, <3>3, ClosedFits DEF QueueInv, UnboundInv, Known, Active
        <4>2. svc.status # "pending" \/ (1 = o /\ svc.gen = ops[1].target)
                \/ svc.status \in {"failed", "stopping"}
          <5>1. 1 \in OpIds
            BY BoundAssumption DEF OpIds
          <5>2. ops[1].state \in Active => o = 1
            BY <1>1, <3>1, <5>1, ActiveIsCurrent
          <5>3. QED
            BY <3>1, <3>3, <5>2 DEF QueueInv, UnboundInv
        <4>3. svc.status \in {"pending", "failed", "stopping"}
          BY <3>1, <3>3 DEF QueueInv, UnboundInv
        <4>4. svc'.status \in {"failed", "stopping"}
          BY <3>2, <4>2, <4>3
        <4>5. QED
          BY <3>1, <3>2, <3>3, <4>1, <4>4 DEF QueueInv, UnboundInv
      <3>4. UnboundInv'
        BY <3>2, <3>3 DEF UnboundInv
      <3>5. QED
        BY <1>1, <3>1, <3>2, <3>4, CloseKeeps
    <2>2. CASE ~Leased(w)
      BY <1>8, <2>2, IdleRows DEF Terminal
    <2>3. QED
      BY <2>1, <2>2
  <1>9. CASE FinishRollback(w)
    <2>1. CASE Leased(w) /\ svc.gen = loc[w].rb /\ svc.cur = o
      <3>1. /\ ops[o].state \in Active /\ ops' = Closed(o, "failed") /\ "failed" \in Ended
            /\ svc.here = "live"
        BY <1>2, <1>9, <2>1 DEF FinishRollback, FinishScaleRollback, Ended
      <3>2. Known(ops, o) /\ ops[o].type = "scale"
        BY <1>9 DEF FinishRollback, ProcessInv, WorkerInv
      <3>3. svc.ref
        BY <1>1, <3>1, <3>2, BoundByType
      <3>4. svc'.here = "live" /\ svc'.ref
        BY <1>1, <1>9, <2>1, <3>1, <3>3 DEF FinishRollback, FinishScaleRollback, RowType
      <3>5. UnboundInv'
        BY <3>4 DEF UnboundInv
      <3>6. QED
        BY <1>1, <3>1, <3>4, <3>5, CloseKeeps
    <2>2. CASE ~(Leased(w) /\ svc.gen = loc[w].rb /\ svc.cur = o)
      BY <1>9, <2>2, IdleRows DEF FinishRollback, FinishScaleRollback
    <2>3. QED
      BY <2>1, <2>2
  <1>10. CASE Abandon(w)
    <2>1. CASE UNCHANGED row
      BY <2>1, IdleRows
    <2>2. CASE ~UNCHANGED row
      <3>1. /\ ops[o].type = "scale" /\ BeginScaleRollback(w)
        BY <1>10, <2>2 DEF Abandon
      <3> DEFINE rb == IF ops[o].rb # 0 THEN ops[o].rb ELSE svc.gen + 1
      <3>2. /\ svc.cur = o /\ Leased(w)
            /\ svc' = [svc EXCEPT !.spec = svc.applied, !.gen = rb, !.status = "deploying"]
            /\ ops' = [ops EXCEPT ![o].rb = rb, ![o].code = "retry"]
        BY <2>2, <3>1 DEF BeginScaleRollback
      <3> HIDE DEF rb
      <3>3. svc.here = "live" /\ ops[o].state \in Active /\ Known(ops, o)
        BY <1>2, <3>2 DEF Known, Active
      <3>4. svc.ref
        BY <1>1, <3>1, <3>3, BoundByType
      <3>5. /\ svc'.here = "live" /\ svc'.ref /\ svc'.cur = svc.cur /\ svc'.desired = svc.desired
            /\ svc'.status = "deploying"
        BY <1>1, <3>2, <3>3, <3>4 DEF RowType
      <3>6. \A q \in OpIds : /\ ops'[q].type = ops[q].type /\ ops'[q].target = ops[q].target
                             /\ ops'[q].spec = ops[q].spec /\ ops'[q].state = ops[q].state
                             /\ q # o => ops'[q].rb = ops[q].rb
        BY <1>1, <3>2 DEF OpType
      <3>7. \A q \in OpIds : Known(ops', q) <=> Known(ops, q)
        BY <3>6 DEF Known
      <3>8. Follows(ops, ops')
        BY <3>6, <3>7 DEF Follows
      <3>9. CreateInv'
        <4>1. 1 \in OpIds /\ CreateInv
          BY BoundAssumption DEF OpIds, QueueInv
        <4>2. QED
          BY <3>1, <3>3, <3>5, <3>6, <3>7, <4>1 DEF CreateInv
      <3>10. ActiveInv'
        BY <3>3, <3>5, <3>6 DEF QueueInv, ActiveInv
      <3>11. UnboundInv'
        BY <3>5 DEF UnboundInv
      <3>12. QED
        BY <3>8, <3>9, <3>10, <3>11 DEF QueueInv
    <2>3. QED
      BY <2>1, <2>2
  <1>11. QED
    BY <1>3, <1>4, <1>5, <1>6, <1>7, <1>8, <1>9, <1>10 DEF Worker

LEMMA QueueNext ==
    ASSUME TypeInv, QueueInv, ProcessInv, [Next]_vars
    PROVE  QueueInv' /\ Follows(ops, ops')
  <1>1. CASE \E a \in Actions : RequestWithdrawn(a)
    <2>1. PICK a \in Actions : RequestWithdrawn(a)
      BY <1>1
    <2>2. 0 \in Counts /\ (MutateService(a, 0) \/ AnswerAlreadyDesired(a, 0))
      BY <2>1 DEF Counts, RequestWithdrawn
    <2>3. QED
      BY <2>2, QueueKeeps
  <1>2. ASSUME NEW o \in OpIds, LeaseExpires(o) \/ Age(o) PROVE QueueInv' /\ Follows(ops, ops')
    <2>1. ops[o] \in OpType
      BY DEF TypeInv
    <2>2. \E r \in {[ops[o] EXCEPT !.lease = NoWorker], [ops[o] EXCEPT !.spent = TRUE]} :
             ops' = [ops EXCEPT ![o] = r] /\ svc' = svc
      BY <1>2 DEF LeaseExpires, Age
    <2>3. \A r \in {[ops[o] EXCEPT !.lease = NoWorker], [ops[o] EXCEPT !.spent = TRUE]} :
             /\ r \in OpType /\ r.type = ops[o].type /\ r.target = ops[o].target
             /\ r.spec = ops[o].spec /\ r.rb = ops[o].rb /\ r.state = ops[o].state
      BY <2>1 DEF OpType
    <2>4. QED
      BY <2>2, <2>3, TouchKeeps
  <1>3. CASE UNCHANGED row
    BY <1>3, IdleRows
  <1>4. ASSUME NEW w \in Workers, Crash(w) PROVE UNCHANGED row
    BY <1>4 DEF Crash
  <1>5. GraceOver \/ Publish \/ UNCHANGED vars => UNCHANGED row
    BY DEF GraceOver, Publish, vars
  <1>6. QED
    BY <1>1, <1>2, <1>3, <1>4, <1>5, ClientQueue, WorkerQueue DEF Next

-----------------------------------------------------------------------------
(* Core: what a call records is never lost, and only a create that has not *)
(* been recorded makes a workload live.                                    *)

LEMMA CallRecords ==
    ASSUME NEW key, NEW fp, NEW allowed, NEW half, NEW after,
           NEW x \in CoreCall(key, fp, allowed, half, after), x.intents = intents'
    PROVE  /\ \A k, f : Recorded(k, f) => Recorded(k, f)'
           /\ x.core \in {core, half} \/ (x.core = after /\ Recorded(key, fp)')
           /\ Recorded(key, fp) => x.core = core
           /\ x.reply # "ref_error" /\ (x.reply = "ok" => Recorded(key, fp)')
  <1> DEFINE intent(done) == [key |-> key, fp |-> fp, done |-> done]
             others == {i \in intents : i.key # key}
  <1>1. CASE \E i \in intents : i.key = key /\ i.fp # fp
    <2>1. x = Outcome(core, intents, "conflict")
      BY <1>1 DEF CoreCall
    <2>2. x.core = core /\ x.intents = intents /\ x.reply = "conflict"
      BY <2>1 DEF Outcome
    <2>3. QED
      BY <2>2 DEF Recorded
  <1>2. CASE ~(\E i \in intents : i.key = key /\ i.fp # fp) /\ Recorded(key, fp)
    <2>1. \E r \in {"ok", "error"} : x = Outcome(core, intents, r)
      BY <1>2 DEF CoreCall
    <2>2. x.core = core /\ x.intents = intents /\ x.reply \in {"ok", "error"}
      BY <2>1 DEF Outcome
    <2>3. QED
      BY <1>2, <2>2 DEF Recorded
  <1>3. CASE ~(\E i \in intents : i.key = key /\ i.fp # fp) /\ ~Recorded(key, fp)
    <2>1. \/ \E r \in {"error", "fatal", "notfound"} : x = Outcome(core, intents, r)
          \/ x = Outcome(half, others \cup {intent(FALSE)}, "error")
          \/ \E r \in {"ok", "error"} : x = Outcome(after, others \cup {intent(TRUE)}, r)
      BY <1>3 DEF CoreCall
    <2>2. /\ \/ x.core = core /\ x.intents = intents /\ x.reply # "ok"
             \/ x.core = half /\ x.intents = others \cup {intent(FALSE)} /\ x.reply # "ok"
             \/ x.core = after /\ x.intents = others \cup {intent(TRUE)}
          /\ x.reply # "ref_error"
      BY <2>1 DEF Outcome
    <2>3. ASSUME NEW k, NEW f, Recorded(k, f)
          PROVE  [key |-> k, fp |-> f, done |-> TRUE] \in others
      <3>1. [key |-> k, fp |-> f, done |-> TRUE] \in intents
        BY <2>3 DEF Recorded
      <3>2. k # key
        <4>1. SUFFICES ASSUME k = key PROVE FALSE
          OBVIOUS
        <4>2. f = fp
          BY <1>3, <3>1, <4>1
        <4>3. QED
          BY <1>3, <2>3, <4>1, <4>2
      <3>3. QED
        BY <3>1, <3>2
    <2>4. others \subseteq x.intents \/ x.intents = intents
      BY <2>2
    <2>5. \A k, f : Recorded(k, f) => Recorded(k, f)'
      BY <2>3, <2>4 DEF Recorded
    <2>6. /\ x.core \in {core, half} \/ (x.core = after /\ Recorded(key, fp)')
          /\ x.reply = "ok" => Recorded(key, fp)'
      BY <2>2 DEF Recorded
    <2>7. QED
      BY <1>3, <2>2, <2>5, <2>6
  <1>4. QED
    BY <1>1, <1>2, <1>3

\* No call but a create: the workload does not come alive, nor up again once it is gone.
Gentle(x) ==
    /\ x.core.state = "live" => core.state = "live"
    /\ \A k, f : Recorded(k, f) => Recorded(k, f)'

LEMMA PatchIsGentle ==
    ASSUME core \in CoreType, NEW key, NEW r \in Counts, NEW x \in PatchReplicas(key, r), Apply(x)
    PROVE  Gentle(x) /\ x.core.up = core.up
  <1>1. x \in CoreCall(key, <<"scale", r>>, core.state = "live", [core EXCEPT !.replicas = r],
                       [core EXCEPT !.replicas = r])
    BY DEF PatchReplicas
  <1>2. /\ \A k, f : Recorded(k, f) => Recorded(k, f)'
        /\ x.core \in {core, [core EXCEPT !.replicas = r]}
    BY <1>1, CallRecords DEF Apply
  <1>3. QED
    BY <1>2 DEF Gentle, CoreType

LEMMA LifecycleIsGentle ==
    ASSUME core \in CoreType, NEW key, NEW a, NEW x \in Lifecycle(key, a), Apply(x)
    PROVE  Gentle(x) /\ (a = "start" /\ core.up => x.core.up)
  <1> DEFINE half == IF a = "restart" THEN [core EXCEPT !.up = FALSE] ELSE core
             after == [core EXCEPT !.up = (a # "stop")]
  <1>1. x \in CoreCall(key, <<a, 0>>, core.state = "live", half, after)
    BY DEF Lifecycle
  <1>2. /\ half.state = core.state /\ after.state = core.state
        /\ a = "start" /\ core.up => half.up /\ after.up
    BY DEF CoreType
  <1> HIDE DEF half, after
  <1>3. /\ \A k, f : Recorded(k, f) => Recorded(k, f)'
        /\ x.core \in {core, half, after}
    BY <1>1, CallRecords DEF Apply
  <1>4. QED
    BY <1>2, <1>3 DEF Gentle

LEMMA DeleteIsGentle ==
    ASSUME core \in CoreType, NEW key, NEW x \in DeleteWorkload(key), Apply(x)
    PROVE  Gentle(x) /\ (x.core.up => core.up)
  <1> DEFINE half == [core EXCEPT !.up = FALSE]
             after == [core EXCEPT !.state = "deleted", !.up = FALSE]
  <1>1. x \in CoreCall(key, <<"delete", 0>>, core.state # "none", half, after)
    BY DEF DeleteWorkload
  <1>2. half.state = core.state /\ after.state = "deleted" /\ ~half.up /\ ~after.up
    BY DEF CoreType
  <1> HIDE DEF half, after
  <1>3. /\ \A k, f : Recorded(k, f) => Recorded(k, f)'
        /\ x.core \in {core, half, after}
    BY <1>1, CallRecords DEF Apply
  <1>4. QED
    BY <1>2, <1>3 DEF Gentle

LEMMA PostRecords ==
    ASSUME core \in CoreType, NEW key, NEW r \in Counts, NEW x \in PostWorkload(key, r), Apply(x)
    PROVE  /\ \A k, f : Recorded(k, f) => Recorded(k, f)'
           /\ Recorded(key, <<"create", r>>) => x.core = core
           /\ x.reply \in {"ok", "ref_error"} => Recorded(key, <<"create", r>>)'
           /\ x.core.up => core.up \/ Recorded(key, <<"create", r>>)'
  <1> DEFINE made == [state |-> "live", up |-> TRUE, replicas |-> r]
             half == [made EXCEPT !.up = FALSE]
             calls == CoreCall(key, <<"create", r>>, core.state # "live", half, made)
  <1>1. PICK y \in calls : /\ x.core = y.core /\ x.intents = y.intents
                           /\ x.reply = y.reply \/ (y.reply = "ok" /\ x.reply = "ref_error")
    <2>1. x \in calls \/ \E y \in calls : y.reply = "ok" /\ x = [y EXCEPT !.reply = "ref_error"]
      BY DEF PostWorkload
    <2>2. \A y \in calls : \E c, i, r2 : y = Outcome(c, i, r2)
      BY DEF CoreCall
    <2>3. QED
      BY <2>1, <2>2 DEF Outcome
  <1>2. ~half.up
    OBVIOUS
  <1> HIDE DEF made, half
  <1>3. /\ \A k, f : Recorded(k, f) => Recorded(k, f)'
        /\ y.core \in {core, half} \/ (y.core = made /\ Recorded(key, <<"create", r>>)')
        /\ Recorded(key, <<"create", r>>) => y.core = core
        /\ y.reply # "ref_error" /\ (y.reply = "ok" => Recorded(key, <<"create", r>>)')
    <2>1. y \in CoreCall(key, <<"create", r>>, core.state # "live", half, made) /\ y.intents = intents'
      BY <1>1 DEF Apply
    <2> HIDE DEF calls
    <2>2. QED
      BY <2>1, CallRecords
  <1>4. QED
    BY <1>1, <1>2, <1>3

-----------------------------------------------------------------------------
(* Every step keeps what processes remember true.                          *)

\* What the next step must leave as it is for those who do not take it.
Keeps ==
    /\ Follows(ops, ops')
    /\ (svc.here # "none" /\ CreateRecorded) => CreateRecorded'
    /\ (CreateRecorded /\ core.state # "live") => core'.state # "live"

\* Records outlive the step, and so does what they are about.
LEMMA RecordKept ==
    ASSUME QueueInv, Follows(ops, ops'), \A k, f : Recorded(k, f) => Recorded(k, f)',
           svc.here # "none"
    PROVE  /\ CreateRecorded => CreateRecorded'
           /\ ops'[1].target = ops[1].target /\ ops'[1].spec = ops[1].spec
  <1>1. 1 \in OpIds /\ Known(ops, 1)
    BY BoundAssumption DEF OpIds, QueueInv, CreateInv
  <1>2. ops'[1].target = ops[1].target /\ ops'[1].spec = ops[1].spec
    BY <1>1 DEF Follows
  <1>3. QED
    BY <1>2 DEF CreateRecorded

LEMMA CoreStill ==
    ASSUME QueueInv, Follows(ops, ops'), UNCHANGED coreVars
    PROVE  Keeps
  BY RecordKept DEF Keeps, Recorded, coreVars

LEMMA WorkerKept ==
    ASSUME TypeInv, QueueInv, Keeps, NEW w \in Workers, WorkerInv(w), pc'[w] = pc[w], loc'[w] = loc[w]
    PROVE  WorkerInv(w)'
  <1> DEFINE l == loc[w]
  <1>1. l.op \in OpIds
    BY DEF TypeInv, LocType
  <1>2. CASE pc[w] = "idle"
    BY <1>2 DEF WorkerInv
  <1>3. CASE pc[w] # "idle"
    <2>1. Known(ops, l.op) /\ svc.here # "none"
      BY <1>1, <1>3, OnlyCreateIsFirst DEF WorkerInv
    <2>2. Known(ops', l.op) /\ ops'[l.op].type = ops[l.op].type
      BY <1>1, <2>1 DEF Keeps, Follows
    <2>3. CreateRecorded => CreateRecorded' /\ (core.state # "live" => core'.state # "live")
      BY <2>1 DEF Keeps
    <2>4. QED
      BY <1>3, <2>2, <2>3 DEF WorkerInv
  <1>4. QED
    BY <1>2, <1>3

LEMMA ClientKept ==
    ASSUME TypeInv, QueueInv, Keeps, NEW c \in Clients, ClientInv(c), cpc'[c] = cpc[c], req'[c] = req[c]
    PROVE  ClientInv(c)'
  <1>1. req[c].op \in OpIds
    BY DEF TypeInv, ReqType
  <1>2. CASE cpc[c] \notin {"dispatch", "bind", "abort"}
    BY <1>2 DEF ClientInv
  <1>3. CASE cpc[c] \in {"dispatch", "bind", "abort"}
    <2>1. Known(ops, req[c].op) /\ svc.here # "none"
      BY <1>1, <1>3, OnlyCreateIsFirst DEF ClientInv
    <2>2. Known(ops', req[c].op) /\ ops'[req[c].op].type = ops[req[c].op].type
      BY <1>1, <2>1 DEF Keeps, Follows
    <2>3. CreateRecorded => CreateRecorded'
      BY <2>1 DEF Keeps
    <2>4. QED
      BY <1>3, <2>2, <2>3 DEF ClientInv
  <1>4. QED
    BY <1>2, <1>3

\* One worker takes a step.
LEMMA WorkerMoves ==
    ASSUME TypeInv, QueueInv, ProcessInv, Keeps, CoreInv', NEW w \in Workers, UNCHANGED cl,
           \A v \in Workers \ {w} : pc'[v] = pc[v] /\ loc'[v] = loc[v],
           WorkerInv(w)'
    PROVE  ProcessInv'
  <1>1. \A c \in Clients : ClientInv(c)'
    BY ClientKept DEF ProcessInv, cl
  <1>2. \A v \in Workers : WorkerInv(v)'
    BY WorkerKept DEF ProcessInv
  <1>3. QED
    BY <1>1, <1>2 DEF ProcessInv

\* One request takes a step.
LEMMA ClientMoves ==
    ASSUME TypeInv, QueueInv, ProcessInv, Keeps, CoreInv', NEW c \in Clients, UNCHANGED wk,
           \A d \in Clients \ {c} : cpc'[d] = cpc[d] /\ req'[d] = req[d],
           ClientInv(c)'
    PROVE  ProcessInv'
  <1>1. \A w \in Workers : WorkerInv(w)'
    BY WorkerKept DEF ProcessInv, wk
  <1>2. \A d \in Clients : ClientInv(d)'
    BY ClientKept DEF ProcessInv
  <1>3. QED
    BY <1>1, <1>2 DEF ProcessInv

\* Nobody takes a step.
LEMMA NobodyMoves ==
    ASSUME TypeInv, QueueInv, ProcessInv, Keeps, CoreInv', UNCHANGED <<wk, cl>>
    PROVE  ProcessInv'
  <1>1. \A w \in Workers : WorkerInv(w)'
    BY WorkerKept DEF ProcessInv, wk
  <1>2. \A c \in Clients : ClientInv(c)'
    BY ClientKept DEF ProcessInv, cl
  <1>3. QED
    BY <1>1, <1>2 DEF ProcessInv

\* The row and Core: what a service that has a runtime, or had one, relies on.
LEMMA CoreKept ==
    ASSUME QueueInv, CoreInv, Keeps, QueueInv',
           svc.here # "none" => svc'.here # "none",
           (svc'.here = "live" /\ svc'.ref) => ((svc.here = "live" /\ svc.ref) \/ CreateRecorded'),
           svc'.here = "gone" => (svc.here = "gone" \/ (CreateRecorded' /\ core'.state # "live")),
           core'.up => core.up \/ (CreateRecorded' /\ svc.here # "none")
    PROVE  CoreInv'
  BY DEF CoreInv, Keeps

\* The create of the service, whoever sends it: what it does to Core.
LEMMA PostKeeps ==
    ASSUME TypeInv, QueueInv, CoreInv, Follows(ops, ops'), NEW o \in OpIds, Known(ops, o),
           ops[o].type = "create", NEW x \in PostWorkload(MutationKey(ops[o].target), ops[o].spec), Apply(x)
    PROVE  /\ Keeps /\ svc.here # "none"
           /\ x.reply \in {"ok", "ref_error"} => CreateRecorded'
           /\ core'.up => core.up \/ CreateRecorded'
  <1>1. o = 1 /\ svc.here # "none"
    BY OnlyCreateIsFirst
  <1>2. core \in CoreType /\ ops[1].spec \in Counts
    BY <1>1 DEF TypeInv, OpType
  <1> DEFINE entry == [key |-> MutationKey(ops[1].target), fp |-> <<"create", ops[1].spec>>, done |-> TRUE]
  <1>3. /\ \A k, f : Recorded(k, f) => Recorded(k, f)'
        /\ CreateRecorded => core' = core
        /\ x.reply \in {"ok", "ref_error"} => entry \in intents'
        /\ core'.up => core.up \/ entry \in intents'
    <2>1. ASSUME NEW key, NEW r \in Counts, x \in PostWorkload(key, r)
          PROVE  /\ \A k, f : Recorded(k, f) => Recorded(k, f)'
                 /\ Recorded(key, <<"create", r>>) => x.core = core
                 /\ x.reply \in {"ok", "ref_error"} => [key |-> key, fp |-> <<"create", r>>, done |-> TRUE] \in intents'
                 /\ x.core.up => core.up \/ [key |-> key, fp |-> <<"create", r>>, done |-> TRUE] \in intents'
      BY <1>2, <2>1, PostRecords DEF Recorded
    <2>2. x \in PostWorkload(MutationKey(ops[1].target), ops[1].spec)
      BY <1>1
    <2>3. /\ \A k, f : Recorded(k, f) => Recorded(k, f)'
          /\ CreateRecorded => x.core = core
          /\ x.reply \in {"ok", "ref_error"} => entry \in intents'
          /\ x.core.up => core.up \/ entry \in intents'
      BY <1>2, <2>1, <2>2, Zenon DEF CreateRecorded
    <2>4. QED
      BY <2>3 DEF Apply
  <1>4. /\ CreateRecorded => CreateRecorded'
        /\ ops'[1].target = ops[1].target /\ ops'[1].spec = ops[1].spec
    BY <1>1, <1>3, RecordKept
  <1>5. entry \in intents' => CreateRecorded'
    BY <1>4 DEF CreateRecorded, Recorded, MutationKey
  <1>6. QED
    BY <1>1, <1>3, <1>4, <1>5 DEF Keeps

LEMMA GentleKeeps ==
    ASSUME QueueInv, Follows(ops, ops'), NEW x, Gentle(x), Apply(x)
    PROVE  Keeps
  BY RecordKept DEF Gentle, Apply, Keeps

LEMMA ClientProcess ==
    ASSUME TypeInv, QueueInv, ProcessInv, TypeInv', QueueInv', Follows(ops, ops'),
           NEW c \in Clients, Client(c)
    PROVE  ProcessInv'
  <1> DEFINE o == req[c].op
  <1>1. /\ o \in OpIds /\ req[c].r \in Counts /\ svc \in RowType /\ core \in CoreType
        /\ ops \in [OpIds -> OpType] /\ ops[o] \in OpType /\ ops[o].spec \in Counts
        /\ req[c] \in ReqType /\ req[c].ref \in BOOLEAN /\ CoreInv /\ ClientInv(c)
        /\ cpc \in [Clients -> ClientPlaces] /\ req \in [Clients -> ReqType]
    BY DEF TypeInv, ReqType, OpType, ProcessInv, ClientPlaces
  <1>2. ASSUME NEW s \in {"idle", "abort"}, ClientGoes(c, s)
        PROVE  /\ \A d \in Clients \ {c} : cpc'[d] = cpc[d] /\ req'[d] = req[d]
               /\ cpc'[c] = s /\ (s = "abort" => req'[c] = req[c])
    BY <1>1, <1>2 DEF ClientGoes
  <1>3. CASE \E r \in Replicas : CreateWithOperation(c, r)
    <2>1. PICK r \in Replicas : CreateWithOperation(c, r)
      BY <1>3
    <2>2. svc = NoRow /\ svc'.here = "live" /\ ~svc'.ref
      BY <2>1 DEF CreateWithOperation, QueueInv, CreateInv, NoRow
    <2>3. Keeps /\ UNCHANGED <<core, wk>>
      BY <2>1, CoreStill DEF CreateWithOperation, coreVars
    <2>4. CoreInv'
      BY <1>1, <2>2, <2>3, CoreKept DEF NoRow
    <2>5. /\ cpc'[c] = "dispatch" /\ req'[c].op = 1 /\ req'[c].type = "create" /\ req'[c].ref = FALSE
          /\ \A d \in Clients \ {c} : cpc'[d] = cpc[d] /\ req'[d] = req[d]
      BY <1>1, <2>1 DEF CreateWithOperation, NoReq
    <2>6. Known(ops', 1) /\ ops'[1].type = "create"
      BY <2>2 DEF QueueInv, CreateInv
    <2>7. ClientInv(c)'
      BY <2>5, <2>6 DEF ClientInv
    <2>8. QED
      BY <2>3, <2>4, <2>5, <2>7, ClientMoves
  <1>4. CASE (\E r \in Replicas : ReadBefore(c, "scale", r)) \/ ReadBefore(c, "start", 0)
    <2>1. UNCHANGED <<row, coreVars, wk>> /\ cpc' = [cpc EXCEPT ![c] = "mutate"]
          /\ \A d \in Clients \ {c} : cpc'[d] = cpc[d] /\ req'[d] = req[d]
      BY <1>1, <1>4 DEF ReadBefore
    <2>2. Keeps /\ CoreInv'
      BY <1>1, <2>1, CoreStill, CoreKept DEF row, coreVars
    <2>3. ClientInv(c)'
      BY <1>1, <2>1 DEF ClientInv
    <2>4. QED
      BY <2>1, <2>2, <2>3, ClientMoves
  <1>5. CASE RequestMutation(c)
    <2> DEFINE a == req[c].type
               r == req[c].r
    <2>1. a \in Actions /\ a # "delete" /\ UNCHANGED <<coreVars, wk>>
      BY <1>1, <1>5 DEF RequestMutation, TypeInv, Asks, ReqType
    <2>2. /\ svc.here = "live" /\ svc'.here = "live" /\ svc'.ref = svc.ref
          /\ NewOp \in OpIds /\ Known(ops', NewOp) /\ ops'[NewOp].type = a
          /\ MutateService(a, r) => svc.ref
      BY <1>1, <1>5, <2>1, QueueKeeps DEF RequestMutation
    <2>3. Keeps /\ CoreInv'
      BY <1>1, <2>1, <2>2, CoreStill, CoreKept DEF coreVars
    <2>4. CASE /\ MutateService(a, r)
               /\ cpc' = [cpc EXCEPT ![c] = "dispatch"]
               /\ req' = [req EXCEPT ![c].op = NewOp, ![c].ref = svc.ref]
      <3>1. /\ cpc'[c] = "dispatch" /\ req'[c].op = NewOp /\ req'[c].type = a /\ req'[c].ref = TRUE
            /\ \A d \in Clients \ {c} : cpc'[d] = cpc[d] /\ req'[d] = req[d]
        BY <1>1, <2>2, <2>4 DEF ReqType, RowType
      <3>2. CreateRecorded'
        BY <1>1, <2>2, <2>3, <2>4 DEF CoreInv, Keeps
      <3>3. ClientInv(c)'
        BY <2>2, <3>1, <3>2 DEF ClientInv
      <3>4. QED
        BY <2>1, <2>3, <3>1, <3>3, ClientMoves
    <2>5. CASE ClientGoes(c, "idle")
      <3>1. ClientInv(c)'
        BY <1>2, <2>5 DEF ClientInv
      <3>2. QED
        BY <1>2, <2>1, <2>3, <2>5, <3>1, ClientMoves
    <2>6. QED
      BY <1>5, <2>4, <2>5 DEF RequestMutation
  <1>6. CASE Dispatch(c)
    <2> DEFINE key == MutationKey(ops[o].target)
               outcomes == IF ops[o].type = "start" /\ req[c].ref THEN Lifecycle(key, "start")
                           ELSE Ensure(key, req[c].ref, ops[o].spec)
    <2>1. PICK x \in outcomes :
              /\ Apply(x)
              /\ IF x.reply \in {"ok", "ref_error"} /\ ~req[c].before.ref
                   THEN /\ cpc' = [cpc EXCEPT ![c] = "bind"]
                        /\ req' = [req EXCEPT ![c].note = x.reply]
                   ELSE ClientGoes(c, IF x.reply = "ok" THEN "idle" ELSE "abort")
      BY <1>6 DEF Dispatch
    <2>2. /\ svc' = svc /\ ops' = ops /\ UNCHANGED wk
          /\ Known(ops, o) /\ ops[o].type = req[c].type /\ svc.here # "none"
      BY <1>1, <1>6, OnlyCreateIsFirst DEF Dispatch, ClientInv, row
    <2>3. /\ Keeps /\ (core'.up => core.up \/ CreateRecorded')
          /\ x.reply \in {"ok", "ref_error"} => CreateRecorded'
      <3>1. CASE req[c].ref
        <4>1. CreateRecorded
          BY <1>1, <1>6, <3>1 DEF Dispatch, ClientInv
        <4>2. x \in Lifecycle(key, "start") \/ x \in PatchReplicas(key, ops[o].spec)
          BY <2>1, <3>1 DEF Ensure
        <4>3. Gentle(x)
          BY <1>1, <2>1, <4>2, PatchIsGentle, LifecycleIsGentle
        <4>4. Keeps
          BY <2>1, <4>3, GentleKeeps
        <4>5. QED
          BY <2>2, <4>1, <4>4 DEF Keeps
      <3>2. CASE ~req[c].ref
        <4>1. ops[o].type = "create" /\ x \in PostWorkload(key, ops[o].spec)
          BY <1>1, <1>6, <2>1, <2>2, <3>2 DEF Dispatch, ClientInv, Ensure
        <4>2. QED
          BY <1>1, <2>1, <2>2, <4>1, PostKeeps
      <3>3. QED
        BY <3>1, <3>2
    <2>4. CoreInv'
      BY <1>1, <2>2, <2>3, CoreKept
    <2>5. CASE x.reply \in {"ok", "ref_error"} /\ ~req[c].before.ref
      <3>1. /\ cpc'[c] = "bind" /\ req'[c].op = o /\ req'[c].type = req[c].type
            /\ \A d \in Clients \ {c} : cpc'[d] = cpc[d] /\ req'[d] = req[d]
        BY <1>1, <2>1, <2>5 DEF ReqType
      <3>2. ClientInv(c)'
        BY <2>2, <2>3, <2>5, <3>1 DEF ClientInv
      <3>3. QED
        BY <2>2, <2>3, <2>4, <3>1, <3>2, ClientMoves
    <2>6. CASE ~(x.reply \in {"ok", "ref_error"} /\ ~req[c].before.ref)
      <3>1. \E s \in {"idle", "abort"} : ClientGoes(c, s)
        BY <2>1, <2>6
      <3>2. /\ cpc'[c] \in {"idle", "abort"} /\ (cpc'[c] = "abort" => req'[c] = req[c])
            /\ \A d \in Clients \ {c} : cpc'[d] = cpc[d] /\ req'[d] = req[d]
        BY <1>2, <3>1
      <3>3. ClientInv(c)'
        BY <2>2, <3>2 DEF ClientInv
      <3>4. QED
        BY <2>2, <2>3, <2>4, <3>2, <3>3, ClientMoves
    <2>7. QED
      BY <2>5, <2>6
  <1>7. CASE BindRuntime(c)
    <2>1. /\ \/ svc' = svc
             \/ svc.here = "live" /\ svc' = [svc EXCEPT !.ref = TRUE, !.status = "deploying"]
          /\ ops' = ops /\ UNCHANGED <<coreVars, wk>> /\ CreateRecorded
          /\ Known(ops, o) /\ ops[o].type = req[c].type
          /\ \E s \in {"idle", "abort"} : ClientGoes(c, s)
      BY <1>1, <1>7 DEF BindRuntime, ClientInv
    <2>2. svc'.here = svc.here /\ svc.here # "none"
      BY <1>1, <2>1, OnlyCreateIsFirst DEF RowType
    <2>3. Keeps /\ CreateRecorded'
      BY <2>1, <2>2, CoreStill DEF Keeps
    <2>4. CoreInv'
      BY <1>1, <2>1, <2>2, <2>3, CoreKept DEF coreVars
    <2>5. /\ cpc'[c] \in {"idle", "abort"} /\ (cpc'[c] = "abort" => req'[c] = req[c])
          /\ \A d \in Clients \ {c} : cpc'[d] = cpc[d] /\ req'[d] = req[d]
      BY <1>2, <2>1
    <2>6. ClientInv(c)'
      BY <2>1, <2>5 DEF ClientInv
    <2>7. QED
      BY <2>1, <2>3, <2>4, <2>5, <2>6, ClientMoves
  <1>8. CASE AbortCreate(c) \/ AbortPendingMutation(c) \/ DropRequest(c)
    <2>1. /\ ClientGoes(c, "idle") /\ UNCHANGED <<coreVars, wk>>
          /\ svc.here # "none" => svc'.here # "none"
          /\ svc'.here = svc.here \/ svc'.here = "erased" 
          /\ svc'.ref = svc.ref
      BY <1>1, <1>8 DEF AbortCreate, AbortPendingMutation, DropRequest, RowType, row
    <2>2. Keeps
      BY <2>1, CoreStill
    <2>3. CoreInv'
      BY <1>1, <2>1, <2>2, CoreKept DEF coreVars
    <2>4. ClientInv(c)'
      BY <1>2, <2>1 DEF ClientInv
    <2>5. QED
      BY <1>2, <2>1, <2>2, <2>3, <2>4, ClientMoves
  <1>9. QED
    BY <1>3, <1>4, <1>5, <1>6, <1>7, <1>8 DEF Client

\* Worker w goes on to step s with what it has read.
Onward(w, s) ==
    /\ pc'[w] = s
    /\ s # "idle" => /\ loc'[w].op = loc[w].op /\ loc'[w].rb = loc[w].rb
                     /\ loc'[w].snap = loc[w].snap

Alone(w) == \A v \in Workers \ {w} : pc'[v] = pc[v] /\ loc'[v] = loc[v]

LEMMA MovesOn ==
    ASSUME AtWork, NEW w \in Workers
    PROVE  /\ \A s : Goes(w, s) => Onward(w, s) /\ Alone(w)
           /\ \A s, k : With(w, s, k) => Onward(w, s) /\ Alone(w)
           /\ Returns(w) => Onward(w, "idle") /\ Alone(w)
           /\ Concludes(w) => (Onward(w, "abandon") \/ Onward(w, "retry")) /\ Alone(w)
  <1>1. loc[w] \in LocType
    BY DEF AtWork
  <1>2. ASSUME NEW s, NEW k, With(w, s, k) PROVE Onward(w, s) /\ Alone(w)
    BY <1>1, <1>2 DEF With, Onward, Alone, AtWork, LocType
  <1>3. ASSUME NEW s, Goes(w, s) PROVE Onward(w, s) /\ Alone(w)
    BY <1>3 DEF Goes, Onward, Alone, AtWork
  <1>4. ASSUME Returns(w) PROVE Onward(w, "idle") /\ Alone(w)
    BY <1>4 DEF Returns, Onward, Alone, AtWork
  <1>5. QED
    BY <1>2, <1>3, <1>4 DEF Concludes

\* What a worker at the given step must know, in the words of the state before.
LEMMA StepKnows ==
    ASSUME TypeInv, QueueInv, Keeps, NEW w \in Workers, NEW o \in OpIds, Known(ops, o), loc'[w].op = o,
           loc'[w].rb # 0 => ops[o].type = "scale",
           loc'[w].snap.ref => CreateRecorded',
           pc'[w] \in {"fence", "refetch", "act", "abandon"} =>
              loc'[w].snap.ref \/ ops[o].type \in {"create", "delete"},
           pc'[w] \in {"rollback", "rbFinish"} => loc'[w].snap.ref /\ ops[o].type = "scale",
           pc'[w] = "bind" => CreateRecorded',
           pc'[w] \in {"observe", "partial", "finish"} => loc'[w].snap.ref,
           pc'[w] = "partial" => ops[o].type # "delete",
           (pc'[w] = "finish" /\ ops[o].type = "delete") => core'.state # "live"
    PROVE  WorkerInv(w)'
  <1>1. Known(ops', o) /\ ops'[o].type = ops[o].type
    BY DEF Keeps, Follows
  <1>2. QED
    BY <1>1 DEF WorkerInv

\* A worker that moves on with what it has read knows what it knew.
LEMMA OnwardKnows ==
    ASSUME TypeInv, QueueInv, Keeps, NEW w \in Workers, WorkerInv(w), pc[w] # "idle",
           NEW s \in Steps, Onward(w, s),
           s \in {"fence", "refetch", "act", "abandon"} =>
              loc[w].snap.ref \/ ops[loc[w].op].type \in {"create", "delete"},
           s \in {"rollback", "rbFinish"} => loc[w].snap.ref /\ ops[loc[w].op].type = "scale",
           s = "bind" => CreateRecorded',
           s \in {"observe", "partial", "finish"} => loc[w].snap.ref,
           s = "partial" => ops[loc[w].op].type # "delete",
           (s = "finish" /\ ops[loc[w].op].type = "delete") => core.state # "live"
    PROVE  WorkerInv(w)'
  <1>1. CASE s = "idle"
    BY <1>1 DEF Onward, WorkerInv
  <1>2. CASE s # "idle"
    <2>1. /\ loc[w].op \in OpIds /\ Known(ops, loc[w].op) /\ (loc[w].snap.ref => CreateRecorded)
          /\ loc[w].rb # 0 => ops[loc[w].op].type = "scale"
      BY DEF TypeInv, LocType, WorkerInv
    <2>2. svc.here # "none"
      BY <2>1, OnlyCreateIsFirst
    <2>3. (loc[w].snap.ref => CreateRecorded') /\ (s = "finish" /\ ops[loc[w].op].type = "delete" => core'.state # "live")
      BY <2>1, <2>2 DEF Keeps
    <2>4. /\ pc'[w] = s /\ loc'[w].op = loc[w].op /\ loc'[w].rb = loc[w].rb /\ loc'[w].snap = loc[w].snap
      BY <1>2 DEF Onward
    <2>5. QED
      BY <2>1, <2>3, <2>4, StepKnows
  <1>3. QED
    BY <1>1, <1>2

\* A worker's step that does not call Core.
LEMMA QuietProcess ==
    ASSUME TypeInv, QueueInv, ProcessInv, QueueInv', Follows(ops, ops'), NEW w \in Workers,
           UNCHANGED <<coreVars, cl>>, Alone(w), WorkerInv(w)',
           svc'.here = svc.here,
           (svc'.here = "live" /\ svc'.ref) => ((svc.here = "live" /\ svc.ref) \/ (svc.here # "none" /\ CreateRecorded))
    PROVE  ProcessInv'
  <1>1. Keeps /\ CoreInv
    BY CoreStill DEF ProcessInv
  <1>2. svc.here # "none" => svc'.here # "none"
    OBVIOUS
  <1>3. svc'.here = "gone" => svc.here = "gone" \/ (CreateRecorded' /\ core'.state # "live")
    BY <1>1 DEF CoreInv, Keeps, coreVars
  <1>4. (svc'.here = "live" /\ svc'.ref) => ((svc.here = "live" /\ svc.ref) \/ CreateRecorded')
    BY <1>1 DEF Keeps
  <1>5. CoreInv'
    BY <1>1, <1>2, <1>3, <1>4, CoreKept DEF coreVars
  <1>6. QED
    BY <1>1, <1>5, WorkerMoves DEF Alone

\* Steps that only read.
LEMMA ReadProcess ==
    ASSUME TypeInv, QueueInv, ProcessInv, TypeInv', QueueInv', Follows(ops, ops'), NEW w \in Workers,
           Claim(w) \/ Load(w) \/ FenceCheck(w) \/ Refetch(w) \/ Observe(w) \/ Retry(w)
    PROVE  ProcessInv'
  <1> DEFINE o == loc[w].op
  <1>1. /\ o \in OpIds /\ svc \in RowType /\ core \in CoreType /\ ops \in [OpIds -> OpType]
        /\ loc \in [Workers -> LocType] /\ pc \in [Workers -> Steps] /\ loc[w] \in LocType
        /\ CoreInv /\ WorkerInv(w) /\ AtWork
    BY DEF TypeInv, LocType, ProcessInv, AtWork
  <1>2. UNCHANGED <<svc, coreVars, cl>> /\ Keeps
    BY CoreStill DEF Claim, Load, FenceCheck, Refetch, Observe, Retry, row
  <1>3. svc.here = "live" /\ svc.ref => CreateRecorded'
    BY <1>1, <1>2 DEF CoreInv, Keeps
  <1>4. ASSUME Alone(w), WorkerInv(w)' PROVE ProcessInv'
    BY <1>2, <1>4, QuietProcess
  <1>5. CASE Claim(w)
    <2>1. PICK p \in OpIds : /\ Claimable(p)
                             /\ loc' = [loc EXCEPT ![w] = [NoLoc EXCEPT !.op = p, !.rb = ops[p].rb, !.code = ops[p].code]]
      BY <1>5 DEF Claim
    <2>2. pc'[w] = "load" /\ loc'[w].op = p /\ loc'[w].rb = ops[p].rb /\ loc'[w].snap.ref = FALSE /\ Alone(w)
      BY <1>1, <1>5, <2>1 DEF Claim, NoLoc, NoRow, Alone
    <2>3. Known(ops, p) /\ (ops[p].rb # 0 => ops[p].type = "scale")
      BY <2>1 DEF Claimable, Known, Active, QueueInv, CreateInv
    <2>4. WorkerInv(w)'
      BY <1>2, <2>2, <2>3, StepKnows
    <2>5. QED
      BY <1>4, <2>2, <2>4
  <1>6. CASE Load(w)
    <2>1. WorkerInv(w) /\ pc[w] = "load" /\ Known(ops, o) /\ (loc[w].rb # 0 => ops[o].type = "scale")
      BY <1>1, <1>6 DEF Load, WorkerInv
    <2>2. CASE With(w, "retry", "retry") \/ Returns(w)
      <3>1. \E s \in {"retry", "idle"} : Onward(w, s) /\ Alone(w)
        BY <1>1, <2>2, MovesOn
      <3>2. WorkerInv(w)'
        BY <1>2, <2>1, <3>1, OnwardKnows DEF Steps
      <3>3. QED
        BY <1>4, <3>1, <3>2
    <2>3. CASE ~(With(w, "retry", "retry") \/ Returns(w))
      <3>1. PICK next \in {"terminal", "idle", "rollback", "fence", "abandon", "retry", "act"} :
               /\ next = "rollback" => loc[w].rb # 0
               /\ svc.here = "live" /\ pc' = [pc EXCEPT ![w] = next]
               /\ \E k : loc' = [loc EXCEPT ![w].snap = svc, ![w].code = k]
        <4> DEFINE next == IF ~GenerationMatches(o) THEN "terminal"
                ELSE IF svc.desired = "deleted" /\ ops[o].type # "delete" THEN "idle"
                ELSE IF loc[w].rb # 0 THEN "rollback"
                ELSE IF NeedsWithdrawal(ops[o].type) THEN "fence"
                ELSE Decided(o, loc[w].code, svc.ref)
        <4>1. next \in {"terminal", "idle", "rollback", "fence", "abandon", "retry", "act"}
              /\ (next = "rollback" => loc[w].rb # 0)
          BY DEF Decided
        <4>2. /\ svc.here = "live" /\ pc' = [pc EXCEPT ![w] = next]
              /\ loc' = [loc EXCEPT ![w].snap = svc, ![w].code = IF next = "retry" THEN "retry" ELSE @]
          BY <1>6, <2>3 DEF Load
        <4>3. \E k : loc' = [loc EXCEPT ![w].snap = svc, ![w].code = k]
          <5> DEFINE k == IF next = "retry" THEN "retry" ELSE loc[w].code
          <5>1. loc' = [loc EXCEPT ![w].snap = svc, ![w].code = k]
            BY <1>1, <4>2 DEF LocType
          <5> HIDE DEF next, k
          <5>2. QED
            BY <5>1
        <4> HIDE DEF next
        <4>4. QED
          BY <4>1, <4>2, <4>3
      <3>2. /\ pc'[w] = next /\ loc'[w].op = o /\ loc'[w].rb = loc[w].rb /\ loc'[w].snap = svc
            /\ Alone(w)
        BY <1>1, <3>1 DEF Alone, LocType
      <3>3. svc.ref \/ ops[o].type \in {"create", "delete"}
        BY <2>1, <3>1, <1>1, BoundByType
      <3>4. next = "rollback" => svc.ref /\ ops[o].type = "scale"
        BY <2>1, <3>1, <3>3
      <3>5. WorkerInv(w)'
        BY <1>1, <1>2, <1>3, <2>1, <3>1, <3>2, <3>3, <3>4, StepKnows
      <3>6. QED
        BY <1>4, <3>2, <3>5
    <2>4. QED
      BY <2>2, <2>3
  <1>7. CASE FenceCheck(w) \/ Observe(w) \/ Retry(w)
    <2>1. WorkerInv(w) /\ pc[w] \in {"fence", "observe", "retry"}
          /\ (pc[w] = "fence" => loc[w].snap.ref \/ ops[o].type \in {"create", "delete"})
          /\ (pc[w] = "observe" => loc[w].snap.ref)
      BY <1>1, <1>7 DEF FenceCheck, Observe, Retry, WorkerInv
    <2>2. CASE FenceCheck(w)
      <3>1. \E s \in {"refetch", "retry"} : Onward(w, s) /\ Alone(w)
        BY <1>1, <2>2, MovesOn DEF FenceCheck
      <3>2. WorkerInv(w)'
        BY <1>2, <2>1, <2>2, <3>1, OnwardKnows DEF Steps, FenceCheck
      <3>3. QED
        BY <1>4, <3>1, <3>2
    <2>3. CASE Retry(w)
      <3>1. Onward(w, "idle") /\ Alone(w)
        BY <1>1, <2>3, MovesOn DEF Retry
      <3>2. WorkerInv(w)'
        BY <1>2, <2>1, <3>1, OnwardKnows DEF Steps
      <3>3. QED
        BY <1>4, <3>1, <3>2
    <2>4. CASE Observe(w)
      <3>1. PICK s \in {"finish", "partial", "abandon", "retry"} :
               /\ Onward(w, s) /\ Alone(w)
               /\ s = "partial" => ops[o].type # "delete"
               /\ (s = "finish" /\ ops[o].type = "delete") => core.state # "live"
        <4>1. CASE ops[o].type = "delete" /\ Goes(w, "finish")
          <5>1. core.state # "live" \/ Concludes(w)
            BY <2>4, <4>1 DEF Observe
          <5>2. QED
            BY <1>1, <4>1, <5>1, MovesOn
        <4>2. CASE ops[o].type # "delete" /\ Goes(w, "finish")
          BY <1>1, <4>2, MovesOn
        <4>3. CASE /\ ops[o].type # "delete" /\ pc' = [pc EXCEPT ![w] = "partial"]
                   /\ \E n : loc' = [loc EXCEPT ![w].note = n]
          <5>1. Onward(w, "partial") /\ Alone(w)
            BY <1>1, <4>3 DEF Onward, Alone, LocType
          <5>2. QED
            BY <4>3, <5>1
        <4>4. CASE Concludes(w)
          BY <1>1, <4>4, MovesOn
        <4>5. QED
          BY <2>4, <4>1, <4>2, <4>3, <4>4 DEF Observe
      <3>2. WorkerInv(w)'
        BY <1>2, <2>1, <2>4, <3>1, OnwardKnows DEF Steps, Observe
      <3>3. QED
        BY <1>4, <3>1, <3>2
    <2>5. QED
      BY <1>7, <2>2, <2>3, <2>4
  <1>8. CASE Refetch(w)
    <2>1. /\ WorkerInv(w) /\ pc[w] = "refetch" /\ Known(ops, o) /\ (loc[w].rb # 0 => ops[o].type = "scale")
      BY <1>1, <1>8 DEF Refetch, WorkerInv
    <2>2. CASE Goes(w, "terminal") \/ With(w, "retry", "none")
      <3>1. \E s \in {"retry", "terminal"} : Onward(w, s) /\ Alone(w)
        BY <1>1, <2>2, MovesOn
      <3>2. WorkerInv(w)'
        BY <1>2, <2>1, <3>1, OnwardKnows DEF Steps
      <3>3. QED
        BY <1>4, <3>1, <3>2
    <2>3. CASE ~(Goes(w, "terminal") \/ With(w, "retry", "none"))
      <3>1. PICK next \in {"abandon", "retry", "act"} :
               svc.here = "live" /\ pc' = [pc EXCEPT ![w] = next] /\ loc' = [loc EXCEPT ![w].snap = svc]
        BY <1>8, <2>3 DEF Refetch, Decided, Withdrawn
      <3>2. /\ pc'[w] = next /\ loc'[w].op = o /\ loc'[w].rb = loc[w].rb /\ loc'[w].snap = svc
            /\ Alone(w)
        BY <1>1, <3>1 DEF Alone, LocType
      <3>3. svc.ref \/ ops[o].type \in {"create", "delete"}
        BY <2>1, <3>1, <1>1, BoundByType
      <3>4. WorkerInv(w)'
        BY <1>1, <1>2, <1>3, <2>1, <3>1, <3>2, <3>3, StepKnows
      <3>5. QED
        BY <1>4, <3>2, <3>4
    <2>4. QED
      BY <2>2, <2>3
  <1>9. QED
    BY <1>5, <1>6, <1>7, <1>8

LEMMA ActProcess ==
    ASSUME TypeInv, QueueInv, ProcessInv, TypeInv', QueueInv', Follows(ops, ops'), NEW w \in Workers, Act(w)
    PROVE  ProcessInv'
  <1> DEFINE o == loc[w].op
             key == MutationKey(ops[o].target)
             ref == loc[w].snap.ref
  <1>1. /\ o \in OpIds /\ svc \in RowType /\ core \in CoreType /\ ops \in [OpIds -> OpType]
        /\ loc \in [Workers -> LocType] /\ pc \in [Workers -> Steps] /\ loc[w] \in LocType
        /\ ops[o] \in OpType /\ ops[o].spec \in Counts /\ ref \in BOOLEAN
        /\ CoreInv /\ WorkerInv(w) /\ AtWork
    BY DEF TypeInv, LocType, ProcessInv, AtWork, OpType, RowType
  <1>2. /\ UNCHANGED <<svc, ops, cl>> /\ pc[w] = "act" /\ Known(ops, o)
        /\ (ref => CreateRecorded) /\ (ref \/ ops[o].type \in {"create", "delete"})
    BY <1>1 DEF Act, row, WorkerInv
  <1>3. svc.here # "none" /\ ops[o].type # "none"
    BY <1>1, <1>2, OnlyCreateIsFirst
  <1>4. PICK x \in Intended(ops[o].type, key, ref, ops[o].spec) :
           /\ Apply(x)
           /\ \/ /\ x.reply \in {"ok", "ref_error"} /\ ~ref
                 /\ pc' = [pc EXCEPT ![w] = "bind"] /\ loc' = [loc EXCEPT ![w].note = x.reply]
              \/ x.reply = "ok" /\ ref /\ Goes(w, "observe")
              \/ With(w, "abandon", "fatal")
              \/ Concludes(w)
    <2>1. ASSUME NEW x, CASE x.reply \in {"ok", "ref_error"} /\ ~ref ->
                         /\ pc' = [pc EXCEPT ![w] = "bind"]
                         /\ loc' = [loc EXCEPT ![w].note = x.reply]
                   [] x.reply = "ok" /\ ref -> Goes(w, "observe")
                   [] x.reply = "fatal" /\ ops[o].type # "delete" -> With(w, "abandon", "fatal")
                   [] OTHER -> Concludes(w)
          PROVE  \/ /\ x.reply \in {"ok", "ref_error"} /\ ~ref
                    /\ pc' = [pc EXCEPT ![w] = "bind"] /\ loc' = [loc EXCEPT ![w].note = x.reply]
                 \/ x.reply = "ok" /\ ref /\ Goes(w, "observe")
                 \/ With(w, "abandon", "fatal")
                 \/ Concludes(w)
      BY <2>1, Zenon
    <2>2. QED
      BY <2>1 DEF Act
  <1>5. /\ Keeps /\ (core'.up => core.up \/ CreateRecorded')
        /\ x.reply \in {"ok", "ref_error"} /\ ~ref => CreateRecorded'
    <2>1. CASE ref /\ ops[o].type # "create"
      <3>1. \/ x \in DeleteWorkload(key) \/ x \in PatchReplicas(key, ops[o].spec)
            \/ \E a : x \in Lifecycle(key, a)
        <4>1. ops[o].type \in {"delete", "stop", "start", "restart", "scale"}
          BY <1>1, <1>3, <2>1, ActionsAssumption DEF OpType
        <4>2. QED
          BY <2>1, <4>1, Zenon DEF Intended, Ensure
      <3>2. Gentle(x)
        BY <1>1, <1>4, <3>1, PatchIsGentle, LifecycleIsGentle, DeleteIsGentle
      <3>3. Keeps
        BY <1>4, <3>2, GentleKeeps
      <3>4. QED
        BY <1>2, <1>3, <2>1, <3>3 DEF Keeps
    <2>2. CASE (ref /\ ops[o].type = "create") \/ (~ref /\ ops[o].type = "delete")
      <3>1. \/ ref /\ x \in Seen
            \/ ~ref /\ x \in Unbound
        BY <2>2, Zenon DEF Intended
      <3>2. UNCHANGED coreVars /\ (~ref => x.reply = "notfound")
        BY <1>4, <3>1 DEF Seen, Unbound, Outcome, Apply, coreVars
      <3>3. QED
        BY <3>2, CoreStill DEF coreVars
    <2>3. CASE ~ref /\ ops[o].type = "create"
      <3>1. x \in PostWorkload(key, ops[o].spec)
        BY <2>3, Zenon DEF Intended
      <3>2. QED
        BY <1>1, <1>2, <1>4, <2>3, <3>1, PostKeeps
    <2>4. QED
      BY <1>2, <2>1, <2>2, <2>3
  <1>6. CoreInv'
    BY <1>1, <1>2, <1>3, <1>5, CoreKept
  <1>7. Alone(w) /\ WorkerInv(w)'
    <2>1. CASE /\ x.reply \in {"ok", "ref_error"} /\ ~ref
               /\ pc' = [pc EXCEPT ![w] = "bind"] /\ loc' = [loc EXCEPT ![w].note = x.reply]
      <3>1. Onward(w, "bind") /\ Alone(w)
        BY <1>1, <2>1 DEF Onward, Alone, LocType
      <3>2. QED
        BY <1>1, <1>2, <1>5, <2>1, <3>1, OnwardKnows DEF Steps
    <2>2. CASE ref /\ Goes(w, "observe")
      <3>1. Onward(w, "observe") /\ Alone(w)
        BY <1>1, <2>2, MovesOn
      <3>2. QED
        BY <1>1, <1>2, <1>5, <2>2, <3>1, OnwardKnows DEF Steps
    <2>3. CASE With(w, "abandon", "fatal") \/ Concludes(w)
      <3>1. \E s \in {"abandon", "retry"} : Onward(w, s) /\ Alone(w)
        BY <1>1, <2>3, MovesOn
      <3>2. QED
        BY <1>1, <1>2, <1>5, <3>1, OnwardKnows DEF Steps
    <2>4. QED
      BY <1>4, <2>1, <2>2, <2>3
  <1>8. QED
    BY <1>2, <1>5, <1>6, <1>7, WorkerMoves DEF Alone

\* Steps that write the row.
LEMMA WriteProcess ==
    ASSUME TypeInv, QueueInv, ProcessInv, TypeInv', QueueInv', Follows(ops, ops'), NEW w \in Workers,
           Bind(w) \/ Partial(w) \/ Finish(w) \/ Terminal(w) \/ FinishRollback(w)
    PROVE  ProcessInv'
  <1> DEFINE o == loc[w].op
  <1>1. /\ o \in OpIds /\ svc \in RowType /\ core \in CoreType /\ ops \in [OpIds -> OpType]
        /\ loc \in [Workers -> LocType] /\ pc \in [Workers -> Steps] /\ loc[w] \in LocType
        /\ loc[w].snap \in RowType /\ CoreInv /\ WorkerInv(w) /\ AtWork
    BY DEF TypeInv, LocType, ProcessInv, AtWork
  <1>2. UNCHANGED <<coreVars, cl>> /\ Keeps /\ pc[w] # "idle"
    BY CoreStill DEF Bind, Partial, Finish, Terminal, FinishRollback
  <1>3. Known(ops, o) /\ svc.here # "none" /\ (loc[w].rb # 0 => ops[o].type = "scale")
        /\ (loc[w].snap.ref => CreateRecorded)
    BY <1>1, <1>2, OnlyCreateIsFirst DEF WorkerInv
  <1>4. Leased(w) => svc.here = "live" /\ svc.cur = o
    BY <1>1, ActiveIsCurrent DEF Leased, Active
  <1>5. CASE Bind(w)
    <2>1. CreateRecorded
      BY <1>1, <1>5 DEF Bind, WorkerInv
    <2>2. svc'.here = svc.here
      BY <1>1, <1>5 DEF Bind, RowType
    <2>3. CASE Applies(w)
      <3>1. PICK s \in {"observe", "abandon", "retry"} :
               /\ pc' = [pc EXCEPT ![w] = s]
               /\ \/ loc' = [loc EXCEPT ![w].snap.ref = TRUE]
                  \/ \E k : loc' = [loc EXCEPT ![w].snap.ref = TRUE, ![w].code = k]
        <4>1. CASE loc[w].note = "ok"
          BY <1>5, <2>3, <4>1 DEF Bind
        <4>2. CASE loc[w].note # "ok"
          <5> DEFINE k == IF ops[o].spent THEN "fatal" ELSE "retry"
                     s == IF ops[o].spent THEN "abandon" ELSE "retry"
          <5>1. pc' = [pc EXCEPT ![w] = s] /\ loc' = [loc EXCEPT ![w].snap.ref = TRUE, ![w].code = k]
            BY <1>5, <2>3, <4>2 DEF Bind
          <5>2. s \in {"observe", "abandon", "retry"}
            OBVIOUS
          <5> HIDE DEF s, k
          <5>3. QED
            BY <5>1, <5>2
        <4>3. QED
          BY <4>1, <4>2
      <3>2. /\ pc'[w] = s /\ loc'[w].op = o /\ loc'[w].rb = loc[w].rb /\ loc'[w].snap.ref = TRUE
            /\ Alone(w)
        BY <1>1, <3>1 DEF Alone, LocType, RowType
      <3>3. WorkerInv(w)'
        BY <1>1, <1>2, <1>3, <2>1, <3>2, StepKnows DEF Keeps
      <3>4. QED
        BY <1>2, <1>3, <2>1, <2>2, <3>2, <3>3, QuietProcess
    <2>4. CASE ~Applies(w)
      <3>1. Returns(w) /\ svc' = svc
        BY <1>5, <2>4 DEF Bind
      <3>2. Onward(w, "idle") /\ Alone(w)
        BY <1>1, <3>1, MovesOn
      <3>3. WorkerInv(w)'
        BY <1>1, <1>2, <3>2, OnwardKnows DEF Steps
      <3>4. QED
        BY <1>2, <3>1, <3>2, <3>3, QuietProcess
    <2>5. QED
      BY <2>3, <2>4
  <1>6. CASE Partial(w)
    <2>1. CreateRecorded /\ loc[w].snap.ref /\ pc[w] = "partial"
      BY <1>1, <1>6 DEF Partial, WorkerInv
    <2>2. svc'.here = svc.here
      BY <1>1, <1>6 DEF Partial, RowType
    <2>3. CASE Applies(w)
      <3>1. \E s \in {"finish", "abandon", "retry"} : Onward(w, s) /\ Alone(w)
        BY <1>1, <1>6, <2>3, MovesOn DEF Partial
      <3>2. ops[o].type # "delete"
        BY <1>1, <2>1 DEF WorkerInv
      <3>3. loc[w].snap.ref \/ ops[o].type \in {"create", "delete"}
        BY <2>1
      <3>4. WorkerInv(w)'
        BY <1>1, <1>2, <2>1, <3>1, <3>2, OnwardKnows DEF Steps
      <3>5. QED
        BY <1>2, <1>3, <2>1, <2>2, <3>1, <3>4, QuietProcess
    <2>4. CASE ~Applies(w)
      <3>1. Returns(w) /\ svc' = svc
        BY <1>6, <2>4 DEF Partial
      <3>2. Onward(w, "idle") /\ Alone(w)
        BY <1>1, <3>1, MovesOn
      <3>3. WorkerInv(w)'
        BY <1>1, <1>2, <3>2, OnwardKnows DEF Steps
      <3>4. QED
        BY <1>2, <3>1, <3>2, <3>3, QuietProcess
    <2>5. QED
      BY <2>3, <2>4
  <1>7. CASE Finish(w) \/ Terminal(w) \/ FinishRollback(w)
    <2>1. Onward(w, "idle") /\ Alone(w)
      BY <1>1, <1>7, MovesOn DEF Finish, Terminal, FinishRollback
    <2>2. WorkerInv(w)'
      BY <1>1, <1>2, <2>1, OnwardKnows DEF Steps
    <2>3. CASE Finish(w)
      <3>1. loc[w].snap.ref /\ (ops[o].type = "delete" => core.state # "live")
        BY <1>1, <2>3 DEF Finish, WorkerInv
      <3>2. CASE Applies(w)
        <4>1. /\ svc.here = "live"
              /\ svc'.here = IF ops[o].type = "delete" THEN "gone" ELSE svc.here
              /\ svc'.ref = (ops[o].type # "delete")
          BY <1>1, <1>4, <2>3, <3>2 DEF Finish, RowType, Applies
        <4>2. CASE ops[o].type # "delete"
          BY <1>2, <1>3, <2>1, <2>2, <3>1, <4>1, <4>2, QuietProcess
        <4>3. CASE ops[o].type = "delete"
          <5>1. CreateRecorded' /\ core'.state # "live" /\ core' = core
            BY <1>2, <1>3, <3>1, <4>3 DEF Keeps, coreVars
          <5>2. CoreInv'
            BY <1>1, <1>2, <1>3, <4>1, <4>3, <5>1, CoreKept
          <5>3. QED
            BY <1>2, <2>1, <2>2, <5>2, WorkerMoves DEF Alone
        <4>4. QED
          BY <4>2, <4>3
      <3>3. CASE ~Applies(w)
        <4>1. svc' = svc
          BY <2>3, <3>3 DEF Finish, row
        <4>2. QED
          BY <1>2, <2>1, <2>2, <4>1, QuietProcess
      <3>4. QED
        BY <3>2, <3>3
    <2>4. CASE Terminal(w)
      <3>1. svc'.here = svc.here /\ svc'.ref = svc.ref
        BY <1>1, <2>4 DEF Terminal, RowType, row
      <3>2. QED
        BY <1>2, <2>1, <2>2, <3>1, QuietProcess
    <2>5. CASE FinishRollback(w)
      <3>1. CreateRecorded
        BY <1>1, <1>3, <2>5 DEF FinishRollback, WorkerInv
      <3>2. svc'.here = svc.here
        BY <1>1, <2>5 DEF FinishRollback, FinishScaleRollback, RowType, row
      <3>3. QED
        BY <1>2, <1>3, <2>1, <2>2, <3>1, <3>2, QuietProcess
    <2>6. QED
      BY <1>7, <2>3, <2>4, <2>5
  <1>8. QED
    BY <1>5, <1>6, <1>7

LEMMA AbandonProcess ==
    ASSUME TypeInv, QueueInv, ProcessInv, TypeInv', QueueInv', Follows(ops, ops'), NEW w \in Workers,
           Abandon(w) \/ Rollback(w)
    PROVE  ProcessInv'
  <1> DEFINE o == loc[w].op
             snap == loc[w].snap
  <1>1. /\ o \in OpIds /\ svc \in RowType /\ core \in CoreType /\ ops \in [OpIds -> OpType]
        /\ loc \in [Workers -> LocType] /\ pc \in [Workers -> Steps] /\ loc[w] \in LocType
        /\ snap \in RowType /\ ops[o] \in OpType /\ CoreInv /\ WorkerInv(w) /\ AtWork
    BY DEF TypeInv, LocType, ProcessInv, AtWork
  <1>2. UNCHANGED cl /\ pc[w] # "idle"
    BY DEF Abandon, Rollback
  <1>3. Known(ops, o) /\ svc.here # "none" /\ (loc[w].rb # 0 => ops[o].type = "scale")
        /\ (snap.ref => CreateRecorded)
    BY <1>1, <1>2, OnlyCreateIsFirst DEF WorkerInv
  <1>4. CASE Rollback(w)
    <2>1. snap.ref /\ ops[o].type = "scale" /\ UNCHANGED <<svc, ops>>
      BY <1>1, <1>4 DEF Rollback, WorkerInv, row
    <2> DEFINE spec == IF snap.spec # 0 THEN snap.spec ELSE ops[o].before
               call == Ensure(RollbackKey(o, loc[w].rb), snap.ref, spec)
    <2>2. PICK x \in IF spec = 0 THEN {Outcome(core, intents, "fatal")} ELSE call :
             /\ Apply(x)
             /\ \/ \E n : pc' = [pc EXCEPT ![w] = "rbFinish"] /\ loc' = [loc EXCEPT ![w].note = n]
                \/ With(w, "retry", "retry")
      BY <1>4 DEF Rollback
    <2>3. Keeps
      <3>1. CASE spec = 0
        <4>1. UNCHANGED coreVars
          BY <2>2, <3>1 DEF Apply, Outcome, coreVars
        <4>2. QED
          BY <4>1, CoreStill
      <3>2. CASE spec # 0
        <4>1. spec \in Counts /\ x \in PatchReplicas(RollbackKey(o, loc[w].rb), spec)
          BY <1>1, <2>1, <2>2, <3>2 DEF Ensure, OpType, RowType
        <4>2. Gentle(x)
          BY <1>1, <2>2, <4>1, PatchIsGentle
        <4>3. QED
          BY <2>2, <4>2, GentleKeeps
      <3>3. QED
        BY <3>1, <3>2
    <2>4. CoreInv'
      BY <1>1, <1>3, <2>1, <2>3, CoreKept DEF Keeps
    <2>5. \E s \in {"rbFinish", "retry"} : Onward(w, s) /\ Alone(w)
      <3>1. CASE With(w, "retry", "retry")
        BY <1>1, <3>1, MovesOn
      <3>2. CASE \E n : pc' = [pc EXCEPT ![w] = "rbFinish"] /\ loc' = [loc EXCEPT ![w].note = n]
        <4>1. Onward(w, "rbFinish") /\ Alone(w)
          BY <1>1, <3>2 DEF Onward, Alone, LocType
        <4>2. QED
          BY <4>1
      <3>3. QED
        BY <2>2, <3>1, <3>2
    <2>6. WorkerInv(w)'
      BY <1>1, <1>2, <2>1, <2>3, <2>5, OnwardKnows DEF Steps
    <2>7. QED
      BY <1>2, <2>3, <2>4, <2>5, <2>6, WorkerMoves DEF Alone
  <1>5. CASE Abandon(w) /\ UNCHANGED <<row, coreVars>> /\ (Returns(w) \/ Goes(w, "terminal") \/ With(w, "retry", "retry"))
    <2>1. Keeps
      BY <1>5, CoreStill
    <2>2. \E s \in {"idle", "terminal", "retry"} : Onward(w, s) /\ Alone(w)
      BY <1>1, <1>5, MovesOn
    <2>3. WorkerInv(w)'
      BY <1>1, <1>2, <2>1, <2>2, OnwardKnows DEF Steps
    <2>4. QED
      BY <1>2, <1>5, <2>2, <2>3, QuietProcess DEF row
  <1>6. CASE Abandon(w) /\ CleanupRuntime(w) /\ UNCHANGED row
    <2>1. PICK x \in DeleteWorkload(CleanupKey(ops[o].target)), s \in {"terminal", "retry"} :
             Apply(x) /\ Goes(w, s)
      BY <1>6 DEF CleanupRuntime
    <2>2. Gentle(x) /\ (x.core.up => core.up)
      BY <1>1, <2>1, DeleteIsGentle
    <2>3. Keeps
      BY <2>1, <2>2, GentleKeeps
    <2>4. CoreInv'
      BY <1>1, <1>6, <2>1, <2>2, <2>3, CoreKept DEF row, Apply, Keeps
    <2>5. Onward(w, s) /\ Alone(w)
      BY <1>1, <2>1, MovesOn
    <2>6. WorkerInv(w)'
      BY <1>1, <1>2, <2>3, <2>5, OnwardKnows DEF Steps
    <2>7. QED
      BY <1>2, <2>3, <2>4, <2>5, <2>6, WorkerMoves DEF Alone
  <1>7. CASE Abandon(w) /\ BeginScaleRollback(w) /\ UNCHANGED coreVars /\ ops[o].type = "scale"
    <2>1. snap.ref /\ pc[w] = "abandon"
      BY <1>1, <1>7 DEF Abandon, WorkerInv
    <2> DEFINE rb == IF ops[o].rb # 0 THEN ops[o].rb ELSE svc.gen + 1
    <2>2. CASE (Returns(w) \/ With(w, "retry", "retry")) /\ UNCHANGED row
      BY <1>5, <1>7, <2>2
    <2>3. CASE /\ pc' = [pc EXCEPT ![w] = "rollback"]
               /\ loc' = [loc EXCEPT ![w].rb = rb, ![w].snap.spec = snap.applied]
               /\ \/ UNCHANGED row
                  \/ svc' = [svc EXCEPT !.spec = svc.applied, !.gen = rb, !.status = "deploying"]
      <3>1. Keeps /\ svc'.here = svc.here /\ svc'.ref = svc.ref
        BY <1>1, <1>7, <2>3, CoreStill DEF RowType, row
      <3> HIDE DEF rb
      <3>2. /\ pc'[w] = "rollback" /\ loc'[w].op = o /\ loc'[w].snap.ref = snap.ref
            /\ Alone(w)
        BY <1>1, <2>3 DEF Alone, LocType, RowType
      <3>3. WorkerInv(w)'
        BY <1>1, <1>3, <1>7, <2>1, <3>1, <3>2, StepKnows DEF Keeps
      <3>4. QED
        BY <1>2, <1>7, <3>1, <3>2, <3>3, QuietProcess
    <2>4. QED
      <3>1. \/ Returns(w) /\ UNCHANGED row
            \/ With(w, "retry", "retry") /\ UNCHANGED row
            \/ /\ pc' = [pc EXCEPT ![w] = "rollback"]
               /\ loc' = [loc EXCEPT ![w].rb = rb, ![w].snap.spec = snap.applied]
               /\ \/ UNCHANGED row
                  \/ svc' = [svc EXCEPT !.spec = svc.applied, !.gen = rb, !.status = "deploying"]
        BY <1>7, Zenon DEF BeginScaleRollback
      <3> HIDE DEF rb
      <3>2. QED
        BY <2>2, <2>3, <3>1
  <1>8. QED
    <2>1. CASE Abandon(w)
      <3>1. \/ Returns(w) /\ UNCHANGED <<row, coreVars>>
            \/ ops[o].type = "scale" /\ BeginScaleRollback(w) /\ UNCHANGED coreVars
            \/ CleanupRuntime(w) /\ UNCHANGED row
            \/ Goes(w, "terminal") /\ UNCHANGED <<row, coreVars>>
        BY <2>1, Zenon DEF Abandon
      <3>2. QED
        BY <1>5, <1>6, <1>7, <2>1, <3>1
    <2>2. QED
      BY <1>4, <2>1

LEMMA ProcessNext ==
    ASSUME TypeInv, QueueInv, ProcessInv, TypeInv', QueueInv', Follows(ops, ops'), [Next]_vars
    PROVE  ProcessInv'
  <1>1. ASSUME NEW w \in Workers, Worker(w) PROVE ProcessInv'
    BY <1>1, ReadProcess, ActProcess, WriteProcess, AbandonProcess DEF Worker
  <1>2. ASSUME NEW w \in Workers, Crash(w) PROVE ProcessInv'
    <2>1. UNCHANGED <<svc, ops, coreVars, cl>> /\ Onward(w, "idle") /\ Alone(w) /\ Keeps
      BY <1>2, MovesOn, CoreStill DEF Crash, AtWork, TypeInv, row
    <2>2. WorkerInv(w)'
      BY <2>1 DEF Onward, WorkerInv
    <2>3. QED
      BY <2>1, <2>2, QuietProcess
  <1>3. ASSUME UNCHANGED <<coreVars, wk, cl>>, svc'.here = svc.here, svc'.ref = svc.ref PROVE ProcessInv'
    <2>1. Keeps /\ CoreInv
      BY <1>3, CoreStill DEF ProcessInv
    <2>2. CoreInv'
      BY <1>3, <2>1, CoreKept DEF coreVars
    <2>3. QED
      BY <1>3, <2>1, <2>2, NobodyMoves
  <1>4. CASE \E a \in Actions : RequestWithdrawn(a)
    <2>1. PICK a \in Actions : RequestWithdrawn(a)
      BY <1>4
    <2>2. 0 \in Counts /\ (MutateService(a, 0) \/ AnswerAlreadyDesired(a, 0))
      BY <2>1 DEF Counts, RequestWithdrawn
    <2>3. QED
      BY <1>3, <2>1, <2>2, QueueKeeps DEF RequestWithdrawn
  <1>5. CASE \E o \in OpIds : LeaseExpires(o) \/ Age(o)
    BY <1>3, <1>5 DEF LeaseExpires, Age
  <1>6. CASE GraceOver \/ Publish \/ UNCHANGED vars
    BY <1>3, <1>6 DEF GraceOver, Publish, vars, row
  <1>7. QED
    BY <1>1, <1>2, <1>4, <1>5, <1>6, ClientProcess DEF Next

-----------------------------------------------------------------------------
(* The invariant.                                                          *)

LEMMA InvInit == Init => IInv
  <1> SUFFICES ASSUME Init PROVE IInv
    OBVIOUS
  <1>1. TypeInv
    BY TypeInit
  <1>2. /\ svc = NoRow /\ core.up = FALSE
        /\ \A o \in OpIds : ops[o].state = "none" /\ ops[o].rb = 0
        /\ \A w \in Workers : pc[w] = "idle"
        /\ \A c \in Clients : cpc[c] = "idle"
    BY DEF Init
  <1>3. QueueInv
    BY <1>2 DEF QueueInv, CreateInv, ActiveInv, UnboundInv, Known, Active, NoRow
  <1>4. ProcessInv
    BY <1>2 DEF ProcessInv, CoreInv, ClientInv, WorkerInv, NoRow
  <1>5. QED
    BY <1>1, <1>3, <1>4 DEF IInv

LEMMA InvNext == ASSUME IInv, [Next]_vars PROVE IInv' /\ Follows(ops, ops')
  <1>1. TypeInv /\ QueueInv /\ ProcessInv
    BY DEF IInv
  <1>2. \A w \in Workers : pc[w] = "act" => ops[loc[w].op].type # "none"
    BY <1>1, OnlyCreateIsFirst DEF ProcessInv, WorkerInv, TypeInv, LocType
  <1>3. TypeInv' /\ QueueInv' /\ Follows(ops, ops')
    BY <1>1, <1>2, TypeNext, QueueNext
  <1>4. ProcessInv'
    BY <1>1, <1>3, ProcessNext
  <1>5. QED
    BY <1>3, <1>4 DEF IInv

\* Every reachable state satisfies the invariant.
THEOREM Invariance == Spec => []IInv
  BY InvInit, InvNext, PTL DEF Spec

-----------------------------------------------------------------------------
(* What the service promises.                                              *)

(***************************************************************************)
(* The rows, the workload and what the processes remember keep the shape   *)
(* the code gives them.                                                    *)
(***************************************************************************)
THEOREM TypeCorrect == Spec => []TypeOK
  <1>1. IInv => TypeOK
    BY DEF IInv, TypeInv, TypeOK, OpType, CoreType, LocType, ReqType
  <1>2. QED
    BY <1>1, Invariance, PTL

(***************************************************************************)
(* Preemption, abort and completion never leave a second queue entry that  *)
(* a worker could pick up: whatever can still run is the current operation *)
(* of a live service.                                                      *)
(***************************************************************************)
THEOREM OneAtATime == Spec => []OneActiveOperation
  <1>1. IInv => OneActiveOperation
    BY DEF IInv, QueueInv, ActiveInv, OneActiveOperation
  <1>2. QED
    BY <1>1, Invariance, PTL

(***************************************************************************)
(* The tombstone is written only after Core has released the workload, and *)
(* no late or repeated create brings it back: its key is on record.        *)
(***************************************************************************)
THEOREM TombstoneIsTrue == Spec => []TombstoneMeansReclaimed
  <1>1. IInv => TombstoneMeansReclaimed
    BY DEF IInv, ProcessInv, CoreInv, TombstoneMeansReclaimed
  <1>2. QED
    BY <1>1, Invariance, PTL

(***************************************************************************)
(* No worker that lost its lease, late abort or second finish rewrites how *)
(* an operation ended.                                                     *)
(***************************************************************************)
THEOREM OutcomesStay == Spec => OutcomeIsFinal
  <1>1. ASSUME IInv, [Next]_vars
        PROVE  [\A o \in OpIds : ops[o].state \in Ended => ops'[o].state = ops[o].state]_vars
    BY <1>1, InvNext DEF Follows, Known, Ended
  <1>2. QED
    BY <1>1, Invariance, PTL DEF Spec, OutcomeIsFinal

\* An abort only takes back an operation the service is still after.
LEMMA AbortKeepsDesired ==
    ASSUME IInv, NEW c \in Clients, AbortPendingMutation(c)
    PROVE  svc.desired # "deleted"
  <1> DEFINE o == req[c].op
  <1>1. o \in OpIds /\ req[c].type \in {"create", "scale", "start"} /\ QueueInv /\ ClientInv(c)
    BY DEF IInv, TypeInv, ReqType, ProcessInv
  <1>2. ops[o].state \in Active /\ ops[o].type = req[c].type
    BY <1>1 DEF AbortPendingMutation, AbortFits, Active, ClientInv
  <1>3. svc.desired = "running"
    BY <1>1, <1>2 DEF QueueInv, ActiveInv, DesiredOf
  <1>4. QED
    BY <1>3

(***************************************************************************)
(* Once deletion is asked for, no abort, rollback, late result or new      *)
(* request gives the service another desired state.                        *)
(***************************************************************************)
THEOREM DeleteStays == Spec => DeleteWins
  <1>1. ASSUME IInv, [Next]_vars PROVE [svc.desired = "deleted" => svc'.desired = "deleted"]_vars
    <2>1. SUFFICES ASSUME svc.desired = "deleted" PROVE svc'.desired = "deleted"
      OBVIOUS
    <2>2. svc \in RowType /\ TypeInv /\ QueueInv
      BY <1>1 DEF IInv, TypeInv
    <2>3. ASSUME NEW c \in Clients, Client(c) PROVE svc'.desired = "deleted"
      <3>1. svc # NoRow /\ svc.here # "none"
        BY <2>1, <2>2 DEF NoRow, QueueInv, CreateInv
      <3>2. CASE RequestMutation(c)
        BY <2>1, <3>2 DEF RequestMutation, MutateService, MayBegin, AnswerAlreadyDesired
      <3>3. CASE AbortPendingMutation(c)
        BY <1>1, <2>1, <3>3, AbortKeepsDesired
      <3>4. CASE BindRuntime(c) \/ AbortCreate(c) \/ DropRequest(c) \/ Dispatch(c)
        BY <2>1, <2>2, <3>4 DEF BindRuntime, AbortCreate, DropRequest, Dispatch, row, RowType
      <3>5. CASE \/ \E r \in Replicas : CreateWithOperation(c, r)
                 \/ \E r \in Replicas : ReadBefore(c, "scale", r)
                 \/ ReadBefore(c, "start", 0)
        BY <2>1, <3>1, <3>5 DEF CreateWithOperation, ReadBefore, row
      <3>6. QED
        BY <2>3, <3>2, <3>3, <3>4, <3>5 DEF Client
    <2>4. ASSUME NEW a \in Actions, RequestWithdrawn(a) PROVE svc'.desired = "deleted"
      BY <2>1, <2>4 DEF RequestWithdrawn, MutateService, MayBegin, AnswerAlreadyDesired
    <2>5. ASSUME NEW w \in Workers, Worker(w) \/ Crash(w) PROVE svc'.desired = "deleted"
      <3>1. CASE \/ Claim(w) \/ Load(w) \/ FenceCheck(w) \/ Refetch(w) \/ Act(w) \/ Observe(w)
                 \/ Retry(w) \/ Rollback(w) \/ Crash(w)
        BY <2>1, <3>1 DEF Claim, Load, FenceCheck, Refetch, Act, Observe, Retry, Rollback, Crash, row
      <3>2. CASE Bind(w) \/ Partial(w) \/ Finish(w) \/ Terminal(w)
        BY <2>1, <2>2, <3>2 DEF Bind, Partial, Finish, Terminal, row, RowType
      <3>3. CASE Abandon(w)
        <4>1. UNCHANGED row \/ BeginScaleRollback(w)
          BY <3>3, Zenon DEF Abandon
        <4>2. CASE BeginScaleRollback(w)
          BY <2>1, <4>2 DEF BeginScaleRollback, row
        <4>3. QED
          BY <2>1, <4>1, <4>2 DEF row
      <3>4. CASE FinishRollback(w)
        BY <2>1, <2>2, <3>4 DEF FinishRollback, FinishScaleRollback, row, RowType
      <3>5. QED
        BY <2>5, <3>1, <3>2, <3>3, <3>4 DEF Worker
    <2>6. CASE (\E o \in OpIds : LeaseExpires(o) \/ Age(o)) \/ GraceOver \/ Publish \/ UNCHANGED vars
      BY <2>1, <2>6 DEF LeaseExpires, Age, GraceOver, Publish, vars, row
    <2>7. QED
      BY <1>1, <2>3, <2>4, <2>5, <2>6 DEF Next
  <1>2. QED
    BY <1>1, Invariance, PTL DEF Spec, DeleteWins

-----------------------------------------------------------------------------
(* The route: leases that hold, and nobody who scales.                     *)

\* Operation q stays with whoever works on it.
Untouched(q) == ops'[q].state = ops[q].state /\ ops'[q].lease = ops[q].lease

\* What a worker's step does to operations and to the other workers.
LEMMA WorkerTouches ==
    ASSUME TypeInv, NEW w \in Workers, Worker(w) \/ Crash(w), ~Claim(w)
    PROVE  /\ Alone(w) /\ pc[w] # "idle"
           /\ pc'[w] # "idle" => loc'[w].op = loc[w].op /\ Untouched(loc[w].op)
           /\ \A q \in OpIds : q # loc[w].op => ops'[q] = ops[q]
  <1> DEFINE o == loc[w].op
  <1>1. /\ AtWork /\ loc[w] \in LocType /\ ops \in [OpIds -> OpType] /\ o \in OpIds /\ ops[o] \in OpType
        /\ loc \in [Workers -> LocType] /\ pc \in [Workers -> Steps] /\ loc[w].snap \in RowType
    BY DEF TypeInv, AtWork, LocType
  <1>2. ASSUME NEW s, Onward(w, s) PROVE pc'[w] # "idle" => loc'[w].op = o
    BY <1>2 DEF Onward
  <1>3. ASSUME UNCHANGED ops, Alone(w), pc[w] # "idle", NEW s, Onward(w, s)
        PROVE  /\ Alone(w) /\ pc[w] # "idle"
               /\ pc'[w] # "idle" => loc'[w].op = o /\ Untouched(o)
               /\ \A q \in OpIds : q # o => ops'[q] = ops[q]
    BY <1>2, <1>3 DEF Untouched
  <1>4. ASSUME Returns(w), pc[w] # "idle", \A q \in OpIds : q # o => ops'[q] = ops[q]
        PROVE  /\ Alone(w) /\ pc[w] # "idle"
               /\ pc'[w] # "idle" => loc'[w].op = o /\ Untouched(o)
               /\ \A q \in OpIds : q # o => ops'[q] = ops[q]
    BY <1>1, <1>4, MovesOn DEF Onward
  <1>5. CASE Load(w)
    <2>1. pc[w] # "idle" /\ UNCHANGED ops
      BY <1>5 DEF Load, row
    <2>2. CASE With(w, "retry", "retry") \/ Returns(w)
      <3>1. \E s : Onward(w, s) /\ Alone(w)
        BY <1>1, <2>2, MovesOn
      <3>2. QED
        BY <1>3, <2>1, <3>1
    <2>3. CASE ~(With(w, "retry", "retry") \/ Returns(w))
      <3> DEFINE next == IF ~GenerationMatches(o) THEN "terminal"
                ELSE IF svc.desired = "deleted" /\ ops[o].type # "delete" THEN "idle"
                ELSE IF loc[w].rb # 0 THEN "rollback"
                ELSE IF NeedsWithdrawal(ops[o].type) THEN "fence"
                ELSE Decided(o, loc[w].code, svc.ref)
      <3>1. /\ pc' = [pc EXCEPT ![w] = next]
            /\ loc' = [loc EXCEPT ![w].snap = svc, ![w].code = IF next = "retry" THEN "retry" ELSE @]
        BY <1>5, <2>3 DEF Load
      <3> HIDE DEF next
      <3>2. Alone(w) /\ loc'[w].op = o
        BY <1>1, <3>1 DEF Alone, LocType
      <3>3. QED
        BY <2>1, <3>2 DEF Untouched
    <2>4. QED
      BY <2>2, <2>3
  <1>6. CASE Refetch(w)
    <2>1. pc[w] # "idle" /\ UNCHANGED ops
      BY <1>6 DEF Refetch, row
    <2>2. CASE Goes(w, "terminal") \/ With(w, "retry", "none")
      <3>1. \E s : Onward(w, s) /\ Alone(w)
        BY <1>1, <2>2, MovesOn
      <3>2. QED
        BY <1>3, <2>1, <3>1
    <2>3. CASE ~(Goes(w, "terminal") \/ With(w, "retry", "none"))
      <3>1. /\ pc' = [pc EXCEPT ![w] = Decided(o, loc[w].code, svc.ref)]
            /\ loc' = [loc EXCEPT ![w].snap = svc]
        BY <1>6, <2>3 DEF Refetch
      <3>2. Alone(w) /\ loc'[w].op = o
        BY <1>1, <3>1 DEF Alone, LocType
      <3>3. QED
        BY <2>1, <3>2 DEF Untouched
    <2>4. QED
      BY <2>2, <2>3
  <1>7. CASE FenceCheck(w) \/ Crash(w)
    <2>1. pc[w] # "idle" /\ UNCHANGED ops
      BY <1>7 DEF FenceCheck, Crash, row
    <2>2. \E s : Onward(w, s) /\ Alone(w)
      BY <1>1, <1>7, MovesOn DEF FenceCheck, Crash
    <2>3. QED
      BY <1>3, <2>1, <2>2
  <1>8. CASE Act(w) \/ Observe(w) \/ Rollback(w) \/ Partial(w) \/ Bind(w)
    <2>1. pc[w] # "idle" /\ UNCHANGED ops
      BY <1>8 DEF Act, Observe, Rollback, Partial, Bind, row
    <2>2. \/ \E s : Onward(w, s) /\ Alone(w)
          \/ \E s, n : pc' = [pc EXCEPT ![w] = s] /\ loc' = [loc EXCEPT ![w].note = n]
          \/ \E s : pc' = [pc EXCEPT ![w] = s] /\ loc' = [loc EXCEPT ![w].snap.ref = TRUE]
          \/ \E s, k : pc' = [pc EXCEPT ![w] = s] /\ loc' = [loc EXCEPT ![w].snap.ref = TRUE, ![w].code = k]
      <3>1. CASE Act(w)
        <4>1. PICK x : CASE x.reply \in {"ok", "ref_error"} /\ ~loc[w].snap.ref ->
                         /\ pc' = [pc EXCEPT ![w] = "bind"]
                         /\ loc' = [loc EXCEPT ![w].note = x.reply]
                   [] x.reply = "ok" /\ loc[w].snap.ref -> Goes(w, "observe")
                   [] x.reply = "fatal" /\ ops[o].type # "delete" -> With(w, "abandon", "fatal")
                   [] OTHER -> Concludes(w)
          BY <3>1 DEF Act
        <4>2. \/ pc' = [pc EXCEPT ![w] = "bind"] /\ loc' = [loc EXCEPT ![w].note = x.reply]
              \/ Goes(w, "observe") \/ With(w, "abandon", "fatal") \/ Concludes(w)
          BY <4>1, Zenon
        <4>3. QED
          BY <1>1, <4>2, MovesOn
      <3>2. CASE Observe(w)
        BY <1>1, <3>2, MovesOn DEF Observe
      <3>3. CASE Rollback(w)
        BY <1>1, <3>3, MovesOn DEF Rollback
      <3>4. CASE Partial(w)
        BY <1>1, <3>4, MovesOn DEF Partial
      <3>5. CASE Bind(w)
        BY <1>1, <3>5, MovesOn DEF Bind
      <3>6. QED
        BY <1>8, <3>1, <3>2, <3>3, <3>4, <3>5
    <2>3. \E s : \/ Onward(w, s) /\ Alone(w)
                 \/ Alone(w) /\ loc'[w].op = o
      BY <1>1, <2>2 DEF Alone, LocType
    <2>4. QED
      BY <1>3, <2>1, <2>3 DEF Untouched
  <1>9. CASE Finish(w) \/ Terminal(w) \/ FinishRollback(w) \/ Retry(w)
    <2>1. pc[w] # "idle" /\ Returns(w)
      BY <1>9 DEF Finish, Terminal, FinishRollback, Retry
    <2>2. \/ ops' = ops \/ ops' = Closed(o, "completed") \/ ops' = Closed(o, "failed")
          \/ ops' = [ops EXCEPT ![o].state = "pending", ![o].code = loc[w].code, ![o].lease = NoWorker]
      BY <1>9 DEF Finish, Terminal, FinishRollback, FinishScaleRollback, Retry, row
    <2>3. \A q \in OpIds : q # o => ops'[q] = ops[q]
      BY <1>1, <2>2 DEF Closed
    <2>4. QED
      BY <1>4, <2>1, <2>3
  <1>10. CASE Abandon(w)
    <2>1. pc[w] # "idle"
      BY <1>10 DEF Abandon
    <2>2. \/ UNCHANGED ops /\ (Returns(w) \/ \E s : Goes(w, s) \/ With(w, "retry", "retry"))
          \/ BeginScaleRollback(w)
      <3>1. \/ Returns(w) /\ UNCHANGED <<row, coreVars>>
            \/ BeginScaleRollback(w)
            \/ CleanupRuntime(w) /\ UNCHANGED row
            \/ Goes(w, "terminal") /\ UNCHANGED <<row, coreVars>>
        BY <1>10, Zenon DEF Abandon
      <3>2. QED
        BY <3>1 DEF row, CleanupRuntime
    <2>3. CASE UNCHANGED ops /\ (Returns(w) \/ \E s : Goes(w, s) \/ With(w, "retry", "retry"))
      <3>1. \E s : Onward(w, s) /\ Alone(w)
        BY <1>1, <2>3, MovesOn
      <3>2. QED
        BY <1>3, <2>1, <2>3, <3>1
    <2>4. CASE BeginScaleRollback(w)
      <3> DEFINE rb == IF ops[o].rb # 0 THEN ops[o].rb ELSE svc.gen + 1
      <3>1. \/ Returns(w) /\ UNCHANGED row
            \/ With(w, "retry", "retry") /\ UNCHANGED row
            \/ /\ pc' = [pc EXCEPT ![w] = "rollback"]
               /\ loc' = [loc EXCEPT ![w].rb = rb, ![w].snap.spec = loc[w].snap.applied]
               /\ UNCHANGED row \/ ops' = [ops EXCEPT ![o].rb = rb, ![o].code = "retry"]
        BY <2>4, Zenon DEF BeginScaleRollback
      <3> HIDE DEF rb
      <3>2. \/ UNCHANGED ops /\ \E s : Onward(w, s) /\ Alone(w)
            \/ /\ Alone(w) /\ loc'[w].op = o
               /\ UNCHANGED ops \/ ops' = [ops EXCEPT ![o].rb = rb, ![o].code = "retry"]
        <4>1. CASE Returns(w) \/ With(w, "retry", "retry")
          BY <1>1, <3>1, <4>1, MovesOn DEF row, Returns, With
        <4>2. CASE ~(Returns(w) \/ With(w, "retry", "retry"))
          BY <1>1, <3>1, <4>2 DEF Alone, LocType, RowType, row
        <4>3. QED
          BY <4>1, <4>2
      <3>3. CASE UNCHANGED ops /\ \E s : Onward(w, s) /\ Alone(w)
        BY <1>3, <2>1, <3>3
      <3>4. CASE /\ Alone(w) /\ loc'[w].op = o
                 /\ UNCHANGED ops \/ ops' = [ops EXCEPT ![o].rb = rb, ![o].code = "retry"]
        BY <1>1, <2>1, <3>4 DEF Untouched, OpType
      <3>5. QED
        BY <3>2, <3>3, <3>4
    <2>5. QED
      BY <2>2, <2>3, <2>4
  <1>11. QED
    BY <1>5, <1>6, <1>7, <1>8, <1>9, <1>10 DEF Worker

\* Requests only end operations nobody works on, and start new ones.
LEMMA MutateTouches ==
    ASSUME TypeInv, NEW a \in Actions, NEW r \in Counts,
           MutateService(a, r) \/ AnswerAlreadyDesired(a, r)
    PROVE  \A q \in OpIds : /\ ops[q].state = "running" => Untouched(q)
                            /\ ops'[q].state \in Active =>
                                  \/ ops[q].state \in Active /\ ops'[q].type = ops[q].type
                                  \/ MutateService(a, r) /\ ops'[q].type = a
  <1>1. ops \in [OpIds -> OpType] /\ svc \in RowType /\ svc.cur \in OpIds \cup {0}
    BY DEF TypeInv, RowType
  <1>2. NewOp \in OpIds /\ ops[NewOp].state = "none"
    BY NewOpIsFree DEF MutateService, AnswerAlreadyDesired, MayBegin
  <1>3. CASE MutateService(a, r)
    <2> DEFINE new == Row(a, svc.gen + 1, TargetSpec(a, r), svc.applied)
    <2>1. ops' = [CancelPreempted EXCEPT ![NewOp] = new] /\ MayPreempt(a)
      BY <1>3 DEF MutateService, MayBegin
    <2>2. new.type = a
      BY DEF Row
    <2> HIDE DEF new
    <2>3. CASE HasActive
      <3>1. svc.cur \in OpIds /\ ops[svc.cur].state = "pending"
        BY <1>1, <2>1, <2>3 DEF HasActive, MayPreempt, OpIds
      <3>2. /\ CancelPreempted \in [OpIds -> OpType] /\ CancelPreempted[svc.cur].state = "cancelled"
            /\ \A q \in OpIds : q # svc.cur => CancelPreempted[q] = ops[q]
        BY <1>1, <2>3, <3>1, ClosedFits DEF CancelPreempted, Ended
      <3>3. QED
        BY <1>1, <1>2, <1>3, <2>1, <2>2, <3>1, <3>2 DEF Untouched, Active
    <2>4. CASE ~HasActive
      BY <1>1, <1>2, <1>3, <2>1, <2>2, <2>4 DEF CancelPreempted, Untouched, Active
    <2>5. QED
      BY <2>3, <2>4
  <1>4. CASE AnswerAlreadyDesired(a, r)
    <2> DEFINE new == [Row(a, svc.gen, svc.spec, svc.applied) EXCEPT !.state = "completed"]
    <2>1. ops' = [ops EXCEPT ![NewOp] = new]
      BY <1>4 DEF AnswerAlreadyDesired
    <2>2. new.state = "completed"
      BY DEF Row
    <2> HIDE DEF new
    <2>3. QED
      BY <1>1, <1>2, <2>1, <2>2 DEF Untouched, Active
  <1>5. QED
    BY <1>3, <1>4

LEMMA ClientTouches ==
    ASSUME TypeInv, QueueInv, NEW c \in Clients, Client(c)
    PROVE  UNCHANGED wk /\ \A q \in OpIds : ops[q].state = "running" => Untouched(q)
  <1>1. /\ ops \in [OpIds -> OpType] /\ req[c] \in ReqType /\ req[c].op \in OpIds /\ req[c].r \in Counts
        /\ 1 \in OpIds
    BY BoundAssumption DEF TypeInv, ReqType, OpIds
  <1>2. CASE \E r \in Replicas : CreateWithOperation(c, r)
    BY <1>1, <1>2 DEF CreateWithOperation, QueueInv, CreateInv, Known
  <1>3. CASE RequestMutation(c)
    <2>1. req[c].type \in Actions
      BY <1>3 DEF RequestMutation, TypeInv, Asks
    <2>2. QED
      BY <1>1, <1>3, <2>1, MutateTouches DEF RequestMutation
  <1>4. CASE AbortCreate(c) \/ AbortPendingMutation(c)
    <2>1. PICK s \in {"erased", "cancelled"} : ops' = Closed(req[c].op, s) /\ ops[req[c].op].state = "pending"
      BY <1>4 DEF AbortCreate, AbortPendingMutation, AbortFits
    <2>2. QED
      BY <1>1, <1>4, <2>1, ClosedFits DEF AbortCreate, AbortPendingMutation, Ended, Untouched
  <1>5. CASE \/ \E r \in Replicas : ReadBefore(c, "scale", r)
             \/ ReadBefore(c, "start", 0) \/ Dispatch(c) \/ BindRuntime(c) \/ DropRequest(c)
    BY <1>5 DEF ReadBefore, Dispatch, BindRuntime, DropRequest, Untouched, row
  <1>6. QED
    BY <1>2, <1>3, <1>4, <1>5 DEF Client

LEMMA LeaseNext ==
    ASSUME LeaseHolds, TypeInv, QueueInv, LeaseInv, [Next]_vars
    PROVE  LeaseInv'
  <1>1. SUFFICES ASSUME NEW v \in Workers, pc'[v] # "idle" PROVE Leased(v)'
    BY DEF LeaseInv
  <1> DEFINE p == loc[v].op
  <1>2. /\ p \in OpIds /\ NoWorker \notin Workers /\ ops \in [OpIds -> OpType]
        /\ loc \in [Workers -> LocType] /\ pc \in [Workers -> Steps]
        /\ pc[v] # "idle" => ops[p].state = "running" /\ ops[p].lease = v
    BY WorkersAssumption DEF TypeInv, LocType, LeaseInv, Leased
  <1>3. ASSUME pc'[v] = pc[v], loc'[v] = loc[v], ops[p].state = "running" => Untouched(p) PROVE Leased(v)'
    BY <1>1, <1>2, <1>3 DEF Leased, Untouched
  <1>4. ASSUME NEW w \in Workers, Worker(w) \/ Crash(w) PROVE Leased(v)'
    <2>1. CASE Claim(w)
      <3>1. PICK q \in OpIds : /\ Claimable(q)
                               /\ ops' = [ops EXCEPT ![q].state = "running", ![q].lease = w]
                               /\ loc' = [loc EXCEPT ![w] = [NoLoc EXCEPT !.op = q, !.rb = ops[q].rb, !.code = ops[q].code]]
        BY <2>1 DEF Claim
      <3>2. CASE v = w
        BY <1>2, <3>1, <3>2 DEF Leased, NoLoc, OpType
      <3>3. CASE v # w
        <4>1. pc'[v] = pc[v] /\ loc'[v] = loc[v]
          BY <1>2, <2>1, <3>1, <3>3 DEF Claim
        <4>2. p # q
          BY <1>1, <1>2, <3>1, <4>1 DEF Claimable
        <4>3. QED
          BY <1>2, <1>3, <3>1, <4>1, <4>2 DEF Untouched
      <3>4. QED
        BY <3>2, <3>3
    <2>2. CASE ~Claim(w)
      <3>1. /\ Alone(w) /\ pc[w] # "idle"
            /\ pc'[w] # "idle" => loc'[w].op = loc[w].op /\ Untouched(loc[w].op)
            /\ \A q \in OpIds : q # loc[w].op => ops'[q] = ops[q]
        BY <1>4, <2>2, WorkerTouches
      <3>2. CASE v = w
        BY <1>1, <1>2, <3>1, <3>2 DEF Leased, Untouched
      <3>3. CASE v # w
        <4>1. pc'[v] = pc[v] /\ loc'[v] = loc[v]
          BY <3>1, <3>3 DEF Alone
        <4>2. loc[w].op # p
          BY <1>1, <1>2, <3>1, <3>3, <4>1 DEF LeaseInv, Leased
        <4>3. QED
          BY <1>2, <1>3, <3>1, <4>1, <4>2 DEF Untouched
      <3>4. QED
        BY <3>2, <3>3
    <2>3. QED
      BY <2>1, <2>2
  <1>5. ASSUME NEW c \in Clients, Client(c) PROVE Leased(v)'
    BY <1>2, <1>3, <1>5, ClientTouches DEF wk
  <1>6. ASSUME NEW a \in Actions, RequestWithdrawn(a) PROVE Leased(v)'
    <2>1. 0 \in Counts /\ UNCHANGED wk
      BY <1>6 DEF Counts, RequestWithdrawn
    <2>2. QED
      BY <1>2, <1>3, <1>6, <2>1, MutateTouches DEF wk, RequestWithdrawn
  <1>7. ASSUME NEW o \in OpIds, LeaseExpires(o) PROVE Leased(v)'
    <2>1. UNCHANGED wk /\ (ops[o].lease = v => pc[v] = "idle" \/ p # o)
      BY <1>7 DEF LeaseExpires
    <2>2. p # o
      BY <1>1, <1>2, <2>1 DEF wk
    <2>3. QED
      BY <1>2, <1>3, <1>7, <2>1, <2>2 DEF wk, LeaseExpires, Untouched
  <1>8. ASSUME NEW o \in OpIds, Age(o) PROVE Leased(v)'
    BY <1>2, <1>3, <1>8 DEF wk, Age, Untouched, OpType
  <1>9. CASE GraceOver \/ Publish \/ UNCHANGED vars
    BY <1>3, <1>9 DEF GraceOver, Publish, vars, row, wk, Untouched
  <1>10. QED
    BY <1>4, <1>5, <1>6, <1>7, <1>8, <1>9 DEF Next

\* A worker that goes on behind the fence was behind it, or has just seen that the route is gone.
LEMMA FenceKept ==
    ASSUME TypeInv, NEW w \in Workers, Worker(w) \/ Crash(w), PastFence(w)',
           pc'[w] # "idle" => ops'[loc[w].op].type = ops[loc[w].op].type
    PROVE  PastFence(w) \/ Withheld
  <1> DEFINE o == loc[w].op
  <1>1. /\ AtWork /\ o \in OpIds /\ pc'[w] \in Fenced /\ pc \in [Workers -> Steps] /\ loc \in [Workers -> LocType]
    BY DEF TypeInv, LocType, AtWork, PastFence
  <1>2. CASE Claim(w)
    BY <1>1, <1>2 DEF Claim, Fenced
  <1>3. CASE ~Claim(w)
    <2>1. ops[o].type = ops'[loc'[w].op].type /\ NeedsWithdrawal(ops[o].type)
      BY <1>1, <1>3, WorkerTouches DEF PastFence, Fenced
    <2>2. CASE pc[w] \in Fenced
      BY <2>1, <2>2 DEF PastFence
    <2>3. CASE Load(w)
      <3>1. NeedsWithdrawal(ops[o].type) /\ pc'[w] \notin {"retry", "idle"}
        BY <1>1, <2>1 DEF Fenced
      <3>2. ~With(w, "retry", "retry") /\ ~Returns(w)
        BY <1>1, <3>1 DEF With, Returns
      <3>3. pc'[w] \in {"terminal", "idle", "rollback", "fence"}
        <4> DEFINE next == IF ~GenerationMatches(o) THEN "terminal"
                ELSE IF svc.desired = "deleted" /\ ops[o].type # "delete" THEN "idle"
                ELSE IF loc[w].rb # 0 THEN "rollback"
                ELSE IF NeedsWithdrawal(ops[o].type) THEN "fence"
                ELSE Decided(o, loc[w].code, svc.ref)
        <4>1. pc' = [pc EXCEPT ![w] = next]
          BY <2>3, <3>2 DEF Load
        <4>2. next \in {"terminal", "idle", "rollback", "fence"}
          BY <3>1
        <4> HIDE DEF next
        <4>3. QED
          BY <1>1, <4>1, <4>2
      <3>4. QED
        BY <1>1, <3>3 DEF Fenced
    <2>4. CASE FenceCheck(w)
      BY <1>1, <2>4 DEF FenceCheck, Goes, With, Fenced
    <2>5. CASE Refetch(w)
      <3>1. ~Goes(w, "terminal") /\ ~With(w, "retry", "none")
        BY <1>1 DEF Fenced, Goes, With
      <3>2. QED
        BY <2>5, <3>1 DEF Refetch, Withdrawn, Withheld
    <2>6. CASE Retry(w) \/ Terminal(w) \/ FinishRollback(w) \/ Crash(w)
      BY <1>1, <2>6 DEF Retry, Terminal, FinishRollback, Crash, Returns, Fenced
    <2>7. CASE Rollback(w)
      BY <1>1, <2>7 DEF Rollback, With, Fenced
    <2>8. QED
      BY <1>3, <2>2, <2>3, <2>4, <2>5, <2>6, <2>7
         DEF Worker, Act, Bind, Observe, Partial, Finish, Abandon, Fenced
  <1>4. QED
    BY <1>2, <1>3

\* Nobody asks for the route or for its withdrawal.
LEMMA RouteStill ==
    ASSUME RouteInv, UNCHANGED gate,
           svc'.here = "none" => svc.here = "none",
           (svc'.here = "live" /\ svc'.status = "stopped") => (svc.here = "live" /\ svc.status = "stopped") \/ Withheld,
           \A o \in OpIds : ops'[o].state \in Active /\ ops'[o].type \in {"create", "start"} =>
              Withheld \/ (ops[o].state \in Active /\ ops[o].type \in {"create", "start"}),
           \A w \in Workers : PastFence(w)' => PastFence(w) \/ Withheld
    PROVE  RouteInv'
  <1>1. Withheld' = Withheld
    BY DEF Withheld, gate
  <1>2. QED
    BY <1>1 DEF RouteInv, gate

\* Nobody is at work while nothing is on its way, or while what is on its way still waits.
LEMMA NobodyAtWork ==
    ASSUME TypeInv, QueueInv, LeaseInv, HasActive => ops[svc.cur].state = "pending", NEW w \in Workers
    PROVE  pc[w] = "idle"
  <1>1. SUFFICES ASSUME pc[w] # "idle" PROVE FALSE
    OBVIOUS
  <1>2. loc[w].op \in OpIds /\ ops[loc[w].op].state = "running"
    BY <1>1 DEF LeaseInv, Leased, TypeInv, LocType
  <1>3. svc.cur = loc[w].op /\ HasActive
    BY <1>2, ActiveIsCurrent DEF Active
  <1>4. QED
    BY <1>2, <1>3

LEMMA MutateRoute ==
    ASSUME TypeInv, QueueInv, QueueInv', LeaseInv, RouteInv, UNCHANGED wk,
           NEW a \in Actions \ {"scale"}, NEW r \in Counts,
           MutateService(a, r) \/ AnswerAlreadyDesired(a, r)
    PROVE  RouteInv'
  <1>1. /\ svc.here = "live" /\ svc'.here = "live" /\ svc \in RowType /\ NewOp \in OpIds
        /\ a \in {"start", "stop", "restart", "delete"}
    BY QueueKeeps, ActionsAssumption DEF TypeInv
  <1>2. CASE AnswerAlreadyDesired(a, r)
    <2>1. UNCHANGED gate /\ svc'.status = svc.status
      BY <1>1, <1>2 DEF AnswerAlreadyDesired, RowType
    <2>2. \A o \in OpIds : ops'[o].state \in Active => ops[o].state \in Active /\ ops'[o].type = ops[o].type
      BY <1>2, MutateTouches, NewOpIsFree, <1>1 DEF AnswerAlreadyDesired, TypeInv, Active
    <2>3. \A w \in Workers : pc[w] # "idle" => Known(ops, loc[w].op) /\ loc[w].op \in OpIds
      BY DEF LeaseInv, Leased, Known, TypeInv, LocType
    <2>4. Follows(ops, ops')
      BY QueueKeeps
    <2>5. \A w \in Workers : PastFence(w)' => PastFence(w)
      BY <2>3, <2>4 DEF PastFence, Follows, wk, Fenced
    <2>6. QED
      BY <1>1, <2>1, <2>2, <2>5, RouteStill
  <1>3. CASE MutateService(a, r)
    <2>1. /\ ActionAllowed(a) /\ (HasActive => ops[svc.cur].state = "pending")
          /\ svc'.cur = NewOp
          /\ svc'.status = (IF a \in {"stop", "delete"} THEN "stopping" ELSE "deploying")
      BY <1>1, <1>3 DEF MutateService, MayBegin, MayPreempt, RowType
    <2>2. \A w \in Workers : pc'[w] = "idle"
      BY <2>1, NobodyAtWork DEF wk
    <2>3. \A o \in OpIds : ops'[o].state \in Active => ops'[o].type = a
      <3>1. ops'[NewOp].type = a
        BY QueueKeeps
      <3>2. QED
        BY <2>1, <3>1 DEF QueueInv, ActiveInv
    <2>4. CASE a = "start"
      <3>1. UNCHANGED gate /\ svc.status = "stopped"
        BY <1>3, <2>1, <2>4 DEF MutateService, NeedsWithdrawal, ActionAllowed
      <3>2. Withheld
        BY <1>1, <3>1 DEF RouteInv
      <3>3. QED
        BY <1>1, <2>1, <2>2, <3>1, <3>2, RouteStill DEF PastFence, Fenced
    <2>5. CASE a # "start"
      <3>1. NeedsWithdrawal(a) /\ ~confirmed'
        BY <1>1, <1>3, <2>5 DEF MutateService, NeedsWithdrawal
      <3>2. QED
        BY <1>1, <2>1, <2>2, <2>3, <2>5, <3>1, ActionsAssumption DEF RouteInv, Withheld, PastFence, Fenced
    <2>6. QED
      BY <2>4, <2>5
  <1>4. QED
    BY <1>2, <1>3

LEMMA ClientRoute ==
    ASSUME "scale" \notin Actions, TypeInv, QueueInv, QueueInv', ProcessInv, Follows(ops, ops'),
           LeaseInv, RouteInv, NEW c \in Clients, Client(c)
    PROVE  RouteInv'
  <1> DEFINE o == req[c].op
  <1>1. /\ svc \in RowType /\ ops \in [OpIds -> OpType] /\ req[c] \in ReqType /\ o \in OpIds
        /\ req[c].r \in Counts /\ 1 \in OpIds /\ ClientInv(c) /\ UNCHANGED wk
    BY ClientTouches, BoundAssumption DEF TypeInv, ReqType, ProcessInv, OpIds
  <1>2. \A w \in Workers : PastFence(w)' => PastFence(w)
    <2>1. \A w \in Workers : pc[w] # "idle" => Known(ops, loc[w].op) /\ loc[w].op \in OpIds
      BY DEF LeaseInv, Leased, Known, TypeInv, LocType
    <2>2. QED
      BY <1>1, <2>1 DEF PastFence, Follows, wk, Fenced
  <1>3. CASE \E r \in Replicas : CreateWithOperation(c, r)
    <2>1. /\ svc.here = "none" /\ svc'.here = "live" /\ svc'.status = "pending" /\ UNCHANGED gate
      BY <1>1, <1>3 DEF CreateWithOperation, RowType, QueueInv, CreateInv, NoRow
    <2>2. Withheld
      BY <2>1 DEF RouteInv
    <2>3. QED
      BY <1>2, <2>1, <2>2, RouteStill
  <1>4. CASE RequestMutation(c)
    <2>1. req[c].type \in Actions \ {"scale"}
      BY <1>4 DEF RequestMutation, TypeInv, Asks
    <2>2. QED
      BY <1>1, <1>4, <2>1, MutateRoute DEF RequestMutation
  <1>5. CASE AbortCreate(c) \/ AbortPendingMutation(c)
    <2>1. /\ ops[o].state = "pending" /\ svc.here = "live" /\ UNCHANGED gate
          /\ \E s \in {"erased", "cancelled"} : ops' = Closed(o, s)
          /\ AbortCreate(c) => svc'.here = "erased"
          /\ AbortPendingMutation(c) => svc'.here = "live" /\ req[c].type # "create"
      BY <1>1, <1>5 DEF AbortCreate, AbortPendingMutation, AbortFits, RowType
    <2>2. \A q \in OpIds : ops'[q].state \in Active => ops'[q] = ops[q]
      BY <1>1, <2>1, ClosedFits DEF Active, Ended
    <2>3. AbortPendingMutation(c) => Withheld
      <3>1. AbortPendingMutation(c) => ops[o].type = req[c].type
        BY <1>1 DEF AbortPendingMutation, ClientInv
      <3>2. AbortPendingMutation(c) => ops[o].type = "start"
        BY <1>1, <2>1, <3>1 DEF ReqType, OpType
      <3>3. QED
        BY <1>1, <2>1, <3>2 DEF RouteInv, Active
    <2>4. QED
      BY <1>2, <1>5, <2>1, <2>2, <2>3, RouteStill
  <1>6. CASE BindRuntime(c)
    <2>1. svc' = svc \/ (svc'.here = svc.here /\ svc'.status = "deploying")
      BY <1>1, <1>6 DEF BindRuntime, RowType
    <2>2. QED
      BY <1>2, <1>6, <2>1, RouteStill DEF BindRuntime
  <1>7. CASE \/ \E r \in Replicas : ReadBefore(c, "scale", r)
             \/ ReadBefore(c, "start", 0) \/ Dispatch(c) \/ DropRequest(c)
    BY <1>2, <1>7, RouteStill DEF ReadBefore, Dispatch, DropRequest, row
  <1>8. QED
    BY <1>3, <1>4, <1>5, <1>6, <1>7 DEF Client

LEMMA WorkerRoute ==
    ASSUME "scale" \notin Actions, TypeInv, TypeInv', QueueInv, QueueInv', ProcessInv, Follows(ops, ops'),
           LeaseInv, LeaseInv', RouteInv, NEW w \in Workers, Worker(w) \/ Crash(w)
    PROVE  RouteInv'
  <1> DEFINE o == loc[w].op
  <1>1. /\ svc \in RowType /\ ops \in [OpIds -> OpType] /\ ops[o] \in OpType /\ o \in OpIds
        /\ pc \in [Workers -> Steps] /\ loc \in [Workers -> LocType] /\ WorkerInv(w)
        /\ \A v \in Workers : loc[v].op \in OpIds
    BY DEF TypeInv, LocType, ProcessInv
  <1>2. \A v \in Workers : pc[v] # "idle" => Known(ops, loc[v].op) /\ ops[loc[v].op].state \in Active
    BY DEF LeaseInv, Leased, Known, Active
  <1>3. \A v \in Workers : pc[v] # "idle" => ops'[loc[v].op].type = ops[loc[v].op].type
    BY <1>1, <1>2 DEF Follows
  <1>4. Alone(w)
    BY <1>1, WorkerTouches DEF Claim, Alone
  <1>5. ASSUME NEW v \in Workers, PastFence(v)' PROVE PastFence(v) \/ Withheld
    <2>1. CASE v # w
      BY <1>3, <1>4, <1>5, <2>1 DEF Alone, PastFence, Fenced
    <2>2. CASE v = w /\ pc[w] = "idle"
      BY <1>1, <1>5, <2>2, WorkerTouches DEF Claim, PastFence, Fenced
    <2>3. CASE v = w /\ pc[w] # "idle"
      BY <1>3, <1>5, <2>3, FenceKept
    <2>4. QED
      BY <2>1, <2>2, <2>3
  <1>6. \A q \in OpIds : ops'[q].state \in Active => ops[q].state \in Active /\ ops'[q].type = ops[q].type
    <2>1. SUFFICES ASSUME NEW q \in OpIds, ops'[q].state \in Active
                   PROVE  ops[q].state \in Active /\ ops'[q].type = ops[q].type
      OBVIOUS
    <2>2. CASE Claim(w)
      BY <1>1, <2>1, <2>2 DEF Claim, Claimable, OpType
    <2>3. CASE ~Claim(w)
      <3>1. pc[w] # "idle" /\ (q # o => ops'[q] = ops[q])
        BY <2>3, WorkerTouches
      <3>2. q = o => ops[q].state \in Active /\ ops'[q].type = ops[q].type
        BY <1>2, <1>3, <3>1
      <3>3. QED
        BY <2>1, <3>1, <3>2
    <2>4. QED
      BY <2>2, <2>3
  <1>7. ASSUME UNCHANGED gate,
               svc' = svc \/ (svc'.here # "none" /\ svc'.status # "stopped") \/ (svc'.here # "none" /\ Withheld)
        PROVE  RouteInv'
    BY <1>5, <1>6, <1>7, RouteStill
  <1>8. pc[w] # "idle" => svc.here = "live" /\ ops[o].type # "scale"
    BY <1>1, <1>2, ActiveIsCurrent DEF OpType
  <1>9. CASE \/ Claim(w) \/ Load(w) \/ FenceCheck(w) \/ Refetch(w) \/ Act(w) \/ Observe(w)
             \/ Retry(w) \/ Rollback(w) \/ Crash(w)
    BY <1>7, <1>9 DEF Claim, Load, FenceCheck, Refetch, Act, Observe, Retry, Rollback, Crash, row
  <1>10. CASE Bind(w) \/ Partial(w) \/ Terminal(w)
    <2>1. UNCHANGED gate /\ pc[w] # "idle"
      BY <1>10 DEF Bind, Partial, Terminal
    <2>2. svc' = svc \/ (svc'.here = svc.here /\ svc'.status \in {"deploying", "failed"})
      BY <1>1, <1>10 DEF Bind, Partial, Terminal, RowType, row
    <2>3. QED
      BY <1>7, <1>8, <2>1, <2>2
  <1>11. CASE Abandon(w)
    <2>1. pc[w] = "abandon" /\ UNCHANGED gate
      BY <1>11 DEF Abandon
    <2>2. UNCHANGED row
      BY <1>8, <1>11, <2>1, Zenon DEF Abandon
    <2>3. QED
      BY <1>7, <2>1, <2>2 DEF row
  <1>12. CASE FinishRollback(w)
    BY <1>1, <1>8, <1>12 DEF FinishRollback, WorkerInv
  <1>13. CASE Finish(w)
    <2>1. /\ pc[w] = "finish" /\ svc.here = "live" /\ Leased(w) /\ pc' = [pc EXCEPT ![w] = "idle"]
      BY <1>1, <1>8, <1>13 DEF Finish, LeaseInv, Returns
    <2>2. CASE ~Applies(w)
      BY <1>7, <1>13, <2>2 DEF Finish, row
    <2>3. CASE Applies(w)
      <3> DEFINE type == ops[o].type
      <3>1. /\ svc'.here \in {"gone", "live"}
            /\ svc'.status = IF type \in {"delete", "stop"} THEN "stopped" ELSE "running"
            /\ ops' = Closed(o, "completed")
            /\ \/ Publishes(type) /\ wanted' = TRUE /\ confirmed' = FALSE
               \/ UNCHANGED gate
        BY <1>1, <1>13, <2>1, <2>3 DEF Finish, RowType
      <3>2. CASE UNCHANGED gate
        <4>1. svc'.status = "stopped" => Withheld
          BY <1>1, <2>1, <3>1 DEF RouteInv, PastFence, Fenced, NeedsWithdrawal
        <4>2. QED
          BY <1>7, <3>1, <3>2, <4>1
      <3>3. CASE Publishes(type) /\ ~Withheld'
        <4>1. \A q \in OpIds : ops'[q].state \notin Active
          <5>1. ops'[o].state = "completed"
            BY <1>1, <3>1, ClosedFits DEF Ended
          <5>2. QED
            BY <1>1, <1>2, <1>6, <2>1, <5>1, ActiveIsCurrent DEF Active
        <4>2. \A v \in Workers : pc'[v] = "idle"
          <5>1. \A v \in Workers : loc'[v].op \in OpIds
            BY DEF TypeInv, LocType
          <5>2. QED
            BY <4>1, <5>1 DEF LeaseInv, Leased, Active
        <4>3. svc'.status = "running"
          BY <3>1, <3>3 DEF Publishes
        <4>4. QED
          BY <3>1, <3>3, <4>1, <4>2, <4>3 DEF RouteInv, PastFence, Fenced
      <3>4. QED
        BY <3>1, <3>2, <3>3 DEF Withheld
    <2>4. QED
      BY <2>2, <2>3
  <1>14. QED
    BY <1>9, <1>10, <1>11, <1>12, <1>13 DEF Worker

LEMMA RouteNext ==
    ASSUME LeaseHolds, "scale" \notin Actions, IInv, IInv', LeaseInv, LeaseInv', RouteInv, [Next]_vars
    PROVE  RouteInv'
  <1>1. TypeInv /\ QueueInv /\ ProcessInv /\ QueueInv' /\ Follows(ops, ops') /\ TypeInv'
    BY InvNext DEF IInv
  <1>2. ASSUME NEW a \in Actions, RequestWithdrawn(a) PROVE RouteInv'
    <2>1. 0 \in Counts /\ UNCHANGED wk /\ a \in Actions \ {"scale"}
      BY <1>2 DEF Counts, RequestWithdrawn
    <2>2. QED
      BY <1>1, <1>2, <2>1, MutateRoute DEF RequestWithdrawn
  <1>3. ASSUME NEW o \in OpIds, LeaseExpires(o) \/ Age(o) PROVE RouteInv'
    <2>1. /\ UNCHANGED <<svc, gate, wk>>
          /\ \A q \in OpIds : ops'[q].state = ops[q].state /\ ops'[q].type = ops[q].type
      BY <1>1, <1>3 DEF LeaseExpires, Age, TypeInv, OpType
    <2>2. \A w \in Workers : PastFence(w)' => PastFence(w)
      BY <1>1, <2>1 DEF PastFence, wk, TypeInv, LocType
    <2>3. QED
      BY <2>1, <2>2, RouteStill
  <1>4. CASE Publish
    <2>1. UNCHANGED <<svc, ops, wk>> /\ svc.here = "live"
      BY <1>4 DEF Publish, row
    <2>2. \/ ~Withheld /\ wanted' = wanted /\ confirmed' = confirmed
          \/ /\ ~confirmed /\ (~wanted => objects = {})
             /\ confirmed' = TRUE /\ wanted' = wanted /\ objects' = objects
      BY <1>4 DEF Publish, Withheld, Fence!ChangeObjects, Fence!Confirm
    <2>3. (Withheld => Withheld') /\ (Withheld' => objects' = {})
      BY <2>2 DEF Withheld
    <2>4. \A w \in Workers : PastFence(w)' => PastFence(w)
      BY <2>1 DEF PastFence, wk
    <2>5. QED
      BY <2>1, <2>3, <2>4 DEF RouteInv
  <1>5. CASE GraceOver \/ UNCHANGED vars
    <2>1. UNCHANGED <<svc, ops, gate, wk>>
      BY <1>5 DEF GraceOver, vars, row
    <2>2. \A w \in Workers : PastFence(w)' => PastFence(w)
      BY <2>1 DEF PastFence, wk
    <2>3. QED
      BY <2>1, <2>2, RouteStill
  <1>6. QED
    BY <1>1, <1>2, <1>3, <1>4, <1>5, ClientRoute, WorkerRoute DEF Next

\* The only calls that take a runtime down come when the route is withdrawn.
LEMMA TakedownStep ==
    ASSUME "scale" \notin Actions, IInv, LeaseInv, RouteInv, [Next]_vars, core.up, ~core'.up
    PROVE  objects = {}
  <1>1. TypeInv /\ QueueInv /\ ProcessInv /\ core \in CoreType /\ ops \in [OpIds -> OpType]
    BY DEF IInv, TypeInv
  <1>2. CreateRecorded
    BY <1>1 DEF ProcessInv, CoreInv
  <1>3. SUFFICES Withheld
    BY DEF RouteInv
  <1>4. ASSUME NEW o \in OpIds, ops[o].type = "create", Known(ops, o),
               NEW x \in PostWorkload(MutationKey(ops[o].target), ops[o].spec), Apply(x)
        PROVE  FALSE
    <2>1. o = 1 /\ ops[1].spec \in Counts
      BY <1>1, <1>4, OnlyCreateIsFirst DEF OpType
    <2>2. x.core = core
      BY <1>1, <1>2, <1>4, <2>1, PostRecords DEF CreateRecorded
    <2>3. QED
      BY <1>4, <2>2 DEF Apply
  <1>5. ASSUME NEW c \in Clients, Dispatch(c) PROVE FALSE
    <2> DEFINE o == req[c].op
               key == MutationKey(ops[o].target)
    <2>1. /\ o \in OpIds /\ Known(ops, o) /\ ops[o].type = req[c].type /\ req[c] \in ReqType
          /\ ops[o].type # "scale" /\ (~req[c].ref => ops[o].type = "create")
      BY <1>1, <1>5 DEF Dispatch, TypeInv, ReqType, OpType, ProcessInv, ClientInv
    <2>2. PICK x \in IF ops[o].type = "start" /\ req[c].ref THEN Lifecycle(key, "start")
                     ELSE Ensure(key, req[c].ref, ops[o].spec) : Apply(x)
      BY <1>5 DEF Dispatch
    <2>3. CASE req[c].ref /\ ops[o].type = "start"
      BY <1>1, <2>2, <2>3, LifecycleIsGentle DEF Apply
    <2>4. CASE req[c].ref /\ ops[o].type # "start"
      BY <1>1, <2>1, <2>2, <2>4, PatchIsGentle DEF Apply, Ensure, OpType
    <2>5. CASE ~req[c].ref
      BY <1>4, <2>1, <2>2, <2>5 DEF Ensure
    <2>6. QED
      BY <2>3, <2>4, <2>5
  <1>6. ASSUME NEW w \in Workers, Act(w) PROVE Withheld
    <2> DEFINE o == loc[w].op
               key == MutationKey(ops[o].target)
               ref == loc[w].snap.ref
    <2>1. /\ o \in OpIds /\ Known(ops, o) /\ ops[o] \in OpType /\ ref \in BOOLEAN
          /\ ref \/ ops[o].type \in {"create", "delete"}
          /\ pc[w] = "act"
      BY <1>1, <1>6 DEF Act, TypeInv, LocType, RowType, ProcessInv, WorkerInv
    <2>2. PICK x \in Intended(ops[o].type, key, ref, ops[o].spec) : Apply(x)
      BY <1>6 DEF Act
    <2>3. ops[o].type \in {"create", "start", "stop", "restart", "delete"}
      BY <1>1, <2>1, OnlyCreateIsFirst, ActionsAssumption DEF OpType
    <2>4. CASE ops[o].type \in {"stop", "restart", "delete"}
      BY <2>1, <2>4 DEF RouteInv, PastFence, Fenced, NeedsWithdrawal
    <2>5. CASE ops[o].type = "start"
      <3>1. x \in Lifecycle(key, "start")
        BY <2>1, <2>2, <2>5, Zenon DEF Intended
      <3>2. QED
        BY <1>1, <2>2, <3>1, LifecycleIsGentle DEF Apply
    <2>6. CASE ops[o].type = "create"
      <3>1. IF ref THEN x \in Seen ELSE x \in PostWorkload(key, ops[o].spec)
        BY <2>2, <2>6, Zenon DEF Intended
      <3>2. CASE ref
        BY <2>2, <3>1, <3>2 DEF Seen, Outcome, Apply
      <3>3. CASE ~ref
        BY <1>4, <2>1, <2>2, <2>6, <3>1, <3>3
      <3>4. QED
        BY <3>2, <3>3
    <2>7. QED
      BY <2>3, <2>4, <2>5, <2>6
  <1>7. ASSUME NEW w \in Workers, Abandon(w) PROVE Withheld
    <2> DEFINE o == loc[w].op
    <2>1. /\ o \in OpIds /\ Leased(w) /\ pc[w] = "abandon" /\ ops[o] \in OpType
      BY <1>1, <1>7 DEF Abandon, LeaseInv, TypeInv, LocType
    <2>2. Publishes(ops[o].type)
      BY <1>1, <1>7, <2>1, Zenon DEF Abandon, OpType, coreVars
    <2>3. CASE ops[o].type \in {"create", "start"}
      BY <2>1, <2>3 DEF RouteInv, Leased, Active
    <2>4. CASE ops[o].type = "restart"
      BY <2>1, <2>4 DEF RouteInv, PastFence, Fenced, NeedsWithdrawal
    <2>5. QED
      BY <2>2, <2>3, <2>4 DEF Publishes
  <1>8. ASSUME NEW w \in Workers, Rollback(w) PROVE FALSE
    BY <1>1, <1>8 DEF Rollback, TypeInv, LocType, OpType, ProcessInv, WorkerInv
  <1>9. ASSUME NEW c \in Clients, Client(c), ~Dispatch(c) PROVE core' = core
    BY <1>9 DEF Client, CreateWithOperation, ReadBefore, RequestMutation, BindRuntime, AbortCreate,
                AbortPendingMutation, DropRequest, coreVars
  <1>10. ASSUME NEW w \in Workers, Worker(w) \/ Crash(w), ~Act(w), ~Abandon(w), ~Rollback(w)
         PROVE  core' = core
    BY <1>10 DEF Worker, Crash, Claim, Load, FenceCheck, Refetch, Bind, Observe, Partial, Finish,
                 Retry, Terminal, FinishRollback, coreVars
  <1>11. ASSUME \/ \E a \in Actions : RequestWithdrawn(a)
                \/ \E o \in OpIds : LeaseExpires(o) \/ Age(o)
                \/ GraceOver \/ Publish \/ UNCHANGED vars
         PROVE  core' = core
    BY <1>11 DEF RequestWithdrawn, LeaseExpires, Age, GraceOver, Publish, vars, coreVars
  <1>12. QED
    BY <1>5, <1>6, <1>7, <1>8, <1>9, <1>10, <1>11 DEF Next

(***************************************************************************)
(* A runtime is taken down only when no gateway route points to it, as     *)
(* long as no lease runs out under its worker and nobody scales: the abort *)
(* of a scale may bring back a status read long before.                    *)
(***************************************************************************)
THEOREM NoRouteLeftBehind ==
    ASSUME LeaseHolds, "scale" \notin Actions
    PROVE  Spec => NoTakedownUnderRoute
  <1> DEFINE J == IInv /\ LeaseInv /\ RouteInv
  <1>1. Init => J
    <2>1. SUFFICES ASSUME Init PROVE J
      OBVIOUS
    <2>2. IInv
      BY <2>1, InvInit
    <2>3. /\ Withheld /\ objects = {}
          /\ \A w \in Workers : pc[w] = "idle"
      BY <2>1 DEF Init, Fence!FenceInit, Withheld
    <2>4. QED
      BY <2>2, <2>3 DEF LeaseInv, RouteInv, PastFence, Fenced
  <1>2. J /\ [Next]_vars => J'
    <2>1. SUFFICES ASSUME J, [Next]_vars PROVE J'
      OBVIOUS
    <2>2. IInv'
      BY <2>1, InvNext
    <2>3. LeaseInv'
      BY <2>1, LeaseNext DEF IInv
    <2>4. QED
      BY <2>1, <2>2, <2>3, RouteNext
  <1>3. J /\ [Next]_vars => [(core.up /\ ~core'.up) => objects = {}]_vars
    BY TakedownStep
  <1>4. QED
    BY <1>1, <1>2, <1>3, PTL DEF Spec, NoTakedownUnderRoute
=============================================================================
