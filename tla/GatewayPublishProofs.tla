------------------------ MODULE GatewayPublishProofs ------------------------
(***************************************************************************)
(* Proofs about GatewayPublish, for any number of publishers, any lease    *)
(* and request timeouts LoadConfig accepts and any number of requests.     *)
(***************************************************************************)
EXTENDS GatewayPublish, TLAPS

\* A publisher in the middle of RunOnce whose token is still in the row.
Active(p) == holder = p /\ pc[p] # "idle"

(***************************************************************************)
(* The arithmetic of the lease.  While nextRenew lies ahead the lease has  *)
(* more than half of its time left, and a lease outlives the open call.    *)
(***************************************************************************)
LeaseInv ==
    \A p \in Publishers :
        /\ renewLeft[p] > 0 =>
              /\ holder = p
              /\ leaseLeft + RenewAfter >= renewLeft[p] + LeaseDuration
        /\ call[p] # "none" =>
              /\ holder = p /\ pc[p] \in {"apply", "delete"}
              /\ leaseLeft > callLeft[p]

\* What a publisher does follows from what it claimed.
ClaimInv ==
    \A p \in Publishers :
        /\ pc[p] \in {"apply", "ready"} => tgtWant[p] = "published"
        /\ pc[p] \in {"delete", "gone"} => tgtWant[p] = "unpublished"
        /\ pc[p] # "idle" /\ tgtWant[p] = "published" => tgtGen[p] > 0

\* A settled row has no holder; a URL belongs to a settled row.
RowInv ==
    /\ phase \in {"published", "unpublished"} => holder = NoPublisher /\ desired = phase
    /\ desired = "published" => gen > 0 /\ dying = {}
    /\ url => phase = "published" /\ obs = gen

\* The objects publish has applied when it stands at step s and object k.
Applied(s, k) ==
    CASE s = "apply" /\ k = "AIServiceBackend" -> {"Backend"}
      [] s = "apply" /\ k = "AIGatewayRoute" -> {"Backend", "AIServiceBackend"}
      [] s \in {"ready", "completing", "complete"} -> Kinds
      [] OTHER -> {}

\* The objects unpublish has seen disappear.
Cleared(s, k) ==
    CASE s \in {"delete", "gone"} /\ k = "AIServiceBackend" -> {"AIGatewayRoute"}
      [] s \in {"delete", "gone"} /\ k = "Backend" -> {"AIGatewayRoute", "AIServiceBackend"}
      [] s \in {"completing", "complete"} -> Kinds
      [] OTHER -> {}

\* How far the active publisher has come is true of the cluster.
PublishInv ==
    \A p \in Publishers : Active(p) /\ tgtWant[p] = "published" =>
        /\ dying = {}
        /\ \A k \in Applied(pc[p], at[p]) : label[k] = tgtGen[p]

UnpublishInv ==
    \A p \in Publishers : Active(p) /\ tgtWant[p] = "unpublished" =>
        /\ desired = "unpublished"
        /\ \A k \in Cleared(pc[p], at[p]) : label[k] = 0

\* A backend is being deleted only when the route is gone.
DyingInv ==
    /\ \A k \in dying : label[k] # 0
    /\ dying \cap {"Backend", "AIServiceBackend"} # {} => label["AIGatewayRoute"] = 0

IInv ==
    /\ TypeOK /\ LeaseInv /\ ClaimInv /\ RowInv
    /\ PublishInv /\ UnpublishInv /\ DyingInv
    /\ WithdrawnMeansNoObjects /\ RouteNeverDangles /\ UrlMeansRouted

-----------------------------------------------------------------------------
(* The half of the lease that renewLease keeps in hand.                    *)

\* LeaseDuration/2 is a natural number and at most half of the lease.
LEMMA HalfLease == RenewAfter \in Nat /\ 2 * RenewAfter <= LeaseDuration
  BY TimingAssumption DEF RenewAfter

\* Down never goes below zero and never up.
LEMMA DownType == \A n \in Nat : Down(n) \in Nat /\ Down(n) <= n
  BY DEF Down

-----------------------------------------------------------------------------
(* Type correctness.                                                       *)

\* A step within the model keeps every variable in its type.
LEMMA TypeStep == TypeOK /\ [Next]_vars => TypeOK'
<1> SUFFICES ASSUME TypeOK, [Next]_vars PROVE TypeOK'
  OBVIOUS
<1> USE TimingAssumption, HalfLease DEF TypeOK, Wants, Phases, Steps, Kinds
<1>1. CASE Withdraw
  <2>1. url' \in BOOLEAN
    BY <1>1 DEF Withdraw
  <2>2. QED
    BY <1>1, <2>1 DEF Withdraw, kube, proc
<1>2. CASE AskPublish
  <2>1. url' \in BOOLEAN
    BY <1>2 DEF AskPublish
  <2>2. gen' \in Nat
    BY <1>2, BoundAssumption DEF AskPublish
  <2>3. QED
    BY <1>2, <2>1, <2>2 DEF AskPublish, kube, proc
<1>3. CASE \E k \in Kinds : Collect(k)
  BY <1>3 DEF Collect, row, proc
<1>4. ASSUME NEW p \in Publishers, Publisher(p) PROVE TypeOK'
  <2>1. CASE Claim(p)
    BY <2>1 DEF Claim, kube
  <2>2. CASE Open(p)
    BY <2>2 DEF Open, RenewLease, kube
  <2>3. CASE LoseLease(p)
    BY <2>3 DEF LoseLease, row, kube
  <2>4. CASE BeginCall(p)
    BY <2>4 DEF BeginCall, RenewLease, kube
  <2>5. CASE Inspect(p)
    BY <2>5 DEF Inspect, Goto, row, kube
  <2>6. CASE Write(p)
    <3>1. label' \in [Kinds -> Nat] /\ dying' \in SUBSET Kinds
      <4>1. at[p] \in Kinds /\ tgtGen[p] \in Nat
        OBVIOUS
      <4>2. label' \in {label, [label EXCEPT ![at[p]] = tgtGen[p]]}
        BY <2>6 DEF Write
      <4>3. dying' \in {dying, dying \cup {at[p]}}
        BY <2>6 DEF Write
      <4> QED
        BY <4>1, <4>2, <4>3
    <3>2. PICK s \in Steps, k \in Kinds : Goto(p, s, k)
      <4>1. at[p] \in Kinds /\ AfterApply(at[p]) \in Kinds
        BY DEF AfterApply
      <4> QED
        BY <2>6, <4>1 DEF Write
    <3> QED
      BY <2>6, <3>1, <3>2 DEF Write, Goto, row
  <2>7. CASE StepFails(p)
    BY <2>7 DEF StepFails, Goto, row, kube
  <2>8. CASE PollRenew(p)
    BY <2>8 DEF PollRenew, RenewLease, kube
  <2>9. CASE Ready(p)
    BY <2>9 DEF Ready, Goto, row, kube
  <2>10. CASE Gone(p)
    <3>1. PICK s \in Steps, k \in Kinds : Goto(p, s, k)
      BY <2>10 DEF Gone
    <3> QED
      BY <2>10, <3>1 DEF Gone, Goto, row, kube
  <2>11. CASE SettleRenew(p)
    BY <2>11 DEF SettleRenew, RenewLease, kube
  <2>12. CASE CompletePublication(p)
    <3>1. url' \in BOOLEAN
      BY <2>12 DEF CompletePublication
    <3> QED
      BY <2>12, <3>1 DEF CompletePublication, Release, kube
  <2>13. CASE FailPublication(p)
    <3>1. url' \in BOOLEAN
      <4>1. CASE desired = "published"
        BY <2>13, <4>1 DEF FailPublication
      <4>2. CASE desired # "published"
        BY <2>13, <4>2 DEF FailPublication
      <4> QED
        BY <4>1, <4>2
    <3>2. phase' = "failed" /\ Release(p) /\ UNCHANGED <<gen, obs, desired, kube>>
      BY <2>13, Zenon DEF FailPublication
    <3> QED
      BY <3>1, <3>2 DEF Release, kube
  <2>14. CASE StaleResult(p)
    BY <2>14 DEF StaleResult, row, kube
  <2>15. CASE Crash(p)
    BY <2>15 DEF Crash, row, kube
  <2> QED
    BY <1>4, <2>1, <2>2, <2>3, <2>4, <2>5, <2>6, <2>7, <2>8, <2>9, <2>10, <2>11, <2>12,
       <2>13, <2>14, <2>15 DEF Publisher
<1>5. CASE Tick
  BY <1>5, DownType DEF Tick, kube
<1>6. CASE UNCHANGED vars
  BY <1>6 DEF vars, row, kube, proc
<1> QED
  BY <1>1, <1>2, <1>3, <1>4, <1>5, <1>6 DEF Next

-----------------------------------------------------------------------------
(* The lease.                                                              *)

\* The lease arithmetic survives every step: a publisher renews in time or stops.
LEMMA LeaseStep == TypeOK /\ LeaseInv /\ [Next]_vars => LeaseInv'
<1> SUFFICES ASSUME TypeOK, LeaseInv, [Next]_vars PROVE LeaseInv'
  OBVIOUS
<1> USE TimingAssumption, HalfLease, PublishersAssumption DEF TypeOK, LeaseInv
<1>1. CASE Withdraw
  BY <1>1 DEF Withdraw, kube, proc
<1>2. CASE AskPublish
  BY <1>2 DEF AskPublish, Settled, kube, proc
<1>3. ASSUME NEW k \in Kinds, Collect(k) PROVE LeaseInv'
  BY <1>3 DEF Collect, row, proc
<1>4. ASSUME NEW p \in Publishers, Publisher(p) PROVE LeaseInv'
  <2>1. CASE Claim(p)
    BY <2>1 DEF Claim, Claimable, kube
  <2>2. CASE Open(p)
    BY <2>2 DEF Open, RenewLease, Renewable, kube
  <2>3. CASE LoseLease(p)
    BY <2>3 DEF LoseLease, row, kube
  <2>4. CASE BeginCall(p)
    BY <2>4 DEF BeginCall, MustRenew, RenewLease, Renewable, kube
  <2>5. CASE Inspect(p)
    BY <2>5 DEF Inspect, Goto, row, kube
  <2>6. CASE Write(p)
    BY <2>6 DEF Write, Goto, row
  <2>7. CASE StepFails(p)
    BY <2>7 DEF StepFails, Goto, row, kube
  <2>8. CASE PollRenew(p)
    BY <2>8 DEF PollRenew, RenewLease, Renewable, kube
  <2>9. CASE Ready(p)
    BY <2>9 DEF Ready, Goto, row, kube
  <2>10. CASE Gone(p)
    BY <2>10 DEF Gone, Goto, row, kube
  <2>11. CASE SettleRenew(p)
    BY <2>11 DEF SettleRenew, RenewLease, Renewable, kube
  <2>12. CASE CompletePublication(p)
    BY <2>12 DEF CompletePublication, CompleteAllowed, Release, kube
  <2>13. CASE FailPublication(p)
    BY <2>13 DEF FailPublication, FailAllowed, Release, kube
  <2>14. CASE StaleResult(p)
    BY <2>14 DEF StaleResult, row, kube
  <2>15. CASE Crash(p)
    BY <2>15 DEF Crash, row, kube
  <2> QED
    BY <1>4, <2>1, <2>2, <2>3, <2>4, <2>5, <2>6, <2>7, <2>8,
       <2>9, <2>10, <2>11, <2>12, <2>13, <2>14, <2>15 DEF Publisher
<1>5. CASE Tick
  BY <1>5 DEF Tick, Down, kube
<1>6. CASE UNCHANGED vars
  BY <1>6 DEF vars, row, kube, proc
<1> QED
  BY <1>1, <1>2, <1>3, <1>4, <1>5, <1>6 DEF Next

-----------------------------------------------------------------------------
(* What the row and the publishers know about each other.                  *)

\* A publisher keeps doing what it claimed the row for.
LEMMA ClaimStep ==
  ( /\ TypeOK /\ RowInv /\ LeaseInv /\ ClaimInv
    /\ [Next]_vars ) => ClaimInv'
<1> SUFFICES ASSUME TypeOK, RowInv, LeaseInv, ClaimInv,
                    [Next]_vars
             PROVE  ClaimInv'
  OBVIOUS
<1> USE DEF TypeOK, RowInv, LeaseInv, ClaimInv, Wants
<1>1. CASE Withdraw
  BY <1>1 DEF Withdraw, kube, proc
<1>2. CASE AskPublish
  BY <1>2 DEF AskPublish, Settled, kube, proc
<1>3. ASSUME NEW k \in Kinds, Collect(k) PROVE ClaimInv'
  BY <1>3 DEF Collect, row, proc
<1>4. ASSUME NEW p \in Publishers, Publisher(p) PROVE ClaimInv'
  <2>1. CASE Claim(p)
    BY <2>1 DEF Claim, Claimable, kube
  <2>2. CASE Open(p)
    BY <2>2 DEF Open, RenewLease, Renewable, kube
  <2>3. CASE LoseLease(p)
    BY <2>3 DEF LoseLease, row, kube
  <2>4. CASE BeginCall(p)
    BY <2>4 DEF BeginCall, RenewLease, Renewable, kube
  <2>5. CASE Inspect(p)
    BY <2>5 DEF Inspect, Goto, row, kube
  <2>6. CASE Write(p)
    BY <2>6 DEF Write, Goto, row
  <2>7. CASE StepFails(p)
    BY <2>7 DEF StepFails, Goto, row, kube
  <2>8. CASE PollRenew(p)
    BY <2>8 DEF PollRenew, RenewLease, Renewable, kube
  <2>9. CASE Ready(p)
    BY <2>9 DEF Ready, Goto, row, kube
  <2>10. CASE Gone(p)
    BY <2>10 DEF Gone, Goto, row, kube
  <2>11. CASE SettleRenew(p)
    BY <2>11 DEF SettleRenew, RenewLease, Renewable, kube
  <2>12. CASE CompletePublication(p)
    BY <2>12 DEF CompletePublication, CompleteAllowed, Release, kube
  <2>13. CASE FailPublication(p)
    BY <2>13 DEF FailPublication, FailAllowed, Release, kube
  <2>14. CASE StaleResult(p)
    BY <2>14 DEF StaleResult, row, kube
  <2>15. CASE Crash(p)
    BY <2>15 DEF Crash, row, kube
  <2> QED
    BY <1>4, <2>1, <2>2, <2>3, <2>4, <2>5, <2>6, <2>7, <2>8,
       <2>9, <2>10, <2>11, <2>12, <2>13, <2>14, <2>15 DEF Publisher
<1>5. CASE Tick
  BY <1>5 DEF Tick, kube
<1>6. CASE UNCHANGED vars
  BY <1>6 DEF vars, row, kube, proc
<1> QED
  BY <1>1, <1>2, <1>3, <1>4, <1>5, <1>6 DEF Next

\* A row is settled only by the holder, which lets go of it in the same statement.
LEMMA RowStep ==
  ( /\ TypeOK /\ LeaseInv /\ ClaimInv /\ RowInv /\ DyingInv
    /\ PublishInv /\ UnpublishInv /\ WithdrawnMeansNoObjects
    /\ [Next]_vars ) => RowInv'
<1> SUFFICES ASSUME TypeOK, LeaseInv, ClaimInv, RowInv, DyingInv,
                    PublishInv, UnpublishInv, WithdrawnMeansNoObjects,
                    [Next]_vars
             PROVE  RowInv'
  OBVIOUS
<1> USE PublishersAssumption DEF TypeOK, LeaseInv, ClaimInv, RowInv, Wants
<1>1. CASE Withdraw
  BY <1>1 DEF Withdraw, kube, proc
<1>2. CASE AskPublish
  <2>1. Withdrawn
    BY <1>2 DEF AskPublish, Settled, Withdrawn
  <2>2. dying = {}
    BY <2>1 DEF WithdrawnMeansNoObjects, DyingInv
  <2>3. url' = FALSE /\ phase' = "pending" /\ gen' > 0 /\ dying' = dying
    BY <1>2, BoundAssumption DEF AskPublish, kube
  <2> QED
    BY <2>2, <2>3
<1>3. ASSUME NEW k \in Kinds, Collect(k) PROVE RowInv'
  BY <1>3 DEF Collect, row, proc
<1>4. ASSUME NEW p \in Publishers, Publisher(p) PROVE RowInv'
  <2>1. CASE Claim(p)
    BY <2>1 DEF Claim, Claimable, kube
  <2>2. CASE Open(p)
    BY <2>2 DEF Open, RenewLease, Renewable, kube
  <2>3. CASE LoseLease(p)
    BY <2>3 DEF LoseLease, row, kube
  <2>4. CASE BeginCall(p)
    BY <2>4 DEF BeginCall, RenewLease, Renewable, kube
  <2>5. CASE Inspect(p)
    BY <2>5 DEF Inspect, Goto, row, kube
  <2>6. CASE Write(p)
    <3>1. CASE pc[p] = "apply"
      BY <2>6, <3>1 DEF Write, row
    <3>2. CASE pc[p] = "delete"
      <4>1. desired = "unpublished"
        BY <2>6, <3>2 DEF Write, UnpublishInv, Active
      <4> QED
        BY <2>6, <4>1 DEF Write, row
    <3> QED
      BY <2>6, <3>1, <3>2 DEF Write
  <2>7. CASE StepFails(p)
    BY <2>7 DEF StepFails, Goto, row, kube
  <2>8. CASE PollRenew(p)
    BY <2>8 DEF PollRenew, RenewLease, Renewable, kube
  <2>9. CASE Ready(p)
    BY <2>9 DEF Ready, Goto, row, kube
  <2>10. CASE Gone(p)
    BY <2>10 DEF Gone, Goto, row, kube
  <2>11. CASE SettleRenew(p)
    BY <2>11 DEF SettleRenew, RenewLease, Renewable, kube
  <2>12. CASE CompletePublication(p)
    BY <2>12 DEF CompletePublication, CompleteAllowed, Release, kube
  <2>13. CASE FailPublication(p)
    BY <2>13 DEF FailPublication, FailAllowed, Release, kube
  <2>14. CASE StaleResult(p)
    BY <2>14 DEF StaleResult, row, kube
  <2>15. CASE Crash(p)
    BY <2>15 DEF Crash, row, kube
  <2> QED
    BY <1>4, <2>1, <2>2, <2>3, <2>4, <2>5, <2>6, <2>7, <2>8,
       <2>9, <2>10, <2>11, <2>12, <2>13, <2>14, <2>15 DEF Publisher
<1>5. CASE Tick
  BY <1>5 DEF Tick, kube
<1>6. CASE UNCHANGED vars
  BY <1>6 DEF vars, row, kube, proc
<1> QED
  BY <1>1, <1>2, <1>3, <1>4, <1>5, <1>6 DEF Next

-----------------------------------------------------------------------------
(* The progress of the active publisher, and the cluster.                  *)

\* While a publisher publishes, nobody else takes down what it has applied.
LEMMA PublishStep ==
  ( /\ TypeOK /\ LeaseInv /\ ClaimInv /\ RowInv /\ PublishInv
    /\ [Next]_vars ) => PublishInv'
<1> SUFFICES ASSUME TypeOK, LeaseInv, ClaimInv, RowInv, PublishInv,
                    [Next]_vars
             PROVE  PublishInv'
  OBVIOUS
<1> USE PublishersAssumption DEF TypeOK, LeaseInv, ClaimInv, RowInv, PublishInv, Active, Applied, Kinds, Wants
<1>1. CASE Withdraw
  BY <1>1 DEF Withdraw, kube, proc
<1>2. CASE AskPublish
  BY <1>2 DEF AskPublish, Settled, kube, proc
<1>3. ASSUME NEW k \in Kinds, Collect(k) PROVE PublishInv'
  BY <1>3 DEF Collect, row, proc
<1>4. ASSUME NEW p \in Publishers, Publisher(p) PROVE PublishInv'
  <2>1. CASE Claim(p)
    BY <2>1 DEF Claim, Claimable, kube
  <2>2. CASE Open(p)
    BY <2>2 DEF Open, RenewLease, Renewable, kube
  <2>3. CASE LoseLease(p)
    BY <2>3 DEF LoseLease, row, kube
  <2>4. CASE BeginCall(p)
    BY <2>4 DEF BeginCall, RenewLease, Renewable, kube
  <2>5. CASE Inspect(p)
    BY <2>5 DEF Inspect, Goto, row, kube
  <2>6. CASE Write(p)
    <3>1. holder = p /\ holder' = p /\ pc[p] \in {"apply", "delete"} /\ tgtWant' = tgtWant /\ tgtGen' = tgtGen
      BY <2>6 DEF Write, Goto, row
    <3>2. CASE pc[p] = "apply"
      <4>1. dying' = {} /\ label' = [label EXCEPT ![at[p]] = tgtGen[p]]
        BY <2>6, <3>1, <3>2 DEF Write
      <4>2. pc'[p] = "failing" \/ (at[p] = "AIGatewayRoute" /\ pc'[p] = "ready")
              \/ (at[p] # "AIGatewayRoute" /\ pc'[p] = "apply" /\ at'[p] = AfterApply(at[p]))
        BY <2>6, <3>2 DEF Write, Goto
      <4>3. \A k \in Applied(pc'[p], at'[p]) : label'[k] = tgtGen[p]
        BY <3>1, <3>2, <4>1, <4>2 DEF AfterApply
      <4> QED
        BY <3>1, <4>1, <4>3
    <3>3. CASE pc[p] = "delete"
      BY <3>1, <3>3
    <3> QED
      BY <3>1, <3>2, <3>3
  <2>7. CASE StepFails(p)
    BY <2>7 DEF StepFails, Goto, row, kube
  <2>8. CASE PollRenew(p)
    BY <2>8 DEF PollRenew, RenewLease, Renewable, kube
  <2>9. CASE Ready(p)
    BY <2>9 DEF Ready, Goto, row, kube
  <2>10. CASE Gone(p)
    BY <2>10 DEF Gone, Goto, row, kube
  <2>11. CASE SettleRenew(p)
    BY <2>11 DEF SettleRenew, RenewLease, Renewable, kube
  <2>12. CASE CompletePublication(p)
    BY <2>12 DEF CompletePublication, CompleteAllowed, Release, kube
  <2>13. CASE FailPublication(p)
    BY <2>13 DEF FailPublication, FailAllowed, Release, kube
  <2>14. CASE StaleResult(p)
    BY <2>14 DEF StaleResult, row, kube
  <2>15. CASE Crash(p)
    BY <2>15 DEF Crash, row, kube
  <2> QED
    BY <1>4, <2>1, <2>2, <2>3, <2>4, <2>5, <2>6, <2>7, <2>8,
       <2>9, <2>10, <2>11, <2>12, <2>13, <2>14, <2>15 DEF Publisher
<1>5. CASE Tick
  BY <1>5 DEF Tick, kube
<1>6. CASE UNCHANGED vars
  BY <1>6 DEF vars, row, kube, proc
<1> QED
  BY <1>1, <1>2, <1>3, <1>4, <1>5, <1>6 DEF Next

\* While a publisher unpublishes, nobody else puts back what it has cleared.
LEMMA UnpublishStep ==
  ( /\ TypeOK /\ LeaseInv /\ ClaimInv /\ RowInv /\ UnpublishInv
    /\ [Next]_vars ) => UnpublishInv'
<1> SUFFICES ASSUME TypeOK, LeaseInv, ClaimInv, RowInv, UnpublishInv,
                    [Next]_vars
             PROVE  UnpublishInv'
  OBVIOUS
<1> USE PublishersAssumption DEF TypeOK, LeaseInv, ClaimInv, RowInv, UnpublishInv, Active, Cleared, Kinds, Wants
<1>1. CASE Withdraw
  BY <1>1 DEF Withdraw, kube, proc
<1>2. CASE AskPublish
  BY <1>2 DEF AskPublish, Settled, kube, proc
<1>3. ASSUME NEW k \in Kinds, Collect(k) PROVE UnpublishInv'
  BY <1>3 DEF Collect, row, proc
<1>4. ASSUME NEW p \in Publishers, Publisher(p) PROVE UnpublishInv'
  <2>1. CASE Claim(p)
    BY <2>1 DEF Claim, Claimable, kube
  <2>2. CASE Open(p)
    BY <2>2 DEF Open, RenewLease, Renewable, kube
  <2>3. CASE LoseLease(p)
    BY <2>3 DEF LoseLease, row, kube
  <2>4. CASE BeginCall(p)
    BY <2>4 DEF BeginCall, RenewLease, Renewable, kube
  <2>5. CASE Inspect(p)
    BY <2>5 DEF Inspect, Goto, row, kube
  <2>6. CASE Write(p)
    BY <2>6 DEF Write, Goto, row
  <2>7. CASE StepFails(p)
    BY <2>7 DEF StepFails, Goto, row, kube
  <2>8. CASE PollRenew(p)
    BY <2>8 DEF PollRenew, RenewLease, Renewable, kube
  <2>9. CASE Ready(p)
    BY <2>9 DEF Ready, Goto, row, kube
  <2>10. CASE Gone(p)
    BY <2>10 DEF Gone, NotFound, Goto, row, kube
  <2>11. CASE SettleRenew(p)
    BY <2>11 DEF SettleRenew, RenewLease, Renewable, kube
  <2>12. CASE CompletePublication(p)
    BY <2>12 DEF CompletePublication, CompleteAllowed, Release, kube
  <2>13. CASE FailPublication(p)
    BY <2>13 DEF FailPublication, FailAllowed, Release, kube
  <2>14. CASE StaleResult(p)
    BY <2>14 DEF StaleResult, row, kube
  <2>15. CASE Crash(p)
    BY <2>15 DEF Crash, row, kube
  <2> QED
    BY <1>4, <2>1, <2>2, <2>3, <2>4, <2>5, <2>6, <2>7, <2>8,
       <2>9, <2>10, <2>11, <2>12, <2>13, <2>14, <2>15 DEF Publisher
<1>5. CASE Tick
  BY <1>5 DEF Tick, kube
<1>6. CASE UNCHANGED vars
  BY <1>6 DEF vars, row, kube, proc
<1> QED
  BY <1>1, <1>2, <1>3, <1>4, <1>5, <1>6 DEF Next

\* Backends are deleted only after the route has gone.
LEMMA DyingStep ==
  ( /\ TypeOK /\ LeaseInv /\ ClaimInv /\ RowInv /\ PublishInv
    /\ UnpublishInv /\ DyingInv
    /\ [Next]_vars ) => DyingInv'
<1> SUFFICES ASSUME TypeOK, LeaseInv, ClaimInv, RowInv, PublishInv,
                    UnpublishInv, DyingInv,
                    [Next]_vars
             PROVE  DyingInv'
  OBVIOUS
<1> USE PublishersAssumption DEF TypeOK, LeaseInv, ClaimInv, RowInv, DyingInv, Active, Kinds, Wants
<1>1. CASE Withdraw
  BY <1>1 DEF Withdraw, kube, proc
<1>2. CASE AskPublish
  BY <1>2 DEF AskPublish, Settled, kube, proc
<1>3. ASSUME NEW k \in Kinds, Collect(k) PROVE DyingInv'
  BY <1>3 DEF Collect, row, proc
<1>4. ASSUME NEW p \in Publishers, Publisher(p) PROVE DyingInv'
  <2>1. CASE Claim(p)
    BY <2>1 DEF Claim, Claimable, kube
  <2>2. CASE Open(p)
    BY <2>2 DEF Open, RenewLease, Renewable, kube
  <2>3. CASE LoseLease(p)
    BY <2>3 DEF LoseLease, row, kube
  <2>4. CASE BeginCall(p)
    BY <2>4 DEF BeginCall, RenewLease, Renewable, kube
  <2>5. CASE Inspect(p)
    BY <2>5 DEF Inspect, Goto, row, kube
  <2>6. CASE Write(p)
    <3>1. holder = p /\ pc[p] \in {"apply", "delete"}
      BY <2>6 DEF Write
    <3>2. CASE pc[p] = "apply"
      <4>1. dying = {}
        BY <3>1, <3>2 DEF PublishInv
      <4> QED
        BY <2>6, <3>2, <4>1 DEF Write
    <3>3. CASE pc[p] = "delete"
      <4>1. at[p] # "AIGatewayRoute" => label["AIGatewayRoute"] = 0
        BY <3>1, <3>3 DEF UnpublishInv, Cleared
      <4>2. label' = label /\ dying' = dying \cup (IF label[at[p]] = 0 THEN {} ELSE {at[p]})
        BY <2>6, <3>3 DEF Write
      <4> QED
        BY <4>1, <4>2
    <3> QED
      BY <3>1, <3>2, <3>3
  <2>7. CASE StepFails(p)
    BY <2>7 DEF StepFails, Goto, row, kube
  <2>8. CASE PollRenew(p)
    BY <2>8 DEF PollRenew, RenewLease, Renewable, kube
  <2>9. CASE Ready(p)
    BY <2>9 DEF Ready, Goto, row, kube
  <2>10. CASE Gone(p)
    BY <2>10 DEF Gone, Goto, row, kube
  <2>11. CASE SettleRenew(p)
    BY <2>11 DEF SettleRenew, RenewLease, Renewable, kube
  <2>12. CASE CompletePublication(p)
    BY <2>12 DEF CompletePublication, CompleteAllowed, Release, kube
  <2>13. CASE FailPublication(p)
    BY <2>13 DEF FailPublication, FailAllowed, Release, kube
  <2>14. CASE StaleResult(p)
    BY <2>14 DEF StaleResult, row, kube
  <2>15. CASE Crash(p)
    BY <2>15 DEF Crash, row, kube
  <2> QED
    BY <1>4, <2>1, <2>2, <2>3, <2>4, <2>5, <2>6, <2>7, <2>8,
       <2>9, <2>10, <2>11, <2>12, <2>13, <2>14, <2>15 DEF Publisher
<1>5. CASE Tick
  BY <1>5 DEF Tick, kube
<1>6. CASE UNCHANGED vars
  BY <1>6 DEF vars, row, kube, proc
<1> QED
  BY <1>1, <1>2, <1>3, <1>4, <1>5, <1>6 DEF Next

-----------------------------------------------------------------------------
(* Safety.                                                                 *)

\* The steps that touch the cluster.
LEMMA KubeSteps ==
  [Next]_vars => \/ UNCHANGED kube
                 \/ \E p \in Publishers : Write(p)
                 \/ \E k \in Kinds : Collect(k)
BY DEF Next, vars, Withdraw, AskPublish, Tick, Publisher, Claim, Open, LoseLease, BeginCall,
       Inspect, StepFails, PollRenew, Ready, Gone, SettleRenew, CompletePublication,
       FailPublication, StaleResult, Crash

\* The steps that touch the result columns.
LEMMA RowSteps ==
  [Next]_vars => \/ UNCHANGED <<gen, obs, desired, phase, url>>
                 \/ Withdraw
                 \/ AskPublish
                 \/ \E p \in Publishers : Claim(p) \/ CompletePublication(p) \/ FailPublication(p)
BY DEF Next, vars, row, Collect, Tick, Publisher, Open, LoseLease, BeginCall, Inspect, Write,
       StepFails, PollRenew, Ready, Gone, SettleRenew, StaleResult, Crash

\* A settled row has no call in flight: nobody writes to the cluster.
LEMMA SettledIsQuiet ==
  ASSUME TypeOK, LeaseInv, RowInv, Settled
  PROVE  \A p \in Publishers : ~Write(p) /\ ~Claim(p) /\ ~CompletePublication(p) /\ ~FailPublication(p)
BY PublishersAssumption
   DEF TypeOK, LeaseInv, RowInv, Settled, Write, Claim, Claimable, CompletePublication,
       CompleteAllowed, FailPublication, FailAllowed

\* A row gets settled by CompletePublication and by nothing else.
LEMMA SettlingStep ==
  ASSUME IInv, [Next]_vars, Settled'
  PROVE  \/ Settled /\ UNCHANGED <<gen, obs, desired, phase, url>>
         \/ \E p \in Publishers : CompletePublication(p)
<1> USE DEF IInv, TypeOK
<1>1. CASE Withdraw
  BY <1>1 DEF Withdraw, Settled
<1>2. CASE AskPublish
  BY <1>2 DEF AskPublish, Settled
<1>3. ASSUME NEW p \in Publishers, Claim(p) \/ FailPublication(p) PROVE FALSE
  BY <1>3 DEF Claim, FailPublication, Settled
<1> QED
  BY <1>1, <1>2, <1>3, RowSteps DEF Settled

\* What the active publisher knows when it completes.
LEMMA CompletionIsTrue ==
  ASSUME IInv, NEW p \in Publishers, CompletePublication(p)
  PROVE  /\ kube' = kube /\ desired' = desired /\ gen' = gen /\ phase' = desired
         /\ obs' = gen /\ ~Settled
         /\ desired = "unpublished" => \A k \in Kinds : label[k] = 0
         /\ desired = "published" => gen > 0 /\ dying = {} /\ \A k \in Kinds : label[k] = gen
<1>1. /\ pc[p] = "complete" /\ holder = p /\ Active(p) /\ tgtWant[p] = desired /\ tgtGen[p] = gen
      /\ phase \in {"publishing", "unpublishing"}
  BY DEF CompletePublication, CompleteAllowed, Active
<1>2. desired = "unpublished" => \A k \in Kinds : label[k] = 0
  BY <1>1 DEF IInv, UnpublishInv, Cleared
<1>3. desired = "published" => gen > 0 /\ dying = {} /\ \A k \in Kinds : label[k] = gen
  BY <1>1 DEF IInv, PublishInv, Applied, RowInv
<1> QED
  BY <1>1, <1>2, <1>3 DEF CompletePublication, Settled

\* Withdrawal, once recorded, is true of the cluster and stays true.
LEMMA WithdrawnStep == IInv /\ [Next]_vars => WithdrawnMeansNoObjects'
<1> SUFFICES ASSUME IInv, [Next]_vars, Withdrawn' PROVE \A k \in Kinds : label'[k] = 0
  BY DEF WithdrawnMeansNoObjects
<1>1. CASE Settled /\ UNCHANGED <<gen, obs, desired, phase, url>>
  <2>1. \A k \in Kinds : label[k] = 0
    BY <1>1 DEF Withdrawn, IInv, WithdrawnMeansNoObjects
  <2>2. UNCHANGED kube \/ \E k \in Kinds : Collect(k)
    BY <1>1, KubeSteps, SettledIsQuiet DEF IInv
  <2> QED
    BY <2>1, <2>2 DEF kube, Collect, IInv, TypeOK
<1>2. ASSUME NEW p \in Publishers, CompletePublication(p) PROVE \A k \in Kinds : label'[k] = 0
  BY <1>2, CompletionIsTrue DEF Withdrawn, kube
<1> QED
  BY <1>1, <1>2, SettlingStep DEF Withdrawn, Settled

\* Routes are put up last and taken down first.
LEMMA DangleStep == IInv /\ [Next]_vars => RouteNeverDangles'
<1> SUFFICES ASSUME IInv, [Next]_vars PROVE RouteNeverDangles'
  OBVIOUS
<1> USE DEF IInv, TypeOK, RouteNeverDangles, Kinds
<1>1. CASE UNCHANGED kube
  BY <1>1 DEF kube
<1>2. ASSUME NEW k \in Kinds, Collect(k) PROVE RouteNeverDangles'
  BY <1>2 DEF Collect, DyingInv
<1>3. ASSUME NEW p \in Publishers, Write(p) PROVE RouteNeverDangles'
  <2>1. Active(p) /\ pc[p] \in {"apply", "delete"}
    BY <1>3 DEF Write, LeaseInv, Active
  <2>2. CASE pc[p] = "delete"
    BY <1>3, <2>2 DEF Write
  <2>3. CASE pc[p] = "apply"
    <3>1. tgtWant[p] = "published" /\ tgtGen[p] \in Nat /\ tgtGen[p] > 0
      BY <2>3 DEF ClaimInv
    <3>2. label' = [label EXCEPT ![at[p]] = tgtGen[p]]
      BY <1>3, <2>3 DEF Write
    <3>3. at[p] = "AIGatewayRoute" => label["Backend"] # 0 /\ label["AIServiceBackend"] # 0
      BY <2>1, <2>3, <3>1 DEF PublishInv, Applied
    <3> QED
      BY <3>1, <3>2, <3>3
  <2> QED
    BY <2>1, <2>2, <2>3
<1> QED
  BY <1>1, <1>2, <1>3, KubeSteps

\* A URL is cleared before anything it depends on changes.
LEMMA UrlStep == IInv /\ [Next]_vars => UrlMeansRouted'
<1> SUFFICES ASSUME IInv, [Next]_vars, url'
             PROVE  desired' = "published" /\ \A k \in Kinds : label'[k] = gen' /\ k \notin dying'
  BY DEF UrlMeansRouted
<1>1. CASE UNCHANGED <<gen, obs, desired, phase, url>>
  <2>1. url /\ Settled /\ desired = "published" /\ dying = {}
    BY <1>1 DEF IInv, RowInv, UrlMeansRouted, Settled
  <2>2. UNCHANGED kube
    BY <2>1, KubeSteps, SettledIsQuiet DEF IInv, Collect
  <2> QED
    BY <1>1, <2>1, <2>2 DEF IInv, UrlMeansRouted, kube
<1>2. ASSUME NEW p \in Publishers, CompletePublication(p)
      PROVE  desired' = "published" /\ \A k \in Kinds : label'[k] = gen' /\ k \notin dying'
  <2>1. desired = "published"
    BY <1>2 DEF CompletePublication, CompleteAllowed
  <2> QED
    BY <1>2, <2>1, CompletionIsTrue DEF kube
<1>3. CASE Withdraw \/ AskPublish
  BY <1>3 DEF Withdraw, AskPublish
<1>4. ASSUME NEW p \in Publishers, Claim(p) \/ FailPublication(p) PROVE FALSE
  <2>1. ~Settled
    BY <1>4, SettledIsQuiet DEF IInv
  <2>2. url
    BY <1>4, Zenon DEF Claim, FailPublication
  <2> QED
    BY <2>1, <2>2 DEF IInv, RowInv, Settled
<1> QED
  BY <1>1, <1>2, <1>3, <1>4, RowSteps

-----------------------------------------------------------------------------
(* The theorems.                                                           *)

\* The invariant holds for a fresh row and idle publishers.
LEMMA IInvInit == Init => IInv
<1> SUFFICES ASSUME Init PROVE IInv
  OBVIOUS
<1>1. TypeOK
  <2>1. url \in BOOLEAN
    BY DEF Init
  <2> QED
    BY <2>1, TimingAssumption DEF Init, TypeOK, Wants, Phases, Steps, Kinds
<1>2. LeaseInv /\ ClaimInv /\ RowInv /\ PublishInv /\ UnpublishInv /\ DyingInv
  BY DEF Init, LeaseInv, ClaimInv, RowInv, PublishInv, UnpublishInv, DyingInv, Active, Kinds
<1>3. WithdrawnMeansNoObjects /\ RouteNeverDangles /\ UrlMeansRouted
  BY DEF Init, WithdrawnMeansNoObjects, RouteNeverDangles, UrlMeansRouted, Kinds
<1> QED
  BY <1>1, <1>2, <1>3 DEF IInv

\* The lemmas above, put together.
LEMMA IInvStep == IInv /\ [Next]_vars => IInv'
<1> SUFFICES ASSUME IInv, [Next]_vars PROVE IInv'
  OBVIOUS
<1>1. TypeOK' /\ LeaseInv' /\ ClaimInv' /\ RowInv'
  BY TypeStep, LeaseStep, ClaimStep, RowStep DEF IInv
<1>2. PublishInv' /\ UnpublishInv' /\ DyingInv'
  BY PublishStep, UnpublishStep, DyingStep DEF IInv
<1>3. WithdrawnMeansNoObjects' /\ RouteNeverDangles' /\ UrlMeansRouted'
  BY WithdrawnStep, DangleStep, UrlStep
<1> QED
  BY <1>1, <1>2, <1>3 DEF IInv

\* The inductive invariant holds in every reachable state.
THEOREM Invariance == Spec => []IInv
BY IInvInit, IInvStep, PTL DEF Spec

(***************************************************************************)
(* Type correctness: every column, object label and local variable keeps   *)
(* its type and every timer its range (ClaimPublication, RenewPublication  *)
(* and requestContext never grant more than the configured time).          *)
(***************************************************************************)
THEOREM TypeCorrect == Spec => []TypeOK
<1>1. IInv => TypeOK
  BY DEF IInv
<1> QED
  BY <1>1, Invariance, PTL

(***************************************************************************)
(* renewLease and LoadConfig's bound on the timeouts are enough: at no     *)
(* time do two publishers have a Kubernetes call open.                     *)
(***************************************************************************)
THEOREM MutualExclusion == Spec => []SingleMutator
<1>1. IInv => SingleMutator
  BY DEF IInv, LeaseInv, SingleMutator
<1> QED
  BY <1>1, Invariance, PTL

(***************************************************************************)
(* When publicationWithdrawnSQL finds the row withdrawn no gateway object  *)
(* of the service exists, and none comes back while the row says so.       *)
(***************************************************************************)
THEOREM WithdrawalIsReal == Spec => []WithdrawnMeansNoObjects
<1>1. IInv => WithdrawnMeansNoObjects
  BY DEF IInv
<1> QED
  BY <1>1, Invariance, PTL

(***************************************************************************)
(* publish and unpublish never leave a route without its backends.         *)
(***************************************************************************)
THEOREM NoDanglingRoute == Spec => []RouteNeverDangles
<1>1. IInv => RouteNeverDangles
  BY DEF IInv
<1> QED
  BY <1>1, Invariance, PTL

(***************************************************************************)
(* completePublicationSQL hands out an invocation URL only for objects of  *)
(* the current generation, and it is cleared before they change.           *)
(***************************************************************************)
THEOREM UrlIsServed == Spec => []UrlMeansRouted
<1>1. IInv => UrlMeansRouted
  BY DEF IInv
<1> QED
  BY <1>1, Invariance, PTL

-----------------------------------------------------------------------------
(* The publisher implements RouteFence.                                    *)

\* A fresh row is a withdrawn, confirmed route.
LEMMA FenceInitHolds == Init => Fence!FenceInit
BY DEF Init, Fence!FenceInit, Settled

\* Every step is a step of the fence or leaves its variables alone.
LEMMA FenceStep == IInv /\ [Next]_vars => [Fence!FenceNext]_(Fence!fenceVars)
<1> SUFFICES ASSUME IInv, [Next]_vars PROVE Fence!FenceNext \/ UNCHANGED Fence!fenceVars
  OBVIOUS
<1> DEFINE objects == {k \in Kinds : label[k] # 0}
           wanted == (desired = "published")
<1>1. CASE Withdraw
  BY <1>1 DEF Withdraw, Fence!FenceNext, Fence!Ask, Settled, kube
<1>2. CASE AskPublish
  BY <1>2 DEF AskPublish, Fence!FenceNext, Fence!Ask, Settled, kube
<1>3. ASSUME NEW p \in Publishers, CompletePublication(p)
      PROVE  Fence!Confirm
  <2>1. Settled' /\ ~Settled /\ objects' = objects /\ wanted' = wanted
    BY <1>3, CompletionIsTrue DEF Settled, kube, IInv, TypeOK, Wants
  <2>2. objects = IF wanted THEN Kinds ELSE {}
    BY <1>3, CompletionIsTrue DEF IInv, TypeOK, Wants
  <2> QED
    BY <2>1, <2>2 DEF Fence!Confirm
<1>4. ASSUME NEW p \in Publishers, Claim(p) \/ FailPublication(p)
      PROVE  UNCHANGED Fence!fenceVars
  <2>1. ~Settled
    BY <1>4, SettledIsQuiet DEF IInv
  <2>2. ~Settled' /\ desired' = desired /\ label' = label
    BY <1>4 DEF Claim, FailPublication, Settled, kube
  <2>3. Settled' = Settled
    BY <2>1, <2>2 DEF Settled
  <2> QED
    BY <2>2, <2>3 DEF Fence!fenceVars
<1>5. CASE UNCHANGED <<gen, obs, desired, phase, url>>
  <2>1. Settled' = Settled /\ wanted' = wanted
    BY <1>5 DEF Settled
  <2>2. CASE UNCHANGED kube
    BY <2>1, <2>2 DEF kube, Fence!fenceVars
  <2>3. ASSUME NEW p \in Publishers, Write(p) PROVE Fence!ChangeObjects
    <3>1. ~Settled
      BY <2>3, SettledIsQuiet DEF IInv
    <3> QED
      BY <2>1, <3>1 DEF Fence!ChangeObjects
  <2>4. ASSUME NEW k \in Kinds, Collect(k) PROVE Fence!ChangeObjects
    <3>1. ~Withdrawn
      BY <2>4 DEF Collect, IInv, DyingInv, WithdrawnMeansNoObjects
    <3>2. ~(Settled /\ ~wanted)
      BY <3>1 DEF Settled, Withdrawn, IInv, RowInv
    <3> QED
      BY <2>1, <3>2 DEF Fence!ChangeObjects
  <2> QED
    BY <2>2, <2>3, <2>4, KubeSteps DEF Fence!FenceNext
<1> QED
  BY <1>1, <1>2, <1>3, <1>4, <1>5, RowSteps DEF Fence!FenceNext

(***************************************************************************)
(* The detailed publisher implements the abstract fence: what RunOnce, the *)
(* lease SQL and the Kubernetes calls do together is, seen from the        *)
(* reconciler, asking, changing objects and confirming truthfully.         *)
(***************************************************************************)
THEOREM PublisherImplementsFence == Spec => ImplementsFence
BY FenceInitHolds, FenceStep, Invariance, PTL DEF Spec, ImplementsFence, Fence!FenceSpec

=============================================================================
