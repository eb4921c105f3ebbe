------------------------ MODULE LeaderElectionProofs ------------------------
(***************************************************************************)
(* Theorems about LeaderElection, for any set of replicas and any times    *)
(* that satisfy TTLAssumption.                                             *)
(***************************************************************************)
EXTENDS LeaderElection, TLAPS

USE NobodyAssumption, TimesAssumption

-----------------------------------------------------------------------------
(* The inductive invariant.                                                *)

\* A loop that has not been cancelled belongs to a leader, an elector that is
\* not in its term has none, and only transactions have an age.
PlaceInv ==
    \A w \in Workers :
        /\ pc[w] \in {"wait", "try"} => loop[w] = "none"
        /\ loop[w] = "running" => pc[w] \in {"lead", "renew"}
        /\ pc[w] \notin Writing => age[w] = 0

\* A leader that is not late has the row, and what is left of the lease lasts
\* to the end of its next renewal, on every clock.
Covered(w) ==
    /\ holder = w
    /\ pc[w] = "lead" => left > timer[w] + Delay + Skew
    /\ pc[w] = "renew" => age[w] <= Delay /\ left > Delay - age[w] + Skew

Leads(w) == loop[w] = "running" /\ ~late[w]

LeaseInv == \A w \in Workers : Leads(w) => Covered(w)

IInv == TypeOK /\ PlaceInv /\ LeaseInv

-----------------------------------------------------------------------------
(* The lease.                                                              *)

\* Nobody can take the lease of a leader that is not late.
LEMMA NotVacant ==
    ASSUME IInv, NEW v \in Workers, NEW w \in Workers, v # w, Leads(v), Vacant(w)
    PROVE  FALSE
  <1>1. /\ holder = v /\ left \in Int /\ age[w] \in Nat
        /\ age[v] \in Nat /\ timer[v] \in Nat
        /\ pc[v] \in {"lead", "renew"}
    BY DEF IInv, LeaseInv, PlaceInv, Leads, Covered, TypeOK, Expired
  <1>2. left > Skew
    BY <1>1 DEF IInv, LeaseInv, Leads, Covered
  <1>3. PICK e \in -Skew .. Skew : left <= e - age[w]
    BY <1>1 DEF Vacant
  <1>4. QED
    BY <1>1, <1>2, <1>3

\* A leader that takes the row in time is covered until its next renewal.
LEMMA TakeCovers ==
    ASSUME IInv, NEW w \in Workers, Take(w), pc'[w] = "lead",
           timer'[w] \in 0 .. Renew, late'[w] = (age[w] > Delay)
    PROVE  Leads(w)' => Covered(w)'
  <1>1. age[w] \in Nat
    BY DEF IInv, TypeOK
  <1>2. CASE age[w] > Delay
    BY <1>2 DEF Leads
  <1>3. CASE ~(age[w] > Delay)
    BY <1>1, <1>3, TTLAssumption DEF Covered, Take
  <1>4. QED
    BY <1>2, <1>3

\* The row and what is left of it stay in their types.
LEMMA TakeTyped ==
    ASSUME IInv, NEW w \in Workers, Take(w)
    PROVE  holder' \in Workers \cup {Nobody} /\ left' \in Expired .. TTL
  BY DEF IInv, TypeOK, Take, Expired

\* What another elector does with the row does not harm a leader in time.
LEMMA Bystander ==
    ASSUME IInv, NEW v \in Workers, NEW w \in Workers, v # w,
           UNCHANGED <<holder, left>> \/ (Vacant(w) /\ Take(w)),
           pc'[v] = pc[v], age'[v] = age[v], timer'[v] = timer[v],
           late'[v] = late[v], loop'[v] = loop[v]
    PROVE  Leads(v)' => Covered(v)'
  <1>1. SUFFICES ASSUME Leads(v)' PROVE Covered(v)'
    OBVIOUS
  <1>2. Leads(v)
    BY <1>1 DEF Leads
  <1>3. UNCHANGED <<holder, left>>
    BY <1>2, NotVacant
  <1>4. QED
    BY <1>2, <1>3 DEF IInv, LeaseInv, Covered

-----------------------------------------------------------------------------
(* Type correctness and places: one step per action.                       *)

LEMMA InitInv == Init => IInv
  BY DEF Init, IInv, TypeOK, PlaceInv, LeaseInv, Leads, Expired, Electing, Writing

LEMMA TypeStep == IInv /\ [Next]_vars => TypeOK'
  <1> SUFFICES ASSUME IInv, [Next]_vars PROVE TypeOK'
    OBVIOUS
  <1> USE DEF IInv, Goes, Answered, Cancelled
  <1>1. ASSUME NEW w \in Workers, Begin(w) PROVE TypeOK'
    <2>1. late' \in [Workers -> BOOLEAN]
      BY <1>1 DEF Begin, TypeOK
    <2>2. timer' \in [Workers -> 0 .. Renew]
      BY <1>1 DEF Begin, TypeOK
    <2>3. pc' \in [Workers -> Electing \cup {"release", "resign", "returned", "down"}]
      BY <1>1 DEF Begin, TypeOK, Electing
    <2>4. QED
      BY <1>1, <2>1, <2>2, <2>3 DEF Begin, TypeOK
  <1>2. ASSUME NEW w \in Workers, Win(w) PROVE TypeOK'
    BY <1>2, TakeTyped DEF Win, TypeOK, Electing
  <1>3. ASSUME NEW w \in Workers, Lose(w) PROVE TypeOK'
    BY <1>3 DEF Lose, TypeOK, Electing
  <1>4. ASSUME NEW w \in Workers, Keep(w) PROVE TypeOK'
    BY <1>4, TakeTyped DEF Keep, TypeOK, Electing
  <1>5. ASSUME NEW w \in Workers, Overtaken(w) PROVE TypeOK'
    BY <1>5 DEF Overtaken, TypeOK, Electing
  <1>6. ASSUME NEW w \in Workers, AcquireErrors(w) PROVE TypeOK'
    BY <1>6, TakeTyped DEF AcquireErrors, TypeOK
  <1>7. ASSUME NEW w \in Workers, Release(w) PROVE TypeOK'
    BY <1>7 DEF Release, TypeOK, Expired
  <1>8. ASSUME NEW w \in Workers, LoopFails(w) \/ LoopReturns(w) PROVE TypeOK'
    BY <1>8 DEF LoopFails, LoopReturns, TypeOK
  <1>9. ASSUME NEW w \in Workers, Resign(w) \/ Drained(w) PROVE TypeOK'
    BY <1>9 DEF Resign, Drained, TypeOK, Electing
  <1>10. ASSUME NEW w \in Workers, Shutdown(w) \/ Crash(w) PROVE TypeOK'
    BY <1>10 DEF Shutdown, Crash, TypeOK
  <1>11. ASSUME NEW w \in Workers, Restart(w) PROVE TypeOK'
    BY <1>11 DEF Restart, TypeOK, Electing
  <1>12. CASE Tick
    BY <1>12 DEF Tick, TypeOK, Expired
  <1>13. CASE UNCHANGED vars
    BY <1>13 DEF vars, TypeOK
  <1>14. QED
    BY <1>1, <1>2, <1>3, <1>4, <1>5, <1>6, <1>7, <1>8, <1>9, <1>10, <1>11, <1>12, <1>13
       DEF Next

LEMMA PlaceStep == IInv /\ [Next]_vars => PlaceInv'
  <1> SUFFICES ASSUME IInv, [Next]_vars PROVE PlaceInv'
    OBVIOUS
  <1> USE DEF IInv, PlaceInv, TypeOK, Writing, Goes, Answered, Cancelled
  <1>1. ASSUME NEW w \in Workers, Begin(w) \/ Lose(w) \/ Keep(w) PROVE PlaceInv'
    BY <1>1 DEF Begin, Lose, Keep
  <1>2. ASSUME NEW w \in Workers, Win(w) \/ Overtaken(w) \/ AcquireErrors(w) PROVE PlaceInv'
    BY <1>2 DEF Win, Overtaken, AcquireErrors
  <1>3. ASSUME NEW w \in Workers, Release(w) \/ LoopFails(w) \/ LoopReturns(w) PROVE PlaceInv'
    BY <1>3 DEF Release, LoopFails, LoopReturns
  <1>4. ASSUME NEW w \in Workers, Resign(w) \/ Drained(w) PROVE PlaceInv'
    BY <1>4 DEF Resign, Drained
  <1>5. ASSUME NEW w \in Workers, Shutdown(w) \/ Crash(w) \/ Restart(w) PROVE PlaceInv'
    BY <1>5 DEF Shutdown, Crash, Restart
  <1>6. CASE Tick
    BY <1>6 DEF Tick
  <1>7. CASE UNCHANGED vars
    BY <1>7 DEF vars
  <1>8. QED
    BY <1>1, <1>2, <1>3, <1>4, <1>5, <1>6, <1>7 DEF Next

-----------------------------------------------------------------------------
(* The lease of a leader in time.                                          *)

LEMMA LeaseStep == IInv /\ [Next]_vars => LeaseInv'
  <1> SUFFICES ASSUME IInv, [Next]_vars, NEW v \in Workers PROVE Leads(v)' => Covered(v)'
    BY DEF LeaseInv
  <1>0. Leads(v) => Covered(v)
    BY DEF IInv, LeaseInv
  <1>t. TypeOK' /\ PlaceInv'
    BY TypeStep, PlaceStep
  \* Steps that leave the row alone and do not make a leader.
  <1>1. ASSUME NEW w \in Workers, UNCHANGED <<holder, left>>,
               v = w => loop'[v] # "running",
               v # w => /\ pc'[v] = pc[v] /\ age'[v] = age[v] /\ timer'[v] = timer[v]
                        /\ late'[v] = late[v] /\ loop'[v] = loop[v]
        PROVE  Leads(v)' => Covered(v)'
    BY <1>1, Bystander DEF Leads
  <1>2. ASSUME NEW w \in Workers, Begin(w) PROVE Leads(v)' => Covered(v)'
    <2>1. CASE v # w
      BY <1>2, <2>1, Bystander DEF Begin, Goes, IInv, TypeOK
    <2>2. CASE v = w /\ pc[w] = "lead"
      BY <1>0, <1>2, <2>2 DEF Begin, Goes, Leads, Covered, IInv, TypeOK, PlaceInv, Writing, Expired
    <2>3. CASE v = w /\ pc[w] = "wait"
      BY <1>2, <2>3 DEF Begin, Leads, IInv, PlaceInv
    <2>4. QED
      BY <1>2, <2>1, <2>2, <2>3 DEF Begin
  <1>3. ASSUME NEW w \in Workers, Win(w) \/ Keep(w) PROVE Leads(v)' => Covered(v)'
    <2>1. CASE v # w
      BY <1>3, <2>1, Bystander DEF Win, Keep, Goes, Answered, IInv, TypeOK
    <2>2. CASE v = w
      <3>1. /\ Take(w) /\ pc'[w] = "lead" /\ late'[w] = (age[w] > Delay)
        BY <1>3 DEF Win, Keep, Goes, IInv, TypeOK
      <3>2. timer'[w] \in 0 .. Renew
        BY <1>t DEF TypeOK
      <3>3. QED
        BY <2>2, <3>1, <3>2, TakeCovers
    <2>3. QED
      BY <2>1, <2>2
  <1>4. ASSUME NEW w \in Workers, Lose(w) \/ Overtaken(w) PROVE Leads(v)' => Covered(v)'
    BY <1>1, <1>4, <1>t DEF Lose, Overtaken, Goes, Answered, Cancelled, IInv, TypeOK, PlaceInv
  <1>5. ASSUME NEW w \in Workers, AcquireErrors(w) PROVE Leads(v)' => Covered(v)'
    <2>1. CASE v # w
      BY <1>5, <2>1, Bystander DEF AcquireErrors, Goes, Answered, Cancelled, IInv, TypeOK
    <2>2. CASE v = w
      BY <1>5, <2>2 DEF AcquireErrors, Cancelled, Leads, IInv, TypeOK
    <2>3. QED
      BY <2>1, <2>2
  <1>6. ASSUME NEW w \in Workers, Release(w) PROVE Leads(v)' => Covered(v)'
    <2>1. loop'[w] # "running" /\ pc'[w] \in {"down", "returned"}
      BY <1>6 DEF Release, Goes, IInv, TypeOK, PlaceInv
    <2>2. CASE v # w /\ holder = v
      BY <1>0, <1>6, <2>2 DEF Release, Goes, Answered, Leads, Covered, IInv, TypeOK
    <2>3. CASE v # w /\ holder # v
      BY <1>0, <1>6, <2>3 DEF Release, Leads, Covered
    <2>4. QED
      BY <2>1, <2>2, <2>3 DEF Leads
  <1>7. ASSUME NEW w \in Workers, LoopFails(w) \/ LoopReturns(w) \/ Resign(w) \/ Drained(w)
        PROVE Leads(v)' => Covered(v)'
    BY <1>1, <1>7 DEF LoopFails, LoopReturns, Resign, Drained, Goes, IInv, TypeOK
  <1>8. ASSUME NEW w \in Workers, Shutdown(w) \/ Crash(w) \/ Restart(w)
        PROVE Leads(v)' => Covered(v)'
    BY <1>1, <1>8 DEF Shutdown, Crash, Restart, Goes, Answered, Cancelled, IInv, TypeOK
  <1>9. CASE Tick
    <2>1. SUFFICES ASSUME Leads(v)' PROVE Covered(v)'
      OBVIOUS
    <2>2. /\ Leads(v) /\ ~(pc[v] = "lead" /\ timer[v] = 0)
          /\ ~(pc[v] \in {"try", "renew"} /\ age[v] >= Delay)
      BY <1>9, <2>1 DEF Tick, Leads
    <2>3. /\ holder' = holder /\ pc' = pc
          /\ left' = IF left > Expired THEN left - 1 ELSE left
          /\ timer'[v] = IF timer[v] > 0 THEN timer[v] - 1 ELSE 0
          /\ age'[v] = IF pc[v] \in Writing THEN age[v] + 1 ELSE age[v]
      BY <1>9 DEF Tick
    <2>4. left \in Int /\ timer[v] \in Nat /\ age[v] \in Nat
      BY DEF IInv, TypeOK, Expired
    <2>5. CASE pc[v] = "lead"
      BY <1>0, <2>2, <2>3, <2>4, <2>5 DEF Covered, Expired, Writing
    <2>6. CASE pc[v] = "renew"
      BY <1>0, <2>2, <2>3, <2>4, <2>6 DEF Covered, Expired, Writing
    <2>7. QED
      BY <2>2, <2>5, <2>6 DEF Leads, IInv, PlaceInv
  <1>10. CASE UNCHANGED vars
    BY <1>0, <1>10 DEF vars, Leads, Covered
  <1>11. QED
    BY <1>2, <1>3, <1>4, <1>5, <1>6, <1>7, <1>8, <1>9, <1>10 DEF Next

-----------------------------------------------------------------------------
(***************************************************************************)
(* The invariant holds in every reachable state.                           *)
(***************************************************************************)
THEOREM Invariance == Spec => []IInv
  <1>1. IInv /\ [Next]_vars => IInv'
    BY TypeStep, PlaceStep, LeaseStep DEF IInv
  <1>2. QED
    BY InitInv, <1>1, PTL DEF Spec

(***************************************************************************)
(* Type correctness.                                                       *)
(***************************************************************************)
THEOREM TypeCorrect == Spec => []TypeOK
  BY Invariance, PTL DEF IInv

(***************************************************************************)
(* Two loops that have not been cancelled never run beside each other      *)
(* unless one elector is late, for all times with TTL > Renew + 2 * Delay  *)
(* + Skew (ReconcileLeaderElector's promise).                              *)
(***************************************************************************)
THEOREM OneLeader == Spec => []OneLiveLoop
  <1>1. IInv => OneLiveLoop
    <2> SUFFICES ASSUME IInv, NEW v \in Workers, NEW w \in Workers, v # w,
                        loop[v] = "running", loop[w] = "running",
                        ~late[v], ~late[w]
                 PROVE  FALSE
      BY DEF OneLiveLoop
    <2>1. holder = v /\ holder = w
      BY DEF IInv, LeaseInv, Leads, Covered
    <2>2. QED
      BY <2>1
  <1>2. QED
    BY <1>1, Invariance, PTL

(***************************************************************************)
(* A loop has ended before its process stands for election again, however  *)
(* late anybody is (runAsLeader waits for errCh).                          *)
(***************************************************************************)
THEOREM LoopsDoNotPileUp == Spec => []LoopEndsFirst
  <1>1. IInv => LoopEndsFirst
    BY DEF IInv, PlaceInv, LoopEndsFirst
  <1>2. QED
    BY <1>1, Invariance, PTL
=============================================================================
