--------------------------- MODULE LeaderElection ---------------------------
(***************************************************************************)
(* The reconcile worker's leader election                                  *)
(* (pkg/adapters/runtime/reconcile_leader_election.go): every replica runs *)
(* an elector that takes one row of control_plane_leases and runs the      *)
(* reconcile loop of its delegate while it keeps the row.  pc is where     *)
(* Run, runAsLeader, acquire and release are, loop what the goroutine with *)
(* the delegate does.                                                      *)
(*                                                                         *)
(* Time is discrete and the lease counts down: left is lease_until minus   *)
(* now on a perfect clock.  A transaction reads the clock of its process   *)
(* when it begins and takes effect age ticks later; the clocks of two      *)
(* processes are at most Skew apart.  An elector is late when it has not   *)
(* begun a renewal in the tick the ticker fired, or when its transaction   *)
(* has taken more than Delay: the code bounds neither.                     *)
(*                                                                         *)
(* An identity names one process: it is restarted after the old one ended. *)
(***************************************************************************)
EXTENDS Integers

CONSTANTS
    Workers,        \* the identities of the replicas
    Nobody,         \* the row does not exist
    TTL,            \* leaseTTL
    Renew,          \* renewInterval
    Delay,          \* the transaction time the deployment is sized for
    Skew,           \* the largest difference of two clocks
    Stall,          \* the longest transaction at all
    MaxRestarts     \* restarts of processes

ASSUME NobodyAssumption == Nobody \notin Workers
ASSUME TimesAssumption ==
    /\ TTL \in Nat /\ Renew \in Nat \ {0} /\ MaxRestarts \in Nat
    /\ Delay \in Nat /\ Skew \in Nat /\ Stall \in Nat /\ Delay <= Stall
\* What is left of a lease when its renewal begins outlives a transaction.
ASSUME TTLAssumption == TTL > Renew + 2 * Delay + Skew

VARIABLES
    holder,     \* holder_id
    left,       \* time until lease_until, negative when it has passed
    pc,         \* place of each elector
    age,        \* time since the transaction of an elector has read its clock
    timer,      \* time until the elector's timer or ticker fires
    late,       \* has the elector missed the times above?
    loop,       \* the reconcile loop of each process
    restarts    \* restarts so far

vars == <<holder, left, pc, age, timer, late, loop, restarts>>

Expired == -(Skew + Stall)      \* for everybody, however long they take
Electing == {"wait", "try", "lead", "renew", "drain"}
Writing == {"try", "renew", "release", "resign"}

Init ==
    /\ holder = Nobody /\ left = Expired
    /\ pc = [w \in Workers |-> "wait"]
    /\ age = [w \in Workers |-> 0]
    /\ timer = [w \in Workers |-> 0]
    /\ late = [w \in Workers |-> FALSE]
    /\ loop = [w \in Workers |-> "none"]
    /\ restarts = 0

Goes(w, place) == pc' = [pc EXCEPT ![w] = place]

\* cancel() of runAsLeader: the loop learns of it, and may still be at work.
Cancelled(w) == [loop EXCEPT ![w] = IF @ = "running" THEN "cancelled" ELSE @]

-----------------------------------------------------------------------------
(* The lease: acquire and release.                                         *)

\* Mutant: an expired lease of somebody else is not taken.
OwnOnly(w) == holder \in {Nobody, w}

\* lease_until <= EXCLUDED.updated_at, as two clocks see it; or our own lease.
Vacant(w) ==
    \/ holder \in {Nobody, w}
    \/ \E e \in -Skew .. Skew : left <= e - age[w]

Occupied(w) ==
    /\ holder \notin {Nobody, w}
    /\ \E e \in -Skew .. Skew : left > e - age[w]

\* Mutant: the TTL runs from the next renewal.
TakeFromRenewal(w) == holder' = w /\ left' = TTL + Renew - age[w]

Take(w) == holder' = w /\ left' = TTL - age[w]

Answered(w) == age' = [age EXCEPT ![w] = 0]

\* A transaction begins: the first attempt, the next one, or a renewal.
Begin(w) ==
    /\ timer[w] = 0
    /\ \/ /\ pc[w] = "wait" /\ Goes(w, "try")
          /\ late' = [late EXCEPT ![w] = FALSE]
          /\ UNCHANGED timer
       \/ /\ pc[w] = "lead" /\ Goes(w, "renew")
          /\ timer' = [timer EXCEPT ![w] = Renew]
          /\ UNCHANGED late
    /\ UNCHANGED <<holder, left, age, loop, restarts>>

Win(w) ==
    /\ pc[w] = "try" /\ Vacant(w) /\ Take(w) /\ Answered(w)
    /\ Goes(w, "lead")
    /\ timer' = [timer EXCEPT ![w] = Renew]
    /\ late' = [late EXCEPT ![w] = age[w] > Delay]
    /\ loop' = [loop EXCEPT ![w] = "running"]
    /\ UNCHANGED restarts

Lose(w) ==
    /\ pc[w] = "try" /\ Occupied(w) /\ Answered(w)
    /\ Goes(w, "wait")
    /\ timer' = [timer EXCEPT ![w] = Renew]
    /\ UNCHANGED <<holder, left, late, loop, restarts>>

Keep(w) ==
    /\ pc[w] = "renew" /\ Vacant(w) /\ Take(w) /\ Answered(w)
    /\ Goes(w, "lead")
    /\ late' = [late EXCEPT ![w] = age[w] > Delay]
    /\ UNCHANGED <<timer, loop, restarts>>

\* Mutant: a renewal that finds another holder is taken for one that came late.
OvertakenUnnoticed(w) ==
    /\ pc[w] = "renew" /\ Occupied(w) /\ Answered(w)
    /\ Goes(w, "lead")
    /\ UNCHANGED <<holder, left, timer, late, loop, restarts>>

\* Mutant: cancel, and on to the next attempt without waiting for the loop.
OvertakenAndOff(w) ==
    /\ pc[w] = "renew" /\ Occupied(w) /\ Answered(w)
    /\ Goes(w, "wait") /\ loop' = Cancelled(w)
    /\ UNCHANGED <<holder, left, timer, late, restarts>>

\* The lease has gone to another: cancel the loop and wait for it.
Overtaken(w) ==
    /\ pc[w] = "renew" /\ Occupied(w) /\ Answered(w)
    /\ Goes(w, "drain") /\ loop' = Cancelled(w)
    /\ UNCHANGED <<holder, left, timer, late, restarts>>

\* acquire returns an error, because of the database or because the process
\* is told to stop; the row may have been written.  Run returns for good.
AcquireErrors(w) ==
    /\ pc[w] \in {"try", "renew"} /\ Answered(w)
    /\ UNCHANGED <<holder, left>> \/ (Vacant(w) /\ Take(w))
    /\ \E place \in {"returned", "down"} : Goes(w, place)
    /\ loop' = Cancelled(w)
    /\ UNCHANGED <<timer, late, restarts>>

\* Mutant: the UPDATE does not ask for the holder.
ReleaseAnyones(w) ==
    /\ pc[w] \in {"release", "resign"} /\ Answered(w)
    /\ UNCHANGED left \/ left' = -age[w]
    /\ Goes(w, IF pc[w] = "release" THEN "down" ELSE "returned")
    /\ UNCHANGED <<holder, timer, late, loop, restarts>>

Release(w) ==
    /\ pc[w] \in {"release", "resign"} /\ Answered(w)
    /\ \/ UNCHANGED left
       \/ holder = w /\ left' = -age[w]
    /\ Goes(w, IF pc[w] = "release" THEN "down" ELSE "returned")
    /\ UNCHANGED <<holder, timer, late, loop, restarts>>

-----------------------------------------------------------------------------
(* The delegate: LocalWorkloadReconcileController.Start.                   *)

\* A list of the targets that fails ends the loop.
LoopFails(w) ==
    /\ loop[w] = "running"
    /\ loop' = [loop EXCEPT ![w] = "failed"]
    /\ UNCHANGED <<holder, left, pc, age, timer, late, restarts>>

\* A cancelled loop ends, with the error of a list that was under way or not.
LoopReturns(w) ==
    /\ loop[w] = "cancelled"
    /\ \E end \in {"ended", "failed"} : loop' = [loop EXCEPT ![w] = end]
    /\ UNCHANGED <<holder, left, pc, age, timer, late, restarts>>

Resign(w) ==
    /\ pc[w] = "lead" /\ loop[w] = "failed"
    /\ Goes(w, "resign")
    /\ loop' = [loop EXCEPT ![w] = "none"]
    /\ UNCHANGED <<holder, left, age, timer, late, restarts>>

Drained(w) ==
    /\ pc[w] = "drain" /\ loop[w] \in {"ended", "failed"}
    /\ \/ loop[w] = "failed" /\ Goes(w, "returned") /\ UNCHANGED timer
       \/ /\ loop[w] = "ended" /\ Goes(w, "wait")
          /\ timer' = [timer EXCEPT ![w] = Renew]
    /\ loop' = [loop EXCEPT ![w] = "none"]
    /\ UNCHANGED <<holder, left, age, late, restarts>>

-----------------------------------------------------------------------------
(* Processes and time.                                                     *)

\* SIGTERM: a leader releases, without waiting for its loop.
Shutdown(w) ==
    /\ \/ pc[w] = "lead" /\ Goes(w, "release")
       \/ pc[w] \in {"wait", "drain", "returned"} /\ Goes(w, "down")
    /\ loop' = Cancelled(w)
    /\ UNCHANGED <<holder, left, age, timer, late, restarts>>

Crash(w) ==
    /\ pc[w] # "down" /\ Goes(w, "down") /\ Answered(w)
    /\ loop' = [loop EXCEPT ![w] = "none"]
    /\ UNCHANGED <<holder, left, timer, late, restarts>>

Restart(w) ==
    /\ pc[w] = "down" /\ restarts < MaxRestarts
    /\ restarts' = restarts + 1
    /\ Goes(w, "wait")
    /\ timer' = [timer EXCEPT ![w] = 0]
    /\ loop' = [loop EXCEPT ![w] = "none"]
    /\ UNCHANGED <<holder, left, age, late>>

Tick ==
    /\ \A w \in Workers : pc[w] \in Writing => age[w] < Stall
    /\ left' = IF left > Expired THEN left - 1 ELSE left
    /\ timer' = [w \in Workers |-> IF timer[w] > 0 THEN timer[w] - 1 ELSE 0]
    /\ age' = [w \in Workers |-> IF pc[w] \in Writing THEN age[w] + 1 ELSE age[w]]
    /\ late' = [w \in Workers |->
                   \/ late[w]
                   \/ pc[w] = "lead" /\ timer[w] = 0
                   \/ pc[w] \in {"try", "renew"} /\ age[w] >= Delay]
    /\ UNCHANGED <<holder, pc, loop, restarts>>

Next ==
    \/ \E w \in Workers :
          \/ Begin(w) \/ Win(w) \/ Lose(w) \/ Keep(w) \/ Overtaken(w)
          \/ AcquireErrors(w) \/ Release(w) \/ LoopFails(w) \/ LoopReturns(w)
          \/ Resign(w) \/ Drained(w) \/ Shutdown(w) \/ Crash(w) \/ Restart(w)
    \/ Tick

Spec == Init /\ [][Next]_vars

\* An elector that may go on does, a cancelled loop ends, and time passes.
\* Nothing obliges a process to come back.  The select of runAsLeader chooses
\* at random, so it does not take the ticker for ever while errCh is ready.
Proceeds(w) ==
    \/ Begin(w) \/ Win(w) \/ Lose(w) \/ Keep(w) \/ Overtaken(w)
    \/ Release(w) \/ Drained(w)

LiveSpec ==
    /\ Spec
    /\ WF_vars(Tick)
    /\ \A w \in Workers :
          WF_vars(Proceeds(w)) /\ WF_vars(LoopReturns(w)) /\ SF_vars(Resign(w))

-----------------------------------------------------------------------------
(***************************************************************************)
(* Type invariant.                                                         *)
(***************************************************************************)
TypeOK ==
    /\ holder \in Workers \cup {Nobody}
    /\ left \in Expired .. TTL
    /\ pc \in [Workers -> Electing \cup {"release", "resign", "returned", "down"}]
    /\ age \in [Workers -> 0 .. Stall]
    /\ timer \in [Workers -> 0 .. Renew]
    /\ late \in [Workers -> BOOLEAN]
    /\ loop \in [Workers -> {"none", "running", "cancelled", "failed", "ended"}]
    /\ restarts \in 0 .. MaxRestarts

(***************************************************************************)
(* Only the elected process runs the loop (ports/reconcile_controller.go,  *)
(* ReconcileLeaderElector): of two loops that have not been cancelled one  *)
(* belongs to an elector that is late.                                     *)
(***************************************************************************)
OneLiveLoop ==
    \A v, w \in Workers :
        v # w /\ loop[v] = "running" /\ loop[w] = "running" => late[v] \/ late[w]

(***************************************************************************)
(* A process that stands for election again has no loop of its former term *)
(* left: the delegate, whose back-off is one map without a guard against   *)
(* two loops, is never started twice (runAsLeader waits for errCh).        *)
(***************************************************************************)
LoopEndsFirst == \A w \in Workers : pc[w] \in {"wait", "try"} => loop[w] = "none"

(***************************************************************************)
(* A loop whose lease another has taken, however late its elector is, is   *)
(* cancelled or gets the lease back.                                       *)
(***************************************************************************)
LateLoopEnds ==
    \A w \in Workers :
        (loop[w] = "running" /\ holder # w) ~> (loop[w] # "running" \/ holder = w)

(***************************************************************************)
(* After a crash, a release or a lost lease some loop runs again, as long  *)
(* as there is an elector that has not returned.                           *)
(***************************************************************************)
LoopComesBack ==
    (\E w \in Workers : pc[w] \in Electing)
        ~> \/ \E w \in Workers : loop[w] = "running"
           \/ \A w \in Workers : pc[w] \notin Electing
=============================================================================
