------------------------------ MODULE Metering ------------------------------
(***************************************************************************)
(* metering-service: which instances are being metered, and what is        *)
(* charged.  Four activities share one process and one mutex: the consumer *)
(* of lifecycle events (consumer.go), the periodic reconciler              *)
(* (reconciler.go), one collection loop per instance and the stop of a     *)
(* collection (metering_collection_service.go).  The process keeps its     *)
(* collections and the sequence numbers it has seen in memory only; after  *)
(* a restart it rebuilds them from the instance rows (rebuilder.go).       *)
(*                                                                         *)
(* A critical section, a query and an insert are one step each.  Time is a *)
(* count of minutes, the granularity of a usage record's period.           *)
(***************************************************************************)
EXTENDS OutboxRelay

CONSTANTS
    MaxDeliver,     \* deliveries of one message
    MaxRestarts,    \* bound: restarts of metering-service
    MaxTicks,       \* bound: ticks of the collection loops
    MaxMinute       \* bound: time

ASSUME MeteringAssumption ==
    MaxDeliver \in Nat \ {0} /\ MaxRestarts \in Nat /\ MaxTicks \in Nat /\ MaxMinute \in Nat

VARIABLES
    at,         \* position in the stream of the consumer's message
    tries,      \* deliveries of that message so far
    cons,       \* handleEvent: its step and the last sequence number it read
    seen,       \* seenSeq: the last sequence number per instance
    current,    \* tickers, stopChs, specs: the collection of each instance
    ever,       \* everCollected
    loops,      \* the goroutines of the collections
    rec,        \* Reconcile: its step and the instances it read as running
    final,      \* stops that have still to charge a full lifetime, and whose
                \* thread they are in
    charged,    \* the keys of metering_usage_records: instance and period
    minute, restarts, ticks,
    applied,    \* history: the last event applied to each instance
    billed      \* history: collections that have produced a periodic record

meterVars == <<at, tries, cons, seen, current, ever, loops, rec, final, charged,
               minute, restarts, ticks, applied, billed>>
vars == <<relayVars, meterVars>>

NotSeen == 0
NoLoop == 0
Resting == [pc |-> "idle", last |-> NotSeen]
Asleep == [pc |-> "idle", running |-> {}, left |-> {}]
Zero == [i \in Instances |-> 0]

MeterInit ==
    /\ at = 1 /\ tries = 0
    /\ cons = Resting /\ seen = Zero
    /\ current = Zero /\ ever = {} /\ loops = {}
    /\ rec = Asleep /\ final = {}
    /\ charged = {} /\ minute = 0 /\ restarts = 0 /\ ticks = 0
    /\ applied = Zero /\ billed = {}

Init == RelayInit /\ MeterInit

-----------------------------------------------------------------------------
(***************************************************************************)
(* The collections.  A collection is an instance and a number that stands  *)
(* for its stop channel; a number is free when nobody knows it any more.   *)
(***************************************************************************)
Known(i) == {l.n : l \in {k \in loops : k.i = i}} \cup {f.n : f \in {g \in final : g.i = i}}
Fresh(i) == CHOOSE n \in 1..(Cardinality(Known(i)) + 1) : n \notin Known(i)

\* Mutant: the look at the map is missing.
StartAnyway(S) ==
    /\ current' = [i \in Instances |-> IF i \in S THEN Fresh(i) ELSE current[i]]
    /\ ever' = ever \ S
    /\ loops' = loops \cup {[i |-> i, n |-> Fresh(i), pc |-> "wait", open |-> TRUE, period |-> 0] : i \in S}
    /\ billed' = billed \ {<<i, Fresh(i)>> : i \in S}

\* StartCollection for each instance of S that has no collection.
StartCollection(S) ==
    LET new == {i \in S : current[i] = NoLoop}
    IN  /\ current' = [i \in Instances |-> IF i \in new THEN Fresh(i) ELSE current[i]]
        /\ ever' = ever \ new
        /\ loops' = loops \cup
             {[i |-> i, n |-> Fresh(i), pc |-> "wait", open |-> TRUE, period |-> 0] : i \in new}
        /\ billed' = billed \ {<<i, Fresh(i)>> : i \in new}

\* The locked part of StopCollection; the loop has still to see its channel closed.
StopCollection(i, by) ==
    LET mine == {l \in loops : l.i = i /\ l.n = current[i]}
    IN  IF current[i] = NoLoop THEN UNCHANGED <<current, ever, loops, final>>
        ELSE /\ current' = [current EXCEPT ![i] = NoLoop]
             /\ ever' = ever \ {i}
             /\ loops' = (loops \ mine) \cup {[l EXCEPT !.open = FALSE] : l \in mine}
             /\ final' = IF i \in ever THEN final
                         ELSE final \cup {[i |-> i, n |-> current[i], by |-> by]}

Stopped(by) == \A f \in final : f.by # by

\* Its unlocked part: the full lifetime is charged, unless the key exists.  An
\* error is only logged.
ChargeLifetime(f) ==
    /\ final' = final \ {f}
    /\ charged' \in {charged, charged \cup {<<f.i, minute>>}}
    /\ UNCHANGED <<relayVars, at, tries, cons, seen, current, ever, loops, rec,
                   minute, restarts, ticks, applied, billed>>

Advanced(l, pc) == loops' = (loops \ {l}) \cup {[l EXCEPT !.pc = pc]}

\* Back to select, where a closed channel ends the loop.
Selects(l) == IF l.open THEN Advanced(l, "wait") ELSE loops' = loops \ {l}

Leave(l) ==
    /\ l.pc = "wait" /\ ~l.open /\ Selects(l)
    /\ UNCHANGED <<relayVars, at, tries, cons, seen, current, ever, rec, final, charged,
                   minute, restarts, ticks, applied, billed>>

\* The ticker fires, at the latest when the channel is being closed: CollectAll
\* fixes the period.
Collect(l) ==
    /\ l.pc = "wait" /\ ticks < MaxTicks
    /\ loops' = (loops \ {l}) \cup {[l EXCEPT !.pc = "persist", !.period = minute]}
    /\ ticks' = ticks + 1
    /\ UNCHANGED <<relayVars, at, tries, cons, seen, current, ever, rec, final, charged,
                   minute, restarts, applied, billed>>

\* persistRecords; after an error the loop waits for the next tick.
Persist(l) ==
    /\ l.pc = "persist"
    /\ \/ /\ Advanced(l, "flag")
          /\ charged' = charged \cup {<<l.i, l.period>>}
          /\ billed' = IF <<l.i, l.period>> \in charged THEN billed ELSE billed \cup {<<l.i, l.n>>}
       \/ Selects(l) /\ UNCHANGED <<charged, billed>>
    /\ UNCHANGED <<relayVars, at, tries, cons, seen, current, ever, rec, final,
                   minute, restarts, ticks, applied>>

\* The flag is set by the name of the instance, whoever collects it by now.
Flag(l) ==
    /\ l.pc = "flag"
    /\ ever' = ever \cup {l.i}
    /\ Selects(l)
    /\ UNCHANGED <<relayVars, at, tries, cons, seen, current, rec, final, charged,
                   minute, restarts, ticks, applied, billed>>

-----------------------------------------------------------------------------
(***************************************************************************)
(* The consumer: MaxInflight 1, so one message at a time.  seenSeq is read *)
(* and advanced in two critical sections around the work.                  *)
(***************************************************************************)
Event == outbox[stream[at]]

Receive ==
    /\ cons.pc = "idle" /\ at <= Len(stream) /\ tries < MaxDeliver
    /\ tries' = tries + 1
    /\ cons' = [pc |-> "work", last |-> seen[Event.i]]
    /\ UNCHANGED <<relayVars, at, seen, current, ever, loops, rec, final, charged,
                   minute, restarts, ticks, applied, billed>>

\* Mutant: an event is compared with what it should be newer than, and may equal it.
StaleIfOlder(n) == n < cons.last

Stale(n) == n <= cons.last

Discard ==
    /\ cons.pc = "work" /\ Stale(stream[at])
    /\ cons' = [cons EXCEPT !.pc = "ack"]
    /\ UNCHANGED <<relayVars, at, tries, seen, current, ever, loops, rec, final, charged,
                   minute, restarts, ticks, applied, billed>>

Apply ==
    /\ cons.pc = "work" /\ ~Stale(stream[at])
    /\ IF Event.status = "running"
       THEN StartCollection({Event.i}) /\ UNCHANGED final
       ELSE StopCollection(Event.i, "consumer") /\ UNCHANGED billed
    /\ cons' = [cons EXCEPT !.pc = "advance"]
    /\ applied' = [applied EXCEPT ![Event.i] = stream[at]]
    /\ UNCHANGED <<relayVars, at, tries, seen, rec, charged, minute, restarts, ticks>>

Advance ==
    /\ cons.pc = "advance" /\ Stopped("consumer")
    /\ seen' = [seen EXCEPT ![Event.i] = IF stream[at] > @ THEN stream[at] ELSE @]
    /\ cons' = [cons EXCEPT !.pc = "ack"]
    /\ UNCHANGED <<relayVars, at, tries, current, ever, loops, rec, final, charged,
                   minute, restarts, ticks, applied, billed>>

Ack ==
    /\ cons.pc = "ack"
    /\ cons' = Resting /\ at' = at + 1 /\ tries' = 0
    /\ UNCHANGED <<relayVars, seen, current, ever, loops, rec, final, charged,
                   minute, restarts, ticks, applied, billed>>

\* The ack is lost: the message is delivered again.
LoseAck ==
    /\ cons.pc = "ack" /\ Fault
    /\ cons' = Resting
    /\ UNCHANGED <<row, outbox, open, locked, batch, stream, writes, at, tries, seen, current,
                   ever, loops, rec, final, charged, minute, restarts, ticks, applied, billed>>

\* MaxDeliver deliveries were not acknowledged: the message is dropped.
GiveUp ==
    /\ cons.pc = "idle" /\ at <= Len(stream) /\ tries = MaxDeliver
    /\ at' = at + 1 /\ tries' = 0
    /\ UNCHANGED <<relayVars, cons, seen, current, ever, loops, rec, final, charged,
                   minute, restarts, ticks, applied, billed>>

-----------------------------------------------------------------------------
(***************************************************************************)
(* The reconciler: query the running instances, start what is missing,     *)
(* then read the collections and stop those the query did not return.      *)
(***************************************************************************)
Running == {i \in Instances : row[i] = "running"}

Query ==
    /\ rec.pc = "idle"
    /\ rec' = [pc |-> "start", running |-> Running, left |-> Running]
    /\ UNCHANGED <<relayVars, at, tries, cons, seen, current, ever, loops, final, charged,
                   minute, restarts, ticks, applied, billed>>

StartMissing(i) ==
    /\ rec.pc = "start" /\ i \in rec.left
    /\ rec' = [rec EXCEPT !.left = @ \ {i}]
    /\ StartCollection({i})
    /\ UNCHANGED <<relayVars, at, tries, cons, seen, final, charged, minute, restarts, ticks, applied>>

\* Mutant: the reconciler only starts what is missing.
NothingStale == {}

StaleRefs == {i \in Instances : current[i] # NoLoop} \ rec.running

ListStale ==
    /\ rec.pc = "start" /\ rec.left = {}
    /\ rec' = [rec EXCEPT !.pc = "stop", !.left = StaleRefs]
    /\ UNCHANGED <<relayVars, at, tries, cons, seen, current, ever, loops, final, charged,
                   minute, restarts, ticks, applied, billed>>

StopStale(i) ==
    /\ rec.pc = "stop" /\ i \in rec.left /\ Stopped("reconciler")
    /\ rec' = [rec EXCEPT !.left = @ \ {i}]
    /\ StopCollection(i, "reconciler")
    /\ UNCHANGED <<relayVars, at, tries, cons, seen, charged, minute, restarts, ticks, applied, billed>>

EndRound ==
    /\ rec.pc = "stop" /\ rec.left = {} /\ Stopped("reconciler")
    /\ rec' = Asleep
    /\ UNCHANGED <<relayVars, at, tries, cons, seen, current, ever, loops, final, charged,
                   minute, restarts, ticks, applied, billed>>

-----------------------------------------------------------------------------
\* The process restarts and rebuilds; the rebuild may fail.
Restart ==
    /\ restarts < MaxRestarts /\ restarts' = restarts + 1
    /\ cons' = Resting /\ seen' = Zero /\ applied' = Zero
    /\ rec' = Asleep /\ final' = {} /\ ever' = {} /\ billed' = {}
    /\ \E S \in {Running, {}} :
        /\ current' = [i \in Instances |-> IF i \in S THEN 1 ELSE NoLoop]
        /\ loops' = {[i |-> i, n |-> 1, pc |-> "wait", open |-> TRUE, period |-> 0] : i \in S}
    /\ UNCHANGED <<relayVars, at, tries, charged, minute, ticks>>

Minute ==
    /\ minute < MaxMinute
    /\ minute' = minute + 1
    /\ UNCHANGED <<relayVars, at, tries, cons, seen, current, ever, loops, rec, final, charged,
                   restarts, ticks, applied, billed>>

Consumer == Receive \/ Discard \/ Apply \/ Advance \/ Ack \/ GiveUp
Reconciler ==
    \/ Query \/ ListStale \/ EndRound
    \/ \E i \in Instances : StartMissing(i) \/ StopStale(i)
Loops == \E l \in loops : Collect(l) \/ Persist(l) \/ Flag(l) \/ Leave(l)
Charges == \E f \in final : ChargeLifetime(f)

Next ==
    \/ RelayNext /\ UNCHANGED meterVars
    \/ Consumer \/ LoseAck \/ Reconciler \/ Loops \/ Charges
    \/ Restart \/ Minute

Spec == Init /\ [][Next]_vars

(***************************************************************************)
(* Fairness: publishers poll, the consumer goes on with its message, the   *)
(* reconciler comes back every five minutes.  Nobody has to write.         *)
(***************************************************************************)
LiveSpec ==
    /\ Spec
    /\ \A p \in Publishers : WF_vars(Relay(p) /\ UNCHANGED meterVars)
    /\ WF_vars(Consumer) /\ WF_vars(Reconciler) /\ WF_vars(Charges)

-----------------------------------------------------------------------------
(***************************************************************************)
(* No collection runs that nobody can stop: every loop whose channel is    *)
(* open is the one in the map, so there is at most one for an instance,    *)
(* however the consumer and the reconciler start and stop it.              *)
(***************************************************************************)
NoOrphanLoop == \A l \in loops : l.open => current[l.i] = l.n

(***************************************************************************)
(* While the process lives, the events of an instance are applied in the   *)
(* order of their sequence numbers, each at most once, however they were   *)
(* reordered, duplicated or redelivered (seenSeq).                         *)
(***************************************************************************)
AppliedInOrder ==
    [][cons.pc = "work" /\ cons'.pc = "advance" => stream[at] > applied[Event.i]]_vars

(***************************************************************************)
(* The collections follow the instance rows in the end, whatever events    *)
(* are missing, late or applied in the wrong order and whatever the        *)
(* reconciler read before (reconciler.go: the rows are the truth).         *)
(***************************************************************************)
CollectsWhatRuns ==
    \A i \in Instances :
        /\ <>[](row[i] = "running") => <>[](current[i] # NoLoop)
        /\ <>[](row[i] = "stopped") => <>[](current[i] = NoLoop)

(***************************************************************************)
(* A collection that has produced a periodic record is not charged again   *)
(* for its full lifetime (the comment of collectFullLifetime).             *)
(***************************************************************************)
ChargedOnce ==
    [][\A f \in final \ final' :
          <<f.i, f.n>> \in billed /\ restarts' = restarts => charged' = charged]_vars
=============================================================================
