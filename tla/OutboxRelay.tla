---------------------------- MODULE OutboxRelay ----------------------------
(***************************************************************************)
(* The transactional outbox of workload instances.  A transaction writes   *)
(* an event (pkg/adapters/runtime/outbox_writer.go) and the instance row;  *)
(* the publishers of task-service (outbox_publisher.go) lock a batch of    *)
(* committed events, publish them one by one to a JetStream stream and     *)
(* mark the batch published in the transaction that locked it.             *)
(*                                                                         *)
(* A transaction begins, inserts its event and then writes the row, so the *)
(* times, the ids and the rows of two transactions may be in three         *)
(* different orders.  The writers stand for everyone who changes the       *)
(* state of an instance (the processes of WorkloadQuota).                  *)
(***************************************************************************)
EXTENDS Integers, FiniteSets, SequencesExt

CONSTANTS
    Instances,      \* workload instances
    Writers,        \* transactions that change an instance's state
    Publishers,     \* replicas of task-service
    Batch,          \* OUTBOX batch size
    MaxEvents,      \* bound: writes of instance rows
    MaxFails        \* bound: events that are not written, failed publishes,
                    \* publishers that stop, late duplicates

ASSUME InstancesAssumption == IsFiniteSet(Instances)
ASSUME RelayAssumption == Batch \in Nat \ {0} /\ MaxEvents \in Nat /\ MaxFails \in Nat

VARIABLES
    row,        \* state in workload_instances
    outbox,     \* outbox_events, by id
    open,       \* the open transaction of each writer
    locked,     \* the events the transaction of each publisher has locked
    batch,      \* those of them it has still to publish
    stream,     \* the stream: event ids in the order they arrived
    writes, fails

relayVars == <<row, outbox, open, locked, batch, stream, writes, fails>>

Statuses == {"running", "stopped"}
NoTx == [born |-> 0, id |-> 0]
Events == 1..Len(outbox)

RelayInit ==
    /\ row = [i \in Instances |-> "stopped"]
    /\ outbox = <<>>
    /\ open = [w \in Writers |-> NoTx]
    /\ batch = [p \in Publishers |-> {}]
    /\ locked = [p \in Publishers |-> {}]
    /\ stream = <<>>
    /\ writes = 0 /\ fails = 0

Fault == fails < MaxFails /\ fails' = fails + 1

\* created_at is the time at which the transaction began.
Begin(w) ==
    /\ open[w] = NoTx /\ writes < MaxEvents
    /\ open' = [open EXCEPT ![w].born = writes + 1]
    /\ writes' = writes + 1
    /\ UNCHANGED <<row, outbox, locked, batch, stream, fails>>

\* Inserting the event draws its id; others see it when the transaction commits.
Insert(w, i, status) ==
    /\ open[w].born > 0 /\ open[w].id = 0
    /\ outbox' = Append(outbox, [i |-> i, status |-> status, state |-> "open", born |-> open[w].born])
    /\ open' = [open EXCEPT ![w].id = Len(outbox) + 1]
    /\ UNCHANGED <<row, locked, batch, stream, writes, fails>>

\* The row is written and the transaction commits.
Commit(w) ==
    /\ open[w].id > 0
    /\ row' = [row EXCEPT ![outbox[open[w].id].i] = outbox[open[w].id].status]
    /\ outbox' = [outbox EXCEPT ![open[w].id].state = "ready"]
    /\ open' = [open EXCEPT ![w] = NoTx]
    /\ UNCHANGED <<batch, locked, stream, writes, fails>>

\* The event is best effort: it may be skipped, and the row is written all the same.
WriteWithoutEvent(i, status) ==
    /\ writes < MaxEvents /\ Fault
    /\ row' = [row EXCEPT ![i] = status]
    /\ writes' = writes + 1
    /\ UNCHANGED <<outbox, open, batch, locked, stream>>

-----------------------------------------------------------------------------
\* ORDER BY created_at, id
Before(m, n) ==
    \/ outbox[m].born < outbox[n].born
    \/ outbox[m].born = outbox[n].born /\ m < n

\* FOR UPDATE SKIP LOCKED
Unlocked == {n \in Events : outbox[n].state = "ready" /\ \A p \in Publishers : n \notin locked[p]}

Fetched == {n \in Unlocked : Cardinality({m \in Unlocked : Before(m, n)}) < Batch}

Fetch(p) ==
    /\ locked[p] = {} /\ Unlocked # {}
    /\ batch' = [batch EXCEPT ![p] = Fetched]
    /\ locked' = [locked EXCEPT ![p] = Fetched]
    /\ UNCHANGED <<row, outbox, open, stream, writes, fails>>

\* JetStream drops a message whose MsgId it has seen in its duplicate window.
Send(n) ==
    \/ /\ stream' = IF n \in ToSet(stream) THEN stream ELSE Append(stream, n)
       /\ UNCHANGED fails
    \/ /\ n \in ToSet(stream) /\ Fault
       /\ stream' = Append(stream, n)

PublishNext(p) ==
    \E n \in batch[p] :
        /\ \A m \in batch[p] : ~Before(m, n)
        /\ Send(n)
        /\ batch' = [batch EXCEPT ![p] = @ \ {n}]
        /\ UNCHANGED <<row, outbox, open, locked, writes>>

\* Mutant: the batch is marked before it is published.
MarkAtOnce(p) ==
    /\ locked[p] # {}
    /\ outbox' = [n \in Events |-> IF n \in locked[p] THEN [outbox[n] EXCEPT !.state = "sent"]
                                                      ELSE outbox[n]]
    /\ locked' = [locked EXCEPT ![p] = {}]
    /\ batch' = [batch EXCEPT ![p] = {}]
    /\ UNCHANGED <<row, open, stream, writes, fails>>

MarkPublished(p) ==
    /\ locked[p] # {} /\ batch[p] = {}
    /\ outbox' = [n \in Events |-> IF n \in locked[p] THEN [outbox[n] EXCEPT !.state = "sent"]
                                                      ELSE outbox[n]]
    /\ locked' = [locked EXCEPT ![p] = {}]
    /\ UNCHANGED <<row, open, batch, stream, writes, fails>>

\* Mutant: the error of a publish ends the loop and not the transaction.
StopPublishing(p) ==
    /\ locked[p] # {} /\ Fault
    /\ batch' = [batch EXCEPT ![p] = {}]
    /\ UNCHANGED <<row, outbox, open, locked, stream, writes>>

\* A publish or the commit fails, or the process stops: the locks are released.
RollBack(p) ==
    /\ locked[p] # {} /\ Fault
    /\ batch' = [batch EXCEPT ![p] = {}]
    /\ locked' = [locked EXCEPT ![p] = {}]
    /\ UNCHANGED <<row, outbox, open, stream, writes>>

Relay(p) == Fetch(p) \/ PublishNext(p) \/ MarkPublished(p)

RelayNext ==
    \/ \E w \in Writers :
        \/ Begin(w) \/ \E i \in Instances, s \in Statuses : Insert(w, i, s)
        \/ Commit(w)
    \/ \E i \in Instances, s \in Statuses : WriteWithoutEvent(i, s)
    \/ \E p \in Publishers : Relay(p) \/ RollBack(p)

-----------------------------------------------------------------------------
(***************************************************************************)
(* No event is lost between the tables and the stream: whatever fails in   *)
(* publishOnce, an event that is marked published has been published.      *)
(***************************************************************************)
SentIsInStream == \A n \in Events : outbox[n].state = "sent" => n \in ToSet(stream)

(***************************************************************************)
(* Every committed event reaches the stream, whichever publisher held it   *)
(* when it failed.                                                         *)
(***************************************************************************)
EventsAreDelivered ==
    \A n \in 1..MaxEvents :
        (n \in Events /\ outbox[n].state = "ready") ~> (n \in ToSet(stream))
=============================================================================
