--------------------------- MODULE MeteringProofs ---------------------------
(***************************************************************************)
(* Theorems about OutboxRelay and Metering, for any number of instances,   *)
(* transactions, publishers, events, deliveries and restarts.              *)
(***************************************************************************)
EXTENDS Metering, FiniteSetTheorems, TLAPS

-----------------------------------------------------------------------------
(* The invariant.                                                          *)

EventType ==
    [i : Instances, status : Statuses, state : {"open", "ready", "sent"}, born : Nat]

RelayType ==
    /\ outbox \in Seq(EventType)
    /\ open \in [Writers -> [born : Nat, id : Nat]]
    /\ locked \in [Publishers -> SUBSET Events]
    /\ batch \in [Publishers -> SUBSET Events]
    /\ stream \in Seq(Events)
    /\ writes \in Nat

\* An open transaction is the only one that knows its event.
OpenInv ==
    \A w \in Writers : open[w].id > 0 =>
        /\ open[w].id \in Events /\ outbox[open[w].id].state = "open"
        /\ \A v \in Writers : open[v].id = open[w].id => v = w

\* A locked event is committed, not yet marked, and locked by one publisher only.
LockInv ==
    \A p \in Publishers : \A n \in locked[p] :
        /\ outbox[n].state = "ready"
        /\ \A q \in Publishers : n \in locked[q] => q = p

\* What a publisher has gone through is in the stream.
BatchInv == \A p \in Publishers : \A n \in locked[p] : n \in batch[p] \/ n \in ToSet(stream)

RelayInv == RelayType /\ OpenInv /\ LockInv /\ BatchInv /\ SentIsInStream

LoopType ==
    [i : Instances, n : Nat \ {0}, pc : {"wait", "persist", "flag"}, open : BOOLEAN, period : Nat]

FinalType == [i : Instances, n : Nat \ {0}, by : {"consumer", "reconciler"}]

CollectionType ==
    /\ current \in [Instances -> Nat]
    /\ loops \subseteq LoopType /\ IsFiniteSet(loops)
    /\ final \subseteq FinalType /\ IsFiniteSet(final)

\* A number stands for one loop of an instance.
LoopsAreDistinct == \A l, k \in loops : l.i = k.i /\ l.n = k.n => l = k

CollectionInv == CollectionType /\ LoopsAreDistinct /\ NoOrphanLoop

ClockInv == minute \in Nat /\ rec \in [pc : {"idle", "start", "stop"}, running : SUBSET Instances, left : SUBSET Instances]

ConsumerType ==
    /\ at \in Nat \ {0}
    /\ cons \in [pc : {"idle", "work", "advance", "ack"}, last : Nat]
    /\ cons.pc # "idle" => at <= Len(stream)
    /\ seen \in [Instances -> Nat] /\ applied \in [Instances -> Nat]

\* seenSeq is behind only while the event just applied has not been recorded in it.
SeenInv ==
    /\ \A i \in Instances : applied[i] <= seen[i] \/ (cons.pc = "advance" /\ i = Event.i)
    /\ cons.pc = "work" => cons.last = seen[Event.i]
    /\ cons.pc = "advance" => applied[Event.i] = stream[at]

IInv == RelayInv /\ CollectionInv /\ ClockInv /\ ConsumerType /\ SeenInv

-----------------------------------------------------------------------------
(* The relay.                                                              *)

\* Events and their order in the stream stay; a published event stays published.
Grown ==
    /\ Events \subseteq Events'
    /\ \A n \in Events : outbox'[n].i = outbox[n].i /\ (outbox[n].state = "sent" => outbox'[n].state = "sent")
    /\ Len(stream) <= Len(stream')
    /\ \A k \in 1..Len(stream) : stream'[k] = stream[k]

LEMMA EventHasType == ASSUME RelayType, NEW n \in Events PROVE outbox[n] \in EventType
  BY DEF RelayType, Events

\* Send puts an event of the batch into the stream, and nothing leaves it.
LEMMA SendGrows ==
    ASSUME RelayType, NEW n \in Events, Send(n)
    PROVE  /\ stream' \in Seq(Events) /\ n \in ToSet(stream')
           /\ \A m \in ToSet(stream) : m \in ToSet(stream')
           /\ Len(stream) <= Len(stream')
           /\ \A k \in 1..Len(stream) : stream'[k] = stream[k]
  <1>1. stream \in Seq(Events)
    BY DEF RelayType
  <1>2. CASE stream' = stream /\ n \in ToSet(stream)
    BY <1>1, <1>2
  <1>3. CASE stream' = Append(stream, n)
    <2>1. /\ stream' \in Seq(Events) /\ Len(stream') = Len(stream) + 1
          /\ \A k \in 1..Len(stream) : stream'[k] = stream[k]
          /\ stream'[Len(stream) + 1] = n /\ Len(stream) \in Nat
      BY <1>1, <1>3
    <2>2. n \in ToSet(stream')
      BY <2>1 DEF ToSet
    <2>3. \A m \in ToSet(stream) : m \in ToSet(stream')
      <3>1. TAKE m \in ToSet(stream)
      <3>2. PICK k \in 1..Len(stream) : stream[k] = m
        BY <1>1 DEF ToSet
      <3>3. k \in DOMAIN stream' /\ stream'[k] = m
        BY <2>1, <3>2
      <3>4. QED
        BY <3>3 DEF ToSet
    <2>4. QED
      BY <2>1, <2>2, <2>3
  <1>4. QED
    BY <1>2, <1>3 DEF Send

\* A transaction begins, inserts its event and commits.
LEMMA BeginKeeps == ASSUME RelayInv, NEW w \in Writers, Begin(w) PROVE RelayInv' /\ Grown
  <1>1. /\ RelayType /\ UNCHANGED <<outbox, locked, batch, stream>>
        /\ open' = [open EXCEPT ![w].born = writes + 1] /\ writes' = writes + 1
    BY DEF RelayInv, Begin
  <1>2. [open[w] EXCEPT !.born = writes + 1] \in [born : Nat, id : Nat]
    <2>1. open[w] \in [born : Nat, id : Nat] /\ writes + 1 \in Nat
      BY <1>1 DEF RelayType
    <2>2. QED
      BY <2>1
  <1>3. RelayType' /\ \A v \in Writers : open'[v].id = open[v].id
    BY <1>1, <1>2 DEF RelayType, Events
  <1>4. QED
    BY <1>1, <1>3 DEF RelayInv, OpenInv, LockInv, BatchInv, SentIsInStream, Grown, Events

LEMMA InsertKeeps ==
    ASSUME RelayInv, NEW w \in Writers, NEW i \in Instances, NEW s \in Statuses, Insert(w, i, s)
    PROVE  RelayInv' /\ Grown
  <1> DEFINE e == [i |-> i, status |-> s, state |-> "open", born |-> open[w].born]
             n == Len(outbox) + 1
  <1>1. /\ RelayType /\ UNCHANGED <<locked, batch, stream, writes>>
        /\ outbox' = Append(outbox, e) /\ open' = [open EXCEPT ![w].id = n]
    BY DEF RelayInv, Insert
  <1>2. e \in EventType /\ e.state = "open"
    BY <1>1 DEF RelayType, EventType
  <1> HIDE DEF e
  <1>3. /\ Len(outbox) \in Nat /\ Len(outbox') = n /\ n \notin Events /\ n \in Events' /\ n \in Nat
        /\ Events' = Events \cup {n} /\ outbox' \in Seq(EventType)
        /\ outbox'[n] = e /\ \A m \in Events : outbox'[m] = outbox[m]
    BY <1>1, <1>2 DEF RelayType, Events
  <1>4. [open[w] EXCEPT !.id = n] \in [born : Nat, id : Nat]
    BY <1>1, <1>3 DEF RelayType
  <1>5. /\ open' \in [Writers -> [born : Nat, id : Nat]] /\ open'[w].id = n
        /\ \A v \in Writers : v # w => open'[v].id = open[v].id
    BY <1>1, <1>4 DEF RelayType
  <1>6. RelayType'
    <2>1. Events \subseteq Events'
      BY <1>3
    <2>2. stream' \in Seq(Events')
      BY <1>1, <2>1 DEF RelayType
    <2>3. QED
      BY <1>1, <1>3, <1>5, <2>1, <2>2 DEF RelayType
  <1>7. OpenInv'
    BY <1>2, <1>3, <1>5 DEF RelayInv, OpenInv
  <1>8. LockInv' /\ BatchInv'
    <2>1. \A p \in Publishers : locked[p] \subseteq Events
      BY <1>1 DEF RelayType
    <2>2. QED
      BY <1>1, <1>3, <2>1 DEF RelayInv, LockInv, BatchInv
  <1>9. SentIsInStream'
    BY <1>1, <1>2, <1>3 DEF RelayInv, SentIsInStream
  <1>10. Grown
    <2>1. stream' = stream /\ Len(stream) \in Nat
      BY <1>1 DEF RelayType
    <2>2. Events \subseteq Events' /\ \A m \in Events : outbox'[m] = outbox[m]
      BY <1>3
    <2> HIDE DEF n
    <2>3. QED
      BY <2>1, <2>2 DEF Grown
  <1>11. QED
    BY <1>6, <1>7, <1>8, <1>9, <1>10 DEF RelayInv

LEMMA CommitKeeps == ASSUME RelayInv, NEW w \in Writers, Commit(w) PROVE RelayInv' /\ Grown
  <1> DEFINE n == open[w].id
             e == [outbox[n] EXCEPT !.state = "ready"]
  <1>1. /\ RelayType /\ UNCHANGED <<locked, batch, stream, writes>>
        /\ outbox' = [outbox EXCEPT ![n] = e] /\ open' = [open EXCEPT ![w] = NoTx]
        /\ n \in Events /\ outbox[n].state = "open" /\ \A v \in Writers : open[v].id = n => v = w
    BY DEF RelayInv, Commit, OpenInv
  <1>2. e \in EventType /\ e.state = "ready" /\ e.i = outbox[n].i
    BY <1>1, EventHasType DEF EventType
  <1> HIDE DEF e
  <1>3. /\ Events' = Events /\ outbox' \in Seq(EventType) /\ outbox'[n] = e
        /\ \A m \in Events : m # n => outbox'[m] = outbox[m]
    BY <1>1, <1>2 DEF RelayType, Events
  <1>4. /\ open' \in [Writers -> [born : Nat, id : Nat]] /\ open'[w].id = 0
        /\ \A v \in Writers : v # w => open'[v].id = open[v].id
    BY <1>1 DEF RelayType, NoTx
  <1>5. RelayType'
    BY <1>1, <1>3, <1>4 DEF RelayType
  <1>6. OpenInv'
    BY <1>1, <1>3, <1>4 DEF RelayInv, OpenInv
  <1>7. LockInv' /\ BatchInv' /\ SentIsInStream' /\ Grown
    BY <1>1, <1>2, <1>3 DEF RelayInv, RelayType, LockInv, BatchInv, SentIsInStream, Grown
  <1>8. QED
    BY <1>5, <1>6, <1>7 DEF RelayInv

LEMMA SkippedKeeps ==
    ASSUME RelayInv, NEW i, NEW s, WriteWithoutEvent(i, s)
    PROVE  RelayInv' /\ Grown
  <1>1. RelayType /\ UNCHANGED <<outbox, open, batch, locked, stream>> /\ writes' = writes + 1
    BY DEF RelayInv, WriteWithoutEvent
  <1>2. QED
    BY <1>1 DEF RelayInv, RelayType, Events, OpenInv, LockInv, BatchInv, SentIsInStream, Grown

\* A publisher locks what nobody has locked.
LEMMA FetchKeeps == ASSUME RelayInv, NEW p \in Publishers, Fetch(p) PROVE RelayInv' /\ Grown
  <1>1. /\ RelayType /\ UNCHANGED <<outbox, open, stream, writes>>
        /\ batch' = [batch EXCEPT ![p] = Fetched] /\ locked' = [locked EXCEPT ![p] = Fetched]
    BY DEF RelayInv, Fetch
  <1>2. \A n \in Fetched : /\ n \in Events /\ outbox[n].state = "ready"
                           /\ \A q \in Publishers : n \notin locked[q]
    BY DEF Fetched, Unlocked
  <1>3. RelayType' /\ Events' = Events
    BY <1>1, <1>2 DEF RelayType, Events
  <1>4. /\ locked'[p] = Fetched /\ batch'[p] = Fetched
        /\ \A q \in Publishers : q # p => locked'[q] = locked[q] /\ batch'[q] = batch[q]
    BY <1>1 DEF RelayType
  <1>5. LockInv'
    BY <1>1, <1>2, <1>4 DEF RelayInv, LockInv
  <1>6. BatchInv'
    BY <1>1, <1>4 DEF RelayInv, BatchInv
  <1>7. QED
    BY <1>1, <1>3, <1>5, <1>6 DEF RelayInv, OpenInv, SentIsInStream, Grown

LEMMA PublishKeeps == ASSUME RelayInv, NEW p \in Publishers, PublishNext(p) PROVE RelayInv' /\ Grown
  <1>1. RelayType /\ UNCHANGED <<outbox, open, locked, writes>>
    BY DEF RelayInv, PublishNext
  <1>2. PICK n \in batch[p] : Send(n) /\ batch' = [batch EXCEPT ![p] = batch[p] \ {n}]
    BY <1>1 DEF PublishNext, RelayType
  <1>3. n \in Events
    BY <1>1, <1>2 DEF RelayType
  <1>4. /\ stream' \in Seq(Events) /\ n \in ToSet(stream')
        /\ \A m \in ToSet(stream) : m \in ToSet(stream')
        /\ Len(stream) <= Len(stream') /\ \A k \in 1..Len(stream) : stream'[k] = stream[k]
    BY <1>1, <1>2, <1>3, SendGrows
  <1>5. /\ batch' \in [Publishers -> SUBSET Events] /\ batch'[p] = batch[p] \ {n}
        /\ \A q \in Publishers : q # p => batch'[q] = batch[q]
    BY <1>1, <1>2 DEF RelayType
  <1>6. Events' = Events
    BY <1>1 DEF Events
  <1>7. RelayType'
    BY <1>1, <1>4, <1>5, <1>6 DEF RelayType
  <1>8. BatchInv'
    BY <1>1, <1>4, <1>5 DEF RelayInv, BatchInv
  <1>9. OpenInv' /\ LockInv' /\ SentIsInStream' /\ Grown
    BY <1>1, <1>4, <1>6 DEF RelayInv, OpenInv, LockInv, SentIsInStream, Grown
  <1>10. QED
    BY <1>7, <1>8, <1>9 DEF RelayInv

LEMMA MarkKeeps == ASSUME RelayInv, NEW p \in Publishers, MarkPublished(p) PROVE RelayInv' /\ Grown
  <1> DEFINE Marked(n) == [outbox[n] EXCEPT !.state = "sent"]
  <1>1. /\ RelayType /\ UNCHANGED <<open, batch, stream, writes>> /\ batch[p] = {}
        /\ outbox' = [n \in Events |-> IF n \in locked[p] THEN Marked(n) ELSE outbox[n]]
        /\ locked' = [locked EXCEPT ![p] = {}]
    BY DEF RelayInv, MarkPublished
  <1>2. \A n \in Events : /\ outbox[n] \in EventType /\ Marked(n) \in EventType
                          /\ Marked(n).state = "sent" /\ Marked(n).i = outbox[n].i
    BY <1>1, EventHasType DEF EventType
  <1> HIDE DEF Marked
  <1>3. \A n \in Events : /\ n \in locked[p] => outbox'[n] = Marked(n)
                          /\ n \notin locked[p] => outbox'[n] = outbox[n]
    BY <1>1
  <1>4. outbox' \in Seq(EventType) /\ Len(outbox') = Len(outbox)
    <2>1. Len(outbox) \in Nat /\ Events = 1..Len(outbox)
      BY <1>1 DEF RelayType, Events
    <2>2. \A n \in Events : (IF n \in locked[p] THEN Marked(n) ELSE outbox[n]) \in EventType
      BY <1>2
    <2>3. outbox' \in [1..Len(outbox) -> EventType]
      BY <1>1, <2>1, <2>2
    <2>4. QED
      BY <2>1, <2>3
  <1>5. Events' = Events
    BY <1>4 DEF Events
  <1>6. /\ locked' \in [Publishers -> SUBSET Events] /\ locked'[p] = {}
        /\ \A q \in Publishers : q # p => locked'[q] = locked[q]
        /\ \A q \in Publishers : locked[q] \subseteq Events
    BY <1>1 DEF RelayType
  <1>7. RelayType'
    BY <1>1, <1>4, <1>5, <1>6 DEF RelayType
  <1>8. OpenInv'
    <2>1. \A w \in Writers : open[w].id > 0 => open[w].id \notin locked[p]
      BY DEF RelayInv, OpenInv, LockInv
    <2>2. QED
      BY <1>1, <1>3, <1>5, <2>1 DEF RelayInv, OpenInv
  <1>9. LockInv'
    <2>1. \A q \in Publishers : q # p => \A n \in locked[q] : n \notin locked[p]
      BY DEF RelayInv, LockInv
    <2>2. QED
      BY <1>3, <1>6, <2>1 DEF RelayInv, LockInv
  <1>10. BatchInv'
    BY <1>1, <1>6 DEF RelayInv, BatchInv
  <1>11. SentIsInStream' /\ Grown
    BY <1>1, <1>2, <1>3, <1>5, <1>6 DEF RelayInv, RelayType, BatchInv, SentIsInStream, Grown
  <1>12. QED
    BY <1>7, <1>8, <1>9, <1>10, <1>11 DEF RelayInv

LEMMA RollBackKeeps == ASSUME RelayInv, NEW p \in Publishers, RollBack(p) PROVE RelayInv' /\ Grown
  <1>1. /\ RelayType /\ UNCHANGED <<outbox, open, stream, writes>>
        /\ batch' = [batch EXCEPT ![p] = {}] /\ locked' = [locked EXCEPT ![p] = {}]
    BY DEF RelayInv, RollBack
  <1>2. RelayType' /\ Events' = Events
    BY <1>1 DEF RelayType, Events
  <1>3. /\ locked'[p] = {}
        /\ \A q \in Publishers : q # p => locked'[q] = locked[q] /\ batch'[q] = batch[q]
    BY <1>1 DEF RelayType
  <1>4. LockInv' /\ BatchInv'
    BY <1>1, <1>3 DEF RelayInv, LockInv, BatchInv
  <1>5. QED
    BY <1>1, <1>2, <1>4 DEF RelayInv, OpenInv, SentIsInStream, Grown

LEMMA RelayKeeps == ASSUME RelayInv, RelayNext PROVE RelayInv' /\ Grown
  BY BeginKeeps, InsertKeeps, CommitKeeps, SkippedKeeps, FetchKeeps, PublishKeeps, MarkKeeps, RollBackKeeps
  DEF RelayNext, Relay

\* The rest of the system does not touch the relay, but for the fault it counts.
LEMMA RelayRests ==
    ASSUME RelayInv, UNCHANGED <<row, outbox, open, locked, batch, stream, writes>>
    PROVE  RelayInv' /\ Grown
  BY DEF RelayInv, RelayType, Events, OpenInv, LockInv, BatchInv, SentIsInStream, Grown

-----------------------------------------------------------------------------
(* The collections.                                                        *)

\* The numbers of finitely many loops are finitely many.
LEMMA NumbersAreFinite ==
    ASSUME NEW S, IsFiniteSet(S), NEW T \in SUBSET S
    PROVE  IsFiniteSet({x.n : x \in T})
  <1> DEFINE f == [x \in T |-> x.n]
  <1>1. f \in Surjection(T, {x.n : x \in T})
    BY DEF Surjection
  <1>2. IsFiniteSet(T)
    BY FS_Subset
  <1>3. QED
    BY <1>1, <1>2, FS_Surjection

\* There is always a number that nobody knows.
LEMMA FreshIsFresh ==
    ASSUME CollectionType, NEW i
    PROVE  Fresh(i) \in Nat \ {0} /\ Fresh(i) \notin Known(i)
  <1>1. IsFiniteSet(Known(i))
    <2>1. IsFiniteSet({l.n : l \in {k \in loops : k.i = i}}) /\ IsFiniteSet({f.n : f \in {g \in final : g.i = i}})
      BY NumbersAreFinite DEF CollectionType
    <2>2. QED
      BY <2>1, FS_Union DEF Known
  <1> DEFINE c == Cardinality(Known(i))
  <1>2. c \in Nat
    BY <1>1, FS_CardinalityType
  <1>3. Cardinality(1..(c + 1)) = c + 1
    BY <1>2, FS_Interval
  <1>4. ~(1..(c + 1) \subseteq Known(i))
    <2>1. SUFFICES ASSUME 1..(c + 1) \subseteq Known(i) PROVE FALSE
      OBVIOUS
    <2>2. Cardinality(1..(c + 1)) <= c
      BY <1>1, <2>1, FS_Subset
    <2>3. QED
      BY <1>2, <1>3, <2>2
  <1>5. PICK n \in 1..(c + 1) : n \notin Known(i)
    BY <1>4
  <1>6. Fresh(i) \in 1..(c + 1) /\ Fresh(i) \notin Known(i)
    BY <1>5 DEF Fresh
  <1>7. QED
    BY <1>2, <1>6

\* A collection that is started gets a loop of its own.
LEMMA StartKeeps ==
    ASSUME CollectionInv, NEW S \in SUBSET Instances, StartCollection(S), UNCHANGED final
    PROVE  CollectionInv'
  <1> DEFINE new == {i \in S : current[i] = NoLoop}
             Loop(i) == [i |-> i, n |-> Fresh(i), pc |-> "wait", open |-> TRUE, period |-> 0]
  <1>1. CollectionType /\ LoopsAreDistinct /\ NoOrphanLoop
    BY DEF CollectionInv
  <1>2. /\ current' = [i \in Instances |-> IF i \in new THEN Fresh(i) ELSE current[i]]
        /\ loops' = loops \cup {Loop(i) : i \in new}
    BY DEF StartCollection
  <1>3. \A i \in new : i \in Instances /\ current[i] = 0
    BY DEF NoLoop
  <1>4. \A i \in new : /\ Loop(i) \in LoopType /\ Loop(i).i = i /\ Loop(i).n = Fresh(i)
                       /\ Fresh(i) \in Nat /\ Fresh(i) \notin Known(i)
    BY <1>1, <1>3, FreshIsFresh DEF LoopType
  <1>5. \A i \in new : \A l \in loops : l.i = i => l.n # Fresh(i) /\ ~l.open
    <2>1. TAKE i \in new
    <2>2. TAKE l \in loops
    <2>3. HAVE l.i = i
    <2>4. l.n \in Known(i)
      BY <2>3 DEF Known
    <2>5. l.open => l.n = 0
      BY <1>1, <1>3, <2>3 DEF NoOrphanLoop
    <2>6. l.n # 0
      BY <1>1 DEF CollectionType, LoopType
    <2>7. QED
      BY <1>4, <2>4, <2>5, <2>6 DEF CollectionType, LoopType
  <1>6. IsFiniteSet({Loop(i) : i \in new})
    <2>1. IsFiniteSet(new)
      BY InstancesAssumption, FS_Subset
    <2>2. [i \in new |-> Loop(i)] \in Surjection(new, {Loop(i) : i \in new})
      BY DEF Surjection
    <2>3. QED
      BY <2>1, <2>2, FS_Surjection
  <1>7. IsFiniteSet(loops')
    BY <1>1, <1>2, <1>6, FS_Union DEF CollectionType
  <1> HIDE DEF new, Loop
  <1>8. /\ current' \in [Instances -> Nat]
        /\ \A i \in Instances : current'[i] = IF i \in new THEN Fresh(i) ELSE current[i]
    BY <1>1, <1>2, <1>4 DEF CollectionType
  <1>9. CollectionType'
    BY <1>1, <1>2, <1>4, <1>7, <1>8 DEF CollectionType
  <1>10. LoopsAreDistinct'
    <2>1. SUFFICES ASSUME NEW l \in loops', NEW k \in loops', l.i = k.i, l.n = k.n
                   PROVE  l = k
      BY DEF LoopsAreDistinct
    <2>2. CASE l \in loops /\ k \in loops
      BY <1>1, <2>1, <2>2 DEF LoopsAreDistinct
    <2>3. CASE l \notin loops
      <3>1. PICK i \in new : l = Loop(i)
        BY <1>2, <2>3
      <3>2. k \notin loops
        BY <1>4, <1>5, <2>1, <3>1
      <3>3. PICK j \in new : k = Loop(j)
        BY <1>2, <3>2
      <3>4. QED
        BY <1>4, <2>1, <3>1, <3>3
    <2>4. CASE k \notin loops
      <3>1. PICK i \in new : k = Loop(i)
        BY <1>2, <2>4
      <3>2. l \notin loops
        BY <1>4, <1>5, <2>1, <3>1
      <3>3. PICK j \in new : l = Loop(j)
        BY <1>2, <3>2
      <3>4. QED
        BY <1>4, <2>1, <3>1, <3>3
    <2>5. QED
      BY <2>2, <2>3, <2>4
  <1>11. NoOrphanLoop'
    <2>1. SUFFICES ASSUME NEW l \in loops', l.open PROVE current'[l.i] = l.n
      BY DEF NoOrphanLoop
    <2>2. CASE l \in loops
      <3>1. l.i \in Instances /\ l.i \notin new /\ current[l.i] = l.n
        BY <1>1, <1>5, <2>1, <2>2 DEF CollectionType, LoopType, NoOrphanLoop
      <3>2. QED
        BY <1>8, <3>1
    <2>3. CASE l \notin loops
      <3>1. PICK i \in new : l = Loop(i)
        BY <1>2, <2>3
      <3>2. QED
        BY <1>3, <1>4, <1>8, <3>1
    <2>4. QED
      BY <2>2, <2>3
  <1>12. QED
    BY <1>9, <1>10, <1>11 DEF CollectionInv

\* The loop of a collection that is stopped, and no other, finds its channel closed.
LEMMA StopKeeps ==
    ASSUME CollectionInv, NEW i \in Instances, NEW by \in {"consumer", "reconciler"}, StopCollection(i, by)
    PROVE  CollectionInv'
  <1> DEFINE mine == {l \in loops : l.i = i /\ l.n = current[i]}
             Closed(l) == [l EXCEPT !.open = FALSE]
  <1>1. CollectionType /\ LoopsAreDistinct /\ NoOrphanLoop
    BY DEF CollectionInv
  <1>2. CASE current[i] = NoLoop
    <2>1. UNCHANGED <<current, loops, final>>
      BY <1>2 DEF StopCollection
    <2>2. QED
      BY <1>1, <2>1 DEF CollectionInv, CollectionType, LoopsAreDistinct, NoOrphanLoop
  <1>3. CASE current[i] # NoLoop
    <2>1. /\ current' = [current EXCEPT ![i] = NoLoop]
          /\ loops' = (loops \ mine) \cup {Closed(l) : l \in mine}
          /\ final' \in {final, final \cup {[i |-> i, n |-> current[i], by |-> by]}}
      BY <1>3 DEF StopCollection
    <2>2. /\ current' \in [Instances -> Nat]
          /\ \A j \in Instances : j # i => current'[j] = current[j]
      BY <1>1, <2>1 DEF CollectionType, NoLoop
    <2>3. final' \subseteq FinalType /\ IsFiniteSet(final')
      <3>1. [i |-> i, n |-> current[i], by |-> by] \in FinalType
        BY <1>1, <1>3 DEF CollectionType, NoLoop, FinalType
      <3> DEFINE f == [i |-> i, n |-> current[i], by |-> by]
      <3>2. IsFiniteSet(final) /\ final \subseteq FinalType /\ f \in FinalType /\ final' \in {final, final \cup {f}}
        BY <1>1, <2>1, <3>1 DEF CollectionType
      <3> HIDE DEF f
      <3>3. IsFiniteSet(final \cup {f})
        BY <3>2, FS_AddElement
      <3>4. QED
        BY <3>2, <3>3
    <2>4. \A l \in loops : /\ l \in LoopType /\ Closed(l) \in LoopType /\ ~Closed(l).open
                           /\ Closed(l).i = l.i /\ Closed(l).n = l.n
      BY <1>1 DEF CollectionType, LoopType
    <2>5. IsFiniteSet(loops')
      <3>1. IsFiniteSet(mine) /\ IsFiniteSet(loops \ mine)
        BY <1>1, FS_Subset DEF CollectionType
      <3>2. [l \in mine |-> Closed(l)] \in Surjection(mine, {Closed(l) : l \in mine})
        BY DEF Surjection
      <3>3. IsFiniteSet({Closed(l) : l \in mine})
        BY <3>1, <3>2, FS_Surjection
      <3>4. QED
        BY <2>1, <3>1, <3>3, FS_Union
    <2>6. \A k \in loops' : (k \in loops /\ k \notin mine) \/ (\E l \in mine : k = Closed(l))
      BY <2>1
    <2>7. \A l \in mine : l \in loops /\ l.i = i /\ l.n = current[i]
      OBVIOUS
    <2>8. \A l \in loops : l.open /\ l.i = i => l \in mine
      BY <1>1 DEF NoOrphanLoop
    <2> HIDE DEF mine, Closed
    <2>9. CollectionType'
      BY <2>2, <2>3, <2>4, <2>5, <2>6, <2>7 DEF CollectionType
    <2>10. LoopsAreDistinct'
      <3>1. SUFFICES ASSUME NEW j \in loops', NEW k \in loops', j.i = k.i, j.n = k.n
                     PROVE  j = k
        BY DEF LoopsAreDistinct
      <3>2. PICK l \in loops : /\ l.i = j.i /\ l.n = j.n
                               /\ (l \notin mine /\ j = l) \/ (l \in mine /\ j = Closed(l))
        BY <2>4, <2>6, <2>7
      <3>3. PICK m \in loops : /\ m.i = k.i /\ m.n = k.n
                               /\ (m \notin mine /\ k = m) \/ (m \in mine /\ k = Closed(m))
        BY <2>4, <2>6, <2>7
      <3>4. l = m
        BY <1>1, <3>1, <3>2, <3>3 DEF LoopsAreDistinct
      <3>5. QED
        BY <3>2, <3>3, <3>4
    <2>11. NoOrphanLoop'
      <3>1. SUFFICES ASSUME NEW k \in loops', k.open PROVE current'[k.i] = k.n
        BY DEF NoOrphanLoop
      <3>2. k \in loops /\ k \notin mine
        BY <2>4, <2>6, <2>7, <3>1
      <3>3. k.i # i /\ k.i \in Instances
        BY <2>4, <2>8, <3>1, <3>2 DEF LoopType
      <3>4. QED
        BY <1>1, <2>2, <3>1, <3>2, <3>3 DEF NoOrphanLoop
    <2>12. QED
      BY <2>9, <2>10, <2>11 DEF CollectionInv
  <1>4. QED
    BY <1>2, <1>3

\* A loop goes on as the same collection, or ends.
LEMMA LoopKeeps ==
    ASSUME CollectionInv, UNCHANGED <<current, final>>, NEW l \in loops, NEW m \in LoopType,
           m.i = l.i, m.n = l.n, m.open = l.open,
           loops' = (loops \ {l}) \cup {m} \/ loops' = loops \ {l}
    PROVE  CollectionInv'
  <1>1. CollectionType /\ LoopsAreDistinct /\ NoOrphanLoop
    BY DEF CollectionInv
  <1>2. IsFiniteSet(loops')
    <2>1. IsFiniteSet(loops \ {l})
      BY <1>1, FS_RemoveElement DEF CollectionType
    <2>2. IsFiniteSet((loops \ {l}) \cup {m})
      BY <2>1, FS_AddElement
    <2>3. QED
      BY <2>1, <2>2
  <1>3. QED
    BY <1>1, <1>2 DEF CollectionInv, CollectionType, LoopsAreDistinct, NoOrphanLoop

\* The event the consumer is at work on.
LEMMA EventExists ==
    ASSUME RelayInv, NEW k \in 1..Len(stream)
    PROVE  stream[k] \in Events /\ stream[k] \in Nat /\ outbox[stream[k]].i \in Instances
  <1>1. stream \in Seq(Events) /\ outbox \in Seq(EventType)
    BY DEF RelayInv, RelayType
  <1>2. stream[k] \in Events
    BY <1>1
  <1>3. outbox[stream[k]] \in EventType
    BY <1>1, <1>2 DEF Events
  <1>4. QED
    BY <1>2, <1>3 DEF Events, EventType

LEMMA AtEvent ==
    ASSUME IInv, cons.pc # "idle"
    PROVE  /\ at \in 1..Len(stream) /\ stream[at] \in Events /\ stream[at] \in Nat /\ Event.i \in Instances
  <1>1. at \in 1..Len(stream)
    BY DEF IInv, ConsumerType, RelayInv, RelayType
  <1>2. QED
    BY <1>1, EventExists DEF IInv, Event

LEMMA ChangedLoop ==
    ASSUME CollectionInv, UNCHANGED <<current, final>>, NEW l \in loops,
           (\E pc \in {"wait", "flag"} : Advanced(l, pc)) \/ Selects(l)
    PROVE  CollectionInv'
  <1>1. l \in LoopType
    BY DEF CollectionInv, CollectionType
  <1>2. ASSUME NEW pc \in {"wait", "flag"}, Advanced(l, pc) PROVE CollectionInv'
    <2> DEFINE m == [l EXCEPT !.pc = pc]
    <2>1. m \in LoopType /\ m.i = l.i /\ m.n = l.n /\ m.open = l.open
      BY <1>1 DEF LoopType
    <2>2. loops' = (loops \ {l}) \cup {m}
      BY <1>2 DEF Advanced
    <2> HIDE DEF m
    <2>3. QED
      BY <2>1, <2>2, LoopKeeps
  <1>3. CASE loops' = loops \ {l}
    BY <1>1, <1>3, LoopKeeps
  <1>4. QED
    BY <1>2, <1>3 DEF Selects

LEMMA CollectionKeeps == ASSUME IInv, [Next]_vars PROVE CollectionInv'
  <1>1. CollectionInv /\ CollectionType
    BY DEF IInv, CollectionInv
  <1>2. CASE Apply
    <2>1. Event.i \in Instances
      BY <1>2, AtEvent DEF Apply
    <2>2. CASE StartCollection({Event.i}) /\ UNCHANGED final
      BY <1>1, <2>1, <2>2, StartKeeps
    <2>3. CASE StopCollection(Event.i, "consumer")
      BY <1>1, <2>1, <2>3, StopKeeps
    <2>4. QED
      BY <1>2, <2>2, <2>3 DEF Apply
  <1>3. CASE \E i \in Instances : StartMissing(i) \/ StopStale(i)
    BY <1>1, <1>3, StartKeeps, StopKeeps DEF StartMissing, StopStale
  <1>4. ASSUME NEW l \in loops, Collect(l) \/ Persist(l) \/ Flag(l) \/ Leave(l) PROVE CollectionInv'
    <2>1. UNCHANGED <<current, final>>
      BY <1>4 DEF Collect, Persist, Flag, Leave
    <2>2. CASE Collect(l)
      <3> DEFINE m == [l EXCEPT !.pc = "persist", !.period = minute]
      <3>1. m \in LoopType /\ m.i = l.i /\ m.n = l.n /\ m.open = l.open
        BY <1>1 DEF CollectionType, LoopType, IInv, ClockInv
      <3>2. loops' = (loops \ {l}) \cup {m}
        BY <2>2 DEF Collect
      <3> HIDE DEF m
      <3>3. QED
        BY <1>1, <2>1, <3>1, <3>2, LoopKeeps
    <2>3. CASE Persist(l) \/ Flag(l) \/ Leave(l)
      BY <1>1, <2>1, <2>3, ChangedLoop DEF Persist, Flag, Leave
    <2>4. QED
      BY <1>4, <2>2, <2>3
  <1>5. ASSUME NEW f \in final, ChargeLifetime(f) PROVE CollectionInv'
    <2>1. UNCHANGED <<current, loops>> /\ final' = final \ {f}
      BY <1>5 DEF ChargeLifetime
    <2>2. IsFiniteSet(final \ {f})
      BY <1>1, FS_RemoveElement DEF CollectionType
    <2>3. QED
      BY <1>1, <2>1, <2>2 DEF CollectionInv, CollectionType, LoopsAreDistinct, NoOrphanLoop
  <1>6. CASE Restart
    <2> DEFINE Loop(i) == [i |-> i, n |-> 1, pc |-> "wait", open |-> TRUE, period |-> 0]
    <2>1. PICK S \in SUBSET Instances :
             /\ current' = [i \in Instances |-> IF i \in S THEN 1 ELSE NoLoop]
             /\ loops' = {Loop(i) : i \in S}
      BY <1>6 DEF Restart, Running
    <2>2. final' = {} /\ IsFiniteSet(final')
      BY <1>6, FS_EmptySet DEF Restart
    <2>3. \A i \in S : Loop(i) \in LoopType /\ Loop(i).i = i /\ Loop(i).n = 1
      BY DEF LoopType
    <2>4. IsFiniteSet(loops')
      <3>1. [i \in S |-> Loop(i)] \in Surjection(S, {Loop(i) : i \in S})
        BY DEF Surjection
      <3>2. IsFiniteSet(S)
        BY InstancesAssumption, FS_Subset
      <3>3. QED
        BY <2>1, <3>1, <3>2, FS_Surjection
    <2> HIDE DEF Loop
    <2>5. \A l \in loops' : \E i \in S : l = Loop(i)
      BY <2>1
    <2>6. CollectionType'
      BY <2>1, <2>2, <2>3, <2>4, <2>5 DEF CollectionType, NoLoop
    <2>7. LoopsAreDistinct' /\ NoOrphanLoop'
      BY <2>1, <2>3, <2>5 DEF LoopsAreDistinct, NoOrphanLoop
    <2>8. QED
      BY <2>6, <2>7 DEF CollectionInv
  <1>7. CASE \/ UNCHANGED vars \/ (RelayNext /\ UNCHANGED meterVars) \/ Receive \/ Discard \/ Advance \/ Ack
             \/ GiveUp \/ LoseAck \/ Query \/ ListStale \/ EndRound \/ Minute
    <2>1. UNCHANGED <<current, loops, final>>
      BY <1>7 DEF vars, meterVars, Receive, Discard, Advance, Ack, GiveUp, LoseAck, Query, ListStale,
                  EndRound, Minute
    <2>2. QED
      BY <1>1, <2>1 DEF CollectionInv, CollectionType, LoopsAreDistinct, NoOrphanLoop
  <1>8. CASE Loops
    <2>1. PICK l \in loops : Collect(l) \/ Persist(l) \/ Flag(l) \/ Leave(l)
      BY <1>8 DEF Loops
    <2>2. QED
      BY <1>4, <2>1
  <1>9. CASE Charges
    <2>1. PICK f \in final : ChargeLifetime(f)
      BY <1>9 DEF Charges
    <2>2. QED
      BY <1>5, <2>1
  <1>10. QED
    BY <1>2, <1>3, <1>6, <1>7, <1>8, <1>9 DEF Next, Consumer, Reconciler

LEMMA ClockKeeps == ASSUME IInv, [Next]_vars PROVE ClockInv'
  <1>1. ClockInv
    BY DEF IInv
  <1>2. ASSUME UNCHANGED <<minute, rec>> PROVE ClockInv'
    BY <1>1, <1>2 DEF ClockInv
  <1>3. CASE Query \/ ListStale \/ EndRound \/ \E i \in Instances : StartMissing(i) \/ StopStale(i)
    <2>1. minute' = minute
      BY <1>3 DEF Query, ListStale, EndRound, StartMissing, StopStale
    <2>2. rec' \in [pc : {"idle", "start", "stop"}, running : SUBSET Instances, left : SUBSET Instances]
      <3>1. CASE Query
        BY <3>1 DEF Query, Running
      <3>2. CASE ListStale
        BY <1>1, <3>2 DEF ListStale, StaleRefs, ClockInv
      <3>3. CASE EndRound
        BY <3>3 DEF EndRound, Asleep
      <3>4. CASE \E i \in Instances : StartMissing(i) \/ StopStale(i)
        BY <1>1, <3>4 DEF StartMissing, StopStale, ClockInv
      <3>5. QED
        BY <1>3, <3>1, <3>2, <3>3, <3>4
    <2>3. QED
      BY <1>1, <2>1, <2>2 DEF ClockInv
  <1>4. CASE Restart
    BY <1>1, <1>4 DEF Restart, ClockInv, Asleep
  <1>5. CASE Minute
    BY <1>1, <1>5 DEF Minute, ClockInv
  <1>6. CASE Loops
    BY <1>2, <1>6 DEF Loops, Collect, Persist, Flag, Leave
  <1>7. \/ UNCHANGED vars \/ (RelayNext /\ UNCHANGED meterVars) \/ Consumer \/ LoseAck \/ Charges
           => UNCHANGED <<minute, rec>>
    BY DEF vars, meterVars, Consumer, Receive, Discard, Apply, Advance, Ack, GiveUp, LoseAck, Charges, ChargeLifetime
  <1>8. QED
    BY <1>2, <1>3, <1>4, <1>5, <1>6, <1>7 DEF Next, Reconciler

-----------------------------------------------------------------------------
(* The consumer.                                                           *)

\* Every step is a step of the relay, or leaves it alone.
LEMMA RelayPart == ASSUME IInv, [Next]_vars PROVE RelayInv' /\ Grown
  <1>1. CASE RelayNext
    BY <1>1, RelayKeeps DEF IInv
  <1>2. CASE LoseAck
    BY <1>2, RelayRests DEF LoseAck, IInv
  <1>3. ASSUME UNCHANGED relayVars PROVE RelayInv' /\ Grown
    BY <1>3, RelayRests DEF relayVars, IInv
  <1>4. CASE Consumer
    BY <1>3, <1>4 DEF Consumer, Receive, Discard, Apply, Advance, Ack, GiveUp
  <1>5. CASE Reconciler
    BY <1>3, <1>5 DEF Reconciler, Query, ListStale, EndRound, StartMissing, StopStale
  <1>6. CASE Loops \/ Charges
    BY <1>3, <1>6 DEF Loops, Collect, Persist, Flag, Leave, Charges, ChargeLifetime
  <1>7. CASE Restart \/ Minute \/ UNCHANGED vars
    BY <1>3, <1>7 DEF Restart, Minute, vars
  <1>8. QED
    BY <1>1, <1>2, <1>4, <1>5, <1>6, <1>7 DEF Next

\* The message the consumer works on stays the same while the relay goes on.
LEMMA EventStays ==
    ASSUME IInv, Grown, at' = at, cons.pc # "idle"
    PROVE  Event'.i = Event.i /\ stream'[at'] = stream[at] /\ at' <= Len(stream')
  <1>1. at \in 1..Len(stream) /\ stream[at] \in Events
    BY AtEvent
  <1>2. Len(stream) \in Nat /\ at \in Nat /\ at <= Len(stream) /\ Len(stream) <= Len(stream')
    BY <1>1 DEF Grown, IInv, RelayInv, RelayType
  <1>3. stream'[at] = stream[at] /\ outbox'[stream[at]].i = outbox[stream[at]].i
    BY <1>1 DEF Grown
  <1>4. QED
    BY <1>2, <1>3 DEF Event

ConsumerInv == ConsumerType /\ SeenInv

\* The consumer does not move.
LEMMA ConsumerRests ==
    ASSUME IInv, Grown, RelayInv', UNCHANGED <<at, cons, seen, applied>>
    PROVE  ConsumerInv'
  <1>1. ConsumerType /\ SeenInv
    BY DEF IInv
  <1>2. CASE cons.pc = "idle"
    BY <1>1, <1>2 DEF ConsumerInv, ConsumerType, SeenInv
  <1>3. CASE cons.pc # "idle"
    <2>1. Event'.i = Event.i /\ stream'[at'] = stream[at] /\ at' <= Len(stream')
      BY <1>3, EventStays
    <2>2. QED
      BY <1>1, <2>1 DEF ConsumerInv, ConsumerType, SeenInv
  <1>4. QED
    BY <1>2, <1>3

LEMMA ConsumerSteps == ASSUME IInv, Consumer \/ LoseAck \/ Restart PROVE ConsumerInv'
  <1>1. /\ ConsumerType /\ SeenInv /\ stream \in Seq(Events) /\ Len(stream) \in Nat
        /\ UNCHANGED <<stream, outbox>>
    BY DEF IInv, RelayInv, RelayType, Consumer, Receive, Discard, Apply, Advance, Ack, GiveUp, LoseAck,
           Restart, relayVars
  <1>2. \A i \in Instances : seen[i] \in Nat /\ applied[i] \in Nat
    BY <1>1 DEF ConsumerType
  <1>3. CASE Receive
    <2>1. /\ UNCHANGED <<at, seen, applied>> /\ cons.pc = "idle" /\ at \in 1..Len(stream)
          /\ cons' = [pc |-> "work", last |-> seen[Event.i]] /\ Event' = Event
      BY <1>1, <1>3 DEF Receive, ConsumerType, Event
    <2>2. Event.i \in Instances
      BY <2>1, EventExists DEF IInv, Event
    <2>3. QED
      BY <1>1, <1>2, <2>1, <2>2 DEF ConsumerInv, ConsumerType, SeenInv
  <1>4. CASE Discard \/ Apply \/ Advance
    <2>1. /\ at' = at /\ cons.pc # "idle" /\ Event' = Event /\ stream[at] \in Nat /\ Event.i \in Instances
          /\ at <= Len(stream)
      BY <1>1, <1>4, AtEvent DEF Discard, Apply, Advance, Event, ConsumerType
    <2>2. CASE Discard
      BY <1>1, <2>1, <2>2 DEF Discard, ConsumerInv, ConsumerType, SeenInv
    <2>3. CASE Apply
      <3>1. /\ cons.pc = "work" /\ cons' = [cons EXCEPT !.pc = "advance"]
            /\ applied' = [applied EXCEPT ![Event.i] = stream[at]] /\ seen' = seen
        BY <2>3 DEF Apply
      <3>2. cons' \in [pc : {"idle", "work", "advance", "ack"}, last : Nat] /\ cons'.pc = "advance"
        BY <1>1, <3>1 DEF ConsumerType
      <3>3. /\ applied' \in [Instances -> Nat] /\ applied'[Event.i] = stream[at]
            /\ \A i \in Instances : i # Event.i => applied'[i] = applied[i]
        BY <1>1, <2>1, <3>1 DEF ConsumerType
      <3>4. QED
        BY <1>1, <2>1, <3>1, <3>2, <3>3 DEF ConsumerInv, ConsumerType, SeenInv
    <2>4. CASE Advance
      <3> DEFINE s == IF stream[at] > seen[Event.i] THEN stream[at] ELSE seen[Event.i]
      <3>1. /\ cons.pc = "advance" /\ cons' = [cons EXCEPT !.pc = "ack"] /\ applied' = applied
            /\ seen' = [seen EXCEPT ![Event.i] = s]
        BY <1>1, <2>1, <2>4 DEF Advance, ConsumerType
      <3>2. s \in Nat /\ s >= stream[at] /\ applied[Event.i] = stream[at]
        BY <1>1, <1>2, <2>1, <3>1 DEF SeenInv
      <3> HIDE DEF s
      <3>3. /\ seen' \in [Instances -> Nat] /\ seen'[Event.i] = s
            /\ \A i \in Instances : i # Event.i => seen'[i] = seen[i]
        BY <1>1, <2>1, <3>1, <3>2 DEF ConsumerType
      <3>4. \A i \in Instances : applied'[i] <= seen'[i]
        BY <1>1, <1>2, <2>1, <3>1, <3>2, <3>3 DEF SeenInv
      <3>5. cons' \in [pc : {"idle", "work", "advance", "ack"}, last : Nat] /\ cons'.pc = "ack"
        BY <1>1, <3>1 DEF ConsumerType
      <3>6. QED
        BY <1>1, <2>1, <3>1, <3>3, <3>4, <3>5 DEF ConsumerInv, ConsumerType, SeenInv
    <2>5. QED
      BY <1>4, <2>2, <2>3, <2>4
  <1>5. CASE Ack \/ GiveUp \/ LoseAck
    <2>1. /\ UNCHANGED <<seen, applied>> /\ at' \in Nat \ {0} /\ cons.pc \in {"idle", "ack"}
          /\ cons' \in [pc : {"idle", "work", "advance", "ack"}, last : Nat] /\ cons'.pc = "idle"
      BY <1>1, <1>5 DEF Ack, GiveUp, LoseAck, Resting, NotSeen, ConsumerType
    <2>2. QED
      BY <1>1, <2>1 DEF ConsumerInv, ConsumerType, SeenInv
  <1>6. CASE Restart
    BY <1>1, <1>6 DEF Restart, Resting, NotSeen, Zero, ConsumerInv, ConsumerType, SeenInv
  <1>7. QED
    BY <1>3, <1>4, <1>5, <1>6 DEF Consumer

LEMMA ConsumerKeeps == ASSUME IInv, [Next]_vars PROVE ConsumerInv'
  <1>1. RelayInv' /\ Grown
    BY RelayPart
  <1>2. CASE Consumer \/ LoseAck \/ Restart
    BY <1>2, ConsumerSteps
  <1>3. CASE (RelayNext /\ UNCHANGED meterVars) \/ Minute \/ UNCHANGED vars
    BY <1>1, <1>3, ConsumerRests DEF meterVars, Minute, vars
  <1>4. CASE Reconciler
    BY <1>1, <1>4, ConsumerRests DEF Reconciler, Query, ListStale, EndRound, StartMissing, StopStale
  <1>5. CASE Loops \/ Charges
    BY <1>1, <1>5, ConsumerRests DEF Loops, Collect, Persist, Flag, Leave, Charges, ChargeLifetime
  <1>6. QED
    BY <1>2, <1>3, <1>4, <1>5 DEF Next

-----------------------------------------------------------------------------
(* The theorems.                                                           *)

LEMMA InvInit == Init => IInv
  <1> SUFFICES ASSUME RelayInit, MeterInit PROVE IInv
    BY DEF Init
  <1>1. RelayInv
    <2>1. outbox = <<>> /\ stream = <<>> /\ outbox \in Seq(EventType) /\ stream \in Seq(Events)
      BY DEF RelayInit
    <2>2. RelayType
      BY <2>1 DEF RelayInit, RelayType, NoTx
    <2>3. OpenInv /\ LockInv /\ BatchInv
      BY DEF RelayInit, OpenInv, LockInv, BatchInv, NoTx
    <2>4. SentIsInStream
      BY <2>1 DEF SentIsInStream, Events
    <2>5. QED
      BY <2>2, <2>3, <2>4 DEF RelayInv
  <1>2. CollectionInv
    BY FS_EmptySet DEF MeterInit, CollectionInv, CollectionType, LoopsAreDistinct, NoOrphanLoop, Zero
  <1>3. ClockInv
    BY DEF MeterInit, ClockInv, Asleep
  <1>4. ConsumerType /\ SeenInv
    BY DEF MeterInit, ConsumerType, SeenInv, Resting, NotSeen, Zero
  <1>5. QED
    BY <1>1, <1>2, <1>3, <1>4 DEF IInv

LEMMA InvNext == IInv /\ [Next]_vars => IInv'
  BY RelayPart, CollectionKeeps, ClockKeeps, ConsumerKeeps DEF IInv, ConsumerInv

\* The invariant holds in every state of every behaviour.
THEOREM Invariance == Spec => []IInv
  BY InvInit, InvNext, PTL DEF Spec

(***************************************************************************)
(* An event that is marked published has been published, whichever         *)
(* publisher failed at whichever step (OutboxPublisher.publishOnce).       *)
(***************************************************************************)
THEOREM NoEventLost == Spec => []SentIsInStream
  <1>1. IInv => SentIsInStream
    BY DEF IInv, RelayInv
  <1>2. QED
    BY <1>1, Invariance, PTL

(***************************************************************************)
(* FOR UPDATE SKIP LOCKED: no two publishers hold one event, and a held    *)
(* event is committed and not yet marked published.                        *)
(***************************************************************************)
THEOREM OneHolder == Spec => []LockInv
  <1>1. IInv => LockInv
    BY DEF IInv, RelayInv
  <1>2. QED
    BY <1>1, Invariance, PTL

(***************************************************************************)
(* The stream only grows at its end, an event stays about its instance,    *)
(* and one that is marked published is never offered again.                *)
(***************************************************************************)
THEOREM RelayOnlyGrows == Spec => [][Grown]_vars
  <1>1. IInv /\ [Next]_vars => [Grown]_vars
    BY RelayPart
  <1>2. QED
    BY <1>1, Invariance, PTL DEF Spec

(***************************************************************************)
(* Every loop that can still be stopped is the one in the map              *)
(* (StartCollection and StopCollection under the mutex).                   *)
(***************************************************************************)
THEOREM EveryLoopIsInTheMap == Spec => []NoOrphanLoop
  <1>1. IInv => NoOrphanLoop
    BY DEF IInv, CollectionInv
  <1>2. QED
    BY <1>1, Invariance, PTL

(***************************************************************************)
(* An instance is never collected by two loops that go on, whichever of    *)
(* consumer, reconciler and rebuild started them.                          *)
(***************************************************************************)
THEOREM OneLoopPerInstance ==
    Spec => [](\A l, k \in loops : l.open /\ k.open /\ l.i = k.i => l = k)
  <1>1. IInv => \A l, k \in loops : l.open /\ k.open /\ l.i = k.i => l = k
    BY DEF IInv, CollectionInv, NoOrphanLoop, LoopsAreDistinct
  <1>2. QED
    BY <1>1, Invariance, PTL

(***************************************************************************)
(* While the process lives, an instance's events are applied in the order  *)
(* of their sequence numbers and at most once (seenSeq in handleEvent).    *)
(***************************************************************************)
THEOREM EventsApplyInOrder == Spec => AppliedInOrder
  <1>1. ASSUME IInv, Next, cons.pc = "work", cons'.pc = "advance"
        PROVE  stream[at] > applied[Event.i]
    <2>1. cons' # cons /\ cons'.pc # "idle" /\ cons'.pc # "ack" /\ cons'.pc # "work"
      BY <1>1
    <2>2. Apply
      <3>1. UNCHANGED cons \/ Consumer \/ LoseAck \/ Restart
        BY <1>1 DEF Next, meterVars, Reconciler, Query, ListStale, EndRound, StartMissing, StopStale,
                    Loops, Collect, Persist, Flag, Leave, Charges, ChargeLifetime, Minute
      <3>2. ~LoseAck /\ ~Restart /\ ~Receive /\ ~Discard /\ ~Advance /\ ~Ack /\ ~GiveUp
        BY <1>1, <2>1 DEF LoseAck, Restart, Receive, Discard, Advance, Ack, GiveUp, Resting, IInv, ConsumerType
      <3>3. QED
        BY <2>1, <3>1, <3>2 DEF Consumer
    <2>3. /\ stream[at] \in Nat /\ Event.i \in Instances /\ cons.last = seen[Event.i]
          /\ applied[Event.i] <= seen[Event.i] /\ seen[Event.i] \in Nat /\ applied[Event.i] \in Nat
      BY <1>1, AtEvent DEF IInv, SeenInv, ConsumerType
    <2>4. QED
      BY <2>2, <2>3 DEF Apply, Stale
  <1>2. IInv /\ [Next]_vars => [cons.pc = "work" /\ cons'.pc = "advance" => stream[at] > applied[Event.i]]_vars
    BY <1>1
  <1>3. QED
    BY <1>2, Invariance, PTL DEF Spec, AppliedInOrder
=============================================================================
