------------------------ MODULE WorkloadQuotaProofs ------------------------
(***************************************************************************)
(* Theorems about WorkloadQuota, for any number of instances, controllers, *)
(* readers, handlers and reservations.  A reservation that was taken stays *)
(* taken or ends, and one that has ended never comes back: what rows and   *)
(* processes remember of the books therefore stays true while they wait.   *)
(*                                                                         *)
(* Each step of a process makes at most one step of the book.  From this   *)
(* follow that the counters are the sums over the reservations, that the   *)
(* tables implement QuotaLedger, and that without faults no reservation    *)
(* is lost before a deadline passes.                                       *)
(***************************************************************************)
EXTENDS WorkloadQuota, SumTheorems

-----------------------------------------------------------------------------
(* The books.                                                              *)

Phases == {"none", "reserved", "confirmed", "cancelled", "released", "gone"}
Ended == {"cancelled", "released", "gone"}
Reservation == [state : Phases, amount : Nat]
Book == [here : BOOLEAN, total : Nat, alloc : Int, reserved : Int, used : Int,
         resv : [Txs -> Reservation]]

\* What is taken fits the total, and nothing is taken while there is no row.
BookOK(b) ==
    /\ b \in Book
    /\ b.reserved + b.used <= b.total
    /\ ~b.here => b.reserved + b.used <= 0

\* Reservation t has been taken at some time.
Known(b, t) == t \in Txs /\ b.resv[t].state # "none"

\* Reservation t holds nothing, and never will again.
Over(b, t) == t \in Txs /\ b.resv[t].state \in Ended

\* From book b to book d no reservation is forgotten and none comes back.
Follows(b, d) ==
    \A t \in Txs : (Known(b, t) => Known(d, t)) /\ (Over(b, t) => Over(d, t))

Moved(b, t, s, r, u) == [b EXCEPT !.reserved = r, !.used = u, !.resv[t].state = s]

\* A live reservation moves on, and no more is taken than before.
LEMMA MoveFollows ==
    ASSUME NEW b, BookOK(b), NEW t \in Txs, b.resv[t].state \in {"reserved", "confirmed"},
           NEW s \in {"confirmed", "cancelled", "released"},
           NEW r \in Int, NEW u \in Int, r + u <= b.reserved + b.used
    PROVE  /\ BookOK(Moved(b, t, s, r, u)) /\ Follows(b, Moved(b, t, s, r, u))
           /\ Moved(b, t, s, r, u).resv[t].state = s
  <1> DEFINE d == Moved(b, t, s, r, u)
  <1>1. b \in Book /\ b.reserved \in Int /\ b.used \in Int /\ b.total \in Nat
    BY DEF BookOK, Book
  <1>2. /\ b.resv \in [Txs -> Reservation]
        /\ [b.resv EXCEPT ![t].state = s] \in [Txs -> Reservation]
    BY <1>1 DEF Book, Reservation, Phases
  <1>3. /\ d \in Book /\ d.reserved = r /\ d.used = u /\ d.total = b.total /\ d.here = b.here
        /\ d.resv = [b.resv EXCEPT ![t].state = s]
    BY <1>1, <1>2 DEF Book, Moved
  <1>4. BookOK(d)
    BY <1>1, <1>3 DEF BookOK
  <1> HIDE DEF d
  <1>5. \A v \in Txs : d.resv[v].state = IF v = t THEN s ELSE b.resv[v].state
    BY <1>2, <1>3 DEF Reservation
  <1>6. Follows(b, d) /\ d.resv[t].state = s
    BY <1>5 DEF Follows, Known, Over, Ended
  <1>7. QED
    BY <1>4, <1>6 DEF d

LEMMA Amounts ==
    ASSUME NEW b, BookOK(b), NEW t \in Txs
    PROVE  /\ b.resv[t].amount \in Nat /\ b.reserved \in Int /\ b.used \in Int
           /\ b = [b EXCEPT !.used = b.used] /\ b = [b EXCEPT !.reserved = b.reserved]
           /\ Follows(b, b)
  BY DEF BookOK, Book, Reservation, Follows

LEMMA Stays == ASSUME NEW b PROVE Follows(b, b)
  BY DEF Follows

LEMMA ConfirmFollows ==
    ASSUME NEW b, BookOK(b), NEW t
    PROVE  BookOK(ConfirmTx(b, t)) /\ Follows(b, ConfirmTx(b, t))
  <1>1. CASE In(b, t, "reserved")
    <2> DEFINE a == b.resv[t].amount
    <2>1. t \in Txs /\ b.resv[t].state = "reserved"
      BY <1>1 DEF In
    <2>2. a \in Nat /\ b.reserved \in Int /\ b.used \in Int
      BY <2>1, Amounts
    <2>3. ConfirmTx(b, t) = Moved(b, t, "confirmed", b.reserved - a, b.used + a)
      BY <1>1 DEF ConfirmTx, Moved
    <2> HIDE DEF a
    <2>4. /\ b.reserved - a \in Int /\ b.used + a \in Int
          /\ (b.reserved - a) + (b.used + a) <= b.reserved + b.used
      BY <2>2
    <2>5. QED
      BY <2>1, <2>3, <2>4, MoveFollows
  <1>2. CASE ~In(b, t, "reserved")
    BY <1>2, Stays DEF ConfirmTx
  <1>3. QED
    BY <1>1, <1>2

LEMMA CancelFollows ==
    ASSUME NEW b, BookOK(b), NEW t
    PROVE  /\ BookOK(CancelTx(b, t)) /\ Follows(b, CancelTx(b, t))
           /\ In(b, t, "reserved") => Over(CancelTx(b, t), t)
           /\ ~In(b, t, "reserved") => CancelTx(b, t) = b
  <1>1. CASE In(b, t, "reserved")
    <2> DEFINE a == b.resv[t].amount
    <2>1. t \in Txs /\ b.resv[t].state = "reserved"
      BY <1>1 DEF In
    <2>2. a \in Nat /\ b.reserved \in Int /\ b.used \in Int
      BY <2>1, Amounts
    <2>3. CancelTx(b, t) = [b EXCEPT !.reserved = b.reserved - a, !.resv[t].state = "cancelled"]
      BY <1>1 DEF CancelTx
    <2>4. CancelTx(b, t) = Moved(b, t, "cancelled", b.reserved - a, b.used)
      BY <2>3 DEF BookOK, Book, Moved
    <2> HIDE DEF a
    <2>t. b.reserved - a \in Int /\ (b.reserved - a) + b.used <= b.reserved + b.used
      BY <2>2
    <2>5. /\ BookOK(CancelTx(b, t)) /\ Follows(b, CancelTx(b, t))
          /\ CancelTx(b, t).resv[t].state = "cancelled"
      BY <2>1, <2>2, <2>4, <2>t, MoveFollows
    <2>6. QED
      BY <1>1, <2>1, <2>5 DEF Over, Ended
  <1>2. CASE ~In(b, t, "reserved")
    BY <1>2, Stays DEF CancelTx
  <1>3. QED
    BY <1>1, <1>2

LEMMA ReleaseFollows ==
    ASSUME NEW b, BookOK(b), NEW t
    PROVE  /\ BookOK(ReleaseTx(b, t)) /\ Follows(b, ReleaseTx(b, t))
           /\ In(b, t, "confirmed") => Over(ReleaseTx(b, t), t)
  <1>1. CASE In(b, t, "confirmed")
    <2> DEFINE a == b.resv[t].amount
    <2>1. t \in Txs /\ b.resv[t].state = "confirmed"
      BY <1>1 DEF In
    <2>2. a \in Nat /\ b.reserved \in Int /\ b.used \in Int
      BY <2>1, Amounts
    <2>3. ReleaseTx(b, t) = [b EXCEPT !.used = b.used - a, !.resv[t].state = "released"]
      BY <1>1 DEF ReleaseTx
    <2>4. ReleaseTx(b, t) = Moved(b, t, "released", b.reserved, b.used - a)
      BY <2>3 DEF BookOK, Book, Moved
    <2> HIDE DEF a
    <2>t. b.used - a \in Int /\ b.reserved + (b.used - a) <= b.reserved + b.used
      BY <2>2
    <2>5. /\ BookOK(ReleaseTx(b, t)) /\ Follows(b, ReleaseTx(b, t))
          /\ ReleaseTx(b, t).resv[t].state = "released"
      BY <2>1, <2>2, <2>4, <2>t, MoveFollows
    <2>6. QED
      BY <2>1, <2>5 DEF Over, Ended
  <1>2. CASE ~In(b, t, "confirmed")
    BY <1>2, Stays DEF ReleaseTx
  <1>3. QED
    BY <1>1, <1>2

\* What the delete of an instance does to its reservation, unless it is gone.
LEMMA FreeFollows ==
    ASSUME NEW b, BookOK(b), NEW t
    PROVE  /\ BookOK(FreeTx(b, t)) /\ Follows(b, FreeTx(b, t))
           /\ Known(b, t) => Over(FreeTx(b, t), t)
  <1>1. /\ BookOK(CancelTx(b, t)) /\ Follows(b, CancelTx(b, t))
        /\ In(b, t, "reserved") => Over(CancelTx(b, t), t)
        /\ ~In(b, t, "reserved") => CancelTx(b, t) = b
    BY CancelFollows
  <1>2. /\ BookOK(FreeTx(b, t)) /\ Follows(CancelTx(b, t), FreeTx(b, t))
        /\ In(CancelTx(b, t), t, "confirmed") => Over(FreeTx(b, t), t)
    BY <1>1, ReleaseFollows DEF FreeTx
  <1>3. Follows(b, FreeTx(b, t))
    BY <1>1, <1>2 DEF Follows
  <1>4. ASSUME Known(b, t) PROVE Over(FreeTx(b, t), t)
    <2>1. CASE In(b, t, "reserved")
      BY <1>1, <1>2, <1>4, <2>1 DEF Follows, Known
    <2>2. CASE In(b, t, "confirmed")
      BY <1>1, <1>2, <2>2 DEF In
    <2>3. CASE ~In(b, t, "reserved") /\ ~In(b, t, "confirmed")
      <3>1. Over(b, t)
        BY <1>4, <2>3 DEF BookOK, Book, Reservation, Phases, Known, Over, Ended, In
      <3>2. QED
        BY <1>3, <1>4, <3>1 DEF Follows, Known
    <2>4. QED
      BY <2>1, <2>2, <2>3
  <1>5. QED
    BY <1>2, <1>3, <1>4

LEMMA OpenedFollows ==
    ASSUME NEW b, BookOK(b)
    PROVE  /\ Opened(b) \in Book /\ Opened(b).resv = b.resv
           /\ Opened(b).reserved = b.reserved /\ Opened(b).used = b.used
           /\ Opened(b).here = TRUE
  BY TotalsAssumption DEF BookOK, Book, Opened

LEMMA TryFollows ==
    ASSUME NEW b, BookOK(b), NEW n \in Nat, CanTry(b, n)
    PROVE  /\ BookOK(TryTx(b, n)) /\ Follows(b, TryTx(b, n))
           /\ NewTx(b) \in Txs /\ Known(TryTx(b, n), NewTx(b))
  <1> DEFINE o == Opened(b)
             e == [state |-> "reserved", amount |-> n]
             d == TryTx(b, n)
  <1>1. NewTx(b) \in Txs /\ b.resv[NewTx(b)].state = "none"
    BY DEF CanTry, NewTx, Free
  <1>2. /\ o \in Book /\ o.here = TRUE /\ o.resv = b.resv /\ o.reserved = b.reserved /\ o.used = b.used
        /\ b.reserved \in Int /\ b.used \in Int
    BY OpenedFollows DEF BookOK, Book
  <1>3. e \in Reservation
    BY DEF Reservation, Phases
  <1>4. b.resv \in [Txs -> Reservation] /\ [b.resv EXCEPT ![NewTx(b)] = e] \in [Txs -> Reservation]
    BY <1>1, <1>3 DEF BookOK, Book
  <1>5. d = [o EXCEPT !.reserved = o.reserved + n, !.resv[NewTx(b)] = e]
    BY DEF TryTx
  <1>6. b.reserved + n + b.used <= o.total
    BY <1>2 DEF CanTry, Taken
  <1> HIDE DEF o, e, d
  <1>7. b.reserved + n \in Int
    BY <1>2
  <1>8. /\ d \in Book /\ d.here = TRUE /\ d.total = o.total /\ d.reserved = b.reserved + n /\ d.used = b.used
        /\ d.resv = [b.resv EXCEPT ![NewTx(b)] = e]
    BY <1>2, <1>4, <1>5, <1>7 DEF Book
  <1>9. BookOK(d)
    BY <1>6, <1>8 DEF BookOK
  <1>10. \A t \in Txs : d.resv[t].state = IF t = NewTx(b) THEN "reserved" ELSE b.resv[t].state
    BY <1>1, <1>4, <1>8 DEF e
  <1>11. Follows(b, d) /\ Known(d, NewTx(b))
    BY <1>1, <1>10 DEF Follows, Known, Over, Ended
  <1>12. QED
    BY <1>1, <1>9, <1>11 DEF d

\* The administrator sets the total or the allocation.
SetTo(b, h, n, a) == [b EXCEPT !.here = h, !.total = n, !.alloc = a]

LEMMA SetFollows ==
    ASSUME NEW b, BookOK(b), NEW h \in BOOLEAN, NEW n \in Nat, NEW a \in Int, Taken(b) <= n,
           b.here => h
    PROVE  BookOK(SetTo(b, h, n, a)) /\ Follows(b, SetTo(b, h, n, a))
  BY DEF BookOK, Book, Taken, Follows, Known, Over, SetTo

Restated(b, h, n, r, u, f) ==
    [b EXCEPT !.here = h, !.total = n, !.reserved = r, !.used = u, !.resv = f]

LEMMA RestatedFields ==
    ASSUME NEW b \in Book, NEW h \in BOOLEAN, NEW n \in Nat, NEW r \in Int, NEW u \in Int,
           NEW f \in [Txs -> Reservation]
    PROVE  /\ Restated(b, h, n, r, u, f) \in Book /\ Restated(b, h, n, r, u, f).total = n
           /\ Restated(b, h, n, r, u, f).reserved = r /\ Restated(b, h, n, r, u, f).used = u
           /\ Restated(b, h, n, r, u, f).resv = f
  BY DEF Book, Restated

LEMMA PurgeFollows ==
    ASSUME NEW b, BookOK(b)
    PROVE  LET d == [b EXCEPT !.here = FALSE, !.total = 0, !.reserved = 0, !.used = 0,
                       !.resv = [t \in Txs |-> IF @[t].state = "none" THEN @[t]
                                               ELSE [@[t] EXCEPT !.state = "gone"]]]
           IN  BookOK(d) /\ Follows(b, d)
  <1> DEFINE f == [t \in Txs |-> IF b.resv[t].state = "none" THEN b.resv[t]
                                 ELSE [b.resv[t] EXCEPT !.state = "gone"]]
             d == [b EXCEPT !.here = FALSE, !.total = 0, !.reserved = 0, !.used = 0, !.resv = f]
  <1>1. b \in Book /\ b.resv \in [Txs -> Reservation]
    BY DEF BookOK, Book
  <1>2. f \in [Txs -> Reservation]
    BY <1>1 DEF Reservation, Phases
  <1>3. \A t \in Txs : f[t].state = IF b.resv[t].state = "none" THEN "none" ELSE "gone"
    BY <1>1 DEF Reservation
  <1> HIDE DEF f
  <1>4. d \in Book /\ d.reserved = 0 /\ d.used = 0 /\ d.total = 0 /\ d.resv = f
    <2>1. d = Restated(b, FALSE, 0, 0, 0, f)
      BY DEF Restated
    <2>2. ASSUME NEW h \in BOOLEAN
          PROVE  /\ Restated(b, h, 0, 0, 0, f) \in Book /\ Restated(b, h, 0, 0, 0, f).total = 0
                 /\ Restated(b, h, 0, 0, 0, f).reserved = 0 /\ Restated(b, h, 0, 0, 0, f).used = 0
                 /\ Restated(b, h, 0, 0, 0, f).resv = f
      BY <1>1, <1>2, RestatedFields
    <2> HIDE DEF d
    <2>3. QED
      BY <2>1, <2>2, Zenon
  <1>5. BookOK(d)
    BY <1>4 DEF BookOK
  <1>6. Follows(b, d)
    BY <1>3, <1>4 DEF Follows, Known, Over, Ended
  <1>7. QED
    BY <1>5, <1>6 DEF f

-----------------------------------------------------------------------------
(* The inductive invariant.  Whatever a row, a create or a process knows   *)
(* about a reservation is still true of every later book (Follows), so     *)
(* their ranges only grow with the book.                                   *)

RowType == [state : States, refs : BOOLEAN, tx : Nat, by : {"api", "rec", "gw"}]
Deploys == {"absent", "pending", "provisioning", "ready", "scaled"}
MakeType == [pc : {"idle", "apply", "upsert", "observe", "persist", "done"}, tx : Nat,
             seen : {"absent", "running", "provisioning"}]
LocalType(places) == [pc : places, i : Instances, snap : RowType, next : States]

\* A row names a reservation that was taken; a deleted row one that is over.
RowOf(b) ==
    {r \in RowType : /\ r.state # "absent" => Known(b, r.tx)
                     /\ r.state = "deleted" => Over(b, r.tx)}

MakeOf(b) ==
    {m \in MakeType : m.pc \in {"apply", "upsert", "observe", "persist"} => Known(b, m.tx)}

\* A process at work carries a row that it has read.
Carrying(b, places) ==
    {l \in LocalType(places) : l.pc # "idle" => Known(b, l.snap.tx) /\ l.snap.state # "absent"}

\* Neither a controller nor a read repair writes a deleted row; a handler
\* does so only on its way past the quota.
RecOf(b) ==
    {l \in Carrying(b, {"idle", "timeout", "observe", "write", "heal"}) :
        l.pc # "idle" => l.next # "deleted"}
GwOf(b) ==
    {l \in Carrying(b, {"idle", "observe", "delegate", "upsert"}) :
        l.pc # "idle" => l.next # "deleted"}
ApiOf(b) ==
    {l \in Carrying(b, {"idle", "start", "stop", "delete", "other", "retry", "persist"}) :
        l.next = "deleted" => l.pc \in {"idle", "delete", "persist"}}

IInv ==
    /\ BookOK(book)
    /\ row \in [Instances -> RowOf(book)]
    /\ deploy \in [Instances -> Deploys]
    /\ make \in [Instances -> MakeOf(book)]
    /\ rec \in [Callers -> RecOf(book)]
    /\ gw \in [Readers -> GwOf(book)]
    /\ api \in [Handlers -> ApiOf(book)]

LEMMA RangesGrow ==
    ASSUME NEW b, NEW d, Follows(b, d)
    PROVE  /\ RowOf(b) \subseteq RowOf(d) /\ MakeOf(b) \subseteq MakeOf(d)
           /\ RecOf(b) \subseteq RecOf(d) /\ GwOf(b) \subseteq GwOf(d) /\ ApiOf(b) \subseteq ApiOf(d)
  <1>1. \A t : (Known(b, t) => Known(d, t)) /\ (Over(b, t) => Over(d, t))
    BY DEF Follows, Known, Over
  <1>2. RowOf(b) \subseteq RowOf(d)
    BY <1>1 DEF RowOf
  <1>3. MakeOf(b) \subseteq MakeOf(d)
    BY <1>1 DEF MakeOf
  <1>4. RecOf(b) \subseteq RecOf(d)
    BY <1>1 DEF RecOf, Carrying
  <1>5. GwOf(b) \subseteq GwOf(d)
    BY <1>1 DEF GwOf, Carrying
  <1>6. ApiOf(b) \subseteq ApiOf(d)
    BY <1>1 DEF ApiOf, Carrying
  <1>7. QED
    BY <1>2, <1>3, <1>4, <1>5, <1>6

LEMMA KnownIsTx == ASSUME NEW b, NEW t, Known(b, t) PROVE t \in Txs /\ t \in Nat
  BY BoundsAssumption DEF Known, Txs

\* A process writes back the row it has read, with a reservation it knows.
LEMMA Rewrite ==
    ASSUME NEW b, NEW r \in RowType, NEW s \in States, NEW t, Known(b, t),
           NEW y \in {"api", "rec", "gw"}, s = "deleted" => Over(b, t)
    PROVE  [r EXCEPT !.state = s, !.tx = t, !.by = y] \in RowOf(b)
  <1>1. t \in Nat
    BY KnownIsTx
  <1>2. [r EXCEPT !.state = s, !.tx = t, !.by = y] \in RowType
    BY <1>1 DEF RowType
  <1>3. QED
    BY <1>2 DEF RowOf, RowType

LEMMA AtRestFits ==
    ASSUME NEW b
    PROVE  AtRest \in RecOf(b) /\ AtRest \in GwOf(b) /\ AtRest \in ApiOf(b)
  <1>1. (CHOOSE i \in Instances : TRUE) \in Instances
    BY InstancesAssumption
  <1>2. NoRow \in RowType
    BY DEF NoRow, RowType, States
  <1>3. /\ AtRest.pc = "idle" /\ AtRest.next = "absent"
        /\ \A places : "idle" \in places => AtRest \in LocalType(places)
    BY <1>1, <1>2 DEF AtRest, Resting, LocalType, States
  <1>4. QED
    BY <1>3 DEF RecOf, GwOf, ApiOf, Carrying
-----------------------------------------------------------------------------
(* The steps of the book.                                                  *)

SetsTotal(n) == Put(n) \/ CreateTenantQuota(n) \/ UpdateTenantQuota(n) \/ UpsertTenantQuota(n)

LEMMA AdminSteps ==
    ASSUME BookOK(book), NEW n \in Nat, SetsTotal(n) \/ PutReservation(n) \/ DeleteTenantQuota
    PROVE  BookOK(book') /\ Follows(book, book')
  <1>1. /\ book \in Book /\ book.total \in Nat /\ book.alloc \in Int /\ Taken(book) \in Int
        /\ book.here \in BOOLEAN /\ Taken(book) <= book.total
    BY DEF BookOK, Book, Taken
  <1>2. ASSUME NEW h \in BOOLEAN, NEW m \in Nat, Taken(book) <= m, book.here => h
        PROVE  LET d == [book EXCEPT !.here = h, !.total = m]
               IN  BookOK(d) /\ Follows(book, d)
    <2>1. [book EXCEPT !.here = h, !.total = m] = SetTo(book, h, m, book.alloc)
      BY <1>1 DEF SetTo, Book
    <2>2. QED
      BY <1>1, <1>2, <2>1, SetFollows
  <1>3. CASE Put(n)
    <2>1. book' = [book EXCEPT !.here = TRUE, !.total = n] /\ Taken(book) <= n
      BY <1>3 DEF Put, Writes
    <2>2. QED
      BY <1>2, <2>1, Zenon
  <1>4. ASSUME NEW m \in Nat
        PROVE  Max2(m, Taken(book)) \in Nat /\ Taken(book) <= Max2(m, Taken(book))
    BY <1>1 DEF Max2
  <1>5. CASE CreateTenantQuota(n)
    <2>1. book' = [book EXCEPT !.here = TRUE, !.total = Given(n)] /\ ~book.here
      BY <1>5 DEF CreateTenantQuota, Writes
    <2>2. Given(n) \in Nat /\ Taken(book) <= Given(n)
      BY <1>1, <2>1, TotalsAssumption DEF Given, BookOK, Taken
    <2>3. QED
      BY <1>2, <2>1, <2>2, Zenon
  <1>6. CASE UpdateTenantQuota(n)
    <2>1. book' = [book EXCEPT !.total = Max2(n, Taken(book))]
      BY <1>6 DEF UpdateTenantQuota, Writes
    <2>2. book' = [book EXCEPT !.here = book.here, !.total = Max2(n, Taken(book))]
      BY <1>1, <2>1 DEF Book
    <2>3. QED
      BY <1>1, <1>2, <1>4, <2>2, Zenon
  <1>7. CASE UpsertTenantQuota(n)
    <2>1. book' = [book EXCEPT !.here = TRUE, !.total = Max2(Given(n), Taken(book))]
      BY <1>7 DEF UpsertTenantQuota, Writes
    <2>2. Given(n) \in Nat
      BY TotalsAssumption DEF Given
    <2>3. QED
      BY <1>2, <1>4, <2>1, <2>2, Zenon
  <1>8. CASE PutReservation(n)
    <2>1. book' = [book EXCEPT !.alloc = Max2(n, Taken(book))]
      BY <1>8 DEF PutReservation, Writes
    <2>2. Max2(n, Taken(book)) \in Int
      BY <1>4
    <2>3. book' = SetTo(book, book.here, book.total, Max2(n, Taken(book)))
      BY <1>1, <2>1 DEF Book, SetTo
    <2>4. QED
      BY <1>1, <2>2, <2>3, SetFollows
  <1>9. CASE DeleteTenantQuota
    BY <1>9, PurgeFollows DEF DeleteTenantQuota, Writes
  <1>10. QED
    BY <1>3, <1>5, <1>6, <1>7, <1>8, <1>9 DEF SetsTotal
-----------------------------------------------------------------------------
(* Every step keeps the inductive invariant.                               *)

LEMMA Kept ==
    ASSUME IInv, BookOK(book'), Follows(book, book')
    PROVE  /\ row \in [Instances -> RowOf(book')] /\ make \in [Instances -> MakeOf(book')]
           /\ rec \in [Callers -> RecOf(book')] /\ gw \in [Readers -> GwOf(book')]
           /\ api \in [Handlers -> ApiOf(book')]
  <1>1. /\ RowOf(book) \subseteq RowOf(book') /\ MakeOf(book) \subseteq MakeOf(book')
        /\ RecOf(book) \subseteq RecOf(book') /\ GwOf(book) \subseteq GwOf(book')
        /\ ApiOf(book) \subseteq ApiOf(book')
    BY RangesGrow
  <1>2. QED
    BY <1>1 DEF IInv

\* A row that a create writes.
LEMMA NewRow ==
    ASSUME NEW b, NEW t, Known(b, t), NEW s \in {"provisioning", "running", "failed", "absent"},
           NEW r \in BOOLEAN
    PROVE  [state |-> s, refs |-> r, tx |-> t, by |-> "api"] \in RowOf(b)
  BY KnownIsTx DEF RowOf, RowType, States

\* The next step of a create.
LEMMA NextMake ==
    ASSUME NEW b, NEW m \in MakeOf(b), m.pc \in {"apply", "upsert", "observe", "persist"},
           NEW p \in {"upsert", "observe", "persist", "done"}
    PROVE  /\ [m EXCEPT !.pc = p] \in MakeOf(b) /\ Known(b, m.tx)
           /\ \A s \in {"running", "provisioning"} : [m EXCEPT !.pc = p, !.seen = s] \in MakeOf(b)
  BY DEF MakeOf, MakeType

LEMMA CreateSteps ==
    ASSUME IInv, NEW i \in Instances, Create(i)
    PROVE  IInv'
  <1>1. /\ BookOK(book) /\ row \in [Instances -> RowOf(book)] /\ make \in [Instances -> MakeOf(book)]
        /\ deploy \in [Instances -> Deploys] /\ Gpus[i] \in Nat
        /\ make[i] \in MakeOf(book)
    BY GpusAssumption DEF IInv
  <1>2. CASE MakeTry(i)
    <2>1. /\ book' = TryTx(book, Gpus[i]) /\ CanTry(book, Gpus[i])
          /\ make' = [make EXCEPT ![i] = [make[i] EXCEPT !.pc = "apply", !.tx = NewTx(book)]]
          /\ UNCHANGED <<row, deploy, rec, gw, api>>
      BY <1>2 DEF MakeTry, MayCreate
    <2>2. /\ BookOK(book') /\ Follows(book, book')
          /\ NewTx(book) \in Nat /\ Known(book', NewTx(book))
      BY <1>1, <2>1, TryFollows, KnownIsTx
    <2>3. [make[i] EXCEPT !.pc = "apply", !.tx = NewTx(book)] \in MakeOf(book')
      BY <1>1, <2>2 DEF MakeOf, MakeType
    <2>4. QED
      BY <1>1, <2>1, <2>2, <2>3, Kept DEF IInv
  <1>3. CASE MakeApply(i)
    <2>1. [make[i] EXCEPT !.pc = "upsert"] \in MakeOf(book)
      BY <1>1, <1>3, NextMake DEF MakeApply
    <2>2. "pending" \in Deploys
      BY DEF Deploys
    <2>3. QED
      BY <1>1, <1>3, <2>1, <2>2 DEF IInv, MakeApply
  <1>4. CASE MakeUpsert(i)
    <2>1. [make[i] EXCEPT !.pc = "observe"] \in MakeOf(book) /\ Known(book, make[i].tx)
      BY <1>1, <1>4, NextMake DEF MakeUpsert
    <2>2. [state |-> "provisioning", refs |-> FALSE, tx |-> make[i].tx, by |-> "api"] \in RowOf(book)
      BY <2>1, NewRow, Zenon
    <2>3. QED
      BY <1>1, <1>4, <2>1, <2>2 DEF IInv, MakeUpsert
  <1>5. CASE MakeObserve(i)
    <2> DEFINE s == IF deploy[i] = "ready" THEN "running" ELSE "provisioning"
    <2>1. s \in {"running", "provisioning"}
      OBVIOUS
    <2>2. [make[i] EXCEPT !.pc = "persist", !.seen = s] \in MakeOf(book)
      BY <1>1, <1>5, <2>1, NextMake DEF MakeObserve
    <2>3. QED
      BY <1>1, <1>5, <2>2 DEF IInv, MakeObserve
  <1>6. CASE MakePersist(i)
    <2>1. Known(book, make[i].tx) /\ [make[i] EXCEPT !.pc = "done"] \in MakeOf(book)
      BY <1>1, <1>6, NextMake DEF MakePersist
    <2>2. BookOK(book') /\ Follows(book, book')
      BY <1>1, <1>6, ConfirmFollows, Stays DEF MakePersist
    <2>3. Known(book', make[i].tx)
      BY <2>1, <2>2 DEF Follows, Known
    <2>4. [make[i] EXCEPT !.pc = "done"] \in MakeOf(book')
      BY <2>1, <2>2, RangesGrow
    <2>5. make[i].seen \in {"provisioning", "running", "failed", "absent"} /\ TRUE \in BOOLEAN
      BY <1>1 DEF MakeOf, MakeType
    <2>6. [state |-> make[i].seen, refs |-> TRUE, tx |-> make[i].tx, by |-> "api"] \in RowOf(book')
      BY <2>3, <2>5, NewRow, Zenon
    <2>7. QED
      BY <1>1, <1>6, <2>2, <2>4, <2>6, Kept DEF IInv, MakePersist
  <1>7. CASE MakeRefused(i)
    <2>1. Known(book, make[i].tx) /\ [make[i] EXCEPT !.pc = "done"] \in MakeOf(book)
      BY <1>1, <1>7, NextMake DEF MakeRefused
    <2>2. BookOK(book') /\ Follows(book, book')
      BY <1>1, <1>7, CancelFollows DEF MakeRefused
    <2>3. Known(book', make[i].tx)
      BY <2>1, <2>2 DEF Follows, Known
    <2>4. [make[i] EXCEPT !.pc = "done"] \in MakeOf(book')
      BY <2>1, <2>2, RangesGrow
    <2>5. [state |-> "failed", refs |-> FALSE, tx |-> make[i].tx, by |-> "api"] \in RowOf(book')
      BY <2>3, NewRow, Zenon
    <2>6. QED
      BY <1>1, <1>7, <2>2, <2>4, <2>5, Kept DEF IInv, MakeRefused
  <1>8. CASE MakeFails(i)
    <2>1. [make[i] EXCEPT !.pc = "done"] \in MakeOf(book)
      BY <1>1, <1>8, NextMake DEF MakeFails, Making
    <2>2. BookOK(book') /\ Follows(book, book')
      BY <1>1, <1>8, CancelFollows DEF MakeFails
    <2>3. [make[i] EXCEPT !.pc = "done"] \in MakeOf(book')
      BY <2>1, <2>2, RangesGrow
    <2>4. QED
      BY <1>1, <1>8, <2>2, <2>3, Kept DEF IInv, MakeFails
  <1>9. CASE MakeDies(i)
    <2>1. [make[i] EXCEPT !.pc = "done"] \in MakeOf(book)
      BY <1>1, <1>9, NextMake DEF MakeDies, Making
    <2>2. QED
      BY <1>1, <1>9, <2>1 DEF IInv, MakeDies
  <1>10. QED
    BY <1>2, <1>3, <1>4, <1>5, <1>6, <1>7, <1>8, <1>9 DEF Create
LEMMA BeginFits ==
    ASSUME NEW b, NEW i \in Instances, row[i] \in RowOf(b), row[i].state \notin Gone
    PROVE  Begin(i) \in RecOf(b)
  <1>1. row[i] \in RowType /\ Known(b, row[i].tx) /\ row[i].state # "absent"
    BY DEF RowOf, Gone
  <1>2. /\ Begin(i).pc \in {"timeout", "observe"} /\ Begin(i).i = i /\ Begin(i).snap = row[i]
        /\ Begin(i).next = "absent"
        /\ Begin(i) \in LocalType({"idle", "timeout", "observe", "write", "heal"})
    BY <1>1 DEF Begin, LocalType, States
  <1>3. QED
    BY <1>1, <1>2 DEF RecOf, Carrying

\* What a process at work knows.
LEMMA RecKnows ==
    ASSUME NEW b, NEW l \in RecOf(b), l.pc # "idle"
    PROVE  /\ l.i \in Instances /\ l.snap \in RowType /\ l.next \in States
           /\ Known(b, l.snap.tx) /\ l.next # "deleted"
           /\ \A p \in {"write", "heal"}, s \in States \ {"deleted"} :
                [l EXCEPT !.pc = p, !.next = s] \in RecOf(b)
           /\ \A p \in {"write", "heal"} : [l EXCEPT !.pc = p] \in RecOf(b)
  BY DEF RecOf, Carrying, LocalType

LEMMA MappedState == ASSUME NEW i PROVE Mapped(i) \in {"failed", "running", "provisioning"}
  BY DEF Mapped

LEMMA SettledFollows ==
    ASSUME NEW b, BookOK(b), NEW t, NEW s, NEW next
    PROVE  BookOK(Settled(b, t, s, next)) /\ Follows(b, Settled(b, t, s, next))
  <1>1. Settled(b, t, s, next) \in {ConfirmTx(b, t), FreeTx(b, t), b}
    BY DEF Settled
  <1>2. /\ BookOK(ConfirmTx(b, t)) /\ Follows(b, ConfirmTx(b, t))
        /\ BookOK(FreeTx(b, t)) /\ Follows(b, FreeTx(b, t)) /\ Follows(b, b)
    BY ConfirmFollows, FreeFollows, Stays
  <1>3. QED
    BY <1>1, <1>2

\* A controller that is done has written its row back.
LEMMA RecWrites ==
    ASSUME IInv, NEW c \in Callers, rec[c].pc # "idle", BookOK(book'), Follows(book, book'),
           NEW s \in States \ {"deleted"}, NEW t, Known(book', t), Written(c, s, t), RecEnds(c),
           UNCHANGED <<deploy, make, gw, api>>
    PROVE  IInv'
  <1>1. rec[c] \in RecOf(book) /\ row \in [Instances -> RowOf(book')]
    BY Kept DEF IInv
  <1>2. rec[c].i \in Instances /\ rec[c].snap \in RowType
    BY <1>1, RecKnows
  <1>3. [rec[c].snap EXCEPT !.state = s, !.tx = t, !.by = "rec"] \in RowOf(book')
    BY <1>2, Rewrite
  <1>4. row' \in [Instances -> RowOf(book')]
    BY <1>1, <1>2, <1>3 DEF Written
  <1>5. rec' \in [Callers -> RecOf(book')]
    BY AtRestFits, Kept DEF RecEnds
  <1>6. QED
    BY <1>4, <1>5, Kept DEF IInv

LEMMA ReconcileSteps ==
    ASSUME IInv, NEW c \in Callers, Reconcile(c)
    PROVE  IInv'
  <1> DEFINE l == rec[c]
  <1>1. /\ BookOK(book) /\ rec \in [Callers -> RecOf(book)] /\ l \in RecOf(book)
        /\ l.pc # "idle"
    BY DEF IInv, Reconcile, RecTimeout, RecObserve, RecWrite, RecRetry, RecHeal, RecFails
  <1>2. /\ l.i \in Instances /\ l.snap \in RowType /\ Known(book, l.snap.tx)
        /\ l.next \in States \ {"deleted"}
    BY <1>1, RecKnows
  <1>3. AtRest \in RecOf(book)
    BY AtRestFits
  <1>4. CASE RecTimeout(c)
    <2>1. BookOK(book') /\ Follows(book, book')
      BY <1>1, <1>4, CancelFollows DEF RecTimeout
    <2>2. Known(book', l.snap.tx) /\ "failed" \in States \ {"deleted"}
      BY <1>2, <2>1 DEF Follows, Known, States
    <2>3. QED
      BY <1>1, <1>4, <2>1, <2>2, RecWrites DEF RecTimeout
  <1>5. CASE RecObserve(c)
    <2> DEFINE next == Mapped(l.i)
    <2>1. next \in States \ {"deleted"}
      BY MappedState DEF States
    <2> HIDE DEF next
    <2>2. /\ [l EXCEPT !.pc = "write", !.next = next] \in RecOf(book)
          /\ [l EXCEPT !.pc = "heal"] \in RecOf(book)
      BY <1>1, <2>1, RecKnows
    <2>3. \E m \in {[l EXCEPT !.pc = "write", !.next = next], [l EXCEPT !.pc = "heal"], AtRest} :
            rec' = [rec EXCEPT ![c] = m]
      BY <1>5 DEF RecObserve, next
    <2>4. rec' \in [Callers -> RecOf(book)]
      BY <1>1, <1>3, <2>2, <2>3
    <2>5. QED
      BY <1>5, <2>4 DEF IInv, RecObserve
  <1>6. CASE RecWrite(c)
    <2>1. BookOK(book') /\ Follows(book, book')
      BY <1>1, <1>6, SettledFollows DEF RecWrite
    <2>2. Known(book', l.snap.tx)
      BY <1>2, <2>1 DEF Follows, Known
    <2>3. QED
      BY <1>1, <1>2, <1>6, <2>1, <2>2, RecWrites DEF RecWrite
  <1>7. CASE RecRetry(c)
    <2>1. book' = TryTx(book, Gpus[l.i]) /\ CanTry(book, Gpus[l.i]) /\ Gpus[l.i] \in Nat
      BY <1>2, <1>7, GpusAssumption DEF RecRetry
    <2>2. BookOK(book') /\ Follows(book, book') /\ Known(book', NewTx(book))
      BY <1>1, <2>1, TryFollows
    <2>3. QED
      BY <1>1, <1>2, <1>7, <2>2, RecWrites DEF RecRetry
  <1>8. CASE RecHeal(c)
    <2>1. BookOK(book') /\ Follows(book, book')
      BY <1>1, <1>8, ConfirmFollows DEF RecHeal
    <2>2. rec' \in [Callers -> RecOf(book')]
      BY <1>8, <2>1, AtRestFits, Kept DEF RecHeal, RecEnds
    <2>3. QED
      BY <1>8, <2>1, <2>2, Kept DEF IInv, RecHeal
  <1>9. CASE RecFails(c)
    BY <1>1, <1>3, <1>9 DEF IInv, RecFails, RecEnds
  <1>10. QED
    BY <1>4, <1>5, <1>6, <1>7, <1>8, <1>9 DEF Reconcile
LEMMA GwKnows ==
    ASSUME NEW b, NEW l \in GwOf(b), l.pc # "idle"
    PROVE  /\ l.i \in Instances /\ l.snap \in RowType /\ l.next \in States
           /\ Known(b, l.snap.tx) /\ l.next # "deleted"
           /\ \A p \in {"delegate", "upsert"}, s \in States \ {"deleted"} :
                [l EXCEPT !.pc = p, !.next = s] \in GwOf(b)
           /\ [l EXCEPT !.pc = "upsert"] \in GwOf(b)
  BY DEF GwOf, Carrying, LocalType

LEMMA RefreshedState ==
    ASSUME NEW s, NEW d \in Deploys
    PROVE  Refreshed(s, d) \in {"failed", "stopped", "running", "pending", "provisioning"}
  BY DEF Refreshed, Deploys

LEMMA ReaderSteps ==
    ASSUME IInv, NEW g \in Readers, Reader(g)
    PROVE  IInv'
  <1> DEFINE l == gw[g]
  <1>1. /\ row \in [Instances -> RowOf(book)] /\ deploy \in [Instances -> Deploys]
        /\ gw \in [Readers -> GwOf(book)] /\ l \in GwOf(book)
        /\ rec \in [Callers -> RecOf(book)]
    BY DEF IInv
  <1>2. CASE \E i \in Instances : GwRead(g, i)
    <2>1. PICK i \in Instances : GwRead(g, i)
      BY <1>2
    <2>2. row[i] \in RowType /\ Known(book, row[i].tx) /\ row[i].state # "absent"
      BY <1>1, <2>1 DEF GwRead, RowOf, Gone
    <2>3. [pc |-> "observe", i |-> i, snap |-> row[i], next |-> "absent"] \in GwOf(book)
      BY <2>2 DEF GwOf, Carrying, LocalType, States
    <2>4. QED
      BY <1>1, <2>1, <2>3 DEF IInv, GwRead
  <1>3. CASE GwObserve(g)
    <2> DEFINE next == Refreshed(l.snap.state, deploy[l.i])
    <2>1. l.pc # "idle" /\ l.i \in Instances
      BY <1>1, <1>3, GwKnows DEF GwObserve
    <2>2. next \in States \ {"deleted"}
      BY <1>1, <2>1, RefreshedState DEF States
    <2> HIDE DEF next
    <2>3. \A p \in {"delegate", "upsert"} : [l EXCEPT !.pc = p, !.next = next] \in GwOf(book)
      BY <1>1, <2>1, <2>2, GwKnows
    <2> DEFINE m == CASE l.snap.state = "stopped" /\ deploy[l.i] = "absent" -> AtRest
                      [] next # l.snap.state -> [l EXCEPT !.pc = "delegate", !.next = next]
                      [] OTHER               -> [l EXCEPT !.pc = "upsert", !.next = next]
    <2>4. /\ gw' = [gw EXCEPT ![g] = m]
          /\ m \in {[l EXCEPT !.pc = "delegate", !.next = next],
                    [l EXCEPT !.pc = "upsert", !.next = next], AtRest}
      <3>1. m \in {[l EXCEPT !.pc = "delegate", !.next = next],
                   [l EXCEPT !.pc = "upsert", !.next = next], AtRest}
        OBVIOUS
      <3>2. QED
        BY <1>3, <3>1 DEF GwObserve, next
    <2> HIDE DEF m
    <2>5. gw' \in [Readers -> GwOf(book)]
      BY <1>1, <2>3, <2>4, AtRestFits
    <2>6. QED
      BY <1>3, <2>5 DEF IInv, GwObserve
  <1>4. CASE GwDelegate(g)
    <2>1. l.pc # "idle" /\ l.i \in Instances /\ [l EXCEPT !.pc = "upsert"] \in GwOf(book)
      BY <1>1, <1>4, GwKnows DEF GwDelegate
    <2>2. gw' \in [Readers -> GwOf(book)]
      BY <1>1, <1>4, <2>1 DEF GwDelegate
    <2>3. rec' \in [Callers -> RecOf(book)]
      <3>1. CASE row[l.i].state \in Gone
        BY <1>1, <1>4, <3>1 DEF GwDelegate
      <3>2. CASE row[l.i].state \notin Gone
        <4>1. Begin(l.i) \in RecOf(book)
          BY <1>1, <2>1, <3>2, BeginFits
        <4>2. QED
          BY <1>1, <1>4, <3>2, <4>1 DEF GwDelegate, Callers
      <3>3. QED
        BY <3>1, <3>2
    <2>4. QED
      BY <1>4, <2>2, <2>3 DEF IInv, GwDelegate
  <1>5. CASE GwUpsert(g)
    <2>1. /\ l.i \in Instances /\ l.snap \in RowType /\ l.snap.tx \in Nat
          /\ l.next \in States /\ l.next # "deleted" /\ Known(book, l.snap.tx)
      BY <1>1, <1>5, GwKnows DEF GwUpsert, RowType
    <2>2. [l.snap EXCEPT !.state = l.next, !.by = "gw"] \in RowOf(book)
      BY <2>1 DEF RowOf, RowType
    <2>3. row' \in [Instances -> RowOf(book)]
      BY <1>1, <1>5, <2>1, <2>2 DEF GwUpsert
    <2>4. gw' \in [Readers -> GwOf(book)]
      BY <1>1, <1>5, AtRestFits DEF GwUpsert
    <2>5. QED
      BY <1>5, <2>3, <2>4 DEF IInv, GwUpsert
  <1>6. QED
    BY <1>2, <1>3, <1>4, <1>5 DEF Reader

LEMMA ApiKnows ==
    ASSUME NEW b, NEW l \in ApiOf(b), l.pc # "idle"
    PROVE  /\ l.i \in Instances /\ l.snap \in RowType /\ l.next \in States
           /\ Known(b, l.snap.tx)
           /\ l.next = "deleted" => l.pc \in {"delete", "persist"}
           /\ [l EXCEPT !.pc = "persist"] \in ApiOf(b)
           /\ l.next # "deleted" => [l EXCEPT !.pc = "retry"] \in ApiOf(b)
  BY DEF ApiOf, Carrying, LocalType

LEMMA TransitionState ==
    ASSUME NEW s \in States, NEW a \in ApiActions
    PROVE  /\ Transition(s, a) \in States
           /\ Transition(s, a) = "deleted" => a = "delete" \/ s = "deleted"
  BY DEF Transition, States

LEMMA ScaledFits == ASSUME NEW l, NEW d \in Deploys PROVE Scaled(l, d) \in Deploys
  BY DEF Scaled, Deploys

\* A handler that is done has written its row.
LEMMA ApiWrites ==
    ASSUME IInv, NEW h \in Handlers, api[h].pc # "idle", BookOK(book'), Follows(book, book'),
           NEW t, Known(book', t), api[h].next = "deleted" => Over(book', t), ApiWritten(h, t),
           api' = [api EXCEPT ![h] = AtRest], UNCHANGED <<deploy, make, rec, gw>>
    PROVE  IInv'
  <1>1. api[h] \in ApiOf(book) /\ row \in [Instances -> RowOf(book')]
    BY Kept DEF IInv
  <1>2. api[h].i \in Instances /\ api[h].snap \in RowType /\ api[h].next \in States
    BY <1>1, ApiKnows
  <1>3. [api[h].snap EXCEPT !.state = api[h].next, !.tx = t, !.by = "api"] \in RowOf(book')
    BY <1>2, Rewrite
  <1>4. row' \in [Instances -> RowOf(book')]
    BY <1>1, <1>2, <1>3 DEF ApiWritten
  <1>5. api' \in [Handlers -> ApiOf(book')]
    BY AtRestFits, Kept
  <1>6. QED
    BY <1>4, <1>5, Kept DEF IInv

LEMMA HandlerSteps ==
    ASSUME IInv, NEW h \in Handlers, Handler(h)
    PROVE  IInv'
  <1> DEFINE l == api[h]
  <1>1. /\ BookOK(book) /\ row \in [Instances -> RowOf(book)] /\ deploy \in [Instances -> Deploys]
        /\ api \in [Handlers -> ApiOf(book)] /\ l \in ApiOf(book)
    BY DEF IInv
  <1>2. CASE \E i \in Instances, a \in ApiActions : ApiRead(h, i, a)
    <2>1. PICK i \in Instances, a \in ApiActions : ApiRead(h, i, a)
      BY <1>2
    <2> DEFINE next == Transition(row[i].state, a)
    <2>2. row[i] \in RowType /\ row[i].state \in States /\ Known(book, row[i].tx)
          /\ row[i].state # "absent"
      BY <1>1, <2>1 DEF ApiRead, RowOf, RowType
    <2>3. a \in {"start", "stop", "delete", "other"}
      BY ActionsAssumption
    <2>4. next \in States /\ (next = "deleted" => a = "delete")
      BY <2>1, <2>2, TransitionState DEF ApiRead
    <2> HIDE DEF next
    <2>5. [pc |-> a, i |-> i, snap |-> row[i], next |-> next] \in ApiOf(book)
      BY <2>2, <2>3, <2>4 DEF ApiOf, Carrying, LocalType
    <2>6. QED
      BY <1>1, <2>1, <2>5 DEF IInv, ApiRead, next
  <1>3. CASE ApiApply(h)
    <2>1. l.pc # "idle" /\ l.i \in Instances /\ [l EXCEPT !.pc = "persist"] \in ApiOf(book)
      BY <1>1, <1>3, ApiKnows DEF ApiApply
    <2>2. l.pc = "start" => [l EXCEPT !.pc = "retry"] \in ApiOf(book)
      BY <1>1, ApiKnows
    <2>3. api' \in [Handlers -> ApiOf(book)]
      BY <1>1, <1>3, <2>1, <2>2 DEF ApiApply
    <2>4. deploy' \in [Instances -> Deploys]
      BY <1>1, <1>3, <2>1, ScaledFits DEF ApiApply
    <2>5. QED
      BY <1>3, <2>3, <2>4 DEF IInv, ApiApply
  <1>4. CASE ApiPersist(h)
    <2>1. l.pc # "idle" /\ Known(book, l.snap.tx)
      BY <1>1, <1>4, ApiKnows DEF ApiPersist
    <2>2. /\ BookOK(book') /\ Follows(book, book')
          /\ l.next = "deleted" => Over(book', l.snap.tx)
      BY <1>1, <1>4, <2>1, FreeFollows, Stays DEF ApiPersist
    <2>3. Known(book', l.snap.tx)
      BY <2>1, <2>2 DEF Follows, Known
    <2>4. QED
      BY <1>4, <2>1, <2>2, <2>3, ApiWrites DEF ApiPersist
  <1>5. CASE ApiRetry(h)
    <2>1. l.pc # "idle" /\ l.i \in Instances /\ l.next # "deleted"
      BY <1>1, <1>5, ApiKnows DEF ApiRetry
    <2>2. book' = TryTx(book, Gpus[l.i]) /\ CanTry(book, Gpus[l.i]) /\ Gpus[l.i] \in Nat
      BY <1>5, <2>1, GpusAssumption DEF ApiRetry
    <2>3. BookOK(book') /\ Follows(book, book') /\ Known(book', NewTx(book))
      BY <1>1, <2>2, TryFollows
    <2>4. QED
      BY <1>5, <2>1, <2>3, ApiWrites DEF ApiRetry
  <1>6. CASE ApiFails(h)
    BY <1>1, <1>6, AtRestFits DEF IInv, ApiFails
  <1>7. QED
    BY <1>2, <1>3, <1>4, <1>5, <1>6 DEF Handler
LEMMA InitInv == Init => IInv
  <1> SUFFICES ASSUME Init PROVE IInv
    OBVIOUS
  <1> DEFINE f == [t \in Txs |-> [state |-> "none", amount |-> 0]]
  <1>1. PICK n \in Totals : book = [here |-> TRUE, total |-> n, alloc |-> NoAlloc,
                                   reserved |-> 0, used |-> 0, resv |-> f]
    BY DEF Init
  <1>2. f \in [Txs -> Reservation] /\ n \in Nat /\ NoAlloc \in Int
    BY TotalsAssumption DEF Reservation, Phases, NoAlloc
  <1> HIDE DEF f
  <1>3. BookOK(book)
    BY <1>1, <1>2 DEF BookOK, Book
  <1>4. NoRow \in RowOf(book)
    BY DEF NoRow, RowOf, RowType, States
  <1>5. [pc |-> "idle", tx |-> 0, seen |-> "absent"] \in MakeOf(book)
    BY DEF MakeOf, MakeType
  <1>6. /\ AtRest \in RecOf(book) /\ AtRest \in GwOf(book) /\ AtRest \in ApiOf(book)
        /\ "absent" \in Deploys
    BY AtRestFits DEF Deploys
  <1>7. /\ row = [i \in Instances |-> NoRow] /\ deploy = [i \in Instances |-> "absent"]
        /\ make = [i \in Instances |-> [pc |-> "idle", tx |-> 0, seen |-> "absent"]]
        /\ rec = [c \in Callers |-> AtRest] /\ gw = [g \in Readers |-> AtRest]
        /\ api = [h \in Handlers |-> AtRest]
    BY DEF Init
  <1>8. QED
    BY <1>3, <1>4, <1>5, <1>6, <1>7 DEF IInv

LEMMA NextInv == IInv /\ [Next]_vars => IInv'
  <1> SUFFICES ASSUME IInv, [Next]_vars PROVE IInv'
    OBVIOUS
  <1>1. ASSUME NEW i \in Instances, Cluster(i) PROVE IInv'
    <2>1. deploy' \in [Instances -> Deploys]
      BY <1>1 DEF IInv, Cluster, Deploys
    <2>2. QED
      BY <1>1, <2>1 DEF IInv, Cluster
  <1>2. ASSUME NEW i \in Instances, Deadline(i) PROVE IInv'
    BY <1>2 DEF IInv, Deadline
  <1>3. ASSUME NEW c \in Controllers, NEW i \in Instances, RecRead(c, i) PROVE IInv'
    <2>1. Begin(i) \in RecOf(book)
      BY <1>3, BeginFits DEF IInv, RecRead
    <2>2. QED
      BY <1>3, <2>1 DEF IInv, RecRead, Callers
  <1>4. ASSUME NEW n \in Nat, SetsTotal(n) \/ PutReservation(n) \/ DeleteTenantQuota PROVE IInv'
    <2>1. BookOK(book') /\ Follows(book, book')
      BY <1>4, AdminSteps DEF IInv
    <2>2. UNCHANGED <<row, deploy, make, rec, gw, api>>
      BY <1>4 DEF SetsTotal, Put, CreateTenantQuota, UpdateTenantQuota, UpsertTenantQuota,
                  PutReservation, DeleteTenantQuota, Writes
    <2>3. QED
      BY <2>1, <2>2, Kept DEF IInv
  <1>5. CASE UNCHANGED vars
    BY <1>5 DEF IInv, vars, BookOK, Book
  <1>6. Totals \subseteq Nat /\ Allocs \subseteq Nat /\ 0 \in Nat
    BY TotalsAssumption
  <1>7. QED
    BY <1>1, <1>2, <1>3, <1>4, <1>5, <1>6, CreateSteps, ReconcileSteps, ReaderSteps, HandlerSteps
       DEF Next, SetsTotal

(***************************************************************************)
(* The inductive invariant holds: the books are sound, and rows, creates   *)
(* and processes name reservations that were taken.                        *)
(***************************************************************************)
THEOREM Invariance == Spec => []IInv
  BY InitInv, NextInv, PTL DEF Spec

(***************************************************************************)
(* The tenant's quota is never oversold, with any number of instances,     *)
(* processes and reservations (the WHERE clause of tryInTx and the CHECK   *)
(* of the table).                                                          *)
(***************************************************************************)
THEOREM QuotaIsNotOversold == Spec => []NoOversell
  <1>1. IInv => NoOversell
    BY DEF IInv, BookOK, NoOversell
  <1>2. QED
    BY <1>1, Invariance, PTL

(***************************************************************************)
(* A deleted row holds no quota, whoever worked on the instance meanwhile  *)
(* (the delete's transaction frees the reservation, and nobody who read    *)
(* the row before writes a deleted row back).                              *)
(***************************************************************************)
THEOREM DeletedRowsHoldNothing == Spec => []DeletedHoldsNothing
  <1>1. IInv => DeletedHoldsNothing
    BY DEF IInv, RowOf, Over, Ended, DeletedHoldsNothing
  <1>2. QED
    BY <1>1, Invariance, PTL

-----------------------------------------------------------------------------
(* Every step of a process makes at most one step of the book.             *)

Purged(b) ==
    [b EXCEPT !.here = FALSE, !.total = 0, !.reserved = 0, !.used = 0,
              !.resv = [t \in Txs |-> IF @[t].state = "none" THEN @[t]
                                      ELSE [@[t] EXCEPT !.state = "gone"]]]

Ways == {<<"reserved", "confirmed">>, <<"reserved", "cancelled">>, <<"confirmed", "released">>}

\* What a reservation adds to a counter for state s when its own state is x.
Share(b, t, x, s) == IF x = s THEN b.resv[t].amount ELSE 0

\* A live reservation moves on, and the counters with it.
Shift(b, d, t, from, to) ==
    /\ t \in Txs /\ <<from, to>> \in Ways /\ b.resv[t].state = from
    /\ d = Moved(b, t, to,
             b.reserved - Share(b, t, from, "reserved") + Share(b, t, to, "reserved"),
             b.used - Share(b, t, from, "confirmed") + Share(b, t, to, "confirmed"))

Takes(b, d, n) == n \in Nat \ {0} /\ CanTry(b, n) /\ d = TryTx(b, n)

Sets(b, d, n, a) == n \in Nat /\ a \in Int /\ Taken(b) <= n /\ d = SetTo(b, TRUE, n, a)

\* The steps that take nothing.
QuietStep(b, d) ==
    \/ d = b
    \/ \E t, from, to : Shift(b, d, t, from, to)
    \/ \E n, a : Sets(b, d, n, a)
    \/ d = Purged(b)

BookStep(b, d) == QuietStep(b, d) \/ \E n : Takes(b, d, n)

LEMMA ConfirmShifts ==
    ASSUME NEW b, BookOK(b), NEW t
    PROVE  \/ ConfirmTx(b, t) = b
           \/ Shift(b, ConfirmTx(b, t), t, "reserved", "confirmed")
  <1>1. CASE In(b, t, "reserved")
    <2>1. t \in Txs /\ b.resv[t].state = "reserved"
      BY <1>1 DEF In
    <2>2. b.resv[t].amount \in Nat /\ b.reserved \in Int /\ b.used \in Int
      BY <2>1, Amounts
    <2>3. ConfirmTx(b, t) = Moved(b, t, "confirmed", b.reserved - b.resv[t].amount,
                                  b.used + b.resv[t].amount)
      BY <1>1 DEF ConfirmTx, Moved
    <2>4. /\ b.reserved - b.resv[t].amount + 0 = b.reserved - b.resv[t].amount
          /\ b.used - 0 + b.resv[t].amount = b.used + b.resv[t].amount
      BY <2>2
    <2>5. QED
      BY <2>1, <2>3, <2>4 DEF Shift, Share, Ways
  <1>2. CASE ~In(b, t, "reserved")
    BY <1>2 DEF ConfirmTx
  <1>3. QED
    BY <1>1, <1>2

LEMMA CancelShifts ==
    ASSUME NEW b, BookOK(b), NEW t
    PROVE  \/ CancelTx(b, t) = b
           \/ Shift(b, CancelTx(b, t), t, "reserved", "cancelled")
  <1>1. CASE In(b, t, "reserved")
    <2>1. t \in Txs /\ b.resv[t].state = "reserved"
      BY <1>1 DEF In
    <2>2. b.resv[t].amount \in Nat /\ b.reserved \in Int /\ b.used \in Int
      BY <2>1, Amounts
    <2>3. CancelTx(b, t) = [b EXCEPT !.reserved = b.reserved - b.resv[t].amount,
                                     !.resv[t].state = "cancelled"]
      BY <1>1 DEF CancelTx
    <2>4. CancelTx(b, t) = Moved(b, t, "cancelled", b.reserved - b.resv[t].amount, b.used)
      BY <2>3 DEF BookOK, Book, Moved
    <2>5. /\ b.reserved - b.resv[t].amount + 0 = b.reserved - b.resv[t].amount
          /\ b.used - 0 + 0 = b.used
      BY <2>2
    <2>6. QED
      BY <2>1, <2>4, <2>5 DEF Shift, Share, Ways
  <1>2. CASE ~In(b, t, "reserved")
    BY <1>2 DEF CancelTx
  <1>3. QED
    BY <1>1, <1>2

LEMMA ReleaseShifts ==
    ASSUME NEW b, BookOK(b), NEW t
    PROVE  \/ ReleaseTx(b, t) = b
           \/ Shift(b, ReleaseTx(b, t), t, "confirmed", "released")
  <1>1. CASE In(b, t, "confirmed")
    <2>1. t \in Txs /\ b.resv[t].state = "confirmed"
      BY <1>1 DEF In
    <2>2. b.resv[t].amount \in Nat /\ b.reserved \in Int /\ b.used \in Int
      BY <2>1, Amounts
    <2>3. ReleaseTx(b, t) = [b EXCEPT !.used = b.used - b.resv[t].amount,
                                      !.resv[t].state = "released"]
      BY <1>1 DEF ReleaseTx
    <2>4. ReleaseTx(b, t) = Moved(b, t, "released", b.reserved, b.used - b.resv[t].amount)
      BY <2>3 DEF BookOK, Book, Moved
    <2>5. /\ b.used - b.resv[t].amount + 0 = b.used - b.resv[t].amount
          /\ b.reserved - 0 + 0 = b.reserved
      BY <2>2
    <2>6. QED
      BY <2>1, <2>4, <2>5 DEF Shift, Share, Ways
  <1>2. CASE ~In(b, t, "confirmed")
    BY <1>2 DEF ReleaseTx
  <1>3. QED
    BY <1>1, <1>2

\* The delete cancels or releases, never both.
LEMMA FreeShifts ==
    ASSUME NEW b, BookOK(b), NEW t
    PROVE  \/ FreeTx(b, t) = b
           \/ Shift(b, FreeTx(b, t), t, "reserved", "cancelled")
           \/ Shift(b, FreeTx(b, t), t, "confirmed", "released")
  <1>1. CASE In(b, t, "reserved")
    <2>1. Over(CancelTx(b, t), t)
      BY <1>1, CancelFollows
    <2>2. FreeTx(b, t) = CancelTx(b, t)
      BY <2>1 DEF FreeTx, ReleaseTx, In, Over, Ended
    <2>3. QED
      BY <2>2, CancelShifts
  <1>2. CASE ~In(b, t, "reserved")
    <2>1. FreeTx(b, t) = ReleaseTx(b, t)
      BY <1>2 DEF FreeTx, CancelTx
    <2>2. QED
      BY <2>1, ReleaseShifts
  <1>3. QED
    BY <1>1, <1>2

LEMMA SettledSteps ==
    ASSUME NEW b, BookOK(b), NEW t, NEW s, NEW next
    PROVE  QuietStep(b, Settled(b, t, s, next))
  <1>1. Settled(b, t, s, next) \in {ConfirmTx(b, t), FreeTx(b, t), b}
    BY DEF Settled
  <1>2. QED
    BY <1>1, ConfirmShifts, FreeShifts DEF QuietStep

LEMMA AdminBooks ==
    ASSUME BookOK(book), NEW n \in Nat, SetsTotal(n) \/ PutReservation(n) \/ DeleteTenantQuota
    PROVE  QuietStep(book, book')
  <1>1. /\ book \in Book /\ book.total \in Nat /\ book.alloc \in Int /\ Taken(book) \in Int
        /\ book.here \in BOOLEAN /\ Taken(book) <= book.total
        /\ ~book.here => Taken(book) <= 0
    BY DEF BookOK, Book, Taken
  <1>2. ASSUME NEW m \in Nat, Taken(book) <= m, book' = [book EXCEPT !.here = TRUE, !.total = m]
        PROVE  QuietStep(book, book')
    <2>1. book' = SetTo(book, TRUE, m, book.alloc)
      BY <1>1, <1>2 DEF SetTo, Book
    <2>2. QED
      BY <1>1, <1>2, <2>1 DEF QuietStep, Sets
  <1>3. ASSUME NEW m \in Nat
        PROVE  Max2(m, Taken(book)) \in Nat /\ Taken(book) <= Max2(m, Taken(book))
    BY <1>1 DEF Max2
  <1>4. Given(n) \in Nat
    BY TotalsAssumption DEF Given
  <1>5. CASE Put(n)
    BY <1>2, <1>5 DEF Put, Writes
  <1>6. CASE CreateTenantQuota(n)
    <2>1. book' = [book EXCEPT !.here = TRUE, !.total = Given(n)] /\ Taken(book) <= 0
      BY <1>1, <1>6 DEF CreateTenantQuota, Writes
    <2>2. Taken(book) <= Given(n)
      BY <1>1, <1>4, <2>1
    <2>3. QED
      BY <1>2, <1>4, <2>1, <2>2
  <1>7. CASE UpdateTenantQuota(n)
    <2>1. book' = [book EXCEPT !.total = Max2(n, Taken(book))] /\ book.here
      BY <1>7 DEF UpdateTenantQuota, Writes
    <2>2. book' = [book EXCEPT !.here = TRUE, !.total = Max2(n, Taken(book))]
      BY <1>1, <2>1 DEF Book
    <2>3. QED
      BY <1>2, <1>3, <2>2
  <1>8. CASE UpsertTenantQuota(n)
    <2>1. book' = [book EXCEPT !.here = TRUE, !.total = Max2(Given(n), Taken(book))]
      BY <1>8 DEF UpsertTenantQuota, Writes
    <2>2. QED
      BY <1>2, <1>3, <1>4, <2>1
  <1>9. CASE PutReservation(n)
    <2>1. book' = [book EXCEPT !.alloc = Max2(n, Taken(book))] /\ book.here
      BY <1>9 DEF PutReservation, Writes
    <2>2. Max2(n, Taken(book)) \in Int
      BY <1>1 DEF Max2
    <2>3. book' = SetTo(book, TRUE, book.total, Max2(n, Taken(book)))
      BY <1>1, <2>1 DEF SetTo, Book
    <2>4. QED
      BY <1>1, <2>2, <2>3 DEF QuietStep, Sets
  <1>10. CASE DeleteTenantQuota
    BY <1>10 DEF DeleteTenantQuota, Writes, QuietStep, Purged
  <1>11. QED
    BY <1>5, <1>6, <1>7, <1>8, <1>9, <1>10 DEF SetsTotal

LEMMA NextBooks ==
    ASSUME IInv, [Next]_vars
    PROVE  BookStep(book, book')
  <1>1. BookOK(book)
    BY DEF IInv
  <1>2. ASSUME book' = book PROVE BookStep(book, book')
    BY <1>2 DEF BookStep, QuietStep
  <1>3. ASSUME NEW t, book' \in {book, ConfirmTx(book, t), CancelTx(book, t), FreeTx(book, t)}
        PROVE  BookStep(book, book')
    BY <1>1, <1>3, ConfirmShifts, CancelShifts, FreeShifts DEF BookStep, QuietStep
  <1>4. ASSUME NEW i \in Instances, CanTry(book, Gpus[i]), book' = TryTx(book, Gpus[i])
        PROVE  BookStep(book, book')
    <2>1. Gpus[i] \in Nat \ {0}
      BY GpusAssumption
    <2>2. QED
      BY <1>4, <2>1 DEF BookStep, QuietStep, Takes
  <1>5. ASSUME NEW i \in Instances, Create(i) PROVE BookStep(book, book')
    <2>1. CASE MakeTry(i)
      BY <1>4, <2>1 DEF MakeTry, MayCreate
    <2>2. CASE MakeApply(i) \/ MakeUpsert(i) \/ MakeObserve(i) \/ MakeDies(i)
      BY <1>2, <2>2 DEF MakeApply, MakeUpsert, MakeObserve, MakeDies
    <2>3. CASE MakePersist(i) \/ MakeRefused(i) \/ MakeFails(i)
      BY <1>3, <2>3 DEF MakePersist, MakeRefused, MakeFails
    <2>4. QED
      BY <1>5, <2>1, <2>2, <2>3 DEF Create
  <1>6. ASSUME NEW c \in Callers, Reconcile(c) PROVE BookStep(book, book')
    <2>1. CASE RecObserve(c) \/ RecFails(c)
      BY <1>2, <2>1 DEF RecObserve, RecFails
    <2>2. CASE RecTimeout(c) \/ RecHeal(c)
      BY <1>3, <2>2 DEF RecTimeout, RecHeal
    <2>3. CASE RecWrite(c)
      BY <1>1, <2>3, SettledSteps DEF BookStep, RecWrite
    <2>4. CASE RecRetry(c)
      <3>1. rec[c].i \in Instances
        BY <2>4, RecKnows DEF IInv, RecRetry
      <3>2. QED
        BY <1>4, <2>4, <3>1 DEF RecRetry
    <2>5. QED
      BY <1>6, <2>1, <2>2, <2>3, <2>4 DEF Reconcile
  <1>7. ASSUME NEW g \in Readers, Reader(g) PROVE BookStep(book, book')
    BY <1>2, <1>7 DEF Reader, GwRead, GwObserve, GwDelegate, GwUpsert
  <1>8. ASSUME NEW h \in Handlers, Handler(h) PROVE BookStep(book, book')
    <2>1. CASE (\E i \in Instances, a \in ApiActions : ApiRead(h, i, a)) \/ ApiApply(h) \/ ApiFails(h)
      BY <1>2, <2>1 DEF ApiRead, ApiApply, ApiFails
    <2>2. CASE ApiPersist(h)
      BY <1>3, <2>2 DEF ApiPersist
    <2>3. CASE ApiRetry(h)
      <3>1. api[h].i \in Instances
        BY <2>3, ApiKnows DEF IInv, ApiRetry
      <3>2. QED
        BY <1>4, <2>3, <3>1 DEF ApiRetry
    <2>4. QED
      BY <1>8, <2>1, <2>2, <2>3 DEF Handler
  <1>9. ASSUME NEW n \in Nat, SetsTotal(n) \/ PutReservation(n) \/ DeleteTenantQuota
        PROVE  BookStep(book, book')
    BY <1>1, <1>9, AdminBooks DEF BookStep
  <1>10. ASSUME NEW i \in Instances, Cluster(i) \/ Deadline(i) PROVE BookStep(book, book')
    BY <1>2, <1>10 DEF Cluster, Deadline
  <1>11. ASSUME NEW c \in Controllers, NEW i \in Instances, RecRead(c, i)
         PROVE  BookStep(book, book')
    BY <1>2, <1>11 DEF RecRead
  <1>12. Totals \subseteq Nat /\ Allocs \subseteq Nat /\ 0 \in Nat
    BY TotalsAssumption
  <1>13. CASE UNCHANGED vars
    BY <1>2, <1>13 DEF vars
  <1>14. QED
    BY <1>5, <1>6, <1>7, <1>8, <1>9, <1>10, <1>11, <1>12, <1>13 DEF Next, SetsTotal

-----------------------------------------------------------------------------
(* The counters are the sums of what the reservations hold.                *)

SizeOf(b) == [t \in Txs |-> b.resv[t].amount]
Those(b, s) == {t \in Txs : b.resv[t].state = s}
Held(b, s) == Sum(SizeOf(b), Those(b, s))

Even(b) == b.reserved = Held(b, "reserved") /\ b.used = Held(b, "confirmed")

LEMMA TxsFinite == IsFiniteSet(Txs) /\ \A b, s : IsFiniteSet(Those(b, s)) /\ Those(b, s) \subseteq Txs
  <1>1. IsFiniteSet(Txs)
    BY BoundsAssumption, FS_Interval DEF Txs
  <1>2. QED
    BY <1>1, FS_Subset DEF Those

LEMMA Sizes ==
    ASSUME NEW b, BookOK(b)
    PROVE  \A t \in Txs : SizeOf(b)[t] = b.resv[t].amount /\ SizeOf(b)[t] \in Nat /\ SizeOf(b)[t] \in Int
  BY Amounts DEF SizeOf

\* What is held is a number, none of it negative.
LEMMA HeldType ==
    ASSUME NEW b, BookOK(b), NEW s
    PROVE  Held(b, s) \in Nat
  <1>1. \A t \in Those(b, s) : SizeOf(b)[t] \in Nat
    BY Sizes, TxsFinite
  <1>2. QED
    BY <1>1, TxsFinite, SumType DEF Held

LEMMA NothingHeld ==
    ASSUME NEW b, NEW s, Those(b, s) = {}
    PROVE  Held(b, s) = 0
  BY TxsFinite, SumStep DEF Held

LEMMA SameHeld ==
    ASSUME NEW b, NEW d, d.resv = b.resv
    PROVE  SizeOf(d) = SizeOf(b) /\ \A s : Those(d, s) = Those(b, s) /\ Held(d, s) = Held(b, s)
  BY DEF SizeOf, Those, Held

\* The fields of a book after a live reservation has moved on.
Shifted(b, d, t, from, to) ==
    /\ d.here = b.here /\ d.total = b.total
    /\ d.reserved = b.reserved - Share(b, t, from, "reserved") + Share(b, t, to, "reserved")
    /\ d.used = b.used - Share(b, t, from, "confirmed") + Share(b, t, to, "confirmed")
    /\ SizeOf(d) = SizeOf(b)
    /\ \A v \in Txs : d.resv[v].state = IF v = t THEN to ELSE b.resv[v].state

LEMMA ShiftFields ==
    ASSUME NEW b, BookOK(b), NEW d, NEW t, NEW from, NEW to, Shift(b, d, t, from, to)
    PROVE  Shifted(b, d, t, from, to)
  <1>1. t \in Txs /\ b \in Book /\ b.resv \in [Txs -> Reservation]
    BY DEF Shift, BookOK, Book
  <1> DEFINE r == b.reserved - Share(b, t, from, "reserved") + Share(b, t, to, "reserved")
             u == b.used - Share(b, t, from, "confirmed") + Share(b, t, to, "confirmed")
  <1>2. d = Moved(b, t, to, r, u)
    BY DEF Shift
  <1> HIDE DEF r, u
  <1>3. /\ d.here = b.here /\ d.total = b.total /\ d.reserved = r /\ d.used = u
        /\ d.resv = [b.resv EXCEPT ![t].state = to]
    BY <1>1, <1>2 DEF Moved, Book
  <1>4. \A v \in Txs : /\ d.resv[v].state = IF v = t THEN to ELSE b.resv[v].state
                       /\ d.resv[v].amount = b.resv[v].amount
    BY <1>1, <1>3 DEF Reservation
  <1>5. QED
    BY <1>3, <1>4 DEF Shifted, SizeOf, r, u

\* It takes its amount from the one sum to the other.
LEMMA ShiftHeld ==
    ASSUME NEW b, BookOK(b), NEW d, NEW t, NEW from, NEW to, Shift(b, d, t, from, to), NEW s
    PROVE  Held(d, s) = Held(b, s) - Share(b, t, from, s) + Share(b, t, to, s)
  <1> DEFINE f == SizeOf(b)
             S == Those(b, s)
  <1>1. /\ t \in Txs /\ b.resv[t].state = from /\ from # to /\ f[t] = b.resv[t].amount
        /\ f[t] \in Int /\ Held(b, s) \in Int
    BY Sizes, HeldType DEF Shift, Ways
  <1>2. SizeOf(d) = f /\ \A v \in Txs : d.resv[v].state = IF v = t THEN to ELSE b.resv[v].state
    <2>1. Shifted(b, d, t, from, to)
      BY ShiftFields
    <2>2. QED
      BY <2>1 DEF Shifted
  <1>3. IsFiniteSet(S) /\ \A v \in S : f[v] \in Int
    BY Sizes, TxsFinite
  <1>4. CASE s = from
    <2>1. t \in S /\ Those(d, s) = S \ {t}
      BY <1>1, <1>2, <1>4 DEF Those
    <2>2. Held(d, s) = Sum(f, S \ {t}) /\ Held(b, s) = Sum(f, S)
      BY <1>2, <2>1 DEF Held
    <2> HIDE DEF f, S
    <2>3. Sum(f, S) = f[t] + Sum(f, S \ {t}) /\ Sum(f, S \ {t}) \in Int
      <3>1. IsFiniteSet(S \ {t}) /\ \A v \in S \ {t} : f[v] \in Int
        BY <1>3, FS_Subset
      <3>2. QED
        BY <1>3, <2>1, <3>1, SumTakes, SumType
    <2>4. Share(b, t, from, s) = f[t] /\ Share(b, t, to, s) = 0
      BY <1>1, <1>4 DEF Share
    <2>5. QED
      BY <1>1, <2>2, <2>3, <2>4
  <1>5. CASE s = to
    <2>1. t \notin S /\ Those(d, s) = S \cup {t}
      BY <1>1, <1>2, <1>5 DEF Those
    <2>2. Held(d, s) = Sum(f, S \cup {t}) /\ Held(b, s) = Sum(f, S)
      BY <1>2, <2>1 DEF Held
    <2> HIDE DEF f, S
    <2>3. Sum(f, S \cup {t}) = f[t] + Sum(f, S)
      BY <1>1, <1>3, <2>1, SumAdds
    <2>4. Share(b, t, from, s) = 0 /\ Share(b, t, to, s) = f[t]
      BY <1>1, <1>5 DEF Share
    <2>5. QED
      BY <1>1, <2>2, <2>3, <2>4
  <1>6. CASE s # from /\ s # to
    <2>1. Those(d, s) = S
      BY <1>1, <1>2, <1>6 DEF Those
    <2>2. Share(b, t, from, s) = 0 /\ Share(b, t, to, s) = 0
      BY <1>6 DEF Share
    <2>3. Held(d, s) = Held(b, s)
      BY <1>2, <2>1 DEF Held
    <2>4. QED
      BY <1>1, <2>2, <2>3
  <1>7. QED
    BY <1>4, <1>5, <1>6

\* The fields of a book after a new reservation.
Tried(b, d, n) ==
    /\ d.here = TRUE /\ d.total = Opened(b).total
    /\ d.reserved = b.reserved + n /\ d.used = b.used
    /\ n \in Nat /\ n # 0 /\ Taken(b) + n <= Opened(b).total
    /\ NewTx(b) \in Txs /\ b.resv[NewTx(b)].state = "none"
    /\ \A v \in Txs : /\ d.resv[v].state = IF v = NewTx(b) THEN "reserved" ELSE b.resv[v].state
                     /\ d.resv[v].amount = IF v = NewTx(b) THEN n ELSE b.resv[v].amount

LEMMA TryFields ==
    ASSUME NEW b, BookOK(b), NEW d, NEW n, Takes(b, d, n)
    PROVE  Tried(b, d, n)
  <1> DEFINE o == Opened(b)
             e == [state |-> "reserved", amount |-> n]
  <1>1. NewTx(b) \in Txs /\ b.resv[NewTx(b)].state = "none"
    BY DEF Takes, CanTry, NewTx, Free
  <1>2. /\ o \in Book /\ o.here = TRUE /\ o.resv = b.resv /\ o.reserved = b.reserved /\ o.used = b.used
    BY OpenedFollows
  <1>3. d = [o EXCEPT !.reserved = o.reserved + n, !.resv[NewTx(b)] = e]
    BY DEF Takes, TryTx
  <1> HIDE DEF o, e
  <1>4. /\ d.here = TRUE /\ d.total = o.total /\ d.reserved = b.reserved + n /\ d.used = b.used
        /\ d.resv = [b.resv EXCEPT ![NewTx(b)] = e]
    BY <1>2, <1>3 DEF Book
  <1>5. b.resv \in [Txs -> Reservation]
    BY DEF BookOK, Book
  <1>6. \A v \in Txs : /\ d.resv[v].state = IF v = NewTx(b) THEN "reserved" ELSE b.resv[v].state
                       /\ d.resv[v].amount = IF v = NewTx(b) THEN n ELSE b.resv[v].amount
    BY <1>1, <1>4, <1>5 DEF e, Reservation
  <1>7. n \in Nat /\ n # 0 /\ Taken(b) + n <= Opened(b).total
    BY DEF Takes, CanTry
  <1>8. QED
    BY <1>1, <1>4, <1>6, <1>7 DEF Tried, o

\* The new reservation was not counted before, and now it is.
LEMMA TryHeld ==
    ASSUME NEW b, BookOK(b), NEW d, NEW n, Takes(b, d, n)
    PROVE  /\ Held(d, "reserved") = Held(b, "reserved") + n
           /\ Held(d, "confirmed") = Held(b, "confirmed")
  <1> DEFINE x == NewTx(b)
             f == SizeOf(b)
             g == SizeOf(d)
  <1>t. Tried(b, d, n)
    BY TryFields
  <1>1. x \in Txs /\ b.resv[x].state = "none" /\ n \in Nat
    BY <1>t DEF Tried
  <1>2. \A v \in Txs : /\ d.resv[v].state = IF v = x THEN "reserved" ELSE b.resv[v].state
                       /\ d.resv[v].amount = IF v = x THEN n ELSE b.resv[v].amount
    BY <1>t DEF Tried
  <1> HIDE DEF x
  <1>3. g[x] = n /\ \A v \in Txs : v # x => g[v] = f[v] /\ g[v] \in Int
    BY <1>1, <1>2, Sizes DEF SizeOf
  <1>4. /\ x \notin Those(b, "reserved") /\ Those(d, "reserved") = Those(b, "reserved") \cup {x}
        /\ x \notin Those(b, "confirmed") /\ Those(d, "confirmed") = Those(b, "confirmed")
    BY <1>1, <1>2 DEF Those
  <1>5. ASSUME NEW s, x \notin Those(b, s) PROVE Sum(g, Those(b, s)) = Held(b, s)
    <2> DEFINE S == Those(b, s)
    <2>1. IsFiniteSet(S) /\ \A v \in S : g[v] = f[v]
      BY <1>3, <1>5, TxsFinite
    <2> HIDE DEF S, f, g
    <2>2. Sum(g, S) = Sum(f, S)
      BY <2>1, SumSame
    <2>3. QED
      BY <2>2 DEF S, f, Held
  <1>6. Sum(g, Those(b, "reserved") \cup {x}) = n + Sum(g, Those(b, "reserved"))
    <2> DEFINE S == Those(b, "reserved")
    <2>1. /\ IsFiniteSet(S) /\ x \notin S /\ \A v \in S \cup {x} : g[v] \in Int
      BY <1>1, <1>3, <1>4, TxsFinite
    <2> HIDE DEF S, g
    <2>2. Sum(g, S \cup {x}) = g[x] + Sum(g, S)
      BY <2>1, SumAdds
    <2>3. QED
      BY <1>3, <2>2 DEF S
  <1>7. /\ Held(d, "reserved") = n + Held(b, "reserved")
        /\ Held(d, "confirmed") = Held(b, "confirmed")
    BY <1>4, <1>5, <1>6 DEF Held
  <1>8. Held(b, "reserved") \in Nat
    BY HeldType
  <1>9. QED
    BY <1>1, <1>7, <1>8

\* The fields of a book after its total or allocation was set.
LEMMA SetFields ==
    ASSUME NEW b, BookOK(b), NEW d, NEW n, NEW a, Sets(b, d, n, a)
    PROVE  /\ d.here = TRUE /\ d.total = n /\ n \in Nat /\ Taken(b) <= n
           /\ d.reserved = b.reserved /\ d.used = b.used /\ d.resv = b.resv
  BY DEF Sets, SetTo, BookOK, Book

LEMMA PurgeFields ==
    ASSUME NEW b, BookOK(b)
    PROVE  /\ Purged(b).here = FALSE /\ Purged(b).reserved = 0 /\ Purged(b).used = 0
           /\ SizeOf(Purged(b)) = SizeOf(b)
           /\ \A t \in Txs : Purged(b).resv[t].state =
                                IF b.resv[t].state = "none" THEN "none" ELSE "gone"
  <1> DEFINE f == [t \in Txs |-> IF b.resv[t].state = "none" THEN b.resv[t]
                                 ELSE [b.resv[t] EXCEPT !.state = "gone"]]
             d == [b EXCEPT !.here = FALSE, !.total = 0, !.reserved = 0, !.used = 0, !.resv = f]
  <1>1. b \in Book /\ b.resv \in [Txs -> Reservation]
    BY DEF BookOK, Book
  <1>2. Purged(b) = d
    BY DEF Purged
  <1>3. \A t \in Txs : /\ f[t].state = IF b.resv[t].state = "none" THEN "none" ELSE "gone"
                       /\ f[t].amount = b.resv[t].amount
    BY <1>1 DEF Reservation
  <1> HIDE DEF f
  <1>4. d.here = FALSE /\ d.reserved = 0 /\ d.used = 0 /\ d.resv = f
    BY <1>1 DEF Book
  <1>5. QED
    BY <1>2, <1>3, <1>4 DEF SizeOf

\* Every step of the book keeps the counters even.
LEMMA StaysEven ==
    ASSUME NEW b, BookOK(b), Even(b), NEW d, BookStep(b, d)
    PROVE  Even(d)
  <1>1. b.reserved \in Int /\ b.used \in Int
    BY DEF BookOK, Book
  <1>2. CASE d = b
    BY <1>2
  <1>3. ASSUME NEW n, Takes(b, d, n) PROVE Even(d)
    <2>t. Tried(b, d, n)
      BY <1>3, TryFields
    <2>1. d.reserved = b.reserved + n /\ d.used = b.used
      BY <2>t DEF Tried
    <2>2. /\ Held(d, "reserved") = Held(b, "reserved") + n
          /\ Held(d, "confirmed") = Held(b, "confirmed")
      BY <1>3, TryHeld
    <2>3. QED
      BY <2>1, <2>2 DEF Even
  <1>4. ASSUME NEW t, NEW from, NEW to, Shift(b, d, t, from, to) PROVE Even(d)
    <2>1. /\ d.reserved = b.reserved - Share(b, t, from, "reserved") + Share(b, t, to, "reserved")
          /\ d.used = b.used - Share(b, t, from, "confirmed") + Share(b, t, to, "confirmed")
      BY <1>4, ShiftFields DEF Shifted
    <2>2. \A s : Held(d, s) = Held(b, s) - Share(b, t, from, s) + Share(b, t, to, s)
      BY <1>4, ShiftHeld
    <2>3. QED
      BY <2>1, <2>2 DEF Even
  <1>5. ASSUME NEW n, NEW a, Sets(b, d, n, a) PROVE Even(d)
    <2>1. d.reserved = b.reserved /\ d.used = b.used /\ d.resv = b.resv
      BY <1>5, SetFields
    <2>2. QED
      BY <2>1, SameHeld DEF Even
  <1>6. CASE d = Purged(b)
    <2>1. Those(d, "reserved") = {} /\ Those(d, "confirmed") = {}
      BY <1>6, PurgeFields DEF Those
    <2>2. Held(d, "reserved") = 0 /\ Held(d, "confirmed") = 0
      BY <2>1, NothingHeld
    <2>3. QED
      BY <1>6, <2>2, PurgeFields DEF Even
  <1>7. QED
    BY <1>2, <1>3, <1>4, <1>5, <1>6 DEF BookStep, QuietStep

EvenBook == Even(book)

LEMMA EvenInit == Init => EvenBook
  <1> SUFFICES ASSUME Init PROVE Even(book)
    BY DEF EvenBook
  <1>1. /\ book.reserved = 0 /\ book.used = 0
        /\ book.resv = [t \in Txs |-> [state |-> "none", amount |-> 0]]
    BY DEF Init
  <1>2. Those(book, "reserved") = {} /\ Those(book, "confirmed") = {}
    BY <1>1 DEF Those
  <1>3. QED
    BY <1>1, <1>2, NothingHeld DEF Even

LEMMA EvenNext == IInv /\ EvenBook /\ [Next]_vars => EvenBook'
  <1> SUFFICES ASSUME IInv, EvenBook, [Next]_vars PROVE EvenBook'
    OBVIOUS
  <1>1. Even(book')
    BY NextBooks, StaysEven DEF IInv, EvenBook
  <1>2. QED
    BY <1>1 DEF EvenBook

LEMMA AlwaysEven == Spec => []EvenBook
  <1>1. QED
    BY EvenInit, EvenNext, Invariance, PTL DEF Spec

\* What TLC computes for the reservations in a state is their sum.
LEMMA AmountInIsHeld ==
    ASSUME NEW s
    PROVE  AmountIn(s) = Held(book, s)
  <1> DEFINE S == Those(book, s)
             f == SizeOf(book)
  <1>1. {t \in Txs : In(book, t, s)} = S
    BY DEF In, Those
  <1>2. IsFiniteSet(S)
    BY TxsFinite
  <1> DEFINE Adds(h) == h = [s1 \in SUBSET S |->
                               IF s1 = {} THEN 0
                               ELSE book.resv[CHOOSE x \in s1 : TRUE].amount
                                      + h[s1 \ {CHOOSE x \in s1 : TRUE}]]
             g == CHOOSE h : Adds(h)
  <1>3. MapThenSumSet(LAMBDA t : book.resv[t].amount, S) = g[S]
    BY DEF MapThenSumSet, MapThenFoldSet
  <1>4. ASSUME NEW h PROVE SumsUp(h, f, S) <=> Adds(h)
    <2>1. \A s1 \in SUBSET S : s1 # {} => f[Some(s1)] = book.resv[Some(s1)].amount
      BY SomeIsIn DEF Those, SizeOf
    <2> HIDE DEF f
    <2>2. \A s1 \in SUBSET S : (IF s1 = {} THEN 0 ELSE f[Some(s1)] + h[s1 \ {Some(s1)}])
                             = (IF s1 = {} THEN 0 ELSE book.resv[Some(s1)].amount + h[s1 \ {Some(s1)}])
      BY <2>1
    <2>3. QED
      BY <2>2 DEF SumsUp, Some
  <1> HIDE DEF f, S, Adds
  <1>5. \E h : Adds(h)
    BY <1>2, <1>4, SumExists
  <1>6. SumsUp(g, f, S)
    BY <1>4, <1>5
  <1> HIDE DEF g
  <1>7. g[S] = Sum(f, S)
    BY <1>2, <1>6, SumUnique
  <1>8. QED
    BY <1>1, <1>3, <1>7 DEF AmountIn, Held, S, f

(***************************************************************************)
(* The bookkeeping is exact, with any number of reservations: the counters *)
(* of the quota row are the sums over the reservations, however often and  *)
(* in whatever order the processes confirm, cancel, release and purge (the *)
(* state guards of PostgresQuota).                                         *)
(***************************************************************************)
THEOREM BooksBalance == Spec => []Balanced
  <1>1. EvenBook => Balanced
    BY AmountInIsHeld DEF EvenBook, Even, Balanced
  <1>2. QED
    BY <1>1, AlwaysEven, PTL

-----------------------------------------------------------------------------
(* The refinement of QuotaLedger, which has no counters: what it takes to  *)
(* be taken, the sum over the live reservations, is reserved + used.       *)

PhaseOf(b) == [t \in Txs |-> b.resv[t].state]
Living(b) == {t \in Txs : PhaseOf(b)[t] \in {"reserved", "confirmed"}}

LEMMA LivingSum ==
    ASSUME NEW b, BookOK(b), Even(b)
    PROVE  /\ MapThenSumSet(LAMBDA t : SizeOf(b)[t], Living(b)) = Taken(b)
           /\ Taken(b) \in Nat
  <1> DEFINE f == SizeOf(b)
             S == Those(b, "reserved")
             T == Those(b, "confirmed")
  <1>1. Living(b) = S \cup T /\ S \cap T = {} /\ IsFiniteSet(S) /\ IsFiniteSet(T)
    BY TxsFinite DEF Living, PhaseOf, Those
  <1>2. \A t \in S \cup T : f[t] \in Int
    BY Sizes, TxsFinite
  <1>3. Sum(f, S) = b.reserved /\ Sum(f, T) = b.used
    BY DEF Even, Held
  <1>4. b.reserved \in Nat /\ b.used \in Nat
    BY HeldType DEF Even
  <1> HIDE DEF f, S, T
  <1>5. Sum(f, S \cup T) = b.reserved + b.used
    BY <1>1, <1>2, <1>3, SumUnion
  <1>6. MapThenSumSet(LAMBDA t : f[t], S \cup T) = Sum(f, S \cup T)
    <2> DEFINE U == S \cup T
    <2>1. IsFiniteSet(U)
      BY <1>1, FS_Union
    <2> HIDE DEF U
    <2>2. MapThenSumSet(LAMBDA t : f[t], U) = Sum(f, U)
      BY <2>1, MapThenSumSetIsSum
    <2>3. QED
      BY <2>2 DEF U
  <1>7. MapThenSumSet(LAMBDA t : f[t], Living(b)) = b.reserved + b.used
    BY <1>1, <1>5, <1>6
  <1>8. QED
    BY <1>4, <1>7 DEF Taken, f

LEMMA LedgerTaken ==
    ASSUME BookOK(book), Even(book)
    PROVE  Ledger!Taken = Taken(book) /\ Taken(book) \in Nat
  <1>1. Ledger!Taken = MapThenSumSet(LAMBDA t : SizeOf(book)[t], Living(book))
    BY DEF Ledger!Taken, Ledger!Live, Ledger!MapThenSumSet, Ledger!MapThenFoldSet,
           Living, PhaseOf, SizeOf, MapThenSumSet, MapThenFoldSet
  <1>2. MapThenSumSet(LAMBDA t : SizeOf(book)[t], Living(book)) = Taken(book) /\ Taken(book) \in Nat
    BY LivingSum
  <1>3. QED
    BY <1>1, <1>2

LEMMA OpenedTotal ==
    ASSUME NEW b \in Book
    PROVE  Opened(b).total = (IF b.here THEN b.total ELSE Default) /\ Opened(b).total \in Nat
  BY TotalsAssumption DEF Opened, Book

LEMMA MovesOn ==
    ASSUME BookOK(book), BookOK(book'), NEW t, NEW from, NEW to, Shift(book, book', t, from, to)
    PROVE  Ledger!LedgerNext
  <1>1. Shifted(book, book', t, from, to)
    BY ShiftFields
  <1>2. t \in Txs /\ <<from, to>> \in Ways /\ PhaseOf(book)[t] = from
    BY DEF Shift, PhaseOf
  <1>3. Opened(book').total = Opened(book).total
    BY <1>1, OpenedTotal DEF Shifted, BookOK
  <1>4. PhaseOf(book') = [PhaseOf(book) EXCEPT ![t] = to] /\ SizeOf(book') = SizeOf(book)
    BY <1>1, <1>2 DEF Shifted, PhaseOf
  <1>5. Ledger!Move(t, from, to)
    BY <1>2, <1>3, <1>4 DEF Ledger!Move, PhaseOf, SizeOf
  <1>6. QED
    BY <1>2, <1>5 DEF Ledger!LedgerNext, Ways

LEMMA TriesOnce ==
    ASSUME BookOK(book), Even(book), BookOK(book'), NEW n, Takes(book, book', n)
    PROVE  Ledger!LedgerNext
  <1> DEFINE t == NewTx(book)
  <1>1. Tried(book, book', n)
    BY TryFields
  <1>2. t \in Txs /\ PhaseOf(book)[t] = "none" /\ n \in Nat /\ n # 0
    BY <1>1 DEF Tried, PhaseOf
  <1>3. /\ Opened(book').total = Opened(book).total /\ Taken(book) + n <= Opened(book).total
        /\ Opened(book).total \in Nat
    <2>1. book \in Book /\ book' \in Book
      BY DEF BookOK
    <2>2. book'.here = TRUE /\ book'.total = Opened(book).total
      BY <1>1 DEF Tried
    <2>3. Opened(book').total = book'.total /\ Opened(book).total \in Nat
      BY <2>1, <2>2, OpenedTotal
    <2>4. Taken(book) + n <= Opened(book).total
      BY <1>1 DEF Tried
    <2>5. QED
      BY <2>2, <2>3, <2>4
  <1>4. \A v \in Txs : /\ book'.resv[v].state = IF v = t THEN "reserved" ELSE book.resv[v].state
                       /\ book'.resv[v].amount = IF v = t THEN n ELSE book.resv[v].amount
    BY <1>1 DEF Tried
  <1> HIDE DEF t
  <1>5. /\ PhaseOf(book') = [PhaseOf(book) EXCEPT ![t] = "reserved"]
        /\ SizeOf(book') = [SizeOf(book) EXCEPT ![t] = n]
    BY <1>4 DEF PhaseOf, SizeOf
  <1>6. Ledger!Taken = Taken(book) /\ Taken(book) \in Nat
    BY LedgerTaken
  <1>7. n > 0 /\ Ledger!Taken + n <= Opened(book).total /\ n \in 1..Opened(book).total
    BY <1>2, <1>3, <1>6
  <1>8. Ledger!Try(t, n)
    BY <1>2, <1>3, <1>5, <1>7 DEF Ledger!Try, PhaseOf, SizeOf
  <1>9. QED
    BY <1>2, <1>7, <1>8 DEF Ledger!LedgerNext

LEMMA SetsAdjust ==
    ASSUME BookOK(book), Even(book), BookOK(book'), NEW n, NEW a, Sets(book, book', n, a)
    PROVE  Ledger!LedgerNext
  <1>1. /\ book'.here = TRUE /\ book'.total = n /\ n \in Nat /\ Taken(book) <= n
        /\ book'.resv = book.resv
    BY SetFields
  <1>2. Opened(book').total = n
    BY <1>1, OpenedTotal DEF BookOK
  <1>3. Ledger!Taken = Taken(book)
    BY LedgerTaken
  <1>4. Ledger!Adjust
    BY <1>1, <1>2, <1>3 DEF Ledger!Adjust
  <1>5. QED
    BY <1>4 DEF Ledger!LedgerNext

LEMMA PurgesAll ==
    ASSUME BookOK(book), BookOK(book'), book' = Purged(book)
    PROVE  Ledger!LedgerNext
  <1>1. /\ SizeOf(book') = SizeOf(book)
        /\ \A t \in Txs : book'.resv[t].state = IF book.resv[t].state = "none" THEN "none" ELSE "gone"
    BY PurgeFields
  <1>2. PhaseOf(book') = [t \in Txs |-> IF PhaseOf(book)[t] = "none" THEN "none" ELSE "gone"]
    BY <1>1 DEF PhaseOf
  <1>3. Opened(book').total \in Nat
    BY OpenedTotal DEF BookOK
  <1>4. Ledger!Purge
    BY <1>1, <1>2, <1>3 DEF Ledger!Purge, PhaseOf, SizeOf
  <1>5. QED
    BY <1>4 DEF Ledger!LedgerNext

LEMMA LedgerInitHolds == Init => Ledger!LedgerInit
  <1> SUFFICES ASSUME Init PROVE Ledger!LedgerInit
    OBVIOUS
  <1>1. BookOK(book)
    BY InitInv DEF IInv
  <1>2. Opened(book).total \in Nat
    BY <1>1, OpenedTotal DEF BookOK
  <1>3. book.resv = [t \in Txs |-> [state |-> "none", amount |-> 0]]
    BY DEF Init
  <1>4. QED
    BY <1>2, <1>3 DEF Ledger!LedgerInit

LEMMA LedgerStep == IInv /\ EvenBook /\ [Next]_vars => [Ledger!LedgerNext]_(Ledger!ledgerVars)
  <1> SUFFICES ASSUME IInv, EvenBook, [Next]_vars
               PROVE  Ledger!LedgerNext \/ UNCHANGED Ledger!ledgerVars
    OBVIOUS
  <1>1. BookOK(book) /\ Even(book) /\ BookStep(book, book') /\ BookOK(book')
    BY NextBooks, NextInv DEF IInv, EvenBook
  <1>2. CASE book' = book
    BY <1>2 DEF Ledger!ledgerVars
  <1>3. CASE \E n : Takes(book, book', n)
    BY <1>1, <1>3, TriesOnce
  <1>4. CASE \E t, from, to : Shift(book, book', t, from, to)
    BY <1>1, <1>4, MovesOn
  <1>5. CASE \E n, a : Sets(book, book', n, a)
    BY <1>1, <1>5, SetsAdjust
  <1>6. CASE book' = Purged(book)
    BY <1>1, <1>6, PurgesAll
  <1>7. QED
    BY <1>1, <1>2, <1>3, <1>4, <1>5, <1>6 DEF BookStep, QuietStep

(***************************************************************************)
(* All processes together keep the promise of the quota service: whatever  *)
(* creates, controllers, read repairs, handlers and administrators do to   *)
(* the two tables, one sees a reservation tried once, then cancelled or    *)
(* confirmed, released at most once, and never more taken than the total   *)
(* (PostgresQuota behind ports.QuotaService).                              *)
(***************************************************************************)
THEOREM KeepsThePromise == Spec => KeepsPromise
  BY LedgerInitHolds, LedgerStep, Invariance, AlwaysEven, PTL
     DEF Spec, KeepsPromise, Ledger!LedgerSpec

-----------------------------------------------------------------------------
(* Without faults and before any deadline has passed, every reservation is *)
(* the one that the create of an instance took, and it is taken once: a    *)
(* row fails only because its Deployment is gone, and then it stays gone,  *)
(* so that neither a controller nor a start takes another.  What follows   *)
(* is about the creates m and the Deployments d of a state.                *)

Late == \E i \in Instances : old[i]

\* The create of instance i has written its row.
Past(m, i) == m[i].pc \in {"observe", "persist", "done"}

Taking(b, t) == b.resv[t].state \in {"reserved", "confirmed"}

\* What is taken was taken by a create.
TakenByCreates ==
    \A t \in Txs : Taking(book, t) =>
        \E i \in Instances : make[i].tx = t /\ make[i].pc # "idle"

SeenByCreates ==
    \A i \in Instances : make[i].pc = "persist" => make[i].seen \in {"running", "provisioning"}

\* Row r of instance i is there as soon as its create has written it, and
\* names the reservation of the create.
RowFits(m, d, i, r) ==
    /\ r.state # "absent" <=> Past(m, i)
    /\ Past(m, i) => r.tx = m[i].tx
    /\ r.state = "failed" => d[i] = "absent"

\* A process at work carries the reservation of the create, and knows of a
\* failure only where the Deployment is gone.
Early(m, d, l) ==
    l.pc # "idle" => /\ Past(m, l.i) /\ l.snap.tx = m[l.i].tx
                     /\ l.snap.state = "failed" \/ l.next = "failed" => d[l.i] = "absent"

RecEarly(m, d, l) ==
    /\ Early(m, d, l) /\ l.pc # "timeout"
    /\ l.pc = "write" => l.next # "absent" /\ (l.snap.state = "failed" => l.next = "failed")
GwEarly(m, d, l) == Early(m, d, l) /\ (l.pc \in {"delegate", "upsert"} => l.next # "absent")
ApiEarly(m, d, l) == Early(m, d, l) /\ l.pc # "retry" /\ (l.pc # "idle" => l.next # "absent")

EarlyInv ==
    /\ TakenByCreates /\ SeenByCreates
    /\ \A i \in Instances : RowFits(make, deploy, i, row[i])
    /\ \A c \in Callers : RecEarly(make, deploy, rec[c])
    /\ \A g \in Readers : GwEarly(make, deploy, gw[g])
    /\ \A h \in Handlers : ApiEarly(make, deploy, api[h])

\* From creates m and Deployments d to creates n and Deployments e: a row that
\* was written keeps its create, and a Deployment that is gone stays gone.
Persists(m, d, n, e) ==
    \A i \in Instances : Past(m, i) => /\ Past(n, i) /\ n[i].tx = m[i].tx
                                       /\ d[i] = "absent" => e[i] = "absent"

LEMMA StaysEarly ==
    ASSUME IInv, EarlyInv, Persists(make, deploy, make', deploy')
    PROVE  /\ \A c \in Callers : RecEarly(make', deploy', rec[c])
           /\ \A g \in Readers : GwEarly(make', deploy', gw[g])
           /\ \A h \in Handlers : ApiEarly(make', deploy', api[h])
  <1>1. /\ \A c \in Callers : rec[c].pc # "idle" => rec[c].i \in Instances
        /\ \A g \in Readers : gw[g].pc # "idle" => gw[g].i \in Instances
        /\ \A h \in Handlers : api[h].pc # "idle" => api[h].i \in Instances
    BY RecKnows, GwKnows, ApiKnows DEF IInv
  <1>2. ASSUME NEW l, l.pc # "idle" => l.i \in Instances, Early(make, deploy, l)
        PROVE  Early(make', deploy', l)
    BY <1>2 DEF Early, Persists
  <1>3. QED
    BY <1>1, <1>2 DEF EarlyInv, RecEarly, GwEarly, ApiEarly

\* Steps of the book that take nothing.
LEMMA QuietTakesNothing ==
    ASSUME NEW b, BookOK(b), NEW d, QuietStep(b, d), NEW t \in Txs, Taking(d, t)
    PROVE  Taking(b, t)
  <1>1. CASE d = b
    BY <1>1
  <1>2. ASSUME NEW v, NEW from, NEW to, Shift(b, d, v, from, to) PROVE Taking(b, t)
    <2>1. Shifted(b, d, v, from, to)
      BY <1>2, ShiftFields
    <2>2. from \in {"reserved", "confirmed"} /\ b.resv[v].state = from
      BY <1>2 DEF Shift, Ways
    <2>3. d.resv[t].state = IF t = v THEN to ELSE b.resv[t].state
      BY <2>1 DEF Shifted
    <2>4. QED
      BY <2>2, <2>3 DEF Taking
  <1>3. ASSUME NEW n, NEW a, Sets(b, d, n, a) PROVE Taking(b, t)
    BY <1>3, SetFields DEF Taking
  <1>4. CASE d = Purged(b)
    <2>1. d.resv[t].state = IF b.resv[t].state = "none" THEN "none" ELSE "gone"
      BY <1>4, PurgeFields
    <2>2. QED
      BY <2>1 DEF Taking
  <1>5. QED
    BY <1>1, <1>2, <1>3, <1>4 DEF QuietStep

LEMMA StaysTaken ==
    ASSUME BookOK(book), TakenByCreates, QuietStep(book, book'),
           \A i \in Instances : make[i].pc # "idle" => make'[i].pc # "idle" /\ make'[i].tx = make[i].tx
    PROVE  TakenByCreates'
  BY QuietTakesNothing DEF TakenByCreates

\* Any step of the book of a process that takes nothing.
LEMMA Quiet ==
    ASSUME NEW b, BookOK(b), NEW t, NEW s, NEW next
    PROVE  /\ QuietStep(b, b) /\ QuietStep(b, ConfirmTx(b, t)) /\ QuietStep(b, CancelTx(b, t))
           /\ QuietStep(b, FreeTx(b, t)) /\ QuietStep(b, Settled(b, t, s, next))
  BY ConfirmShifts, CancelShifts, FreeShifts, SettledSteps DEF QuietStep

LEMMA EarlyCreate ==
    ASSUME ~Faults, IInv, EarlyInv, NEW i \in Instances, Create(i)
    PROVE  EarlyInv'
  <1>1. /\ make \in [Instances -> MakeOf(book)] /\ BookOK(book) /\ row \in [Instances -> RowOf(book)]
        /\ deploy \in [Instances -> Deploys]
    BY DEF IInv
  <1>2. make[i].pc \in {"idle", "apply", "upsert", "observe", "persist"} /\ UNCHANGED <<rec, gw, api>>
    BY DEF Create, MakeTry, MakeApply, MakeUpsert, MakeObserve, MakePersist, MakeRefused,
           MakeFails, MakeDies, Making
  <1>3. ASSUME TakenByCreates', SeenByCreates', Persists(make, deploy, make', deploy'),
               \A j \in Instances : RowFits(make', deploy', j, row'[j])
        PROVE  EarlyInv'
    BY <1>2, <1>3, StaysEarly DEF EarlyInv
  <1>4. CASE MakeTry(i)
    <2>1. /\ CanTry(book, Gpus[i]) /\ book' = TryTx(book, Gpus[i]) /\ make[i].pc = "idle"
          /\ make' = [make EXCEPT ![i] = [make[i] EXCEPT !.pc = "apply", !.tx = NewTx(book)]]
          /\ UNCHANGED <<row, deploy>>
      BY <1>4 DEF MakeTry, MayCreate
    <2>2. /\ make'[i].pc = "apply" /\ make'[i].tx = NewTx(book)
          /\ \A j \in Instances : j # i => make'[j] = make[j]
      BY <1>1, <2>1 DEF MakeOf, MakeType
    <2>3. Tried(book, book', Gpus[i])
      BY <1>1, <2>1, TryFields, GpusAssumption DEF Takes
    <2>4. TakenByCreates'
      <3>1. ASSUME NEW t \in Txs, Taking(book', t)
            PROVE  \E j \in Instances : make'[j].tx = t /\ make'[j].pc # "idle"
        <4>1. CASE t = NewTx(book)
          BY <2>2, <4>1
        <4>2. CASE t # NewTx(book)
          <5>1. Taking(book, t)
            BY <2>3, <3>1, <4>2 DEF Tried, Taking
          <5>2. PICK j \in Instances : make[j].tx = t /\ make[j].pc # "idle"
            BY <5>1 DEF EarlyInv, TakenByCreates
          <5>3. QED
            BY <2>1, <2>2, <5>2
        <4>3. QED
          BY <4>1, <4>2
      <3>2. QED
        BY <3>1 DEF TakenByCreates
    <2>5. /\ SeenByCreates' /\ Persists(make, deploy, make', deploy')
          /\ \A j \in Instances : RowFits(make', deploy', j, row'[j])
      BY <2>1, <2>2 DEF EarlyInv, SeenByCreates, Persists, Past, RowFits
    <2>6. QED
      BY <1>3, <2>4, <2>5
  <1>5. CASE MakeApply(i)
    <2>1. /\ make[i].pc = "apply" /\ make' = [make EXCEPT ![i] = [make[i] EXCEPT !.pc = "upsert"]]
          /\ deploy' = [deploy EXCEPT ![i] = "pending"] /\ UNCHANGED <<row, book>>
      BY <1>5 DEF MakeApply
    <2>2. /\ make'[i].pc = "upsert" /\ make'[i].tx = make[i].tx
          /\ \A j \in Instances : j # i => make'[j] = make[j] /\ deploy'[j] = deploy[j]
      BY <1>1, <2>1 DEF MakeOf, MakeType
    <2>3. TakenByCreates'
      BY <1>1, <2>1, <2>2, StaysTaken DEF EarlyInv, QuietStep
    <2>4. SeenByCreates' /\ Persists(make, deploy, make', deploy')
      BY <2>1, <2>2 DEF EarlyInv, SeenByCreates, Persists, Past
    <2>5. \A j \in Instances : RowFits(make', deploy', j, row'[j])
      BY <2>1, <2>2 DEF EarlyInv, Past, RowFits
    <2>6. QED
      BY <1>3, <2>3, <2>4, <2>5
  <1>6. CASE MakeUpsert(i)
    <2> DEFINE r == [state |-> "provisioning", refs |-> FALSE, tx |-> make[i].tx, by |-> "api"]
    <2>1. /\ make[i].pc = "upsert" /\ make' = [make EXCEPT ![i] = [make[i] EXCEPT !.pc = "observe"]]
          /\ row' = [row EXCEPT ![i] = r] /\ UNCHANGED <<deploy, book>>
      BY <1>6 DEF MakeUpsert
    <2>2. /\ make'[i].pc = "observe" /\ make'[i].tx = make[i].tx
          /\ \A j \in Instances : j # i => make'[j] = make[j] /\ row'[j] = row[j]
          /\ row'[i] = r
      BY <1>1, <2>1 DEF MakeOf, MakeType
    <2>3. TakenByCreates'
      BY <1>1, <2>1, <2>2, StaysTaken DEF EarlyInv, QuietStep
    <2>4. SeenByCreates' /\ Persists(make, deploy, make', deploy')
      BY <2>1, <2>2 DEF EarlyInv, SeenByCreates, Persists, Past
    <2>5. \A j \in Instances : RowFits(make', deploy', j, row'[j])
      BY <2>1, <2>2 DEF EarlyInv, Past, RowFits
    <2>6. QED
      BY <1>3, <2>3, <2>4, <2>5
  <1>7. CASE MakeObserve(i)
    <2> DEFINE s == IF deploy[i] = "ready" THEN "running" ELSE "provisioning"
    <2>1. /\ make[i].pc = "observe" /\ UNCHANGED <<deploy, book, row>>
          /\ make' = [make EXCEPT ![i] = [make[i] EXCEPT !.pc = "persist", !.seen = s]]
      BY <1>7 DEF MakeObserve
    <2>2. s \in {"running", "provisioning"}
      OBVIOUS
    <2> HIDE DEF s
    <2>3. /\ make'[i].pc = "persist" /\ make'[i].tx = make[i].tx /\ make'[i].seen = s
          /\ \A j \in Instances : j # i => make'[j] = make[j]
      BY <1>1, <2>1 DEF MakeOf, MakeType
    <2>4. TakenByCreates'
      BY <1>1, <2>1, <2>3, StaysTaken DEF EarlyInv, QuietStep
    <2>5. SeenByCreates' /\ Persists(make, deploy, make', deploy')
      BY <2>1, <2>2, <2>3 DEF EarlyInv, SeenByCreates, Persists, Past
    <2>6. \A j \in Instances : RowFits(make', deploy', j, row'[j])
      BY <2>1, <2>3 DEF EarlyInv, Past, RowFits
    <2>7. QED
      BY <1>3, <2>4, <2>5, <2>6
  <1>8. CASE MakePersist(i)
    <2> DEFINE r == [state |-> make[i].seen, refs |-> TRUE, tx |-> make[i].tx, by |-> "api"]
    <2>1. /\ make[i].pc = "persist" /\ make' = [make EXCEPT ![i] = [make[i] EXCEPT !.pc = "done"]]
          /\ row' = [row EXCEPT ![i] = r] /\ UNCHANGED deploy
          /\ book' \in {book, ConfirmTx(book, make[i].tx)}
      BY <1>8 DEF MakePersist
    <2>2. make[i].seen \in {"running", "provisioning"}
      BY <2>1 DEF EarlyInv, SeenByCreates
    <2>3. /\ make'[i].pc = "done" /\ make'[i].tx = make[i].tx
          /\ \A j \in Instances : j # i => make'[j] = make[j] /\ row'[j] = row[j]
          /\ row'[i] = r
      BY <1>1, <2>1 DEF MakeOf, MakeType
    <2>4. TakenByCreates'
      <3>1. QuietStep(book, book')
        BY <1>1, <2>1, Quiet
      <3>2. QED
        BY <1>1, <2>1, <2>3, <3>1, StaysTaken DEF EarlyInv
    <2>5. SeenByCreates' /\ Persists(make, deploy, make', deploy')
      BY <2>1, <2>3 DEF EarlyInv, SeenByCreates, Persists, Past
    <2>6. \A j \in Instances : RowFits(make', deploy', j, row'[j])
      BY <2>1, <2>2, <2>3 DEF EarlyInv, Past, RowFits
    <2>7. QED
      BY <1>3, <2>4, <2>5, <2>6
  <1>9. CASE MakeFails(i)
    <2>1. /\ make[i].pc \in {"observe", "persist"} /\ book' = CancelTx(book, make[i].tx)
          /\ make' = [make EXCEPT ![i] = [make[i] EXCEPT !.pc = "done"]]
          /\ UNCHANGED <<deploy, row>>
      BY <1>9 DEF MakeFails
    <2>2. /\ make'[i].pc = "done" /\ make'[i].tx = make[i].tx
          /\ \A j \in Instances : j # i => make'[j] = make[j]
      BY <1>1, <2>1 DEF MakeOf, MakeType
    <2>3. TakenByCreates'
      <3>1. QuietStep(book, book')
        BY <1>1, <2>1, Quiet
      <3>2. QED
        BY <1>1, <2>1, <2>2, <3>1, StaysTaken DEF EarlyInv
    <2>4. SeenByCreates' /\ Persists(make, deploy, make', deploy')
      BY <2>1, <2>2 DEF EarlyInv, SeenByCreates, Persists, Past
    <2>5. \A j \in Instances : RowFits(make', deploy', j, row'[j])
      BY <2>1, <2>2 DEF EarlyInv, Past, RowFits
    <2>6. QED
      BY <1>3, <2>3, <2>4, <2>5
  <1>10. QED
    BY <1>4, <1>5, <1>6, <1>7, <1>8, <1>9 DEF Create, MakeRefused, MakeDies

\* A step that leaves the creates alone.
LEMMA MakesStay ==
    ASSUME IInv, EarlyInv, QuietStep(book, book'), UNCHANGED make,
           \A i \in Instances : deploy[i] = "absent" => deploy'[i] = "absent"
    PROVE  /\ TakenByCreates' /\ SeenByCreates'
           /\ \A i \in Instances : RowFits(make', deploy', i, row[i])
           /\ \A c \in Callers : RecEarly(make', deploy', rec[c])
           /\ \A g \in Readers : GwEarly(make', deploy', gw[g])
           /\ \A h \in Handlers : ApiEarly(make', deploy', api[h])
  <1>1. TakenByCreates'
    BY StaysTaken DEF EarlyInv, IInv
  <1>2. SeenByCreates' /\ \A i \in Instances : RowFits(make', deploy', i, row[i])
    BY DEF EarlyInv, SeenByCreates, RowFits, Past
  <1>3. Persists(make, deploy, make', deploy')
    BY DEF Persists, Past
  <1>4. QED
    BY <1>1, <1>2, <1>3, StaysEarly

\* The row that a process writes back, with its reservation and a new state.
LEMMA WritesBack ==
    ASSUME IInv, EarlyInv, NEW l, Early(make, deploy, l), l.pc # "idle", l.i \in Instances,
           l.snap \in RowType, NEW s \in States, s # "absent", s = "failed" => deploy[l.i] = "absent",
           NEW r, r.state = s, r.tx = l.snap.tx,
           row' = [row EXCEPT ![l.i] = r], UNCHANGED <<make, deploy>>
    PROVE  \A i \in Instances : RowFits(make', deploy', i, row'[i])
  <1>1. \A i \in Instances : row'[i] = IF i = l.i THEN r ELSE row[i]
    BY DEF IInv
  <1>2. RowFits(make, deploy, l.i, r)
    BY DEF Early, RowFits
  <1>3. QED
    BY <1>1, <1>2 DEF EarlyInv

LEMMA BeginsEarly ==
    ASSUME EarlyInv, ~Late, NEW i \in Instances, row[i].state # "absent"
    PROVE  RecEarly(make, deploy, Begin(i))
  <1>1. RowFits(make, deploy, i, row[i]) /\ ~old[i]
    BY DEF EarlyInv, Late
  <1>2. Begin(i) = [pc |-> "observe", i |-> i, snap |-> row[i], next |-> "absent"]
    BY <1>1 DEF Begin
  <1>3. QED
    BY <1>1, <1>2 DEF RecEarly, Early, RowFits

LEMMA RestsEarly ==
    ASSUME NEW m, NEW d
    PROVE  RecEarly(m, d, AtRest) /\ GwEarly(m, d, AtRest) /\ ApiEarly(m, d, AtRest)
  BY DEF AtRest, Resting, RecEarly, GwEarly, ApiEarly, Early

LEMMA EarlyReconcile ==
    ASSUME ~Late, IInv, EarlyInv, NEW c \in Callers, Reconcile(c)
    PROVE  EarlyInv'
  <1> DEFINE l == rec[c]
  <1>1. /\ BookOK(book) /\ rec \in [Callers -> RecOf(book)] /\ l \in RecOf(book)
        /\ row \in [Instances -> RowOf(book)] /\ RecEarly(make, deploy, l) /\ l.pc # "idle"
        /\ l.pc # "timeout" /\ Early(make, deploy, l)
    BY DEF IInv, EarlyInv, RecEarly, Reconcile, RecTimeout, RecObserve, RecWrite, RecRetry,
           RecHeal, RecFails
  <1>2. l.i \in Instances /\ l.snap \in RowType /\ l.next \in States
    BY <1>1, RecKnows
  <1>3. UNCHANGED <<make, deploy, gw, api>>
    BY DEF Reconcile, RecTimeout, RecObserve, RecWrite, RecRetry, RecHeal, RecFails
  <1>4. ASSUME QuietStep(book, book'), NEW m, RecEarly(make, deploy, m),
               rec' = [rec EXCEPT ![c] = m],
               \A i \in Instances : RowFits(make', deploy', i, row'[i])
        PROVE  EarlyInv'
    <2>1. /\ TakenByCreates' /\ SeenByCreates'
          /\ \A k \in Callers : RecEarly(make', deploy', rec[k])
          /\ \A g \in Readers : GwEarly(make', deploy', gw'[g])
          /\ \A h \in Handlers : ApiEarly(make', deploy', api'[h])
      BY <1>3, <1>4, MakesStay
    <2>2. \A k \in Callers : rec'[k] = IF k = c THEN m ELSE rec[k]
      BY <1>1, <1>4
    <2>3. \A k \in Callers : RecEarly(make', deploy', rec'[k])
      BY <1>3, <1>4, <2>1, <2>2
    <2>4. QED
      BY <1>4, <2>1, <2>3 DEF EarlyInv
  <1>5. RecEarly(make, deploy, AtRest)
    BY RestsEarly
  <1>6. ASSUME row' = row PROVE \A i \in Instances : RowFits(make', deploy', i, row'[i])
    BY <1>3, <1>6 DEF EarlyInv
  <1>7. CASE RecObserve(c)
    <2> DEFINE next == Mapped(l.i)
    <2>1. /\ next \in {"failed", "running", "provisioning"}
          /\ next = "failed" => deploy[l.i] = "absent"
          /\ deploy[l.i] = "absent" => next = "failed"
      BY DEF Mapped
    <2> HIDE DEF next
    <2> DEFINE w == [l EXCEPT !.pc = "write", !.next = next]
               h == [l EXCEPT !.pc = "heal"]
    <2>2. /\ w.pc = "write" /\ w.next = next /\ w.i = l.i /\ w.snap = l.snap
          /\ h.pc = "heal" /\ h.next = l.next /\ h.i = l.i /\ h.snap = l.snap
      BY <1>1 DEF RecOf, Carrying, LocalType
    <2>3. \E m \in {w, h, AtRest} : rec' = [rec EXCEPT ![c] = m]
      BY <1>7 DEF RecObserve, next
    <2> HIDE DEF w, h
    <2>4. RecEarly(make, deploy, w) /\ RecEarly(make, deploy, h)
      BY <1>1, <2>1, <2>2 DEF RecEarly, Early
    <2>5. QuietStep(book, book') /\ row' = row
      BY <1>7 DEF RecObserve, QuietStep
    <2>6. QED
      BY <1>4, <1>5, <1>6, <2>3, <2>4, <2>5
  <1>8. CASE RecWrite(c)
    <2>1. QuietStep(book, book')
      BY <1>1, <1>8, Quiet DEF RecWrite
    <2> DEFINE r == [l.snap EXCEPT !.state = l.next, !.tx = l.snap.tx, !.by = "rec"]
    <2>2. /\ row' = [row EXCEPT ![l.i] = r] /\ rec' = [rec EXCEPT ![c] = AtRest]
          /\ l.pc = "write"
      BY <1>8 DEF RecWrite, Written, RecEnds
    <2>3. r.state = l.next /\ r.tx = l.snap.tx
      BY <1>2 DEF RowType
    <2> HIDE DEF r
    <2>4. l.next # "absent" /\ (l.next = "failed" => deploy[l.i] = "absent")
      BY <1>1, <2>2 DEF RecEarly, Early
    <2> HIDE DEF l
    <2>5. \A i \in Instances : RowFits(make', deploy', i, row'[i])
      BY <1>1, <1>2, <1>3, <2>2, <2>3, <2>4, WritesBack
    <2>6. QED
      BY <1>4, <1>5, <2>1, <2>2, <2>5
  <1>9. CASE RecHeal(c)
    BY <1>1, <1>4, <1>5, <1>6, <1>9, Quiet DEF RecHeal, RecEnds
  <1>10. CASE RecFails(c)
    BY <1>1, <1>4, <1>5, <1>6, <1>10, Quiet DEF RecFails, RecEnds
  <1>11. ~RecTimeout(c) /\ ~RecRetry(c)
    BY <1>1 DEF RecTimeout, RecRetry, Retries, RecEarly
  <1>12. QED
    BY <1>7, <1>8, <1>9, <1>10, <1>11 DEF Reconcile

LEMMA EarlyReader ==
    ASSUME ~Late, IInv, EarlyInv, NEW g \in Readers, Reader(g)
    PROVE  EarlyInv'
  <1> DEFINE l == gw[g]
  <1>1. /\ gw \in [Readers -> GwOf(book)] /\ l \in GwOf(book) /\ deploy \in [Instances -> Deploys]
        /\ row \in [Instances -> RowOf(book)] /\ rec \in [Callers -> RecOf(book)]
        /\ GwEarly(make, deploy, l) /\ Early(make, deploy, l)
    BY DEF IInv, EarlyInv, GwEarly
  <1>2. UNCHANGED <<book, make, deploy, api>> /\ QuietStep(book, book')
    BY DEF Reader, GwRead, GwObserve, GwDelegate, GwUpsert, QuietStep
  <1>3. ASSUME NEW m, GwEarly(make, deploy, m), gw' = [gw EXCEPT ![g] = m],
               \A c \in Callers : RecEarly(make, deploy, rec'[c]),
               \A i \in Instances : RowFits(make', deploy', i, row'[i])
        PROVE  EarlyInv'
    <2>1. /\ TakenByCreates' /\ SeenByCreates'
          /\ \A k \in Readers : GwEarly(make', deploy', gw[k])
          /\ \A h \in Handlers : ApiEarly(make', deploy', api'[h])
      BY <1>2, MakesStay
    <2>2. \A k \in Readers : gw'[k] = IF k = g THEN m ELSE gw[k]
      BY <1>1, <1>3
    <2>3. \A k \in Readers : GwEarly(make', deploy', gw'[k])
      BY <1>2, <1>3, <2>1, <2>2
    <2>4. QED
      BY <1>2, <1>3, <2>1, <2>3 DEF EarlyInv
  <1>4. GwEarly(make, deploy, AtRest)
    BY RestsEarly
  <1>5. ASSUME row' = row PROVE \A i \in Instances : RowFits(make', deploy', i, row'[i])
    BY <1>2, <1>5 DEF EarlyInv
  <1>6. ASSUME rec' = rec PROVE \A c \in Callers : RecEarly(make, deploy, rec'[c])
    BY <1>6 DEF EarlyInv
  <1>7. CASE \E i \in Instances : GwRead(g, i)
    <2>1. PICK i \in Instances : GwRead(g, i)
      BY <1>7
    <2> DEFINE m == [pc |-> "observe", i |-> i, snap |-> row[i], next |-> "absent"]
    <2>2. RowFits(make, deploy, i, row[i]) /\ row[i].state # "absent"
      BY <2>1 DEF EarlyInv, GwRead, Gone
    <2>3. GwEarly(make, deploy, m)
      BY <2>2 DEF GwEarly, Early, RowFits
    <2>4. gw' = [gw EXCEPT ![g] = m] /\ row' = row /\ rec' = rec
      BY <2>1 DEF GwRead
    <2> HIDE DEF m
    <2>5. QED
      BY <1>3, <1>5, <1>6, <2>3, <2>4
  <1>8. CASE GwObserve(g)
    <2> DEFINE next == Refreshed(l.snap.state, deploy[l.i])
    <2>1. l.pc = "observe" /\ l.i \in Instances
      BY <1>1, <1>8, GwKnows DEF GwObserve
    <2>2. /\ next \in {"failed", "stopped", "running", "pending", "provisioning"}
          /\ next = "failed" => deploy[l.i] = "absent"
      BY <1>1, <2>1 DEF Refreshed, Deploys
    <2> HIDE DEF next
    <2> DEFINE w == [l EXCEPT !.pc = "delegate", !.next = next]
               u == [l EXCEPT !.pc = "upsert", !.next = next]
    <2>3. /\ w.pc = "delegate" /\ w.next = next /\ w.i = l.i /\ w.snap = l.snap
          /\ u.pc = "upsert" /\ u.next = next /\ u.i = l.i /\ u.snap = l.snap
      BY <1>1 DEF GwOf, Carrying, LocalType
    <2> DEFINE m == CASE l.snap.state = "stopped" /\ deploy[l.i] = "absent" -> AtRest
                      [] next # l.snap.state -> w
                      [] OTHER               -> u
    <2>4. gw' = [gw EXCEPT ![g] = m] /\ m \in {w, u, AtRest} /\ row' = row /\ rec' = rec
      <3>1. m \in {w, u, AtRest}
        OBVIOUS
      <3>2. QED
        BY <1>8, <3>1 DEF GwObserve, next
    <2> HIDE DEF w, u, m
    <2>5. GwEarly(make, deploy, w) /\ GwEarly(make, deploy, u)
      BY <1>1, <2>1, <2>2, <2>3 DEF GwEarly, Early
    <2>6. QED
      BY <1>3, <1>4, <1>5, <1>6, <2>4, <2>5
  <1>9. CASE GwDelegate(g)
    <2> DEFINE u == [l EXCEPT !.pc = "upsert"]
    <2>1. /\ l.pc = "delegate" /\ l.i \in Instances /\ row' = row
          /\ gw' = [gw EXCEPT ![g] = u]
          /\ rec' = IF row[l.i].state \in Gone THEN rec ELSE [rec EXCEPT ![g] = Begin(l.i)]
      BY <1>1, <1>9, GwKnows DEF GwDelegate
    <2>2. u.pc = "upsert" /\ u.next = l.next /\ u.i = l.i /\ u.snap = l.snap
      BY <1>1 DEF GwOf, Carrying, LocalType
    <2> HIDE DEF u
    <2>3. GwEarly(make, deploy, u)
      BY <1>1, <2>1, <2>2 DEF GwEarly, Early
    <2>4. \A c \in Callers : RecEarly(make, deploy, rec'[c])
      <3>1. CASE row[l.i].state \in Gone
        BY <1>6, <2>1, <3>1
      <3>2. CASE row[l.i].state \notin Gone
        <4>1. RecEarly(make, deploy, Begin(l.i))
          BY <2>1, <3>2, BeginsEarly DEF Gone
        <4>2. \A c \in Callers : rec'[c] \in {rec[c], Begin(l.i)}
          BY <1>1, <2>1, <3>2
        <4>3. QED
          BY <4>1, <4>2 DEF EarlyInv
      <3>3. QED
        BY <3>1, <3>2
    <2>5. QED
      BY <1>3, <1>5, <2>1, <2>3, <2>4
  <1>10. CASE GwUpsert(g)
    <2> DEFINE r == [l.snap EXCEPT !.state = l.next, !.by = "gw"]
    <2>1. /\ l.pc = "upsert" /\ row' = [row EXCEPT ![l.i] = r] /\ rec' = rec
          /\ gw' = [gw EXCEPT ![g] = AtRest]
      BY <1>10 DEF GwUpsert
    <2>2. l.i \in Instances /\ l.snap \in RowType /\ l.next \in States
      BY <1>1, <2>1, GwKnows
    <2>3. r.state = l.next /\ r.tx = l.snap.tx
      BY <2>2 DEF RowType
    <2> HIDE DEF r
    <2>4. l.next # "absent" /\ (l.next = "failed" => deploy[l.i] = "absent")
      BY <1>1, <2>1 DEF GwEarly, Early
    <2>5. l.pc # "idle"
      BY <2>1
    <2> HIDE DEF l
    <2>6. \A i \in Instances : RowFits(make', deploy', i, row'[i])
      BY <1>1, <1>2, <2>1, <2>2, <2>3, <2>4, <2>5, WritesBack
    <2>7. QED
      BY <1>3, <1>4, <1>6, <2>1, <2>6
  <1>11. QED
    BY <1>7, <1>8, <1>9, <1>10 DEF Reader

LEMMA EarlyHandler ==
    ASSUME IInv, EarlyInv, NEW h \in Handlers, Handler(h)
    PROVE  EarlyInv'
  <1> DEFINE l == api[h]
  <1>1. /\ BookOK(book) /\ api \in [Handlers -> ApiOf(book)] /\ l \in ApiOf(book)
        /\ deploy \in [Instances -> Deploys] /\ row \in [Instances -> RowOf(book)]
        /\ ApiEarly(make, deploy, l) /\ Early(make, deploy, l) /\ l.pc # "retry"
    BY DEF IInv, EarlyInv, ApiEarly
  <1>2. UNCHANGED <<make, rec, gw>>
    BY DEF Handler, ApiRead, ApiApply, ApiPersist, ApiRetry, ApiFails
  <1>3. ASSUME QuietStep(book, book'), NEW m, ApiEarly(make, deploy', m),
               api' = [api EXCEPT ![h] = m],
               \A i \in Instances : deploy[i] = "absent" => deploy'[i] = "absent",
               \/ row' = row
               \/ \A i \in Instances : RowFits(make', deploy', i, row'[i])
        PROVE  EarlyInv'
    <2>1. /\ TakenByCreates' /\ SeenByCreates'
          /\ \A i \in Instances : RowFits(make', deploy', i, row[i])
          /\ \A c \in Callers : RecEarly(make', deploy', rec'[c])
          /\ \A g \in Readers : GwEarly(make', deploy', gw'[g])
          /\ \A k \in Handlers : ApiEarly(make', deploy', api[k])
      BY <1>2, <1>3, MakesStay
    <2>2. \A k \in Handlers : api'[k] = IF k = h THEN m ELSE api[k]
      BY <1>1, <1>3
    <2>3. \A k \in Handlers : ApiEarly(make', deploy', api'[k])
      BY <1>2, <1>3, <2>1, <2>2
    <2>4. \A i \in Instances : RowFits(make', deploy', i, row'[i])
      BY <1>3, <2>1
    <2>5. QED
      BY <2>1, <2>3, <2>4 DEF EarlyInv
  <1>4. \A d : ApiEarly(make, d, AtRest)
    BY RestsEarly
  <1>5. CASE \E i \in Instances, a \in ApiActions : ApiRead(h, i, a)
    <2>1. PICK i \in Instances, a \in ApiActions : ApiRead(h, i, a)
      BY <1>5
    <2> DEFINE next == Transition(row[i].state, a)
               m == [pc |-> a, i |-> i, snap |-> row[i], next |-> next]
    <2>2. RowFits(make, deploy, i, row[i]) /\ row[i].state # "absent"
      BY <2>1 DEF EarlyInv, ApiRead
    <2>3. next # "absent" /\ (next = "failed" => row[i].state = "failed")
      BY <2>2 DEF Transition
    <2>4. /\ api' = [api EXCEPT ![h] = m] /\ UNCHANGED <<row, deploy, book>>
          /\ a \in {"start", "stop", "delete", "other"}
      BY <2>1, ActionsAssumption DEF ApiRead
    <2> HIDE DEF next
    <2>5. ApiEarly(make, deploy, m)
      BY <2>2, <2>3, <2>4 DEF ApiEarly, Early, RowFits
    <2> HIDE DEF m
    <2>6. QED
      BY <1>1, <1>3, <2>4, <2>5, Quiet
  <1>6. CASE ApiApply(h)
    <2> DEFINE m == [l EXCEPT !.pc = "persist"]
    <2>1. /\ l.pc \in {"start", "stop", "delete", "other"} /\ l.i \in Instances
          /\ l.pc \in {"start", "stop"} => deploy[l.i] # "absent"
          /\ deploy' = [deploy EXCEPT ![l.i] = Scaled(l, deploy[l.i])]
          /\ UNCHANGED <<row, book>>
      BY <1>1, <1>6, ApiKnows DEF ApiApply
    <2>2. ~(l.pc = "start" /\ l.snap.state = "failed")
      BY <1>1, <2>1 DEF Early
    <2>3. api' = [api EXCEPT ![h] = m]
      BY <1>6, <2>2 DEF ApiApply
    <2>4. \A i \in Instances : deploy[i] = "absent" => deploy'[i] = "absent"
      BY <1>1, <2>1 DEF Scaled
    <2>5. m.pc = "persist" /\ m.next = l.next /\ m.i = l.i /\ m.snap = l.snap
      BY <1>1 DEF ApiOf, Carrying, LocalType
    <2> HIDE DEF m
    <2>6. ApiEarly(make, deploy', m)
      BY <1>1, <2>1, <2>4, <2>5 DEF ApiEarly, Early
    <2>7. QED
      BY <1>1, <1>3, <2>1, <2>3, <2>4, <2>6, Quiet
  <1>7. CASE ApiPersist(h)
    <2>1. QuietStep(book, book')
      BY <1>1, <1>7, Quiet DEF ApiPersist
    <2> DEFINE r == [l.snap EXCEPT !.state = l.next, !.tx = l.snap.tx, !.by = "api"]
    <2>2. /\ l.pc = "persist" /\ row' = [row EXCEPT ![l.i] = r] /\ UNCHANGED deploy
          /\ api' = [api EXCEPT ![h] = AtRest]
      BY <1>7 DEF ApiPersist, ApiWritten
    <2>3. l.i \in Instances /\ l.snap \in RowType /\ l.next \in States
      BY <1>1, <2>2, ApiKnows
    <2>4. r.state = l.next /\ r.tx = l.snap.tx
      BY <2>3 DEF RowType
    <2> HIDE DEF r
    <2>5. l.next # "absent" /\ (l.next = "failed" => deploy[l.i] = "absent") /\ l.pc # "idle"
      BY <1>1, <2>2 DEF ApiEarly, Early
    <2> HIDE DEF l
    <2>6. \A i \in Instances : RowFits(make', deploy', i, row'[i])
      BY <1>1, <1>2, <2>2, <2>3, <2>4, <2>5, WritesBack
    <2>7. QED
      BY <1>3, <1>4, <2>1, <2>2, <2>6
  <1>8. CASE ApiFails(h)
    BY <1>1, <1>3, <1>4, <1>8, Quiet DEF ApiFails
  <1>9. ~ApiRetry(h)
    BY <1>1 DEF ApiRetry
  <1>10. QED
    BY <1>5, <1>6, <1>7, <1>8, <1>9 DEF Handler

LEMMA EarlyInit == Init => EarlyInv
  <1> SUFFICES ASSUME Init PROVE EarlyInv
    OBVIOUS
  <1>1. TakenByCreates /\ SeenByCreates
    BY DEF Init, TakenByCreates, SeenByCreates, Taking
  <1>2. \A i \in Instances : RowFits(make, deploy, i, row[i])
    BY DEF Init, RowFits, Past, NoRow
  <1>3. QED
    BY <1>1, <1>2, RestsEarly DEF Init, EarlyInv

EarlyOrLate == old \in [Instances -> BOOLEAN] /\ (Late \/ EarlyInv)

LEMMA TimePasses ==
    ASSUME old \in [Instances -> BOOLEAN], [Next]_vars
    PROVE  old' \in [Instances -> BOOLEAN] /\ (Late => Late')
  <1>1. \/ old' = old
        \/ \E i \in Instances : old' = [old EXCEPT ![i] = TRUE]
    <2>1. ASSUME NEW i \in Instances, Create(i) \/ Cluster(i) PROVE old' = old
      BY <2>1 DEF Create, MakeTry, MakeApply, MakeUpsert, MakeObserve, MakePersist, MakeRefused,
                  MakeFails, MakeDies, Cluster
    <2>2. ASSUME NEW i \in Instances, Deadline(i) PROVE old' = [old EXCEPT ![i] = TRUE]
      BY <2>2 DEF Deadline
    <2>3. ASSUME NEW c, NEW i, RecRead(c, i) \/ Reconcile(c) PROVE old' = old
      BY <2>3 DEF RecRead, Reconcile, RecTimeout, RecObserve, RecWrite, RecRetry, RecHeal, RecFails
    <2>4. ASSUME NEW g, Reader(g) PROVE old' = old
      BY <2>4 DEF Reader, GwRead, GwObserve, GwDelegate, GwUpsert
    <2>5. ASSUME NEW h, Handler(h) PROVE old' = old
      BY <2>5 DEF Handler, ApiRead, ApiApply, ApiPersist, ApiRetry, ApiFails
    <2>6. ASSUME NEW n, SetsTotal(n) \/ PutReservation(n) \/ DeleteTenantQuota PROVE old' = old
      BY <2>6 DEF SetsTotal, Put, CreateTenantQuota, UpdateTenantQuota, UpsertTenantQuota,
                  PutReservation, DeleteTenantQuota, Writes
    <2>7. CASE UNCHANGED vars
      BY <2>7 DEF vars
    <2>8. QED
      BY <2>1, <2>2, <2>3, <2>4, <2>5, <2>6, <2>7 DEF Next, SetsTotal
  <1>2. QED
    BY <1>1 DEF Late

LEMMA EarlyNext == ASSUME ~Faults PROVE IInv /\ EarlyOrLate /\ [Next]_vars => EarlyOrLate'
  <1> SUFFICES ASSUME IInv, EarlyOrLate, [Next]_vars, ~Late, ~Late' PROVE EarlyInv'
    BY TimePasses DEF EarlyOrLate
  <1>1. EarlyInv /\ BookOK(book)
    BY DEF EarlyOrLate, IInv
  <1>2. ASSUME QuietStep(book, book'), UNCHANGED <<make, row, rec, gw, api>>,
               \A i \in Instances : deploy[i] = "absent" => deploy'[i] = "absent"
        PROVE  EarlyInv'
    BY <1>1, <1>2, MakesStay DEF EarlyInv
  <1>3. QuietStep(book, book)
    BY DEF QuietStep
  <1>4. ASSUME NEW i \in Instances, Create(i) PROVE EarlyInv'
    BY <1>1, <1>4, EarlyCreate
  <1>5. ASSUME NEW i \in Instances, Cluster(i) PROVE EarlyInv'
    <2>1. \A j \in Instances : deploy[j] = "absent" => deploy'[j] = "absent"
      BY <1>5 DEF Cluster, IInv
    <2>2. UNCHANGED <<book, make, row, rec, gw, api>>
      BY <1>5 DEF Cluster
    <2>3. QED
      BY <1>2, <1>3, <2>1, <2>2
  <1>6. ASSUME NEW i \in Instances, Deadline(i) PROVE FALSE
    BY <1>6 DEF Deadline, Late, EarlyOrLate
  <1>7. ASSUME NEW c \in Controllers, NEW i \in Instances, RecRead(c, i) PROVE EarlyInv'
    <2>1. c \in Callers /\ rec' = [rec EXCEPT ![c] = Begin(i)] /\ row[i].state # "absent"
          /\ UNCHANGED <<book, make, row, deploy, gw, api>>
      BY <1>7 DEF RecRead, Callers, Gone
    <2>2. RecEarly(make, deploy, Begin(i))
      BY <1>1, <2>1, BeginsEarly
    <2>3. \A k \in Callers : rec'[k] \in {rec[k], Begin(i)}
      BY <2>1 DEF IInv
    <2>4. TakenByCreates' /\ SeenByCreates'
      BY <1>1, <1>3, <2>1, MakesStay
    <2>5. QED
      BY <1>1, <2>1, <2>2, <2>3, <2>4 DEF EarlyInv
  <1>8. ASSUME NEW c \in Callers, Reconcile(c) PROVE EarlyInv'
    BY <1>1, <1>8, EarlyReconcile
  <1>9. ASSUME NEW g \in Readers, Reader(g) PROVE EarlyInv'
    BY <1>1, <1>9, EarlyReader
  <1>10. ASSUME NEW h \in Handlers, Handler(h) PROVE EarlyInv'
    BY <1>1, <1>10, EarlyHandler
  <1>11. ASSUME NEW n \in Nat, SetsTotal(n) \/ PutReservation(n) \/ DeleteTenantQuota
         PROVE  EarlyInv'
    <2>1. QuietStep(book, book')
      BY <1>1, <1>11, AdminBooks
    <2>2. UNCHANGED <<make, row, rec, gw, api, deploy>>
      BY <1>11 DEF SetsTotal, Put, CreateTenantQuota, UpdateTenantQuota, UpsertTenantQuota,
                   PutReservation, DeleteTenantQuota, Writes
    <2>3. QED
      BY <1>2, <2>1, <2>2
  <1>12. CASE UNCHANGED vars
    <2>1. UNCHANGED <<book, make, row, rec, gw, api, deploy>>
      BY <1>12 DEF vars
    <2>2. QED
      BY <1>2, <1>3, <2>1
  <1>13. Totals \subseteq Nat /\ Allocs \subseteq Nat /\ 0 \in Nat
    BY TotalsAssumption
  <1>14. QED
    BY <1>4, <1>5, <1>6, <1>7, <1>8, <1>9, <1>10, <1>11, <1>12, <1>13 DEF Next, SetsTotal

(***************************************************************************)
(* As long as no call fails and no deadline has passed, no quota leaks,    *)
(* with any number of instances and processes: what is reserved or         *)
(* confirmed is named by a row that is not deleted or by a create under    *)
(* way (selfHealConfirm, persistLifecycleWithQuota, and the retries, which *)
(* do not happen without a failure).                                       *)
(***************************************************************************)
THEOREM NothingLeaksEarly ==
    ASSUME ~Faults PROVE Spec => []LeaksOnlyLate
  <1>1. Init => EarlyOrLate
    BY EarlyInit DEF EarlyOrLate, Init
  <1>2. IInv /\ EarlyOrLate => LeaksOnlyLate
    <2> SUFFICES ASSUME IInv, EarlyInv, NEW t \in Txs, Taking(book, t)
                 PROVE  \E i \in Instances : \/ row[i].tx = t /\ row[i].state \notin Gone
                                             \/ make[i].tx = t /\ Making(i)
      BY DEF EarlyOrLate, Late, LeaksOnlyLate, In, Taking
    <2>1. PICK i \in Instances : make[i].tx = t /\ make[i].pc # "idle"
      BY DEF EarlyInv, TakenByCreates
    <2>2. CASE Past(make, i)
      <3>1. row[i].state # "absent" /\ row[i].tx = t /\ row[i] \in RowOf(book)
        BY <2>1, <2>2 DEF EarlyInv, RowFits, IInv
      <3>2. row[i].state # "deleted"
        BY <3>1 DEF RowOf, Over, Ended, Taking
      <3>3. QED
        BY <3>1, <3>2 DEF Gone
    <2>3. CASE ~Past(make, i)
      BY <2>1, <2>3 DEF Past, Making, IInv, MakeOf, MakeType
    <2>4. QED
      BY <2>2, <2>3
  <1>3. QED
    BY <1>1, <1>2, EarlyNext, Invariance, PTL DEF Spec
=============================================================================
