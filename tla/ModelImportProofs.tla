-------------------------- MODULE ModelImportProofs --------------------------
(***************************************************************************)
(* Theorems about ModelImport, for any number of handlers, worker          *)
(* processes, files, parts, revisions, attempts and expired leases.        *)
(*                                                                         *)
(* The heart of the invariant is that nobody ever handles content of       *)
(* another revision than the one the import is bound to: not in file rows, *)
(* objects, parts or checksums, and not in the memory of handlers that     *)
(* have lost their lease long ago.                                         *)
(***************************************************************************)
EXTENDS ModelImport, TLAPS

-----------------------------------------------------------------------------
(* The invariant.                                                          *)

Steps == {"idle", "acquire", "resolve", "bind", "ensure", "list", "file", "mark", "part",
          "save", "manifest", "complete", "fail"}

\* The steps of a handler that knows the revision of the import.
Bound == {"ensure", "list", "file", "mark", "part", "save", "manifest", "complete"}

\* Revision r or nothing.
Only(r) == {None, r}

RowType(r) ==
    [status : {"none", "pending", "uploading", "completed"}, sha : Only(r), upload : 0..MaxUploads]

MemType(r) ==
    [rev : Revs \cup {None}, recs : [Files -> RowType(r)], sums : [Files -> Only(r)],
     file : Files, up : 0..MaxUploads]

UploadType(r) == [file : Files \cup {0}, open : BOOLEAN, parts : [1..Parts -> Only(r)]]

TaskType ==
    [status : {"pending", "running", "completed", "failed", "dead_letter"},
     owner : {Id[h] : h \in Handlers} \cup {Nobody}, live : BOOLEAN, tries : Nat,
     by : Handlers \cup {Nobody}]

ImpType == [status : {"pending", "running", "completed", "failed"}, resolved : Revs \cup {None}]

TablesType ==
    /\ task \in TaskType /\ imp \in ImpType
    /\ model \in {"pending", "downloading", "ready", "error", "deleted"}
    /\ rows \in [Files -> RowType(imp.resolved)]
    /\ head \in Revs

StoreType ==
    /\ objects \in [Files -> Only(imp.resolved)]
    /\ uploads \in [1..MaxUploads -> UploadType(imp.resolved)]

LocalType ==
    /\ pc \in [Handlers -> Steps]
    /\ mem \in [Handlers -> MemType(imp.resolved)]

\* The snapshot of the revision the import is bound to.
Whole == [f \in Files |-> imp.resolved]

Stored(f) == objects[f] = imp.resolved

ManifestInv == manifest = None \/ (imp.resolved # None /\ manifest = Whole)

VersionInv == version # None => /\ imp.resolved # None
                                /\ version = Whole /\ objects = Whole /\ manifest = Whole

\* What a handler at its step relies on.
HandlerInv(h) ==
    LET m == mem[h] IN
    /\ pc[h] = "acquire" => m.rev \in Only(imp.resolved)
    /\ pc[h] = "bind" => m.rev \in Revs
    /\ pc[h] \in Bound => m.rev = imp.resolved /\ m.rev # None
    /\ pc[h] \in {"acquire", "resolve", "bind", "ensure", "list"} => m.file = 1
    /\ pc[h] \in {"mark", "part"} => m.up \in 1..MaxUploads
    /\ pc[h] \in {"file", "mark", "part", "save"} =>
          \A f \in Files : f < m.file => m.sums[f] = imp.resolved /\ Stored(f)
    /\ pc[h] = "save" => m.sums[m.file] = imp.resolved /\ Stored(m.file)
    /\ pc[h] \in {"manifest", "complete"} =>
          \A f \in Files : m.sums[f] = imp.resolved /\ Stored(f)
    /\ pc[h] = "complete" => manifest = Whole

DbInv == TablesType /\ StoreType /\ ManifestInv /\ VersionInv /\ OutcomeAgrees

IInv == DbInv /\ LocalType /\ (\A h \in Handlers : HandlerInv(h))

-----------------------------------------------------------------------------
(* Steps of one handler.                                                   *)

\* Nothing that has been stored is lost, and a bound import stays bound.
Kept ==
    /\ imp.resolved # None => imp'.resolved = imp.resolved
    /\ \A f \in Files : objects[f] # None => objects'[f] = objects[f]
    /\ manifest # None => manifest' = manifest

LEMMA NoneIsNoRevision == None \notin Revs /\ "mixed" \notin Revs
  BY RevsAssumption

LEMMA NothingFits ==
    ASSUME NEW r
    PROVE  NoRow \in RowType(r) /\ NoSums \in [Files -> Only(r)] /\ NoMem \in MemType(r)
  <1>1. NoRow \in RowType(r) /\ NoSums \in [Files -> Only(r)]
    BY BoundsAssumption DEF NoRow, RowType, NoSums, Only
  <1>2. 1 \in Files /\ 0 \in 0..MaxUploads
    BY FilesAssumption, BoundsAssumption DEF Files
  <1>3. QED
    BY <1>1, <1>2 DEF NoMem, MemType

\* What may be read before the import is bound fits any revision.
LEMMA MemGrows == ASSUME NEW r PROVE MemType(None) \subseteq MemType(r)
  <1>1. Only(None) \subseteq Only(r)
    BY DEF Only
  <1>2. RowType(None) \subseteq RowType(r)
    BY <1>1 DEF RowType
  <1>3. QED
    BY <1>1, <1>2 DEF MemType

\* A handler that does not move goes on relying on what it relied on.
LEMMA BystanderKept ==
    ASSUME IInv, Kept, NEW g \in Handlers, pc'[g] = pc[g], mem'[g] = mem[g]
    PROVE  mem'[g] \in MemType(imp'.resolved) /\ HandlerInv(g)'
  <1>1. mem[g] \in MemType(imp.resolved) /\ HandlerInv(g) /\ mem[g].file \in Files
    BY DEF IInv, LocalType, MemType
  <1>2. mem[g] \in MemType(imp'.resolved)
    <2>1. CASE imp.resolved = None
      BY <1>1, <2>1, MemGrows
    <2>2. CASE imp.resolved # None
      BY <1>1, <2>2 DEF Kept
    <2>3. QED
      BY <2>1, <2>2
  <1>3. CASE pc[g] \in Bound
    <2>1. imp.resolved # None /\ imp'.resolved = imp.resolved
      BY <1>1, <1>3 DEF HandlerInv, Kept
    <2>2. \A f \in Files : Stored(f) => Stored(f)'
      BY <2>1 DEF Stored, Kept
    <2>3. manifest = Whole => manifest' = Whole'
      <3>1. manifest = Whole => manifest # None
        BY NothingAssumption, <2>1 DEF Whole, Files, IInv, DbInv, TablesType, ImpType
      <3>2. QED
        BY <2>1, <3>1 DEF Kept, Whole
    <2>4. QED
      BY <1>1, <1>2, <1>3, <2>1, <2>2, <2>3 DEF HandlerInv, Bound
  <1>4. CASE pc[g] \notin Bound
    BY <1>1, <1>2, <1>4 DEF HandlerInv, Bound, Only, Kept
  <1>5. QED
    BY <1>2, <1>3, <1>4

Moved(h) == pc' = [pc EXCEPT ![h] = pc'[h]] /\ mem' = [mem EXCEPT ![h] = mem'[h]]

LEMMA HandlerMoves ==
    ASSUME IInv, Kept, DbInv', NEW h \in Handlers, Moved(h),
           pc'[h] \in Steps, mem'[h] \in MemType(imp'.resolved), HandlerInv(h)'
    PROVE  IInv'
  <1>1. \A g \in Handlers : g # h => pc'[g] = pc[g] /\ mem'[g] = mem[g]
    BY DEF Moved, IInv, LocalType
  <1>2. ASSUME NEW g \in Handlers PROVE mem'[g] \in MemType(imp'.resolved) /\ HandlerInv(g)'
    <2>1. CASE g # h
      BY <1>1, <2>1, BystanderKept
    <2>2. CASE g = h
      BY <2>2
    <2>3. QED
      BY <2>1, <2>2
  <1>3. LocalType'
    BY <1>2 DEF LocalType, Moved, IInv
  <1>4. QED
    BY <1>2, <1>3 DEF IInv

\* A handler that fails or returns remembers nothing.
LEMMA HandlerForgets ==
    ASSUME IInv, Kept, DbInv', NEW h \in Handlers, Fails(h) \/ Returns(h)
    PROVE  IInv'
  <1>1. Moved(h) /\ pc'[h] \in {"fail", "idle"} /\ mem'[h] = NoMem
    BY DEF IInv, LocalType, Fails, Returns, With, Moved
  <1>2. HandlerInv(h)'
    BY <1>1 DEF HandlerInv, Bound
  <1>3. QED
    BY <1>1, <1>2, HandlerMoves, NothingFits DEF Steps

LEMMA SameTables == ASSUME IInv, UNCHANGED <<db, store, head>> PROVE Kept /\ DbInv'
  BY DEF IInv, DbInv, db, store, Kept, TablesType, StoreType, ManifestInv, VersionInv, OutcomeAgrees, Whole

\* The handler at work, and what it may rely on.
LEMMA AtStep ==
    ASSUME IInv, NEW h \in Handlers
    PROVE  /\ mem[h] \in MemType(imp.resolved) /\ HandlerInv(h) /\ mem[h].file \in Files
           /\ mem[h].rev \in Revs \cup {None} /\ mem[h].up \in 0..MaxUploads
           /\ mem[h].recs[mem[h].file] \in RowType(imp.resolved)
           /\ mem[h].sums[mem[h].file] \in Only(imp.resolved)
           /\ objects[mem[h].file] \in Only(imp.resolved)
           /\ pc[h] \in Bound => mem[h].rev = imp.resolved /\ imp.resolved \in Revs
  <1>1. mem[h] \in MemType(imp.resolved) /\ HandlerInv(h) /\ StoreType /\ TablesType
    BY DEF IInv, LocalType, DbInv
  <1>2. QED
    BY <1>1 DEF MemType, HandlerInv, StoreType, TablesType, ImpType

LEMMA GoesMoves ==
    ASSUME IInv, NEW h \in Handlers, NEW s \in Steps
    PROVE  /\ Goes(h, s) => Moved(h) /\ pc'[h] = s /\ mem'[h] = mem[h]
           /\ \A m : With(h, s, m) => Moved(h) /\ pc'[h] = s /\ mem'[h] = m
  BY DEF Goes, With, Moved, IInv, LocalType

\* The steps up to the file rows.
LEMMA BeginningKeeps ==
    ASSUME IInv, NEW h \in Handlers, Handle(h) \/ Acquire(h) \/ Resolve(h)
    PROVE  IInv'
  <1>1. mem[h] \in MemType(imp.resolved) /\ HandlerInv(h) /\ TablesType /\ StoreType /\ OutcomeAgrees
    BY AtStep DEF IInv, DbInv
  <1>2. CASE Handle(h)
    <2>1. Kept /\ DbInv' /\ imp' = imp
      BY <1>2, SameTables DEF Handle, env, db
    <2> DEFINE m == [NoMem EXCEPT !.rev = imp.resolved]
    <2>2. m \in MemType(imp.resolved) /\ m.rev = imp.resolved /\ m.file = 1
      <3>1. NoMem \in MemType(imp.resolved) /\ imp.resolved \in Revs \cup {None}
        BY <1>1, NothingFits DEF TablesType, ImpType
      <3>2. QED
        BY <3>1 DEF MemType, NoMem
    <2>3. With(h, "acquire", m)
      BY <1>2 DEF Handle
    <2> HIDE DEF m
    <2>4. Moved(h) /\ pc'[h] = "acquire" /\ mem'[h] = m
      BY <2>3, GoesMoves DEF Steps
    <2>5. HandlerInv(h)'
      BY <2>1, <2>2, <2>4 DEF HandlerInv, Bound, Only
    <2>6. QED
      BY <2>1, <2>2, <2>4, <2>5, HandlerMoves DEF Steps
  <1>3. CASE Acquire(h) /\ Returns(h)
    <2>1. (UNCHANGED task \/ (Takeable /\ task' = Leased(h))) /\ UNCHANGED <<imp, model, rows, version, store, head>>
      BY <1>3 DEF Acquire, env
    <2>2. ~Takeable => UNCHANGED db
      BY <2>1 DEF db
    <2>3. CASE Takeable
      <3>1. Goes(h, IF mem[h].rev = None THEN "resolve" ELSE "ensure") \/ UNCHANGED task
        BY <1>3 DEF Acquire
      <3>2. pc'[h] = "idle"
        BY <1>3 DEF Returns, IInv, LocalType
      <3>3. UNCHANGED task
        BY <3>1, <3>2 DEF Goes, IInv, LocalType
      <3>4. Kept /\ DbInv'
        BY <2>1, <3>3, SameTables DEF db
      <3>5. QED
        BY <1>3, <3>4, HandlerForgets
    <2>4. CASE ~Takeable
      <3>1. Kept /\ DbInv'
        BY <2>1, <2>2, <2>4, SameTables
      <3>2. QED
        BY <1>3, <3>1, HandlerForgets
    <2>5. QED
      BY <2>3, <2>4
  <1>4. CASE /\ Acquire(h) /\ Takeable /\ task' = Leased(h)
             /\ Goes(h, IF mem[h].rev = None THEN "resolve" ELSE "ensure")
    <2>1. UNCHANGED <<imp, model, rows, version, objects, manifest, uploads, head>> /\ pc[h] = "acquire"
      BY <1>4 DEF Acquire, env, store
    <2>2. task' \in TaskType /\ task.status # "completed" /\ task'.status = "running"
      BY <1>1, <1>4 DEF TablesType, TaskType, Leased, Takeable
    <2>3. Kept /\ DbInv'
      BY <1>1, <2>1, <2>2 DEF IInv, DbInv, Kept, TablesType, StoreType, ManifestInv, VersionInv, OutcomeAgrees, Whole
    <2>4. PICK s \in {"resolve", "ensure"} : Goes(h, s) /\ (s = "ensure" => mem[h].rev # None)
      BY <1>4
    <2>5. Moved(h) /\ pc'[h] = s /\ mem'[h] = mem[h]
      BY <2>4, GoesMoves DEF Steps
    <2>6. HandlerInv(h)'
      BY <1>1, <2>1, <2>4, <2>5 DEF HandlerInv, Bound, Only
    <2>7. QED
      BY <1>1, <2>1, <2>3, <2>4, <2>5, <2>6, HandlerMoves DEF Steps
  <1>5. CASE Resolve(h)
    <2>1. Kept /\ DbInv' /\ imp' = imp
      BY <1>5, SameTables DEF Resolve, env, db
    <2>2. CASE Fails(h)
      BY <2>1, <2>2, HandlerForgets
    <2>3. CASE With(h, "bind", [mem[h] EXCEPT !.rev = head])
      <3> DEFINE m == [mem[h] EXCEPT !.rev = head]
      <3>1. m \in MemType(imp.resolved) /\ m.rev \in Revs /\ m.file = mem[h].file
        BY <1>1 DEF MemType, TablesType
      <3>2. With(h, "bind", m) /\ mem[h].file = 1
        BY <1>1, <1>5, <2>3 DEF Resolve, HandlerInv
      <3> HIDE DEF m
      <3>3. Moved(h) /\ pc'[h] = "bind" /\ mem'[h] = m
        BY <3>2, GoesMoves DEF Steps
      <3>4. HandlerInv(h)'
        BY <3>1, <3>2, <3>3 DEF HandlerInv, Bound
      <3>5. QED
        BY <2>1, <3>1, <3>3, <3>4, HandlerMoves DEF Steps
    <2>4. QED
      BY <1>5, <2>2, <2>3 DEF Resolve
  <1>6. QED
    BY <1>2, <1>3, <1>4, <1>5 DEF Acquire

\* A handler of a running import writes the revision into it, or into its file rows.
LEMMA BindingKeeps ==
    ASSUME IInv, NEW h \in Handlers, BindRevision(h) \/ EnsureImportFiles(h) \/ ListImportFiles(h)
    PROVE  IInv'
  <1>1. /\ mem[h] \in MemType(imp.resolved) /\ HandlerInv(h) /\ TablesType /\ StoreType /\ OutcomeAgrees
        /\ ManifestInv /\ VersionInv /\ mem[h].rev \in Revs \cup {None}
    BY AtStep DEF IInv, DbInv
  <1>2. CASE BindRevision(h)
    <2>1. CASE Fails(h) /\ UNCHANGED imp
      <3>1. Kept /\ DbInv'
        BY <1>2, <2>1, SameTables DEF BindRevision, env, db
      <3>2. QED
        BY <2>1, <3>1, HandlerForgets
    <2>2. CASE /\ Fenced(h) /\ MayBind(mem[h].rev)
               /\ imp' = [imp EXCEPT !.resolved = mem[h].rev] /\ Goes(h, "ensure")
      <3>1. UNCHANGED <<task, model, rows, version, objects, manifest, uploads, head>>
            /\ mem[h].rev \in Revs /\ imp.resolved \in Only(mem[h].rev)
        BY <1>1, <1>2, <2>2 DEF BindRevision, env, store, HandlerInv, MayBind, Only
      <3>2. imp' \in ImpType /\ imp'.resolved = mem[h].rev /\ imp'.status = imp.status
        BY <1>1, <2>2, <3>1 DEF TablesType, ImpType
      <3>3. Only(imp.resolved) \subseteq Only(imp'.resolved) /\ mem[h].rev # None
        BY <3>1, <3>2, NoneIsNoRevision DEF Only
      <3>4. RowType(imp.resolved) \subseteq RowType(imp'.resolved)
        BY <3>3 DEF RowType
      <3>5. UploadType(imp.resolved) \subseteq UploadType(imp'.resolved)
        BY <3>3 DEF UploadType
      <3>6. MemType(imp.resolved) \subseteq MemType(imp'.resolved)
        BY <3>3, <3>4 DEF MemType
      <3>7. TablesType' /\ StoreType'
        BY <1>1, <3>1, <3>2, <3>3, <3>4, <3>5 DEF TablesType, StoreType
      <3>8. imp.resolved # None => imp'.resolved = imp.resolved
        BY <3>1, <3>2 DEF Only
      <3>9. Kept /\ ManifestInv' /\ VersionInv' /\ OutcomeAgrees'
        BY <1>1, <3>1, <3>2, <3>8 DEF Kept, ManifestInv, VersionInv, Whole, OutcomeAgrees
      <3>10. Moved(h) /\ pc'[h] = "ensure" /\ mem'[h] = mem[h] /\ mem[h].file = 1
        BY <1>1, <1>2, <2>2, GoesMoves DEF Steps, BindRevision, HandlerInv
      <3>11. HandlerInv(h)'
        BY <3>2, <3>3, <3>10 DEF HandlerInv, Bound
      <3>12. QED
        BY <1>1, <3>6, <3>7, <3>9, <3>10, <3>11, HandlerMoves DEF DbInv, Steps
    <2>3. QED
      BY <1>2, <2>1, <2>2 DEF BindRevision
  <1>3. CASE EnsureImportFiles(h)
    <2>1. CASE Fails(h) /\ UNCHANGED <<rows, imp, model>>
      <3>1. Kept /\ DbInv'
        BY <1>3, <2>1, SameTables DEF EnsureImportFiles, env, db
      <3>2. QED
        BY <2>1, <3>1, HandlerForgets
    <2>2. CASE /\ Fenced(h) /\ Goes(h, "list")
               /\ rows' = [f \in Files |-> IF rows[f].status = "none" THEN [NoRow EXCEPT !.status = "pending"]
                                                                       ELSE rows[f]]
               /\ imp' = [imp EXCEPT !.status = "running"] /\ model' = "downloading"
      <3>1. UNCHANGED <<task, version, objects, manifest, uploads, head>> /\ task.status = "running"
            /\ pc[h] = "ensure"
        BY <1>3, <2>2 DEF EnsureImportFiles, env, store, Fenced
      <3>2. imp' \in ImpType /\ imp'.resolved = imp.resolved /\ imp'.status = "running"
        BY <1>1, <2>2 DEF TablesType, ImpType
      <3>3. [NoRow EXCEPT !.status = "pending"] \in RowType(imp.resolved)
        BY NothingFits DEF RowType
      <3>4. rows' \in [Files -> RowType(imp'.resolved)]
        BY <1>1, <2>2, <3>2, <3>3 DEF TablesType
      <3>5. Kept /\ DbInv'
        BY <1>1, <2>2, <3>1, <3>2, <3>4
           DEF DbInv, Kept, TablesType, StoreType, ManifestInv, VersionInv, OutcomeAgrees, Whole
      <3>6. Moved(h) /\ pc'[h] = "list" /\ mem'[h] = mem[h]
        BY <2>2, GoesMoves DEF Steps
      <3>7. HandlerInv(h)'
        BY <1>1, <3>1, <3>2, <3>6 DEF HandlerInv, Bound
      <3>8. QED
        BY <1>1, <3>2, <3>5, <3>6, <3>7, HandlerMoves DEF Steps
    <2>3. QED
      BY <1>3, <2>1, <2>2 DEF EnsureImportFiles
  <1>4. CASE ListImportFiles(h)
    <2>1. Kept /\ DbInv' /\ imp' = imp
      BY <1>4, SameTables DEF ListImportFiles, env, db
    <2>2. CASE Fails(h)
      BY <2>1, <2>2, HandlerForgets
    <2>3. CASE With(h, "file", [mem[h] EXCEPT !.recs = rows])
      <3> DEFINE m == [mem[h] EXCEPT !.recs = rows]
      <3>1. m \in MemType(imp.resolved) /\ m.rev = mem[h].rev /\ m.file = mem[h].file
        BY <1>1 DEF MemType, TablesType
      <3>2. With(h, "file", m) /\ pc[h] = "list"
        BY <1>4, <2>3 DEF ListImportFiles
      <3> HIDE DEF m
      <3>3. Moved(h) /\ pc'[h] = "file" /\ mem'[h] = m
        BY <3>2, GoesMoves DEF Steps
      <3>4. mem[h].rev = imp.resolved /\ mem[h].rev # None /\ mem[h].file = 1
        BY <1>1, <3>2 DEF HandlerInv, Bound
      <3>5. HandlerInv(h)'
        BY <2>1, <3>1, <3>3, <3>4 DEF HandlerInv, Bound, Files
      <3>6. QED
        BY <2>1, <3>1, <3>3, <3>5, HandlerMoves DEF Steps
    <2>4. QED
      BY <1>4, <2>2, <2>3 DEF ListImportFiles
  <1>5. QED
    BY <1>2, <1>3, <1>4

\* The file rows are written within their types.
LEMMA RowTypeKept ==
    ASSUME IInv, NEW f \in Files
    PROVE  /\ \A u \in 0..MaxUploads :
                 [rows[f] EXCEPT !.status = "uploading", !.upload = u] \in RowType(imp.resolved)
           /\ [rows[f] EXCEPT !.status = "completed", !.sha = imp.resolved] \in RowType(imp.resolved)
  <1>1. rows[f] \in RowType(imp.resolved)
    BY DEF IInv, DbInv, TablesType
  <1>2. QED
    BY <1>1 DEF RowType, Only

\* The rows change within their types, nothing else in the tables or the store does.
LEMMA RowsKeep ==
    ASSUME IInv, rows' \in [Files -> RowType(imp.resolved)],
           UNCHANGED <<task, imp, model, version, store, head>>
    PROVE  Kept /\ DbInv'
  BY DEF IInv, DbInv, store, Kept, TablesType, StoreType, ManifestInv, VersionInv, OutcomeAgrees, Whole

\* The current file is done: its checksum and its object are those of the revision.
LEMMA NextFileMoves ==
    ASSUME IInv, Kept, DbInv', UNCHANGED <<imp, objects>>, NEW h \in Handlers, pc[h] \in {"file", "save"},
           Stored(mem[h].file), NextFile(h, imp.resolved)
    PROVE  IInv'
  <1> DEFINE f == mem[h].file
             s == IF f = NFiles THEN "manifest" ELSE "file"
             m == [mem[h] EXCEPT !.sums[f] = imp.resolved, !.recs[f] = NoRow, !.up = 0,
                                 !.file = IF f = NFiles THEN f ELSE f + 1]
  <1>1. /\ mem[h] \in MemType(imp.resolved) /\ HandlerInv(h) /\ f \in Files
        /\ mem[h].rev = imp.resolved /\ mem[h].rev # None
    BY AtStep DEF HandlerInv, Bound
  <1>2. (IF f = NFiles THEN f ELSE f + 1) \in Files /\ 0 \in 0..MaxUploads
    BY <1>1, FilesAssumption, BoundsAssumption DEF Files
  <1>3. NoRow \in RowType(imp.resolved) /\ imp.resolved \in Only(imp.resolved)
    BY NothingFits DEF Only
  <1>4. /\ m \in MemType(imp.resolved) /\ m.rev = mem[h].rev
        /\ m.sums = [mem[h].sums EXCEPT ![f] = imp.resolved]
        /\ m.file = IF f = NFiles THEN f ELSE f + 1
    BY <1>1, <1>2, <1>3 DEF MemType
  <1>5. s \in {"manifest", "file"} /\ With(h, s, m) /\ (s = "manifest" <=> f = NFiles)
    BY DEF NextFile
  <1>6. \A g \in Files : g <= f => m.sums[g] = imp.resolved /\ Stored(g)
    <2>1. \A g \in Files : g < f => mem[h].sums[g] = imp.resolved /\ Stored(g)
      BY <1>1 DEF HandlerInv
    <2>2. \A g \in Files : g <= f <=> (g < f \/ g = f)
      BY <1>1 DEF Files
    <2>3. QED
      BY <1>1, <1>4, <2>1, <2>2 DEF MemType
  <1>7. /\ f = NFiles => \A g \in Files : g <= f
        /\ f # NFiles => \A g \in Files : g < m.file => g <= f
    BY <1>1, <1>4, FilesAssumption DEF Files
  <1> HIDE DEF s, m
  <1>8. Moved(h) /\ pc'[h] = s /\ mem'[h] = m
    BY <1>5, GoesMoves DEF Steps
  <1>9. \A g \in Files : Stored(g)' <=> Stored(g)
    BY DEF Stored
  <1>10. HandlerInv(h)'
    BY <1>1, <1>4, <1>5, <1>6, <1>7, <1>8, <1>9 DEF HandlerInv, Bound
  <1>11. QED
    BY <1>4, <1>5, <1>8, <1>10, HandlerMoves DEF Steps

LEMMA FileKeeps ==
    ASSUME IInv, NEW h \in Handlers, Skip(h) \/ Recover(h) \/ CompleteImportFile(h) \/ FileFails(h)
    PROVE  IInv'
  <1> DEFINE f == mem[h].file
             rec == mem[h].recs[f]
  <1>1. /\ mem[h] \in MemType(imp.resolved) /\ HandlerInv(h) /\ f \in Files
        /\ rec \in RowType(imp.resolved) /\ objects[f] \in Only(imp.resolved)
    BY AtStep
  <1>2. CASE FileFails(h)
    <2>1. Kept /\ DbInv' /\ Fails(h)
      BY <1>2, SameTables DEF FileFails, env
    <2>2. QED
      BY <2>1, HandlerForgets
  <1>3. CASE Skip(h)
    <2>1. Kept /\ DbInv' /\ UNCHANGED <<imp, objects>> /\ pc[h] = "file" /\ NextFile(h, rec.sha)
          /\ Valid(f, rec)
      BY <1>3, SameTables DEF Skip, env, db, store
    <2>2. rec.sha = imp.resolved /\ Stored(f)
      BY <1>1, <2>1 DEF Valid, RowType, Only, Stored
    <2>3. NextFile(h, imp.resolved)
      BY <2>1, <2>2
    <2>4. QED
      BY <2>1, <2>2, <2>3, NextFileMoves
  <1>4. CASE Recover(h)
    <2> DEFINE m == [mem[h] EXCEPT !.sums[f] = objects[f]]
    <2>1. /\ Kept /\ DbInv' /\ UNCHANGED <<imp, objects, manifest>> /\ pc[h] = "file" /\ With(h, "save", m)
          /\ objects[f] = imp.resolved
      BY <1>1, <1>4, SameTables DEF Recover, env, db, store, Only
    <2>2. /\ m \in MemType(imp.resolved) /\ m.rev = mem[h].rev /\ m.file = f
          /\ m.sums = [mem[h].sums EXCEPT ![f] = imp.resolved]
      BY <1>1, <2>1 DEF MemType
    <2> HIDE DEF m
    <2>3. Moved(h) /\ pc'[h] = "save" /\ mem'[h] = m
      BY <2>1, GoesMoves DEF Steps
    <2>4. HandlerInv(h)'
      BY <1>1, <2>1, <2>2, <2>3 DEF HandlerInv, Bound, Stored, MemType
    <2>5. QED
      BY <2>1, <2>2, <2>3, <2>4, HandlerMoves DEF Steps
  <1>5. CASE CompleteImportFile(h)
    <2>1. CASE Fails(h) /\ UNCHANGED rows
      <3>1. Kept /\ DbInv'
        BY <1>5, <2>1, SameTables DEF CompleteImportFile, env, db
      <3>2. QED
        BY <2>1, <3>1, HandlerForgets
    <2>2. CASE /\ rows' = [rows EXCEPT ![f] = [@ EXCEPT !.status = "completed", !.sha = mem[h].sums[f]]]
               /\ NextFile(h, mem[h].sums[f])
      <3>1. /\ mem[h].sums[f] = imp.resolved /\ Stored(f) /\ pc[h] = "save"
            /\ UNCHANGED <<task, imp, model, version, store, head>>
        BY <1>1, <1>5 DEF CompleteImportFile, HandlerInv, env
      <3> DEFINE r == [rows[f] EXCEPT !.status = "completed", !.sha = imp.resolved]
      <3>2. r \in RowType(imp.resolved)
        BY <1>1, RowTypeKept
      <3>3. rows' = [rows EXCEPT ![f] = r] /\ rows \in [Files -> RowType(imp.resolved)]
        BY <2>2, <3>1 DEF IInv, DbInv, TablesType
      <3> HIDE DEF r
      <3>4. Kept /\ DbInv'
        BY <1>1, <3>1, <3>2, <3>3, RowsKeep
      <3>5. QED
        BY <2>2, <3>1, <3>4, NextFileMoves DEF store
    <2>3. QED
      BY <1>5, <2>1, <2>2 DEF CompleteImportFile
  <1>6. QED
    BY <1>2, <1>3, <1>4, <1>5

\* Uploads change within their types, nothing in the tables or the object store does.
LEMMA UploadsKeep ==
    ASSUME IInv, uploads' \in [1..MaxUploads -> UploadType(imp.resolved)],
           rows' \in [Files -> RowType(imp.resolved)],
           UNCHANGED <<task, imp, model, version, objects, manifest, head>>
    PROVE  Kept /\ DbInv'
  BY DEF IInv, DbInv, Kept, TablesType, StoreType, ManifestInv, VersionInv, OutcomeAgrees, Whole

\* The checkpoint of an upload fits the row.
LEMMA CheckpointFits ==
    ASSUME IInv, NEW h \in Handlers, Checkpoint(h)
    PROVE  rows' \in [Files -> RowType(imp.resolved)]
  <1> DEFINE f == mem[h].file
             r == [rows[f] EXCEPT !.status = "uploading", !.upload = mem[h].up]
  <1>1. f \in Files /\ r \in RowType(imp.resolved) /\ rows \in [Files -> RowType(imp.resolved)]
    BY AtStep, RowTypeKept DEF IInv, DbInv, TablesType
  <1>2. rows' = [rows EXCEPT ![f] = r]
    BY DEF Checkpoint
  <1> HIDE DEF r
  <1>3. QED
    BY <1>1, <1>2

\* A handler's upload goes on: what it has stored so far stays.
LEMMA UploadMoves ==
    ASSUME IInv, Kept, DbInv', UNCHANGED <<imp, objects, manifest>>, NEW h \in Handlers,
           pc[h] \in {"file", "mark", "part"}, NEW s \in {"mark", "part"}, NEW u \in 1..MaxUploads,
           With(h, s, [mem[h] EXCEPT !.up = u])
    PROVE  IInv'
  <1> DEFINE m == [mem[h] EXCEPT !.up = u]
  <1>1. /\ mem[h] \in MemType(imp.resolved) /\ HandlerInv(h) /\ u \in 0..MaxUploads
    BY AtStep, BoundsAssumption
  <1>2. /\ m \in MemType(imp.resolved) /\ m.rev = mem[h].rev /\ m.file = mem[h].file
        /\ m.sums = mem[h].sums /\ m.up = u
    BY <1>1 DEF MemType
  <1>3. With(h, s, m)
    OBVIOUS
  <1> HIDE DEF m
  <1>4. Moved(h) /\ pc'[h] = s /\ mem'[h] = m
    BY <1>3, GoesMoves DEF Steps
  <1>5. HandlerInv(h)'
    BY <1>1, <1>2, <1>4 DEF HandlerInv, Bound, Stored
  <1>6. QED
    BY <1>2, <1>4, <1>5, HandlerMoves DEF Steps

LEMMA UploadKeeps ==
    ASSUME IInv, NEW h \in Handlers, BeginMultipart(h) \/ MarkUpload(h) \/ UploadPart(h)
    PROVE  IInv'
  <1> DEFINE f == mem[h].file
             rec == mem[h].recs[f]
  <1>1. /\ mem[h] \in MemType(imp.resolved) /\ HandlerInv(h) /\ f \in Files
        /\ rec \in RowType(imp.resolved) /\ rows \in [Files -> RowType(imp.resolved)]
        /\ uploads \in [1..MaxUploads -> UploadType(imp.resolved)]
    BY AtStep DEF IInv, DbInv, TablesType, StoreType
  <1>2. CASE BeginMultipart(h)
    <2>1. CASE rec.upload # 0 /\ With(h, "part", [mem[h] EXCEPT !.up = rec.upload]) /\ UNCHANGED uploads
      <3>1. Kept /\ DbInv' /\ UNCHANGED <<imp, objects, manifest>> /\ pc[h] = "file"
        BY <1>2, <2>1, SameTables DEF BeginMultipart, env, db, store
      <3>2. rec.upload \in 1..MaxUploads
        BY <1>1, <2>1, BoundsAssumption DEF RowType
      <3>3. QED
        BY <2>1, <3>1, <3>2, UploadMoves
    <2>2. CASE \E u \in 1..MaxUploads :
                  /\ uploads' = [uploads EXCEPT ![u] = [@ EXCEPT !.file = f, !.open = TRUE]]
                  /\ With(h, "mark", [mem[h] EXCEPT !.up = u])
      <3>1. PICK u \in 1..MaxUploads :
                  /\ uploads' = [uploads EXCEPT ![u] = [uploads[u] EXCEPT !.file = f, !.open = TRUE]]
                  /\ With(h, "mark", [mem[h] EXCEPT !.up = u])
        BY <1>1, <2>2
      <3>2. [uploads[u] EXCEPT !.file = f, !.open = TRUE] \in UploadType(imp.resolved)
        BY <1>1 DEF UploadType
      <3>3. uploads' \in [1..MaxUploads -> UploadType(imp.resolved)]
        BY <1>1, <3>1, <3>2
      <3>4. /\ Kept /\ DbInv' /\ UNCHANGED <<imp, objects, manifest>> /\ pc[h] = "file"
        BY <1>1, <1>2, <3>3, UploadsKeep DEF BeginMultipart, env, db
      <3>5. QED
        BY <3>1, <3>4, UploadMoves
    <2>3. QED
      BY <1>2, <2>1, <2>2 DEF BeginMultipart
  <1>3. CASE MarkUpload(h)
    <2>1. /\ pc[h] = "mark" /\ mem[h].up \in 1..MaxUploads
          /\ UNCHANGED <<task, imp, model, version, objects, manifest, head>>
      BY <1>1, <1>3 DEF MarkUpload, HandlerInv, env
    <2>2. CASE Checkpoint(h) /\ Goes(h, "part") /\ UNCHANGED uploads
      <3>1. Kept /\ DbInv'
        BY <1>1, <2>1, <2>2, CheckpointFits, UploadsKeep
      <3>2. Moved(h) /\ pc'[h] = "part" /\ mem'[h] = mem[h]
        BY <2>2, GoesMoves DEF Steps
      <3>3. HandlerInv(h)'
        BY <1>1, <2>1, <3>2 DEF HandlerInv, Bound, Stored
      <3>4. QED
        BY <1>1, <2>1, <3>1, <3>2, <3>3, HandlerMoves DEF Steps
    <2>3. CASE /\ Fails(h) /\ UNCHANGED rows
               /\ uploads' = [uploads EXCEPT ![mem[h].up].open = FALSE] \/ UNCHANGED uploads
      <3>1. [uploads[mem[h].up] EXCEPT !.open = FALSE] \in UploadType(imp.resolved)
        BY <1>1, <2>1 DEF UploadType
      <3>2. uploads' \in [1..MaxUploads -> UploadType(imp.resolved)]
        BY <1>1, <2>3, <3>1
      <3>3. Kept /\ DbInv'
        BY <1>1, <2>1, <2>3, <3>2, UploadsKeep
      <3>4. QED
        BY <2>3, <3>3, HandlerForgets
    <2>4. QED
      BY <1>3, <2>2, <2>3 DEF MarkUpload
  <1>4. CASE UploadPart(h)
    <2> DEFINE u == mem[h].up
    <2>1. /\ pc[h] = "part" /\ u \in 1..MaxUploads /\ mem[h].rev = imp.resolved
          /\ UNCHANGED <<task, imp, model, version, objects, manifest, head>>
      BY <1>1, <1>4 DEF UploadPart, HandlerInv, env, Bound
    <2>2. PICK n \in 1..Parts : uploads' = [uploads EXCEPT ![u].parts[n] = imp.resolved]
      BY <1>4, <2>1 DEF UploadPart, Missing
    <2>3. [uploads[u] EXCEPT !.parts[n] = imp.resolved] \in UploadType(imp.resolved)
      BY <1>1, <2>1 DEF UploadType, Only
    <2>4. uploads' \in [1..MaxUploads -> UploadType(imp.resolved)]
      BY <1>1, <2>2, <2>3
    <2>5. CASE Checkpoint(h) /\ UNCHANGED local
      <3>1. Kept /\ DbInv'
        BY <1>1, <2>1, <2>4, <2>5, CheckpointFits, UploadsKeep
      <3>2. Moved(h) /\ pc'[h] = "part" /\ mem'[h] = mem[h]
        BY <2>1, <2>5 DEF Moved, local, IInv, LocalType
      <3>3. HandlerInv(h)'
        BY <1>1, <2>1, <3>2 DEF HandlerInv, Bound, Stored
      <3>4. QED
        BY <1>1, <2>1, <3>1, <3>2, <3>3, HandlerMoves DEF Steps
    <2>6. CASE Fails(h) /\ UNCHANGED rows
      <3>1. Kept /\ DbInv'
        BY <1>1, <2>1, <2>4, <2>6, UploadsKeep
      <3>2. QED
        BY <2>6, <3>1, HandlerForgets
    <2>7. QED
      BY <1>4, <2>5, <2>6 DEF UploadPart
  <1>5. QED
    BY <1>2, <1>3, <1>4

\* An object of the bound revision becomes visible.
LEMMA ObjectKeeps ==
    ASSUME IInv, NEW h \in Handlers, pc[h] \in {"file", "part"}, imp.resolved # None,
           objects' = [objects EXCEPT ![mem[h].file] = imp.resolved],
           uploads' \in [1..MaxUploads -> UploadType(imp.resolved)], UNCHANGED <<db, manifest, head>>,
           With(h, "save", [mem[h] EXCEPT !.sums[mem[h].file] = imp.resolved]) \/ Fails(h)
    PROVE  IInv'
  <1> DEFINE f == mem[h].file
             m == [mem[h] EXCEPT !.sums[f] = imp.resolved]
  <1>1. /\ mem[h] \in MemType(imp.resolved) /\ HandlerInv(h) /\ f \in Files
        /\ objects \in [Files -> Only(imp.resolved)] /\ pc[h] \in Bound
        /\ UNCHANGED <<task, imp, model, rows, version, manifest, head>>
        /\ TablesType /\ ManifestInv /\ VersionInv /\ OutcomeAgrees
    BY AtStep DEF IInv, DbInv, StoreType, db, Bound
  <1>2. /\ objects' \in [Files -> Only(imp.resolved)]
        /\ \A g \in Files : objects[g] = imp.resolved => objects'[g] = imp.resolved
        /\ \A g \in Files : objects[g] # None => objects'[g] = objects[g]
    BY <1>1 DEF Only
  <1>3. objects = Whole => objects' = Whole
    BY <1>1 DEF Whole
  <1>4. TablesType' /\ StoreType' /\ ManifestInv' /\ OutcomeAgrees'
    BY <1>1, <1>2 DEF TablesType, StoreType, ManifestInv, OutcomeAgrees, Whole
  <1>5. VersionInv'
    BY <1>1, <1>3 DEF VersionInv, Whole
  <1>6. Kept
    BY <1>1, <1>2 DEF Kept
  <1>7. CASE Fails(h)
    BY <1>4, <1>5, <1>6, <1>7, HandlerForgets DEF DbInv
  <1>8. CASE With(h, "save", m)
    <2>1. /\ m \in MemType(imp.resolved) /\ m.rev = mem[h].rev /\ m.file = f
          /\ m.sums = [mem[h].sums EXCEPT ![f] = imp.resolved]
      BY <1>1 DEF MemType, Only
    <2> HIDE DEF m
    <2>2. Moved(h) /\ pc'[h] = "save" /\ mem'[h] = m
      BY <1>8, GoesMoves DEF Steps
    <2>3. HandlerInv(h)'
      BY <1>1, <1>2, <2>1, <2>2 DEF HandlerInv, Bound, Stored, MemType
    <2>4. QED
      BY <1>1, <1>4, <1>5, <1>6, <2>1, <2>2, <2>3, HandlerMoves DEF Steps, DbInv
  <1>9. QED
    BY <1>7, <1>8

\* Whoever stores an object stores content of the bound revision.
LEMMA WrittenIsBound ==
    ASSUME IInv, NEW h \in Handlers, Put(h) \/ CompleteMultipart(h)
    PROVE  /\ objects' = [objects EXCEPT ![mem[h].file] = imp.resolved]
           /\ objects'[mem[h].file] = imp.resolved
  <1> DEFINE u == mem[h].up
  <1>1. /\ pc[h] \in Bound /\ HandlerInv(h) /\ mem[h].file \in Files
        /\ objects \in [Files -> Only(imp.resolved)]
        /\ uploads \in [1..MaxUploads -> UploadType(imp.resolved)]
    BY AtStep DEF Put, CompleteMultipart, IInv, DbInv, StoreType, Bound
  <1>2. mem[h].rev = imp.resolved /\ (pc[h] = "part" => u \in 1..MaxUploads)
    BY <1>1 DEF HandlerInv
  <1>3. CASE Put(h)
    BY <1>1, <1>2, <1>3 DEF Put
  <1>4. CASE CompleteMultipart(h)
    <2>1. uploads[u].parts \in [1..Parts -> Only(imp.resolved)] /\ Missing(u) = {}
      BY <1>1, <1>2, <1>4 DEF CompleteMultipart, UploadType
    <2>2. \A n \in 1..Parts : uploads[u].parts[n] = imp.resolved
      BY <2>1 DEF Missing, Only
    <2>3. Joined(uploads[u].parts) = imp.resolved
      BY <2>2, FilesAssumption DEF Joined
    <2>4. QED
      BY <1>1, <1>4, <2>3 DEF CompleteMultipart
  <1>5. QED
    BY <1>3, <1>4

LEMMA StoreKeeps ==
    ASSUME IInv, NEW h \in Handlers, Put(h) \/ CompleteMultipart(h)
    PROVE  IInv'
  <1> DEFINE f == mem[h].file
             u == mem[h].up
  <1>1. /\ pc[h] \in {"file", "part"} /\ pc[h] \in Bound /\ HandlerInv(h)
        /\ objects \in [Files -> Only(imp.resolved)] /\ f \in Files
        /\ uploads \in [1..MaxUploads -> UploadType(imp.resolved)]
        /\ UNCHANGED <<db, manifest, head>>
    BY AtStep DEF Put, CompleteMultipart, IInv, DbInv, StoreType, Bound, env
  <1>2. mem[h].rev = imp.resolved /\ imp.resolved # None /\ (pc[h] = "part" => u \in 1..MaxUploads)
    BY <1>1 DEF HandlerInv
  <1>3. CASE Put(h)
    BY <1>1, <1>2, <1>3, ObjectKeeps DEF Put
  <1>4. CASE CompleteMultipart(h)
    <2>1. /\ pc[h] = "part" /\ Missing(u) = {}
          /\ objects' = [objects EXCEPT ![f] = Joined(uploads[u].parts)]
          /\ uploads' = [uploads EXCEPT ![u].open = FALSE]
          /\ With(h, "save", [mem[h] EXCEPT !.sums[f] = objects'[f]]) \/ Fails(h)
      BY <1>4 DEF CompleteMultipart
    <2>2. [uploads[u] EXCEPT !.open = FALSE] \in UploadType(imp.resolved)
      BY <1>1, <1>2, <2>1 DEF UploadType
    <2>3. uploads' \in [1..MaxUploads -> UploadType(imp.resolved)]
      BY <1>1, <1>2, <2>1, <2>2
    <2>4. objects' = [objects EXCEPT ![f] = imp.resolved] /\ objects'[f] = imp.resolved
      BY <1>4, WrittenIsBound
    <2>5. With(h, "save", [mem[h] EXCEPT !.sums[f] = imp.resolved]) \/ Fails(h)
      BY <2>1, <2>4
    <2>6. QED
      BY <1>1, <1>2, <2>3, <2>4, <2>5, ObjectKeeps
  <1>5. QED
    BY <1>3, <1>4

\* The tables change and no handler moves.
LEMMA NobodyMoves == ASSUME IInv, Kept, DbInv', UNCHANGED local PROVE IInv'
  <1>1. ASSUME NEW g \in Handlers PROVE mem'[g] \in MemType(imp'.resolved) /\ HandlerInv(g)'
    BY <1>1, BystanderKept DEF local
  <1>2. LocalType'
    BY <1>1 DEF LocalType, local, IInv
  <1>3. QED
    BY <1>1, <1>2 DEF IInv

\* The manifest lists the snapshot of the bound revision, whoever stores it.
LEMMA ManifestKeeps == ASSUME IInv, NEW h \in Handlers, PutManifest(h) PROVE IInv'
  <1>1. /\ mem[h] \in MemType(imp.resolved) /\ HandlerInv(h) /\ pc[h] = "manifest"
        /\ imp.resolved # None /\ TablesType /\ StoreType /\ ManifestInv /\ VersionInv /\ OutcomeAgrees
        /\ UNCHANGED <<task, imp, model, rows, version, objects, uploads, head>>
    BY AtStep DEF IInv, DbInv, PutManifest, HandlerInv, Bound, db, env
  <1>2. mem[h].sums = Whole
    BY <1>1 DEF HandlerInv, MemType, Whole
  <1>3. manifest' = Whole
    BY <1>2 DEF PutManifest
  <1>4. TablesType' /\ StoreType' /\ ManifestInv' /\ VersionInv' /\ OutcomeAgrees'
    BY <1>1, <1>3 DEF TablesType, StoreType, ManifestInv, VersionInv, OutcomeAgrees, Whole
  <1>5. Kept
    BY <1>1, <1>3 DEF Kept, ManifestInv
  <1>6. CASE Fails(h)
    BY <1>4, <1>5, <1>6, HandlerForgets DEF DbInv
  <1>7. CASE Goes(h, "complete")
    <2>1. Moved(h) /\ pc'[h] = "complete" /\ mem'[h] = mem[h]
      BY <1>7, GoesMoves DEF Steps
    <2>2. HandlerInv(h)'
      BY <1>1, <1>3, <2>1 DEF HandlerInv, Bound, Stored, Whole
    <2>3. QED
      BY <1>1, <1>4, <1>5, <2>1, <2>2, HandlerMoves DEF Steps, DbInv
  <1>8. QED
    BY <1>6, <1>7 DEF PutManifest

\* The version is registered, or nothing is.
LEMMA CompleteKeeps == ASSUME IInv, NEW h \in Handlers, Complete(h) PROVE IInv'
  <1>1. /\ mem[h] \in MemType(imp.resolved) /\ HandlerInv(h) /\ pc[h] = "complete"
        /\ imp.resolved \in Revs /\ imp.resolved # None
        /\ TablesType /\ StoreType /\ ManifestInv /\ VersionInv /\ OutcomeAgrees
        /\ UNCHANGED <<rows, objects, manifest, uploads, head>>
    BY AtStep DEF IInv, DbInv, Complete, HandlerInv, Bound, store, env
  <1>2. CASE Fails(h) /\ UNCHANGED <<version, imp, model, task>>
    <2>1. Kept /\ DbInv'
      BY <1>1, <1>2, SameTables DEF db, store
    <2>2. QED
      BY <1>2, <2>1, HandlerForgets
  <1>3. CASE /\ Fenced(h) /\ model # "deleted"
             /\ version' = mem[h].sums /\ imp' = [imp EXCEPT !.status = "completed"]
             /\ model' = "ready" /\ task' = Released("completed") /\ Returns(h)
    <2>1. mem[h].sums = Whole /\ objects = Whole /\ manifest = Whole
      BY <1>1 DEF HandlerInv, MemType, StoreType, Whole, Stored
    <2>2. Whole # None
      BY <1>1, NothingAssumption DEF Whole, Files
    <2>3. imp' \in ImpType /\ imp'.resolved = imp.resolved /\ imp'.status = "completed"
      BY <1>1, <1>3 DEF TablesType, ImpType
    <2>4. task' \in TaskType /\ task'.status = "completed"
      BY <1>1, <1>3 DEF TablesType, TaskType, Released
    <2>5. TablesType' /\ StoreType' /\ ManifestInv' /\ VersionInv' /\ OutcomeAgrees'
      BY <1>1, <1>3, <2>1, <2>2, <2>3, <2>4
      DEF TablesType, StoreType, ManifestInv, VersionInv, OutcomeAgrees, Whole
    <2>6. Kept
      BY <1>1, <2>3 DEF Kept
    <2>7. QED
      BY <1>3, <2>5, <2>6, HandlerForgets DEF DbInv
  <1>4. QED
    BY <1>2, <1>3 DEF Complete

\* A failed attempt is counted in all tables, or in none.
LEMMA FailKeeps == ASSUME IInv, NEW h \in Handlers, Fail(h) PROVE IInv'
  <1>1. /\ TablesType /\ StoreType /\ ManifestInv /\ VersionInv /\ OutcomeAgrees /\ Returns(h)
        /\ UNCHANGED <<rows, version, objects, manifest, uploads, head>>
    BY DEF IInv, DbInv, Fail, store, env
  <1>2. CASE UNCHANGED <<imp, model, task>>
    <2>1. Kept /\ DbInv'
      BY <1>1, <1>2, SameTables DEF db, store
    <2>2. QED
      BY <1>1, <2>1, HandlerForgets
  <1>3. CASE /\ Fenced(h) /\ imp' = [imp EXCEPT !.status = "failed"]
             /\ model' = "error" /\ task' = AfterFailure
    <2>1. imp' \in ImpType /\ imp'.resolved = imp.resolved /\ imp'.status = "failed"
      BY <1>1, <1>3 DEF TablesType, ImpType
    <2> DEFINE s == IF task.tries + 1 >= MaxAttempts THEN "dead_letter" ELSE "failed"
    <2>2. task' \in TaskType /\ task'.status \in {"failed", "dead_letter"} /\ task.status = "running"
      <3>1. task' = [[task EXCEPT !.status = s, !.owner = Nobody, !.live = FALSE, !.by = Nobody]
                       EXCEPT !.tries = @ + 1]
        BY <1>3 DEF AfterFailure, Released
      <3>2. s \in {"failed", "dead_letter"} /\ task \in TaskType /\ task.status = "running"
        BY <1>1, <1>3 DEF TablesType, Fenced
      <3> HIDE DEF s
      <3>3. task' = [status |-> s, owner |-> Nobody, live |-> FALSE, tries |-> task.tries + 1, by |-> Nobody]
        BY <3>1, <3>2 DEF TaskType
      <3>4. task.tries + 1 \in Nat
        BY <3>2 DEF TaskType
      <3>5. QED
        BY <3>2, <3>3, <3>4 DEF TaskType
    <2>3. TablesType' /\ StoreType' /\ ManifestInv' /\ VersionInv' /\ OutcomeAgrees'
      BY <1>1, <1>3, <2>1, <2>2 DEF TablesType, StoreType, ManifestInv, VersionInv, OutcomeAgrees, Whole
    <2>4. Kept
      BY <1>1, <2>1 DEF Kept
    <2>5. QED
      BY <1>1, <2>3, <2>4, HandlerForgets DEF DbInv
  <1>4. QED
    BY <1>2, <1>3 DEF Fail

\* A process dies with all its handlers.
LEMMA CrashKeeps == ASSUME IInv, NEW i, Crash(i) PROVE IInv'
  <1> DEFINE dying == {h \in Handlers : Id[h] = i /\ pc[h] # "idle"}
  <1>1. Kept /\ DbInv'
    BY SameTables DEF Crash, env
  <1>2. /\ pc' = [h \in Handlers |-> IF h \in dying THEN "idle" ELSE pc[h]]
        /\ mem' = [h \in Handlers |-> IF h \in dying THEN NoMem ELSE mem[h]]
    BY DEF Crash
  <1> HIDE DEF dying
  <1>3. ASSUME NEW g \in Handlers
        PROVE  mem'[g] \in MemType(imp'.resolved) /\ HandlerInv(g)' /\ pc'[g] \in Steps
    <2>1. CASE g \in dying
      <3>1. pc'[g] = "idle" /\ mem'[g] = NoMem
        BY <1>2, <2>1
      <3>2. QED
        BY <3>1, NothingFits DEF HandlerInv, Bound, Steps
    <2>2. CASE g \notin dying
      <3>1. pc'[g] = pc[g] /\ mem'[g] = mem[g] /\ pc[g] \in Steps
        BY <1>2, <2>2 DEF IInv, LocalType
      <3>2. QED
        BY <1>1, <3>1, BystanderKept
    <2>3. QED
      BY <2>1, <2>2
  <1>4. LocalType'
    BY <1>2, <1>3 DEF LocalType
  <1>5. QED
    BY <1>1, <1>3, <1>4 DEF IInv

LEMMA EnvironmentKeeps == ASSUME IInv, LeaseExpires \/ HeadMoves \/ SoftDelete PROVE IInv'
  <1>1. TablesType /\ StoreType /\ ManifestInv /\ VersionInv /\ OutcomeAgrees
    BY DEF IInv, DbInv
  <1>2. UNCHANGED <<imp, rows, version, objects, manifest, uploads, local>>
    BY DEF LeaseExpires, HeadMoves, SoftDelete, db, store, env
  <1>3. Kept
    BY <1>2 DEF Kept
  <1>4. task' \in TaskType /\ task'.status = task.status
    BY <1>1 DEF LeaseExpires, HeadMoves, SoftDelete, db, TablesType, TaskType
  <1>5. head' \in Revs
    BY <1>1 DEF LeaseExpires, HeadMoves, SoftDelete, env, TablesType
  <1>6. model' \in {model, "deleted"}
    BY DEF LeaseExpires, HeadMoves, SoftDelete, db
  <1>7. TablesType' /\ StoreType' /\ ManifestInv' /\ VersionInv' /\ OutcomeAgrees'
    BY <1>1, <1>2, <1>4, <1>5, <1>6
    DEF TablesType, StoreType, ManifestInv, VersionInv, OutcomeAgrees, Whole
  <1>8. QED
    BY <1>2, <1>3, <1>7, NobodyMoves DEF DbInv

-----------------------------------------------------------------------------
(* The theorems.                                                           *)

LEMMA InvInit == Init => IInv
  <1> SUFFICES ASSUME Init PROVE IInv
    OBVIOUS
  <1>1. imp.resolved = None /\ NoRow \in RowType(None) /\ NoMem \in MemType(None)
    BY NothingFits DEF Init
  <1>2. TablesType
    BY <1>1 DEF Init, TablesType, TaskType, ImpType
  <1>3. StoreType
    <2>1. NoParts \in [1..Parts -> Only(None)] /\ NoSums \in [Files -> Only(None)]
      BY NothingFits DEF NoParts, Only
    <2>2. [file |-> 0, open |-> FALSE, parts |-> NoParts] \in UploadType(None)
      BY <2>1 DEF UploadType
    <2>3. QED
      BY <1>1, <2>1, <2>2 DEF Init, StoreType
  <1>4. ManifestInv /\ VersionInv /\ OutcomeAgrees
    BY DEF Init, ManifestInv, VersionInv, OutcomeAgrees
  <1>5. LocalType
    BY <1>1 DEF Init, LocalType, Steps
  <1>6. \A h \in Handlers : HandlerInv(h)
    BY DEF Init, HandlerInv, Bound
  <1>7. QED
    BY <1>2, <1>3, <1>4, <1>5, <1>6 DEF IInv, DbInv

LEMMA InvNext == IInv /\ [Next]_vars => IInv'
  <1> SUFFICES ASSUME IInv, [Next]_vars PROVE IInv'
    OBVIOUS
  <1>1. CASE \E h \in Handlers : Work(h)
    <2>1. PICK h \in Handlers : Work(h)
      BY <1>1
    <2>2. CASE HeartbeatLost(h)
      <3>1. Kept /\ DbInv' /\ Returns(h)
        BY <2>2, SameTables DEF HeartbeatLost, env
      <3>2. QED
        BY <3>1, HandlerForgets
    <2>3. QED
      BY <2>1, <2>2, BeginningKeeps, BindingKeeps, FileKeeps, UploadKeeps, StoreKeeps, ManifestKeeps,
         CompleteKeeps, FailKeeps DEF Work
  <1>2. CASE \E h \in Handlers : Crash(Id[h])
    BY <1>2, CrashKeeps
  <1>3. CASE LeaseExpires \/ HeadMoves \/ SoftDelete
    BY <1>3, EnvironmentKeeps
  <1>4. CASE UNCHANGED vars
    <2>1. Kept /\ DbInv' /\ UNCHANGED local
      BY <1>4, SameTables DEF vars, env
    <2>2. QED
      BY <2>1, NobodyMoves
  <1>5. QED
    BY <1>1, <1>2, <1>3, <1>4 DEF Next

\* The invariant holds in every state of every behaviour.
THEOREM Invariance == Spec => []IInv
  BY InvInit, InvNext, PTL DEF Spec

(***************************************************************************)
(* A registered version is one revision for ever, whatever the branch does *)
(* and however many stalled handlers of however many worker processes are  *)
(* still uploading (completeImportedVersion, streamSnapshot).              *)
(***************************************************************************)
THEOREM VersionStaysOneRevision == Spec => []VersionIsOneRevision
  <1>1. IInv => VersionIsOneRevision
    BY DEF IInv, DbInv, VersionInv, VersionIsOneRevision, Whole
  <1>2. QED
    BY <1>1, Invariance, PTL

(***************************************************************************)
(* The task, import, model and version tables never tell different stories *)
(* about how the import ended (Complete and Fail under the lease fence).   *)
(***************************************************************************)
THEOREM TablesAgree == Spec => []OutcomeAgrees
  <1>1. IInv => OutcomeAgrees
    BY DEF IInv, DbInv
  <1>2. QED
    BY <1>1, Invariance, PTL

\* Every step keeps what is stored.
LEMMA StepKeeps ==
    ASSUME IInv, [Next]_vars
    PROVE  Kept /\ (version # None => version' = version)
  <1>1. /\ TablesType /\ StoreType /\ ManifestInv /\ VersionInv /\ OutcomeAgrees
    BY DEF IInv, DbInv
  <1>2. CASE UNCHANGED <<imp, objects, manifest, version>>
    BY <1>2 DEF Kept
  <1>3. ASSUME NEW h \in Handlers, BindRevision(h) \/ EnsureImportFiles(h) \/ Fail(h) \/ Complete(h)
        PROVE  Kept /\ (version # None => version' = version)
    <2>1. UNCHANGED <<objects, manifest>>
      BY <1>3 DEF BindRevision, EnsureImportFiles, Fail, Complete, store
    <2>2. version # None => version' = version
      BY <1>1, <1>3 DEF BindRevision, EnsureImportFiles, Fail, Complete, Fenced, OutcomeAgrees
    <2>3. imp.resolved # None => imp'.resolved = imp.resolved
      BY <1>1, <1>3
      DEF BindRevision, EnsureImportFiles, Fail, Complete, MayBind, TablesType, ImpType
    <2>4. QED
      BY <2>1, <2>2, <2>3 DEF Kept
  <1>4. ASSUME NEW h \in Handlers, Put(h) \/ CompleteMultipart(h)
        PROVE  Kept /\ (version # None => version' = version)
    <2>1. UNCHANGED <<imp, manifest, version>>
      BY <1>4 DEF Put, CompleteMultipart, db
    <2>2. objects' = [objects EXCEPT ![mem[h].file] = imp.resolved]
      BY <1>4, WrittenIsBound
    <2>3. \A f \in Files : objects[f] # None => objects'[f] = objects[f]
      BY <1>1, <2>2 DEF StoreType, Only
    <2>4. QED
      BY <2>1, <2>3 DEF Kept
  <1>5. ASSUME NEW h \in Handlers, PutManifest(h)
        PROVE  Kept /\ (version # None => version' = version)
    <2>1. UNCHANGED <<imp, objects, version>>
      BY <1>5 DEF PutManifest, db
    <2>2. pc[h] = "manifest" /\ mem[h] \in MemType(imp.resolved) /\ HandlerInv(h)
      BY <1>5, AtStep DEF PutManifest
    <2>3. manifest' = Whole
      BY <1>5, <2>2 DEF PutManifest, HandlerInv, MemType, Whole
    <2>4. QED
      BY <1>1, <2>1, <2>3 DEF Kept, ManifestInv
  <1>6. ASSUME NEW h \in Handlers,
               \/ Handle(h) \/ Acquire(h) \/ Resolve(h) \/ ListImportFiles(h)
               \/ Skip(h) \/ Recover(h) \/ BeginMultipart(h) \/ MarkUpload(h)
               \/ UploadPart(h) \/ CompleteImportFile(h) \/ FileFails(h) \/ HeartbeatLost(h)
        PROVE  UNCHANGED <<imp, objects, manifest, version>>
    BY <1>6 DEF Handle, Acquire, Resolve, ListImportFiles, Skip, Recover, BeginMultipart, MarkUpload,
                UploadPart, CompleteImportFile, FileFails, HeartbeatLost, db, store
  <1>7. (\E h \in Handlers : Crash(Id[h])) \/ LeaseExpires \/ HeadMoves \/ SoftDelete \/ UNCHANGED vars
          => UNCHANGED <<imp, objects, manifest, version>>
    BY DEF Crash, LeaseExpires, HeadMoves, SoftDelete, vars, db, store
  <1>8. CASE \E h \in Handlers : Work(h)
    BY <1>2, <1>3, <1>4, <1>5, <1>6, <1>8 DEF Work
  <1>9. QED
    BY <1>2, <1>7, <1>8 DEF Next

(***************************************************************************)
(* Nothing that has been stored is lost or replaced: a step leaves a file  *)
(* object, the manifest, the revision an import is bound to and a          *)
(* registered version as they are once they are there, stalled handlers'   *)
(* unfenced writes included (PutObject, CompleteMultipart, the manifest).  *)
(***************************************************************************)
THEOREM StoredStays == Spec => [][Kept /\ (version # None => version' = version)]_vars
  <1>1. IInv /\ [Next]_vars => [Kept /\ (version # None => version' = version)]_vars
    BY StepKeeps
  <1>2. QED
    BY <1>1, Invariance, PTL DEF Spec

=============================================================================
