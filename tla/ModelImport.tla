---------------------------- MODULE ModelImport ----------------------------
(***************************************************************************)
(* The import of one model (services/model-service/internal/importer): its *)
(* row in async_tasks, its row in model_import_tasks, the row of the       *)
(* model, one row per file, the object store, and the goroutines that call *)
(* Worker.Handle: in every worker process the NATS handler and the         *)
(* recovery loop, which share the process's worker id.                     *)
(*                                                                         *)
(* A transaction or a call of the object store is one step.  The content   *)
(* of a file or a part is the revision it was read from.  Only the         *)
(* snapshot path is modelled: CreateImport makes no other kind of target.  *)
(***************************************************************************)
EXTENDS Naturals, FiniteSets

CONSTANTS
    Handlers,      \* goroutines that run Handle
    Id,            \* the worker id of each handler: one per process
    Nobody,        \* lease_owner IS NULL
    Revs,          \* immutable revisions of the source repository
    None,          \* no revision, no object, no version
    NFiles,        \* the snapshot has the files 1..NFiles, in path order
    Big,           \* files above defaultMultipartPartSize
    Parts,         \* parts of a big file
    MaxAttempts,   \* async_tasks.max_attempts
    MaxUploads,    \* bound: multipart uploads begun
    MaxStalls      \* bound: leases that expire under a handler at work

ASSUME HandlersAssumption == Nobody \notin {Id[h] : h \in Handlers}
ASSUME RevsAssumption == None \notin Revs \cup {"mixed"} /\ "mixed" \notin Revs
ASSUME FilesAssumption == NFiles \in Nat \ {0} /\ Big \subseteq 1..NFiles /\ Parts \in Nat \ {0}
ASSUME NothingAssumption == None \notin [1..NFiles -> Revs]
ASSUME AttemptsAssumption == MaxAttempts \in Nat \ {0}
ASSUME BoundsAssumption == MaxUploads \in Nat /\ MaxStalls \in Nat

VARIABLES
    task,      \* the async_tasks row; by: the handler that last took its lease
    imp,       \* the model_import_tasks row
    model,     \* models.status
    rows,      \* model_import_files by file
    version,   \* the model_versions row: the manifest it was registered with
    objects,   \* the file objects that can be read from the object store
    manifest,  \* the manifest object
    uploads,   \* multipart uploads by upload id
    head,      \* the revision the branch names now
    stalls,    \* leases that have expired under a handler at work
    pc, mem    \* each handler: step of Handle and what it has read

db    == <<task, imp, model, rows, version>>
store == <<objects, manifest, uploads>>
env   == <<head, stalls>>
local == <<pc, mem>>
vars  == <<db, store, env, local>>

Files == 1..NFiles
Final == {"completed", "dead_letter"}
NoParts == [n \in 1..Parts |-> None]
NoSums == [f \in Files |-> None]
NoRow == [status |-> "none", sha |-> None, upload |-> 0]
NoMem == [rev |-> None, recs |-> [f \in Files |-> NoRow], sums |-> NoSums, file |-> 1, up |-> 0]

\* CreateImport: task, import, model and outbox event in one transaction.
Init ==
    /\ task = [status |-> "pending", owner |-> Nobody, live |-> FALSE, tries |-> 0, by |-> Nobody]
    /\ imp = [status |-> "pending", resolved |-> None]
    /\ model = "pending"
    /\ rows = [f \in Files |-> NoRow]
    /\ version = None
    /\ objects = NoSums /\ manifest = None
    /\ uploads = [u \in 1..MaxUploads |-> [file |-> 0, open |-> FALSE, parts |-> NoParts]]
    /\ head \in Revs
    /\ stalls = 0
    /\ pc = [h \in Handlers |-> "idle"]
    /\ mem = [h \in Handlers |-> NoMem]

-----------------------------------------------------------------------------
(* async_tasks (pkg/repo/task_repo.go).                                    *)

\* The fence of every write: the task runs under a live lease of this worker id.
Fenced(h) == task.status = "running" /\ task.live /\ task.owner = Id[h]

\* As if a failed attempt ended the task.
TakeableOnce == task.status \in {"pending", "running"} /\ ~task.live

Takeable == task.status \in {"pending", "running", "failed"} /\ ~task.live

\* AcquireLease.  A takeover counts no attempt.
Leased(h) == [task EXCEPT !.status = "running", !.owner = Id[h], !.live = TRUE, !.by = h]

\* Complete and Fail give the lease back.
Released(status) == [task EXCEPT !.status = status, !.owner = Nobody, !.live = FALSE, !.by = Nobody]

AfterFailure ==
    [Released(IF task.tries + 1 >= MaxAttempts THEN "dead_letter" ELSE "failed")
        EXCEPT !.tries = @ + 1]

-----------------------------------------------------------------------------
(* Where Handle goes.                                                      *)

Goes(h, step) == pc' = [pc EXCEPT ![h] = step] /\ UNCHANGED mem

Returns(h) == pc' = [pc EXCEPT ![h] = "idle"] /\ mem' = [mem EXCEPT ![h] = NoMem]

With(h, step, m) == pc' = [pc EXCEPT ![h] = step] /\ mem' = [mem EXCEPT ![h] = m]

\* An error of the source, the object store or the database, or a lost lease.
Fails(h) == With(h, "fail", NoMem)

\* The checksum of the current file is known: go on with the next one.
NextFile(h, sum) ==
    LET f == mem[h].file IN
    With(h, IF f = NFiles THEN "manifest" ELSE "file",
         [mem[h] EXCEPT !.sums[f] = sum, !.recs[f] = NoRow, !.up = 0,
                        !.file = IF f = NFiles THEN f ELSE f + 1])

-----------------------------------------------------------------------------
(* Handle, up to the file rows.                                            *)

(***************************************************************************)
(* A delivery or the recovery scan calls Handle, which reads the task and  *)
(* the import row; the revision it will use is read before the lease.      *)
(***************************************************************************)
Handle(h) ==
    /\ pc[h] = "idle" /\ task.status \notin Final
    /\ With(h, "acquire", [NoMem EXCEPT !.rev = imp.resolved])
    /\ UNCHANGED <<db, store, env>>

Acquire(h) ==
    /\ pc[h] = "acquire"
    /\ \/ /\ Takeable /\ task' = Leased(h)
          /\ Goes(h, IF mem[h].rev = None THEN "resolve" ELSE "ensure")
       \/ ~Takeable /\ Returns(h) /\ UNCHANGED task
    /\ UNCHANGED <<imp, model, rows, version, store, env>>

\* ResolveRevision: the commit the branch names now.
Resolve(h) ==
    /\ pc[h] = "resolve"
    /\ With(h, "bind", [mem[h] EXCEPT !.rev = head]) \/ Fails(h)
    /\ UNCHANGED <<db, store, env>>

\* As if a later answer of the source replaced the revision.
MayRebind(rev) == TRUE

\* SetResolvedImportRevision: never replaces another revision.
MayBind(rev) == imp.resolved \in {None, rev}

BindRevision(h) ==
    /\ pc[h] = "bind"
    /\ \/ /\ Fenced(h) /\ MayBind(mem[h].rev)
          /\ imp' = [imp EXCEPT !.resolved = mem[h].rev]
          /\ Goes(h, "ensure")
       \/ Fails(h) /\ UNCHANGED imp
    /\ UNCHANGED <<task, model, rows, version, store, env>>

(***************************************************************************)
(* source.List and EnsureImportFiles: file rows, import row and model in   *)
(* one fenced transaction.  The model is set to downloading whatever its   *)
(* status is.                                                              *)
(***************************************************************************)
EnsureImportFiles(h) ==
    /\ pc[h] = "ensure"
    /\ \/ /\ Fenced(h)
          /\ rows' = [f \in Files |-> IF rows[f].status = "none" THEN [NoRow EXCEPT !.status = "pending"]
                                                                 ELSE rows[f]]
          /\ imp' = [imp EXCEPT !.status = "running"]
          /\ model' = "downloading"
          /\ Goes(h, "list")
       \/ Fails(h) /\ UNCHANGED <<rows, imp, model>>
    /\ UNCHANGED <<task, version, store, env>>

\* ListImportFiles: the rows are read once, before the first file.
ListImportFiles(h) ==
    /\ pc[h] = "list"
    /\ With(h, "file", [mem[h] EXCEPT !.recs = rows]) \/ Fails(h)
    /\ UNCHANGED <<db, store, env>>

-----------------------------------------------------------------------------
(* One file of streamSnapshot.                                             *)

\* snapshotFileObjectValid: the object is the one the completed row describes.
Valid(f, rec) == rec.status = "completed" /\ objects[f] # None /\ objects[f] = rec.sha

Skip(h) ==
    LET f == mem[h].file IN
    /\ pc[h] = "file" /\ Valid(f, mem[h].recs[f])
    /\ NextFile(h, mem[h].recs[f].sha)
    /\ UNCHANGED <<db, store, env>>

\* readStoredSnapshotFile: the upload was completed, its row was not.
Recover(h) ==
    LET f == mem[h].file IN
    /\ pc[h] = "file" /\ ~Valid(f, mem[h].recs[f])
    /\ mem[h].recs[f].upload # 0 /\ objects[f] # None
    /\ With(h, "save", [mem[h] EXCEPT !.sums[f] = objects[f]])
    /\ UNCHANGED <<db, store, env>>

\* PutObject of a small file; an error may hide that it was stored.
Put(h) ==
    LET f == mem[h].file IN
    /\ pc[h] = "file" /\ f \notin Big /\ ~Valid(f, mem[h].recs[f])
    /\ objects' = [objects EXCEPT ![f] = mem[h].rev]
    /\ With(h, "save", [mem[h] EXCEPT !.sums[f] = mem[h].rev]) \/ Fails(h)
    /\ UNCHANGED <<db, manifest, uploads, env>>

\* BeginMultipart, or the upload the row remembers.
BeginMultipart(h) ==
    LET f == mem[h].file
        rec == mem[h].recs[f]
    IN  /\ pc[h] = "file" /\ f \in Big /\ ~Valid(f, rec)
        /\ \/ /\ rec.upload # 0
              /\ With(h, "part", [mem[h] EXCEPT !.up = rec.upload])
              /\ UNCHANGED uploads
           \/ /\ rec.upload = 0
              /\ \E u \in 1..MaxUploads :
                    /\ uploads[u].file = 0 /\ \A v \in 1..(u - 1) : uploads[v].file # 0
                    /\ uploads' = [uploads EXCEPT ![u] = [@ EXCEPT !.file = f, !.open = TRUE]]
                    /\ With(h, "mark", [mem[h] EXCEPT !.up = u])
        /\ UNCHANGED <<db, objects, manifest, env>>

\* SaveImportFileCheckpoint; it does not look at the status of the row.
Checkpoint(h) ==
    rows' = [rows EXCEPT ![mem[h].file] = [@ EXCEPT !.status = "uploading", !.upload = mem[h].up]]

MarkUpload(h) ==
    /\ pc[h] = "mark"
    /\ \/ Fenced(h) /\ Checkpoint(h) /\ Goes(h, "part") /\ UNCHANGED uploads
       \/ /\ Fails(h) /\ UNCHANGED rows
          /\ \/ uploads' = [uploads EXCEPT ![mem[h].up].open = FALSE]     \* AbortMultipart
             \/ UNCHANGED uploads
    /\ UNCHANGED <<task, imp, model, version, objects, manifest, env>>

\* Parts that ListParts does not show yet.
Missing(u) == {n \in 1..Parts : uploads[u].parts[n] = None}

\* OpenRange, UploadPart and the checkpoint that follows.
UploadPart(h) ==
    LET u == mem[h].up IN
    /\ pc[h] = "part" /\ uploads[u].open
    /\ \E n \in Missing(u) :
          /\ \A m \in Missing(u) : n <= m
          /\ uploads' = [uploads EXCEPT ![u].parts[n] = mem[h].rev]
    /\ \/ Fenced(h) /\ Checkpoint(h) /\ UNCHANGED local
       \/ Fails(h) /\ UNCHANGED rows
    /\ UNCHANGED <<task, imp, model, version, objects, manifest, env>>

Joined(parts) ==
    IF \A n \in 1..Parts : parts[n] = parts[1] THEN parts[1] ELSE "mixed"

\* CompleteMultipart makes the object visible; its checksum is read back if needed.
CompleteMultipart(h) ==
    LET f == mem[h].file
        u == mem[h].up
    IN  /\ pc[h] = "part" /\ uploads[u].open /\ Missing(u) = {}
        /\ objects' = [objects EXCEPT ![f] = Joined(uploads[u].parts)]
        /\ uploads' = [uploads EXCEPT ![u].open = FALSE]
        /\ With(h, "save", [mem[h] EXCEPT !.sums[f] = objects'[f]]) \/ Fails(h)
        /\ UNCHANGED <<db, manifest, env>>

CompleteImportFile(h) ==
    LET f == mem[h].file IN
    /\ pc[h] = "save"
    /\ \/ /\ Fenced(h)
          /\ rows' = [rows EXCEPT ![f] = [@ EXCEPT !.status = "completed", !.sha = mem[h].sums[f]]]
          /\ NextFile(h, mem[h].sums[f])
       \/ Fails(h) /\ UNCHANGED rows
    /\ UNCHANGED <<task, imp, model, version, store, env>>

\* Any other call on the way to a file fails.
FileFails(h) ==
    /\ pc[h] \in {"file", "part"}
    /\ Fails(h)
    /\ UNCHANGED <<db, store, env>>

-----------------------------------------------------------------------------
(* The end of Handle.                                                      *)

\* The manifest is stored without a fence, then UpdateProgress asks for the lease.
PutManifest(h) ==
    /\ pc[h] = "manifest"
    /\ manifest' = mem[h].sums
    /\ (Fenced(h) /\ Goes(h, "complete")) \/ Fails(h)
    /\ UNCHANGED <<db, objects, uploads, env>>

(***************************************************************************)
(* completeImportedVersion.  The heartbeat has been stopped; version,      *)
(* import row, model and task change together or not at all.               *)
(***************************************************************************)
Complete(h) ==
    /\ pc[h] = "complete"
    /\ \/ /\ Fenced(h) /\ model # "deleted"
          /\ version' = mem[h].sums
          /\ imp' = [imp EXCEPT !.status = "completed"]
          /\ model' = "ready"
          /\ task' = Released("completed")
          /\ Returns(h)
       \/ Fails(h) /\ UNCHANGED <<version, imp, model, task>>
    /\ UNCHANGED <<rows, store, env>>

\* As if the import row were written although the task refuses.
FailTorn(h) ==
    /\ pc[h] = "fail"
    /\ imp' = [imp EXCEPT !.status = "failed"]
    /\ model' = "error"
    /\ task' = IF Fenced(h) THEN AfterFailure ELSE task
    /\ Returns(h)
    /\ UNCHANGED <<rows, version, store, env>>

\* Fail: import row, model and task together, under the fence.
Fail(h) ==
    /\ pc[h] = "fail"
    /\ \/ /\ Fenced(h)
          /\ imp' = [imp EXCEPT !.status = "failed"]
          /\ model' = "error"
          /\ task' = AfterFailure
       \/ UNCHANGED <<imp, model, task>>
    /\ Returns(h)
    /\ UNCHANGED <<rows, version, store, env>>

AtWork(h) == pc[h] \notin {"idle", "acquire"}

\* The heartbeat finds the lease lost and cancels the work.
HeartbeatLost(h) ==
    /\ AtWork(h) /\ pc[h] # "complete" /\ ~Fenced(h)
    /\ Returns(h)
    /\ UNCHANGED <<db, store, env>>

-----------------------------------------------------------------------------
(* The environment.                                                        *)

\* A worker process dies.
Crash(i) ==
    LET dying == {h \in Handlers : Id[h] = i /\ pc[h] # "idle"} IN
    /\ dying # {}
    /\ pc' = [h \in Handlers |-> IF h \in dying THEN "idle" ELSE pc[h]]
    /\ mem' = [h \in Handlers |-> IF h \in dying THEN NoMem ELSE mem[h]]
    /\ UNCHANGED <<db, store, env>>

(***************************************************************************)
(* lease_until passes.  Heartbeats keep the lease of a handler at work,    *)
(* unless it stalls (or, in Complete, has stopped its heartbeat).          *)
(***************************************************************************)
LeaseExpires ==
    /\ task.live
    /\ IF task.by \in Handlers /\ AtWork(task.by)
         THEN stalls < MaxStalls /\ stalls' = stalls + 1
         ELSE UNCHANGED stalls
    /\ task' = [task EXCEPT !.live = FALSE]
    /\ UNCHANGED <<imp, model, rows, version, store, head, local>>

\* Somebody pushes to the branch.
HeadMoves ==
    /\ task.status \notin Final
    /\ \E r \in Revs \ {head} : head' = r
    /\ UNCHANGED <<db, store, stalls, local>>

\* DeleteModel.
SoftDelete ==
    /\ model # "deleted" /\ model' = "deleted"
    /\ UNCHANGED <<task, imp, rows, version, store, env, local>>

Work(h) ==
    \/ Handle(h) \/ Acquire(h) \/ Resolve(h) \/ BindRevision(h)
    \/ EnsureImportFiles(h) \/ ListImportFiles(h)
    \/ Skip(h) \/ Recover(h) \/ Put(h) \/ BeginMultipart(h) \/ MarkUpload(h)
    \/ UploadPart(h) \/ CompleteMultipart(h) \/ CompleteImportFile(h) \/ FileFails(h)
    \/ PutManifest(h) \/ Complete(h) \/ Fail(h) \/ HeartbeatLost(h)

Next ==
    \/ \E h \in Handlers : Work(h)
    \/ \E h \in Handlers : Crash(Id[h])
    \/ LeaseExpires \/ HeadMoves \/ SoftDelete

Spec == Init /\ [][Next]_vars

(***************************************************************************)
(* Fairness.  The recovery loop scans every 15 s and Handle takes every    *)
(* step it can; clocks run.  Crashes, stalls and deletions of objects stop *)
(* some day.  Source, object store and database may fail for ever: every   *)
(* failure counts an attempt, unless Fail itself fails or the lease is     *)
(* given up without it.                                                    *)
(***************************************************************************)
FailFails(h) == pc[h] = "fail" /\ Fenced(h) /\ UNCHANGED task

Calm == \A h \in Handlers : ~(Crash(Id[h]) \/ (Work(h) /\ FailFails(h)))

Fairness ==
    /\ \A h \in Handlers : WF_vars(Work(h))
    /\ WF_vars(LeaseExpires)
    /\ <>[][Calm]_vars

LiveSpec == Spec /\ Fairness

-----------------------------------------------------------------------------
(* Properties.                                                             *)

(***************************************************************************)
(* A registered version is one revision, for ever: every file object and   *)
(* the manifest hold what the version was registered with, and that is the *)
(* revision the import is bound to, whatever the branch does and whichever *)
(* handlers, stalled ones included, have uploaded parts of it.             *)
(***************************************************************************)
VersionIsOneRevision ==
    version # None =>
        /\ manifest = version /\ objects = version
        /\ \A f \in Files : version[f] = imp.resolved

(***************************************************************************)
(* Task, import, model and version never tell different stories: an import *)
(* that has ended one way is not shown as running or ended another way in  *)
(* one of the other tables.                                                *)
(***************************************************************************)
OutcomeAgrees ==
    /\ (task.status = "completed") = (version # None)
    /\ (task.status = "completed") = (imp.status = "completed")
    /\ task.status = "completed" => model \in {"ready", "deleted"}
    /\ task.status \in {"failed", "dead_letter"} => imp.status = "failed" /\ model \in {"error", "deleted"}

(***************************************************************************)
(* Every import ends, completed or dead-lettered, if crashes do: whatever  *)
(* step a handler dies at, the recovery scan finds the task again.         *)
(***************************************************************************)
ImportEnds == <>(task.status \in Final)

=============================================================================
