------------------------------ MODULE RunLedger ------------------------------
(***************************************************************************)
(* One execution run, the rollbacks of it, and the restart that repairs    *)
(* both: executor.py, quarantine_item of quarantine.py, the preview of     *)
(* recovery.py, and the run, item and manifest rows of repository.py.      *)
(*                                                                         *)
(* Every commit to the database and every change of the file system is one *)
(* step of one worker: the executor or the request thread of a rollback.   *)
(* Between two steps the other workers may act, another program may create *)
(* or edit a file, and the process may crash; a restart runs               *)
(* mark_interrupted_runs before the application serves again.              *)
(*                                                                         *)
(* The copy and checks inside move_file_verified are module VerifiedMove;  *)
(* here it keeps the states a crash or another worker can see.  The file   *)
(* system is Windows': rename refuses an existing target, and two names    *)
(* that differ in case only are one.                                       *)
(***************************************************************************)
EXTENDS Naturals, Sequences, FiniteSets

CONSTANTS
  Ops,           \* the selected items in plan order: what each one asks for
  Rollbacks,     \* the rollback requests that may be made
  Requests,      \* explicit RollbackRequest.item_ids a request may carry
  EarlyRollback, \* may the user roll back a run that is still running?
  MaxCrashes,    \* bound: crashes of the process
  MaxJoins,      \* bound: starts of a second instance beside the first
  MaxTouches,    \* bound: files created or edited by other programs
  MaxFaults,     \* bound: database writes that raise
  MaxMishaps     \* bound: all of these together, a second instance counted twice

Items == DOMAIN Ops
Exec == "executor"
Workers == {Exec} \cup Rollbacks

\* A run of nothing is refused (executor.py:103).
ASSUME ConstantsAssumption ==
  /\ Ops \in Seq({"rename", "case", "quarantine"}) /\ Ops # <<>>
  /\ {Exec, "none"} \cap Rollbacks = {}
  /\ Requests \subseteq Seq(Items)
  /\ EarlyRollback \in BOOLEAN
  /\ {MaxCrashes, MaxJoins, MaxTouches, MaxFaults, MaxMishaps} \subseteq Nat

VARIABLES
  fs,        \* what each item's places hold
  run,       \* the run's row: state and rollback_available
  row,       \* run_items of the run: state, temp_path, rollback_status
  manifest,  \* quarantine_manifests, one per quarantine item
  rb,        \* the rollback runs: state and their run_items
  job,       \* the workers: next step, plan, position in it
  app,       \* the processes: up, down, or one of them in mark_interrupted_runs
  due,       \* rows: the runs mark_interrupted_runs found running
  seen,      \* what it has read of the run it is at and not yet written
  cross,     \* is the quarantine directory on another volume?
  crashes, joins, touches, faults

store == <<run, row, manifest, rb>>
budget == <<cross, crashes, joins, touches, faults>>
vars == <<fs, store, job, app, due, seen, budget>>

\* The item's own file, edited or not, a half-written copy, a stranger's file.
Places == {"origin", "target", "stage", "copy", "rcopy"}
Contents == {"none", "own", "edited", "part", "other"}

NoRow == [state |-> "none", temp |-> "none", undo |-> "none"]
NoManifest == [status |-> "none", own |-> FALSE, rpath |-> FALSE, rown |-> FALSE]
Idle == [pc |-> "idle", at |-> 1, plan |-> <<>>, leg |-> "out"]
NotSeen == [by |-> "none", at |-> 0, item |-> 0, state |-> "pending", manifest |-> NoManifest]

RowType == [state : {"none", "pending", "renamed", "quarantined", "failed"},
            temp : {"none", "stage", "target"}, undo : {"none", "done", "failed"}]
ManifestType ==
  [status : {"none", "pending", "available", "restored", "restore_failed", "conflict", "missing"},
   own : BOOLEAN, rpath : BOOLEAN, rown : BOOLEAN]
RunStates == {"none", "running", "success", "partial_success", "failed", "interrupted", "rolled_back"}
RollbackStates == {"none", "rollback_running", "rolled_back", "rollback_partial", "interrupted"}
Step == [item : Items, from : Places, blocked : BOOLEAN]
EntryStates == {"pending", "rolled_back", "rollback_failed", "failed"}
Entry == [item : Items, from : Places, state : EntryStates]
Seen == [by : Workers \cup {"none"}, at : Nat, item : Items \cup {0},
         state : {"quarantined"} \cup EntryStates, manifest : ManifestType]
Steps == {"idle", "item", "check", "rename", "journal", "stage", "second", "home", "homed",
          "stranded", "manifest", "move", "own", "fill", "drop", "moved", "erred", "stuck",
          "record", "fail", "rpath", "shmove", "shcopy", "shdrop", "mark_done", "mark_failed",
          "log_done", "log_failed", "source", "done", "dead"}

TypeOK ==
  /\ fs \in [Items -> [Places -> Contents]]
  /\ run \in [state : RunStates, avail : BOOLEAN]
  /\ row \in [Items -> RowType]
  /\ manifest \in [Items -> ManifestType]
  /\ rb \in [Rollbacks -> [state : RollbackStates, rows : Seq(Entry)]]
  /\ job \in [Workers -> [pc : Steps, at : Nat, plan : Seq(Step), leg : {"out", "back"}]]
  /\ app \in {"up", "down", "boot", "join", "lock"} /\ due \subseteq Workers /\ seen \in Seen
  /\ cross \in BOOLEAN /\ crashes \in 0..MaxCrashes /\ joins \in 0..MaxJoins
  /\ touches \in 0..MaxTouches /\ faults \in 0..MaxFaults

Init ==
  /\ fs = [i \in Items |-> [p \in Places |-> IF p = "origin" THEN "own" ELSE "none"]]
  /\ run = [state |-> "none", avail |-> FALSE]
  /\ row = [i \in Items |-> NoRow]
  /\ manifest = [i \in Items |-> NoManifest]
  /\ rb = [r \in Rollbacks |-> [state |-> "none", rows |-> <<>>]]
  /\ job = [p \in Workers |-> Idle]
  /\ app = "up" /\ due = {} /\ seen = NotSeen /\ cross \in BOOLEAN
  /\ crashes = 0 /\ joins = 0 /\ touches = 0 /\ faults = 0

---------------------------------------------------------------------------
\* Reading the file system and the rows.

Present(i, p) == fs[i][p] # "none"

\* Path.exists(): the two names of a case-only rename are one directory entry.
Exists(i, p) ==
  \/ Present(i, p)
  \/ Ops[i] = "case" /\ p \in {"origin", "target"} /\ (Present(i, "origin") \/ Present(i, "target"))

MoveFile(i, from, to) ==
  /\ Present(i, from) /\ ~Exists(i, to)
  /\ fs' = [fs EXCEPT ![i][from] = "none", ![i][to] = fs[i][from]]

\* Size, time and fingerprint are those of the snapshot: nobody has edited the file.
Unchanged(i, p) == fs[i][p] = "own"

Succeeded(i) == row[i].state \in {"renamed", "quarantined"}

\* is_rollbackable_item
Rollbackable(i) == Succeeded(i) \/ (row[i].state = "failed" /\ row[i].temp # "none")

\* _rollback_available: what the detail of a run asks, the column notwithstanding.
RollbackAvailable ==
  run.state # "rolled_back" /\ \E i \in Items : Rollbackable(i) /\ row[i].undo # "done"

\* _rollback_current_path
CurrentPlace(i) ==
  IF row[i].state = "failed" /\ row[i].temp # "none" THEN row[i].temp ELSE "target"

\* _preview_item: any issue code blocks the item.
Preview(i) ==
  [item |-> i,
   from |-> CurrentPlace(i),
   blocked |-> \/ row[i].undo = "done"
               \/ ~Rollbackable(i)
               \/ ~Unchanged(i, CurrentPlace(i))
               \/ Exists(i, "origin")]

\* _selected_rollback_items: the newest item first, or the ids of the request.
NewestFirst(S) ==
  [k \in 1..Cardinality(S) |-> CHOOSE i \in S : Cardinality({j \in S : i < j}) = k - 1]
DefaultSelection == NewestFirst({i \in Items : Rollbackable(i) /\ row[i].undo # "done"})

Selections ==
  {DefaultSelection} \cup {s \in Requests : \A k \in DOMAIN s : row[s[k]].state # "none"}

---------------------------------------------------------------------------
\* The workers.

Serving == app \in {"up", "join", "lock"}
At(p, s) == Serving /\ job[p].pc = s
Goto(p, s) == job' = [job EXCEPT ![p].pc = s]
NextItem(p) == job' = [job EXCEPT ![p].pc = "item", ![p].at = @ + 1]
Item(p) == IF p = Exec THEN job[p].at ELSE job[p].plan[job[p].at].item

Room(weight) == crashes + 2 * joins + touches + faults + weight <= MaxMishaps

Keeping(state) == UNCHANGED <<state, app, due, seen, budget>>

\* create_run
StartRun ==
  /\ At(Exec, "idle")
  /\ run' = [state |-> "running", avail |-> FALSE]
  /\ Goto(Exec, "item")
  /\ Keeping(<<fs, row, manifest, rb>>)

\* The pending row is committed before the item is touched.
BeginItem ==
  LET i == Item(Exec) IN
  /\ At(Exec, "item") /\ i \in Items
  /\ row' = [row EXCEPT ![i] = [NoRow EXCEPT !.state = "pending"]]
  /\ Goto(Exec, "check")
  /\ Keeping(<<fs, run, manifest, rb>>)

\* validate_plan_items once more; the target of a quarantine is named later.
CheckItem ==
  LET i == Item(Exec) IN
  /\ At(Exec, "check")
  /\ IF Unchanged(i, "origin") /\ (Ops[i] = "rename" => ~Exists(i, "target"))
       THEN Goto(Exec, CASE Ops[i] = "rename" -> "rename"
                         [] Ops[i] = "case" -> "journal"
                         [] Ops[i] = "quarantine" -> "manifest")
       ELSE Goto(Exec, "fail")
  /\ Keeping(<<fs, store>>)

RenameStep(at, from, to, next) ==
  /\ At(Exec, at)
  /\ MoveFile(Item(Exec), from, to)
  /\ Goto(Exec, next)
  /\ Keeping(store)

RenameItem == RenameStep("rename", "origin", "target", "record")

\* Variant: the temporary name is not committed before the rename.
JournalStage_Late ==
  /\ At(Exec, "journal")
  /\ Goto(Exec, "stage")
  /\ Keeping(<<fs, store>>)

\* A case-only rename goes through a temporary name, journaled first.
JournalStage ==
  /\ At(Exec, "journal")
  /\ row' = [row EXCEPT ![Item(Exec)].temp = "stage"]
  /\ Goto(Exec, "stage")
  /\ Keeping(<<fs, run, manifest, rb>>)

StageItem == RenameStep("stage", "origin", "stage", "second")
SecondRename == RenameStep("second", "stage", "target", "record")
RestoreSource == RenameStep("home", "stage", "origin", "homed")

\* save_quarantine_manifest, before the file moves.
SaveManifest ==
  /\ At(Exec, "manifest")
  /\ manifest' = [manifest EXCEPT ![Item(Exec)] = [NoManifest EXCEPT !.status = "pending"]]
  /\ job' = [job EXCEPT ![Exec].pc = "move", ![Exec].leg = "out"]
  /\ Keeping(<<fs, run, row, rb>>)

---------------------------------------------------------------------------
\* move_file_verified: out to quarantine, or back to where the file was.

From(p) == IF p = Exec THEN IF job[p].leg = "out" THEN "origin" ELSE "target"
           ELSE job[p].plan[job[p].at].from
To(p) == IF p = Exec /\ job[p].leg = "out" THEN "target" ELSE "origin"
Temp(p) == IF p = Exec /\ job[p].leg = "out" THEN "copy" ELSE "rcopy"

MoverRename(p) ==
  /\ ~cross
  /\ At(p, "move")
  /\ MoveFile(Item(p), From(p), To(p))
  /\ Goto(p, "moved")
  /\ Keeping(store)

MoverOpen(p) ==
  LET i == Item(p) IN
  /\ cross
  /\ At(p, "move")
  /\ Present(i, From(p)) /\ ~Exists(i, To(p)) /\ ~Present(i, Temp(p))
  /\ fs' = [fs EXCEPT ![i][Temp(p)] = "part"]
  /\ Goto(p, "own")
  /\ Keeping(store)

\* temp_created_callback; _update_quarantine_manifest_json raises without a row.
MoverOwn(p) ==
  LET i == Item(p) IN
  /\ At(p, "own")
  /\ IF p = Exec /\ job[p].leg = "back" THEN UNCHANGED manifest
     ELSE /\ manifest[i].status # "none"
          /\ manifest' = [manifest EXCEPT ![i] =
               IF p = Exec THEN [@ EXCEPT !.own = TRUE] ELSE [@ EXCEPT !.rown = TRUE]]
  /\ Goto(p, "fill")
  /\ Keeping(<<fs, run, row, rb>>)

\* Variant: temp.replace(target), without target.exists().
MoverFill_Replaces(p) ==
  LET i == Item(p) IN
  /\ At(p, "fill")
  /\ Present(i, From(p))
  /\ fs' = [fs EXCEPT ![i][Temp(p)] = "none", ![i][To(p)] = fs[i][From(p)]]
  /\ Goto(p, "drop")
  /\ Keeping(store)

\* The copy is complete and verified, and renamed to the target.
MoverFill(p) ==
  LET i == Item(p) IN
  /\ At(p, "fill")
  /\ Present(i, From(p)) /\ ~Exists(i, To(p))
  /\ fs' = [fs EXCEPT ![i][Temp(p)] = "none", ![i][To(p)] = fs[i][From(p)]]
  /\ Goto(p, "drop")
  /\ Keeping(store)

MoverDrop(p) ==
  LET i == Item(p) IN
  /\ At(p, "drop")
  /\ Present(i, From(p))
  /\ fs' = [fs EXCEPT ![i][From(p)] = "none"]
  /\ Goto(p, "moved")
  /\ Keeping(store)

\* Variant: a file that is gone was restored before, so the restore succeeds.
MoverFails_Lenient(p) ==
  /\ At(p, "move")
  /\ Goto(p, IF Present(Item(p), From(p)) THEN "erred" ELSE "moved")
  /\ Keeping(<<fs, store>>)

\* An exception removes the temp it created, and the target while the source stays.
MoverFails(p) ==
  LET i == Item(p)
      left == CASE At(p, "own") \/ At(p, "fill") -> {Temp(p)}
                [] At(p, "drop") /\ Present(i, From(p)) -> {To(p)}
                [] OTHER -> {}
  IN /\ \E s \in {"move", "own", "fill", "drop"} : At(p, s)
     /\ fs' = [fs EXCEPT ![i] = [q \in Places |-> IF q \in left THEN "none" ELSE @[q]]]
     /\ Goto(p, "erred")
     /\ Keeping(store)

Mover(p) ==
  \/ MoverRename(p) \/ MoverOpen(p) \/ MoverOwn(p)
  \/ MoverFill(p) \/ MoverDrop(p) \/ MoverFails(p)

---------------------------------------------------------------------------
\* How the executor ends an item and the run.

SetManifest(i, m) == manifest' = [manifest EXCEPT ![i] = m]
SetStatus(i, s) ==
  SetManifest(i, IF manifest[i].status = "none" THEN NoManifest ELSE [manifest[i] EXCEPT !.status = s])

MarkAvailable ==
  /\ At(Exec, "moved") /\ job[Exec].leg = "out"
  /\ SetStatus(Item(Exec), "available")
  /\ Goto(Exec, "record")
  /\ Keeping(<<fs, run, row, rb>>)

\* Variant: the manifest is deleted without looking for the file.
QuarantineFailed_Forgets ==
  /\ At(Exec, "erred") \/ (At(Exec, "moved") /\ job[Exec].leg = "back")
  /\ Goto(Exec, "fail") /\ SetManifest(Item(Exec), NoManifest)
  /\ Keeping(<<fs, run, row, rb>>)

\* A file left at the target is QuarantineRecoveryRequired: the manifest stays.
QuarantineFailed ==
  LET i == Item(Exec)
      undone == At(Exec, "moved") /\ job[Exec].leg = "back"
      failed == At(Exec, "erred")
      keep == failed /\ (job[Exec].leg = "back" \/ Exists(i, "target"))
  IN /\ undone \/ failed
     /\ IF keep THEN Goto(Exec, "stuck") /\ UNCHANGED manifest
                ELSE Goto(Exec, "fail") /\ SetManifest(i, NoManifest)
     /\ Keeping(<<fs, run, row, rb>>)

EndItem(state, temp) ==
  /\ row' = [row EXCEPT ![Item(Exec)] = [state |-> state, temp |-> temp, undo |-> "none"]]
  /\ NextItem(Exec)
  /\ Keeping(<<fs, run, manifest, rb>>)

RecordItem ==
  /\ At(Exec, "record")
  /\ EndItem(IF Ops[Item(Exec)] = "quarantine" THEN "quarantined" ELSE "renamed",
             IF Ops[Item(Exec)] = "case" THEN "stage" ELSE "none")

\* The handlers write the run_item they hold: its temp_path is empty again.
FailItem == (At(Exec, "fail") \/ At(Exec, "homed")) /\ EndItem("failed", "none")
StrandItem ==
  \/ At(Exec, "stranded") /\ EndItem("failed", "stage")
  \/ At(Exec, "stuck") /\ EndItem("failed", "target")

FinalState ==
  CASE \A i \in Items : Succeeded(i) -> "success"
    [] \A i \in Items : ~Succeeded(i) -> "failed"
    [] OTHER -> "partial_success"

\* Variant: only a run that succeeded in all is listed as one to roll back.
FinishRun_Success ==
  /\ At(Exec, "item") /\ Item(Exec) \notin Items
  /\ run' = [state |-> FinalState, avail |-> FinalState = "success"]
  /\ Goto(Exec, "done")
  /\ Keeping(<<fs, row, manifest, rb>>)

FinishRun ==
  /\ At(Exec, "item") /\ Item(Exec) \notin Items
  /\ run' = [state |-> FinalState, avail |-> FinalState # "failed"]
  /\ Goto(Exec, "done")
  /\ Keeping(<<fs, row, manifest, rb>>)

\* A rename of the executor raises.
RenameFails ==
  /\ \/ \E s \in {"check", "rename", "stage"} : At(Exec, s) /\ Goto(Exec, "fail")
     \/ At(Exec, "second") /\ Goto(Exec, "home")
     \/ At(Exec, "home") /\ Goto(Exec, "stranded")
  /\ Keeping(<<fs, store>>)

ExecutorStep ==
  \/ StartRun \/ BeginItem \/ CheckItem \/ RenameItem \/ JournalStage \/ StageItem
  \/ SecondRename \/ RestoreSource \/ SaveManifest \/ Mover(Exec) \/ MarkAvailable
  \/ QuarantineFailed \/ RecordItem \/ FailItem \/ StrandItem \/ FinishRun \/ RenameFails

---------------------------------------------------------------------------
\* rollback_run: the preview is taken once, and believed from then on.

StartRollback(r) ==
  /\ At(r, "idle")
  /\ run.state # "none"
  /\ EarlyRollback \/ run.state # "running"
  /\ \E s \in Selections :
       /\ s # <<>>
       /\ job' = [job EXCEPT ![r] = [pc |-> "item", at |-> 1, leg |-> "back",
                                     plan |-> [k \in DOMAIN s |-> Preview(s[k])]]]
  /\ rb' = [rb EXCEPT ![r].state = "rollback_running"]
  /\ Keeping(<<fs, run, row, manifest>>)

BeginUndo(r) ==
  LET step == job[r].plan[job[r].at] IN
  /\ At(r, "item") /\ job[r].at \in DOMAIN job[r].plan
  /\ rb' = [rb EXCEPT ![r].rows =
             Append(@, [item |-> step.item, from |-> step.from, state |-> "pending"])]
  /\ Goto(r, CASE step.blocked -> "mark_failed"
               [] ~step.blocked /\ Ops[step.item] = "quarantine" -> "rpath"
               [] OTHER -> "shmove")
  /\ Keeping(<<fs, run, row, manifest>>)

\* The journal of the restore: where its temp will be, and not yet created.
JournalRestore(r) ==
  LET i == Item(r) IN
  /\ At(r, "rpath")
  /\ IF manifest[i].status = "none" THEN Goto(r, "erred") /\ UNCHANGED manifest
     ELSE /\ SetManifest(i, [manifest[i] EXCEPT !.rpath = TRUE, !.rown = FALSE])
          /\ Goto(r, "move")
  /\ Keeping(<<fs, run, row, rb>>)

\* shutil.move: a rename, and when that raises a copy that opens its target "wb".
ShutilRename(r) ==
  /\ At(r, "shmove")
  /\ MoveFile(Item(r), From(r), "origin")
  /\ Goto(r, "mark_done")
  /\ Keeping(store)

ShutilOpen(r) ==
  /\ At(r, "shmove")
  /\ Present(Item(r), From(r))
  /\ fs' = [fs EXCEPT ![Item(r)]["origin"] = "part"]
  /\ Goto(r, "shcopy")
  /\ Keeping(store)

ShutilCopy(r) ==
  LET i == Item(r) IN
  /\ At(r, "shcopy")
  /\ Present(i, From(r))
  /\ fs' = [fs EXCEPT ![i]["origin"] = fs[i][From(r)]]
  /\ Goto(r, "shdrop")
  /\ Keeping(store)

\* os.unlink refuses a file that another request has open for its own copy.
ShutilDrop(r) ==
  LET i == Item(r) IN
  /\ At(r, "shdrop")
  /\ Present(i, From(r))
  /\ \A q \in Rollbacks \ {r} : ~(At(q, "shcopy") /\ Item(q) = i)
  /\ fs' = [fs EXCEPT ![i][From(r)] = "none"]
  /\ Goto(r, "mark_done")
  /\ Keeping(store)

\* Variant: a copy that fails half-way still removes what it copied.
ShutilFails_Drops(r) ==
  /\ \E s \in {"shmove", "shcopy", "shdrop"} : At(r, s)
  /\ fs' = IF At(r, "shcopy") THEN [fs EXCEPT ![Item(r)][From(r)] = "none"] ELSE fs
  /\ Goto(r, "mark_failed")
  /\ Keeping(store)

ShutilFails(r) ==
  /\ \E s \in {"shmove", "shcopy", "shdrop"} : At(r, s)
  /\ Goto(r, "mark_failed")
  /\ Keeping(<<fs, store>>)

\* _sync_quarantine_restore_status, then the source item, then the rollback item.
SyncManifest(r) ==
  /\ \/ At(r, "moved") /\ SetStatus(Item(r), "restored") /\ Goto(r, "mark_done")
     \/ At(r, "erred") /\ SetStatus(Item(r), "restore_failed") /\ Goto(r, "mark_failed")
  /\ Keeping(<<fs, run, row, rb>>)

MarkItem(r) ==
  LET mark(undo, next) == row' = [row EXCEPT ![Item(r)].undo = undo] /\ Goto(r, next)
  IN /\ \/ At(r, "mark_done") /\ mark("done", "log_done")
        \/ At(r, "mark_failed") /\ mark("failed", "log_failed")
     /\ Keeping(<<fs, run, manifest, rb>>)

LogUndo(r) ==
  LET log(state) == rb' = [rb EXCEPT ![r].rows[job[r].at].state = state]
  IN /\ \/ At(r, "log_done") /\ log("rolled_back")
        \/ At(r, "log_failed") /\ log("rollback_failed")
     /\ NextItem(r)
     /\ Keeping(<<fs, run, row, manifest>>)

AllRolledBack(entries) == \A k \in DOMAIN entries : entries[k].state = "rolled_back"

FinishRollback(r) ==
  /\ At(r, "item") /\ job[r].at \notin DOMAIN job[r].plan
  /\ rb' = [rb EXCEPT ![r].state =
             IF AllRolledBack(rb[r].rows) THEN "rolled_back" ELSE "rollback_partial"]
  /\ Goto(r, "source")
  /\ Keeping(<<fs, run, row, manifest>>)

\* Variant: the list goes on offering a rollback of the run.
FinishSource_Listed(r) ==
  /\ At(r, "source")
  /\ IF \A i \in Items : ~Rollbackable(i) \/ row[i].undo = "done"
       THEN run' = [run EXCEPT !.state = "rolled_back"]
       ELSE UNCHANGED run
  /\ Goto(r, "done")
  /\ Keeping(<<fs, row, manifest, rb>>)

\* The run is rolled back once no item of it is left to undo, whatever its state.
FinishSource(r) ==
  /\ At(r, "source")
  /\ IF \A i \in Items : ~Rollbackable(i) \/ row[i].undo = "done"
       THEN run' = [state |-> "rolled_back", avail |-> FALSE]
       ELSE UNCHANGED run
  /\ Goto(r, "done")
  /\ Keeping(<<fs, row, manifest, rb>>)

RollbackStep(r) ==
  \/ StartRollback(r) \/ BeginUndo(r) \/ JournalRestore(r) \/ Mover(r)
  \/ ShutilRename(r) \/ ShutilOpen(r) \/ ShutilCopy(r) \/ ShutilDrop(r) \/ ShutilFails(r)
  \/ SyncManifest(r) \/ MarkItem(r) \/ LogUndo(r) \/ FinishRollback(r) \/ FinishSource(r)

---------------------------------------------------------------------------
\* A database write raises: the handler around it, or the end of the worker.

OnFault(p) ==
  LET s == job[p].pc IN
  CASE p = Exec /\ s \in {"journal", "manifest", "record", "homed", "stranded", "stuck"} -> "fail"
    [] p = Exec /\ s = "moved" -> IF job[p].leg = "out" THEN "move" ELSE "fail"
    [] p # Exec /\ s = "rpath" -> "erred"
    [] p # Exec /\ s = "moved" -> "mark_done"
    [] p # Exec /\ s = "erred" -> "mark_failed"
    [] s \in {"item", "fail", "mark_done", "mark_failed", "log_done", "log_failed", "source"} -> "dead"
    [] OTHER -> "none"

WriteFails(p) ==
  /\ Serving
  /\ faults < MaxFaults /\ Room(1)
  /\ OnFault(p) # "none"
  /\ job' = [job EXCEPT ![p].pc = OnFault(p),
                        ![p].leg = IF p = Exec /\ @ = "out" /\ At(p, "moved") THEN "back" ELSE @]
  /\ faults' = faults + 1
  /\ UNCHANGED <<fs, store, app, due, seen, cross, crashes, joins, touches>>

---------------------------------------------------------------------------
\* A crash, and mark_interrupted_runs at a start: one transaction.

Crash ==
  /\ Serving
  /\ crashes < MaxCrashes /\ Room(1)
  /\ app' = "down" /\ due' = {} /\ seen' = NotSeen
  /\ crashes' = crashes + 1
  /\ job' = [p \in Workers |-> IF job[p].pc = "idle" THEN Idle ELSE [Idle EXCEPT !.pc = "done"]]
  /\ UNCHANGED <<fs, store, cross, joins, touches, faults>>

\* Variant: only the interrupted rollbacks are repaired.
Interrupted_Rollbacks == {r \in Rollbacks : rb[r].state = "rollback_running"}

\* Variant: only interrupted executions are repaired, as before rollbacks were.
Interrupted_Runs == IF run.state = "running" THEN {Exec} ELSE {}

\* The runs to repair are selected once.
Interrupted ==
  {r \in Rollbacks : rb[r].state = "rollback_running"}
    \cup (IF run.state = "running" THEN {Exec} ELSE {})

\* A start that is killed repairs nothing.
Restart ==
  /\ app = "down"
  /\ app' = "boot" /\ due' = Interrupted
  /\ UNCHANGED <<fs, store, job, seen, budget>>

\* A second instance finds a free port, and repairs what the first one is at.
SecondInstance ==
  /\ app = "up"
  /\ joins < MaxJoins /\ Room(2) /\ joins' = joins + 1
  /\ app' = "join" /\ due' = Interrupted
  /\ UNCHANGED <<fs, store, job, seen, cross, crashes, touches, faults>>

Repairing == app \in {"boot", "join", "lock"}

Look(p) ==
  /\ Repairing
  /\ p \in due /\ seen = NotSeen
  /\ UNCHANGED <<store, job, app, due, budget>>

\* The first write takes the lock, which the commit at the end gives back.
Write(p) ==
  /\ Repairing
  /\ seen.by = p
  /\ due' = due \ {p} /\ seen' = NotSeen
  /\ app' = IF app = "join" THEN "lock" ELSE app
  /\ UNCHANGED <<job, budget>>

\* _cleanup_expected_copy_temp: only a temp the journal calls ours is removed.
Cleanup(i, temp, owned, held) ==
  fs' = IF owned /\ ~held THEN [fs EXCEPT ![i][temp] = "none"] ELSE fs

\* Variant: the item is called what its run is called.
RecoveredRow_Interrupted(i, held) == [state |-> "interrupted", status |-> manifest[i].status]

\* Variant: every pending item is failed, as before the manifest was a journal.
RecoveredRow_Failed(i, held) == [state |-> "failed", status |-> manifest[i].status]

\* Variant: a manifest is taken for a finished move.
RecoveredRow_Trusting(i, held) ==
  IF manifest[i].status = "none" THEN [state |-> "failed", status |-> "none"]
  ELSE [state |-> "quarantined", status |-> "available"]

\* The item the crash interrupted: what exists decides, not what it holds.
RecoveredRow(i, held) ==
  LET src == Exists(i, "origin")
      tgt == Exists(i, "target")
      stuck == held /\ manifest[i].own /\ Present(i, "copy")
  IN IF Ops[i] # "quarantine" \/ manifest[i].status = "none"
       THEN [state |-> "pending", status |-> manifest[i].status]
     ELSE IF stuck THEN [state |-> "failed", status |-> "conflict"]
     ELSE IF tgt THEN [state |-> IF src THEN "failed" ELSE "quarantined",
                       status |-> IF src THEN "conflict" ELSE "available"]
     ELSE [state |-> IF src THEN "pending" ELSE "failed", status |-> "missing"]

HasRollback(rows) == \E i \in Items : rows[i].state \in {"renamed", "quarantined"}

InterruptedItem == {i \in Items : row[i].state = "pending"}

LookAtRun ==
  /\ Look(Exec)
  /\ \/ /\ InterruptedItem = {}
        /\ seen' = [NotSeen EXCEPT !.by = Exec] /\ UNCHANGED fs
     \/ \E i \in InterruptedItem, held \in BOOLEAN :
          /\ Cleanup(i, "copy", manifest[i].own, held)
          /\ seen' = [by |-> Exec, at |-> 0, item |-> i, state |-> RecoveredRow(i, held).state,
                      manifest |-> [manifest[i] EXCEPT !.status = RecoveredRow(i, held).status]]

\* Variant: an item whose file has not moved keeps its row, to be tried again.
EndPending_Again(r) == r

\* What is pending without having been judged has failed.
EndPending(r) == IF r.state = "pending" THEN [r EXCEPT !.state = "failed"] ELSE r

\* A row that was judged is written by its id, whatever it has become since.
RecoverRun ==
  /\ Write(Exec)
  /\ manifest' = [i \in Items |->
       IF i = seen.item /\ seen.manifest.status # "none" /\ manifest[i].status # "none"
         THEN seen.manifest ELSE manifest[i]]
  /\ row' = [i \in Items |->
       IF i = seen.item /\ seen.state # "pending" THEN [row[i] EXCEPT !.state = seen.state]
       ELSE EndPending(row[i])]
  /\ run' = [state |-> "interrupted", avail |-> HasRollback(row')]
  /\ UNCHANGED <<fs, rb>>

\* Variant: a restore that was journaled is taken for a finished one.
RecoveredUndo_Journal(e, held) == IF manifest[e.item].rpath THEN "restored" ELSE "restore_failed"

\* A restore that was interrupted: done only if the file is home as it was.
RecoveredUndo(e, held) ==
  LET i == e.item
      src == Exists(i, e.from)
      home == Exists(i, "origin")
      stuck == held /\ manifest[i].rpath /\ manifest[i].rown /\ Present(i, "rcopy")
  IN IF stuck THEN "conflict"
     ELSE IF src /\ ~home /\ Unchanged(i, e.from) THEN "restore_failed"
     ELSE IF src THEN "conflict"
     ELSE IF ~home THEN "missing"
     ELSE IF Unchanged(i, "origin") THEN "restored" ELSE "conflict"

\* Variant: an item counts as rolled back once a rollback of it was tried.
SourceRun_Tried(rows) ==
  IF \A i \in Items : rows[i].state \in {"renamed", "quarantined"} => rows[i].undo # "none"
    THEN [state |-> "rolled_back", avail |-> FALSE] ELSE run

\* _mark_source_run_rolled_back_if_complete
SourceRun(rows) ==
  LET undoable == {i \in Items : \/ rows[i].state \in {"renamed", "quarantined"}
                                 \/ rows[i].state = "failed" /\ rows[i].temp # "none"}
  IN IF undoable = {} THEN run
     ELSE IF \A i \in undoable : rows[i].undo = "done"
            THEN [state |-> "rolled_back", avail |-> FALSE]
     ELSE [run EXCEPT !.avail = TRUE]

\* Entries are appended one by one: only the last one can be pending.
LookAtRollback(r) ==
  LET n == Len(rb[r].rows) IN
  /\ Look(r)
  /\ IF n = 0 \/ rb[r].rows[n].state # "pending"
       THEN seen' = [NotSeen EXCEPT !.by = r] /\ UNCHANGED fs
       ELSE \E held \in BOOLEAN :
              LET e == rb[r].rows[n]
                  verdict == RecoveredUndo(e, held)
                  ours == Ops[e.item] = "quarantine" /\ manifest[e.item].rpath /\ manifest[e.item].rown
              IN /\ Cleanup(e.item, "rcopy", ours, held)
                 /\ seen' = [by |-> r, at |-> n, item |-> e.item,
                             state |-> IF verdict = "restored" THEN "rolled_back" ELSE "rollback_failed",
                             manifest |-> [NoManifest EXCEPT !.status = verdict]]

RecoverRollback(r) ==
  LET i == seen.item
      judged == i # 0
      rows == [k \in DOMAIN rb[r].rows |->
                 IF k = seen.at THEN [rb[r].rows[k] EXCEPT !.state = seen.state]
                 ELSE EndPending(rb[r].rows[k])]
      end == IF rows # <<>> /\ AllRolledBack(rows) THEN "rolled_back" ELSE "interrupted"
  IN /\ Write(r)
     /\ rb' = [rb EXCEPT ![r] = [state |-> end, rows |-> rows]]
     /\ row' = IF judged THEN [row EXCEPT ![i].undo = IF seen.state = "rolled_back" THEN "done" ELSE "failed"]
               ELSE row
     /\ IF judged /\ Ops[i] = "quarantine" THEN SetStatus(i, seen.manifest.status) ELSE UNCHANGED manifest
     /\ run' = SourceRun(row')
     /\ UNCHANGED fs

Recovered ==
  /\ Repairing
  /\ due = {}
  /\ app' = "up"
  /\ UNCHANGED <<fs, store, job, due, seen, budget>>

Boot ==
  \/ LookAtRun \/ RecoverRun \/ Recovered
  \/ \E r \in Rollbacks : LookAtRollback(r) \/ RecoverRollback(r)

---------------------------------------------------------------------------
\* Other programs.  What they do to a file being copied is module VerifiedMove.

Touch == touches < MaxTouches /\ Room(1) /\ touches' = touches + 1
         /\ UNCHANGED <<store, job, app, due, seen, cross, crashes, joins, faults>>

Stranger(i, p) ==
  /\ Touch
  /\ p # "stage" /\ (Ops[i] = "case" => p # "target")
  /\ ~Exists(i, p)
  /\ fs' = [fs EXCEPT ![i][p] = "other"]

Edit(i, p) ==
  /\ Touch
  /\ Unchanged(i, p)
  /\ \A q \in Places \ {p} : ~Present(i, q)
  /\ fs' = [fs EXCEPT ![i][p] = "edited"]

Environment == \E i \in Items, p \in Places : Stranger(i, p) \/ Edit(i, p)

\* A commit waits while a repair holds the lock.
Unlocked == app = "lock" => UNCHANGED store

Next ==
  \/ ExecutorStep /\ Unlocked
  \/ \E r \in Rollbacks : RollbackStep(r) /\ Unlocked
  \/ \E p \in Workers : WriteFails(p)
  \/ Crash \/ Restart \/ SecondInstance \/ Boot
  \/ Environment

\* The pool's thread and the request threads run on; a closed app is reopened.
Fairness ==
  /\ WF_vars(ExecutorStep)
  /\ \A r \in Rollbacks : WF_vars(RollbackStep(r))
  /\ WF_vars(Restart) /\ WF_vars(Boot)

Spec == Init /\ [][Next]_vars
FairSpec == Spec /\ Fairness

---------------------------------------------------------------------------
\* Properties.

Kept(i, p) == fs[i][p] \in {"own", "edited"}

\* No request is being served and no restart is due: the history can be read.  A
\* second instance writes into the history of the first what it has guessed of it.
AtRest ==
  /\ app = "up" /\ joins = 0 /\ run.state \notin {"none", "running"}
  /\ \A p \in Workers : job[p].pc \in {"idle", "done"}

(* The user's file is whole in one of the three places the application puts
   it in, whatever fails, crashes or is retried (quarantine.py:197,
   executor.py:220-226, 340-354). *)
NoFileLost == \A i \in Items : Kept(i, "origin") \/ Kept(i, "target") \/ Kept(i, "stage")

(* A file of another program that took a freed name is left there: no mover and
   no restart replaces it.  The origin of a renamed file is the exception, see
   RollbackNeverOverwrites (quarantine.py:161, 186, executor.py:222). *)
StrangersKept ==
  [][\A i \in Items, p \in {"origin", "target"} :
       fs[i][p] = "other" /\ (p = "origin" => Ops[i] = "quarantine") => fs'[i][p] = "other"]_vars

(* An item the history calls rolled back has its file at its origin, also
   when the restart had to find that out (repository.py:732-778). *)
RolledBackIsHome == \A i \in Items : row[i].undo = "done" => Kept(i, "origin")

(* A quarantined file whose origin is free can be named by a rollback, after any
   crash and any error of the file system (repository.py:838-852), but for a file
   of another program under the name of our temp: the restart takes it for ours. *)
QuarantineReversible ==
  AtRest => \A i \in Items :
    Ops[i] = "quarantine" /\ Kept(i, "target") /\ ~Present(i, "origin") /\ fs[i]["copy"] # "other"
      => Rollbackable(i) /\ row[i].undo # "done" /\ manifest[i].status # "none"

(* A file left under the temporary name of a case-only rename can be found
   through its row (executor.py:219, 234). *)
StageReachable ==
  \A i \in Items : Kept(i, "stage") => row[i].temp = "stage" /\ row[i].state \in {"pending", "failed"}

(* The rows know where each file is that is not under a name its user gave it. *)
FilesReachable == QuarantineReversible /\ StageReachable

(* A success in the history is a file at its target until a rollback of it. *)
SuccessIsMoved ==
  AtRest => \A i \in Items : Succeeded(i) /\ row[i].undo = "none" => Kept(i, "target")

(* No item stays pending in the history once its run has ended
   (repository.py:871-878). *)
NothingPending ==
  AtRest => /\ \A i \in Items : row[i].state # "pending"
            /\ \A r \in Rollbacks : \A k \in DOMAIN rb[r].rows : rb[r].rows[k].state # "pending"

(* A run called rolled back has every file of it back at its origin. *)
RolledBackRunIsHome ==
  AtRest /\ run.state = "rolled_back" => \A i \in Items : Rollbackable(i) => Kept(i, "origin")

(* The list of runs reads the column rollback_available, the detail of a run asks
   its items: a run that can be rolled back is listed as such, unless all there is
   to undo are items that failed half-way; a run that is listed as such can be
   rolled back, unless a crash came before the last write of its rollback
   (repository.py:282, 568, 881, recovery.py:148). *)
ListIsTrue ==
  AtRest =>
    /\ run.avail /\ crashes = 0 => RollbackAvailable
    /\ RollbackAvailable /\ ~run.avail =>
         \A i \in Items : Succeeded(i) => row[i].undo = "done"

(* What the history says of a run at rest is true of its items and of the files:
   nothing is pending, its successes are moved, once it is called rolled back they
   are home, and its list says whether there is something to undo. *)
HistoryIsTrue == NothingPending /\ SuccessIsMoved /\ RolledBackRunIsHome /\ ListIsTrue

(* A file in quarantine has its manifest at every moment, so that a crash at any
   of them can be repaired (quarantine.py:229, 238-243, 253). *)
QuarantineTraceable ==
  \A i \in Items :
    Ops[i] = "quarantine" /\ Kept(i, "target") /\ ~Kept(i, "origin") => manifest[i].status # "none"

(* However many requests ask for it, one rollback restores an item: the others
   find it gone and say so (recovery.py:212, quarantine.py:185).  A restart credits
   every rollback it finds at work on a file that is home. *)
RestoredOnce ==
  LET entries == UNION {{<<r, k>> : k \in DOMAIN rb[r].rows} : r \in Rollbacks}
      restored(i, e) == rb[e[1]].rows[e[2]].item = i /\ rb[e[1]].rows[e[2]].state = "rolled_back"
  IN crashes = 0 /\ joins = 0 => \A i \in Items : Cardinality({e \in entries : restored(i, e)}) <= 1

(* What the rows say of rollbacks is true, whichever overlap: what is called rolled
   back is home, and one of them brought it there. *)
RollbacksAreTrue == RolledBackIsHome /\ RestoredOnce

(* Whatever crashes, every run and every rollback that begins ends. *)
RunEnds == run.state = "running" ~> run.state \notin {"none", "running"}
RollbacksEnd == \A r \in Rollbacks : rb[r].state = "rollback_running" ~> rb[r].state # "rollback_running"
WorkEnds == RunEnds /\ RollbacksEnd

---------------------------------------------------------------------------
\* What the documentation and the tests say, and the code does not keep.

(* "Rollback also refuses to overwrite existing files" (README.md:83): a whole
   file at an item's origin is never opened for writing. *)
RollbackNeverOverwrites ==
  [][\A i \in Items : fs[i]["origin"] \in {"own", "edited", "other"} => fs'[i]["origin"] # "part"]_vars

==============================================================================
