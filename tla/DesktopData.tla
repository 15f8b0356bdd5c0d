----------------------------- MODULE DesktopData -----------------------------
(***************************************************************************)
(* The files of the desktop data directory across starts and crashes of    *)
(* the sidecar: the startup sequence with its staged restore               *)
(* (desktop_runtime.py, desktop_backup.py), the maintenance lock and the   *)
(* update guard (maintenance.py), backups and the preparation of an update *)
(* as the Tauri shell drives it (lib.rs), against scans being enqueued and *)
(* claimed.                                                                *)
(*                                                                         *)
(* The database and the folder of images are modelled by where their       *)
(* content comes from: the user's data, the backup being restored, or a    *)
(* new empty database.                                                     *)
(***************************************************************************)
EXTENDS Integers, FiniteSets

CONSTANTS
    Threads,    \* request threads that export a backup or prepare an update
    MaxStarts,  \* bound on the starts of the sidecar
    MaxServed,  \* bound on the starts in which requests are made
    None

ASSUME StartsAssumption ==
    /\ MaxStarts \in Nat \ {0} /\ MaxServed \in Nat
    /\ None \notin Nat \cup Threads \cup {"user", "backup", "empty"}

VARIABLES
    proc,    \* process id of the last start and its step: "off", a startup step, "serving"
    disk,    \* the data files, the staged restore, the backups, the result file
    maint,   \* maintenance.lock: the process id in it, or None
    guard,   \* update-install.lock: likewise
    scan,    \* the scan runs: "none", "queued", "running"
    enq,     \* a request to scan: "idle", or "checked" past the maintenance check
    claim,   \* the worker's claim: likewise
    thread,  \* the export or preparation each request thread works on
    shell    \* the updater of the Tauri shell

vars == <<proc, disk, maint, guard, scan, enq, claim, thread, shell>>

files == <<disk, maint, guard>>
requests == <<enq, claim, thread, shell>>

Contents == {"user", "backup", "empty", None}
Pairs == Contents \X Contents

Free == [op |-> "none", pc |-> "idle", answer |-> "none"]
Idle == [state |-> "idle", thread |-> None, late |-> FALSE]

\* The files moved away by the restore that runs now.
Unmoved == [db |-> None, cars |-> None]

Live == <<disk.db, disk.cars>>

\* An installation with the user's data; an upgrade may find it with several
\* accounts and with the scan that its last process left behind.
Init ==
    /\ proc = [pid |-> 0, step |-> "off"]
    /\ \E legacy \in SUBSET {"user", "backup"} :
        disk = [db |-> "user", cars |-> "user", moved |-> Unmoved, pending |-> None,
                result |-> "none", backups |-> {}, legacy |-> legacy,
                before |-> <<"user", "user">>, wanted |-> <<"user", "user">>]
    /\ scan \in {"none", "queued", "running"}
    /\ maint = None /\ guard = None
    /\ enq = "idle" /\ claim = "idle"
    /\ thread = [t \in Threads |-> Free] /\ shell = Idle

----------------------------------------------------------------------------
(* The locks *)

\* Mutant: the lock files of a dead process are kept.
ClearStale_Kept(lock) == lock

\* A lock file whose process is not alive is removed at startup.
ClearStale(lock) == IF lock = proc.pid THEN lock ELSE None

MaintenanceActive == maint # None \/ guard # None

\* Mutant: the lock file is emptied, not removed.
FinishUpdateInstall_Emptied(lock) == IF lock = proc.pid THEN 0 ELSE lock

FinishUpdateInstall(lock) == IF lock = proc.pid THEN None ELSE lock

----------------------------------------------------------------------------
(* The startup sequence *)

At(step) == proc.step = step
GoTo(step) == proc' = [proc EXCEPT !.step = step]

\* One startup step: it writes the data files and goes on.
Step(from, newDisk, to) ==
    /\ At(from)
    /\ disk' = newDisk
    /\ GoTo(to)
    /\ UNCHANGED <<maint, guard, scan, requests>>

\* desktop.lock is free: the last process has ended.
Start ==
    /\ At("off") /\ proc.pid < MaxStarts
    /\ proc' = [pid |-> proc.pid + 1, step |-> "clear"]
    /\ UNCHANGED <<files, scan, requests>>

ClearStaleMaintenanceLock ==
    /\ At("clear")
    /\ maint' = ClearStale(maint) /\ guard' = ClearStale(guard)
    /\ GoTo(IF disk.pending = None THEN "init" ELSE "prepare")
    /\ UNCHANGED <<disk, scan, requests>>

Created(d) == IF d.db = None THEN [d EXCEPT !.db = "empty"] ELSE d

\* apply_pending_restore: initialize_database, interrupt_unfinished_jobs.
PrepareRestore ==
    /\ At("prepare")
    /\ disk' = Created(disk)
    /\ scan' = "none"
    /\ GoTo("rollback_lock")
    /\ UNCHANGED <<maint, guard, requests>>

\* export_backup within the startup, under the maintenance lock; it is used
\* for the rollback copy of a restore and before a legacy database is reset.
ExportLock(from, to) ==
    /\ At(from)
    /\ maint = None
    /\ maint' = proc.pid
    /\ GoTo(to)
    /\ UNCHANGED <<disk, guard, scan, requests>>

ExportLive(from, to) ==
    /\ At(from)
    /\ scan = "none"
    /\ disk' = [disk EXCEPT !.backups = @ \cup {Live}]
    /\ maint' = None
    /\ GoTo(to)
    /\ UNCHANGED <<guard, scan, requests>>

\* Mutant: nothing is exported before the switch.
RollbackExport_Skipped == Step("rollback_lock", disk, "extract")

RollbackExport ==
    \/ ExportLock("rollback_lock", "rollback_export")
    \/ ExportLive("rollback_export", "extract")

ExtractArchive == Step("extract", [disk EXCEPT !.moved = Unmoved], "move_db")

MoveDatabase ==
    Step("move_db", [disk EXCEPT !.moved.db = disk.db, !.db = None], "move_cars")

MoveCars ==
    Step("move_cars", [disk EXCEPT !.moved.cars = disk.cars, !.cars = None], "put_db")

PutDatabase == Step("put_db", [disk EXCEPT !.db = disk.pending[1]], "put_cars")

PutCars == Step("put_cars", [disk EXCEPT !.cars = disk.pending[2]], "verify")

VerifyRestored == Step("verify", disk, "discard")

DiscardOld == Step("discard", [disk EXCEPT !.moved = Unmoved], "unlink")

UnlinkPending == Step("unlink", [disk EXCEPT !.pending = None], "record")

RecordRestored == Step("record", [disk EXCEPT !.result = "restored"], "init")

Restore ==
    \/ PrepareRestore \/ RollbackExport \/ ExtractArchive \/ MoveDatabase \/ MoveCars
    \/ PutDatabase \/ PutCars \/ VerifyRestored \/ DiscardOld \/ UnlinkPending \/ RecordRestored

\* A step of the restore raises. Only the steps of the switch are undone.
RestoreFails ==
    /\ \/ /\ proc.step \in {"prepare", "rollback_lock", "rollback_export", "extract", "discard", "unlink"}
          /\ GoTo("set_aside")
       \/ /\ proc.step \in {"move_db", "move_cars", "put_db", "put_cars", "verify"}
          /\ GoTo("undo_db")
    /\ maint' = None
    /\ UNCHANGED <<disk, guard, scan, requests>>

\* The except branch of restore_backup deletes what is in place, moved there
\* by the restore or not, and then moves back what was moved away.
UndoDatabase == Step("undo_db", [disk EXCEPT !.db = None], "undo_cars")

UndoCars == Step("undo_cars", [disk EXCEPT !.cars = None], "back_db")

MoveBackDatabase ==
    Step("back_db", IF disk.moved.db = None THEN disk ELSE [disk EXCEPT !.db = disk.moved.db], "back_cars")

\* Mutant: the except branch ends without raise.
MoveBackCars_NoRaise ==
    Step("back_cars",
         [disk EXCEPT !.cars = IF disk.moved.cars = None THEN @ ELSE disk.moved.cars, !.moved = Unmoved],
         "unlink")

MoveBackCars ==
    Step("back_cars",
         [disk EXCEPT !.cars = IF disk.moved.cars = None THEN @ ELSE disk.moved.cars, !.moved = Unmoved],
         "set_aside")

Undo == UndoDatabase \/ UndoCars \/ MoveBackDatabase \/ MoveBackCars

\* A step of the except branch raises in turn.
UndoFails ==
    /\ proc.step \in {"undo_db", "undo_cars", "back_db", "back_cars"}
    /\ GoTo("set_aside")
    /\ UNCHANGED <<files, scan, requests>>

\* Mutant: the archive of a failed restore stays staged.
SetAside_Staged == Step("set_aside", [disk EXCEPT !.result = "failed"], "init")

\* apply_pending_restore renames the archive and records the failure.
SetAside == Step("set_aside", [disk EXCEPT !.pending = None, !.result = "failed"], "init")

InitializeDatabase == Step("init", Created(disk), "normalize")

\* A database with several accounts is exported and then replaced.
NormalizeDesktopWorkspace ==
    Step("normalize", disk, IF disk.db \in disk.legacy THEN "legacy_lock" ELSE "recover")

LegacyExport ==
    \/ ExportLock("legacy_lock", "legacy_export")
    \/ ExportLive("legacy_export", "reset_db")

ResetDatabase == Step("reset_db", [disk EXCEPT !.db = None], "reset_cars")

ResetCars == Step("reset_cars", Created([disk EXCEPT !.cars = None]), "recover")

\* recover_interrupted_jobs: only a run that had started is interrupted.
RecoverInterruptedJobs ==
    /\ At("recover")
    /\ scan' = IF scan = "running" THEN "none" ELSE scan
    /\ GoTo("serving")
    /\ UNCHANGED <<files, requests>>

\* The threads of an ending process are gone, its files stay.
Down ==
    /\ GoTo("off")
    /\ enq' = "idle" /\ claim' = "idle"
    /\ thread' = [t \in Threads |-> Free]
    /\ shell' = Idle

\* A crash, a kill or an exit at any step.
Crash ==
    /\ ~At("off") /\ proc.pid < MaxStarts
    /\ Down
    /\ UNCHANGED <<files, scan>>

\* export_backup refuses a database with a scan that is not over; the
\* exception ends the process, before recover_interrupted_jobs.
LegacyExportRefused ==
    /\ At("legacy_export") /\ scan # "none"
    /\ Down
    /\ maint' = None
    /\ UNCHANGED <<disk, guard, scan>>

Startup ==
    \/ Start \/ ClearStaleMaintenanceLock \/ Restore \/ Undo \/ SetAside
    \/ InitializeDatabase \/ NormalizeDesktopWorkspace \/ LegacyExport \/ LegacyExportRefused
    \/ ResetDatabase \/ ResetCars \/ RecoverInterruptedJobs

----------------------------------------------------------------------------
(* Scans and the staging of a restore while the API serves *)

Serving == At("serving")
Serves == Serving /\ proc.pid <= MaxServed

EnqueueCheck ==
    /\ Serves /\ enq = "idle" /\ ~MaintenanceActive
    /\ enq' = "checked"
    /\ UNCHANGED <<proc, files, scan, claim, thread, shell>>

EnqueueInsert ==
    /\ Serves /\ enq = "checked"
    /\ enq' = "idle"
    /\ scan' = IF scan = "none" THEN "queued" ELSE scan
    /\ UNCHANGED <<proc, files, claim, thread, shell>>

ClaimCheck ==
    /\ Serves /\ claim = "idle" /\ ~MaintenanceActive
    /\ claim' = "checked"
    /\ UNCHANGED <<proc, files, scan, enq, thread, shell>>

ClaimNextJob ==
    /\ Serves /\ claim = "checked"
    /\ claim' = "idle"
    /\ scan' = IF scan = "queued" THEN "running" ELSE scan
    /\ UNCHANGED <<proc, files, enq, thread, shell>>

ScanEnds ==
    /\ Serves /\ scan = "running"
    /\ scan' = "none"
    /\ UNCHANGED <<proc, files, requests>>

Scanning == EnqueueCheck \/ EnqueueInsert \/ ClaimCheck \/ ClaimNextJob \/ ScanEnds

\* A backup of this installation, or one imported from another computer, is
\* staged for the next start.
StageDesktopRestore ==
    /\ Serves
    /\ \E b \in disk.backups \cup {<<"backup", "backup">>} :
        disk' = [disk EXCEPT !.pending = b, !.wanted = b, !.result = "pending", !.before = Live]
    /\ UNCHANGED <<proc, maint, guard, scan, requests>>

----------------------------------------------------------------------------
(* Backups and the preparation of an update *)

InThread(t, op, pc) == Serves /\ thread[t].op = op /\ thread[t].pc = pc
Exporting(t, pc) == Serves /\ thread[t].pc = pc

NextIn(t, pc) == thread' = [thread EXCEPT ![t].pc = pc]
Reply(t, answer) ==
    thread' = [thread EXCEPT ![t] = [@ EXCEPT !.pc = "done", !.answer = answer]]

CreateDesktopBackup(t) ==
    /\ Serves /\ thread[t] = Free
    /\ thread' = [thread EXCEPT ![t] = [op |-> "backup", pc |-> "lock", answer |-> "none"]]
    /\ UNCHANGED <<proc, files, scan, enq, claim, shell>>

\* prepare_desktop_update
CountScans(t) ==
    /\ InThread(t, "update", "count")
    /\ IF scan = "none" THEN NextIn(t, "begin") ELSE Reply(t, "active")
    /\ UNCHANGED <<proc, files, scan, enq, claim, shell>>

\* O_EXCL, but a guard of this very process is taken over.
BeginUpdateInstall(t) ==
    /\ InThread(t, "update", "begin")
    /\ guard' = IF guard = None THEN proc.pid ELSE guard
    /\ NextIn(t, "recount")
    /\ UNCHANGED <<proc, disk, maint, scan, enq, claim, shell>>

RecountScans(t) ==
    /\ InThread(t, "update", "recount")
    /\ IF scan = "none"
       THEN NextIn(t, "lock") /\ UNCHANGED guard
       ELSE guard' = FinishUpdateInstall(guard) /\ Reply(t, "active")
    /\ UNCHANGED <<proc, disk, maint, scan, enq, claim, shell>>

\* export_backup in a request thread.
LockMaintenance(t) ==
    /\ Exporting(t, "lock")
    /\ IF maint = None
       THEN maint' = proc.pid /\ NextIn(t, "check")
       ELSE NextIn(t, "failed") /\ UNCHANGED maint
    /\ UNCHANGED <<proc, disk, guard, scan, enq, claim, shell>>

CheckActiveScans(t) ==
    /\ Exporting(t, "check")
    /\ IF scan = "none"
       THEN NextIn(t, "copy") /\ UNCHANGED maint
       ELSE maint' = None /\ NextIn(t, "failed")
    /\ UNCHANGED <<proc, disk, guard, scan, enq, claim, shell>>

CopyAndVerify(t) ==
    /\ Exporting(t, "copy")
    /\ maint' = None
    /\ \/ /\ disk' = [disk EXCEPT !.backups = @ \cup {Live}]
          /\ Reply(t, "ready")
       \/ NextIn(t, "failed") /\ UNCHANGED disk
    /\ UNCHANGED <<proc, guard, scan, enq, claim, shell>>

\* Mutant: a failed export leaves the guard.
ExportFailed_KeepsGuard(t) ==
    /\ Exporting(t, "failed")
    /\ Reply(t, "error")
    /\ UNCHANGED <<proc, files, scan, enq, claim, shell>>

ExportFailed(t) ==
    /\ Exporting(t, "failed")
    /\ guard' = IF thread[t].op = "update" THEN FinishUpdateInstall(guard) ELSE guard
    /\ Reply(t, "error")
    /\ UNCHANGED <<proc, disk, maint, scan, enq, claim, shell>>

Respond(t) ==
    /\ Exporting(t, "done") /\ shell.thread # t
    /\ thread' = [thread EXCEPT ![t] = Free]
    /\ UNCHANGED <<proc, files, scan, enq, claim, shell>>

Export(t) ==
    \/ CreateDesktopBackup(t) \/ CountScans(t) \/ BeginUpdateInstall(t) \/ RecountScans(t)
    \/ LockMaintenance(t) \/ CheckActiveScans(t) \/ CopyAndVerify(t) \/ ExportFailed(t) \/ Respond(t)

----------------------------------------------------------------------------
(* The updater of the Tauri shell *)

PrepareUpdateInstall(t) ==
    /\ Serves /\ shell.state = "idle" /\ thread[t] = Free
    /\ thread' = [thread EXCEPT ![t] = [op |-> "update", pc |-> "count", answer |-> "none"]]
    /\ shell' = [shell EXCEPT !.state = "preparing", !.thread = t]
    /\ UNCHANGED <<proc, files, scan, enq, claim>>

\* No answer within five minutes: the shell gives up, the thread goes on.
PrepareTimesOut ==
    /\ Serves /\ shell.state = "preparing"
    /\ shell' = [Idle EXCEPT !.late = TRUE]
    /\ UNCHANGED <<proc, files, scan, enq, claim, thread>>

PreparationAnswered(t) ==
    /\ Exporting(t, "done") /\ shell.thread = t
    /\ shell' = [shell EXCEPT !.thread = None,
                    !.state = IF thread[t].answer = "ready" THEN "downloading" ELSE "idle"]
    /\ thread' = [thread EXCEPT ![t] = Free]
    /\ UNCHANGED <<proc, files, scan, enq, claim>>

\* Two downloads failed: the guard is given back, if the request arrives.
AbortUpdateInstall ==
    /\ Serves /\ shell.state = "downloading"
    /\ \/ /\ guard' = FinishUpdateInstall(guard)
          /\ shell' = [shell EXCEPT !.state = "idle"]
       \/ shell' = [Idle EXCEPT !.late = TRUE] /\ UNCHANGED guard
    /\ UNCHANGED <<proc, disk, maint, scan, enq, claim, thread>>

\* stop_sidecar before the installer runs.
InstallUpdate ==
    /\ Serves /\ shell.state = "downloading" /\ proc.pid < MaxStarts
    /\ Down
    /\ UNCHANGED <<files, scan>>

Updater ==
    \/ \E t \in Threads : PrepareUpdateInstall(t) \/ PreparationAnswered(t)
    \/ PrepareTimesOut \/ AbortUpdateInstall \/ InstallUpdate

----------------------------------------------------------------------------

Next ==
    \/ Startup \/ RestoreFails \/ UndoFails \/ Crash
    \/ Scanning \/ StageDesktopRestore
    \/ \E t \in Threads : Export(t)
    \/ Updater

\* A process that was started goes on with its startup, and the application
\* is opened again.
Spec == Init /\ [][Next]_vars /\ WF_vars(Startup)

----------------------------------------------------------------------------
(* Properties *)

Steps ==
    {"off", "clear", "prepare", "rollback_lock", "rollback_export", "extract", "move_db", "move_cars",
     "put_db", "put_cars", "verify", "discard", "unlink", "record", "undo_db", "undo_cars", "back_db",
     "back_cars", "set_aside", "init", "normalize", "legacy_lock", "legacy_export", "reset_db",
     "reset_cars", "recover", "serving"}

Disks ==
    [db : Contents, cars : Contents, moved : [db : Contents, cars : Contents],
     pending : Pairs \cup {None}, result : {"none", "pending", "restored", "failed"},
     backups : SUBSET Pairs, legacy : SUBSET {"user", "backup"}, before : Pairs, wanted : Pairs]

Requests ==
    [op : {"none", "backup", "update"},
     pc : {"idle", "count", "begin", "recount", "lock", "check", "copy", "failed", "done"},
     answer : {"none", "active", "ready", "error"}]

Shells ==
    [state : {"idle", "preparing", "downloading"}, thread : Threads \cup {None}, late : BOOLEAN]

\* Every variable keeps its type.
TypeOK ==
    /\ proc \in [pid : 0..MaxStarts, step : Steps]
    /\ disk \in Disks
    /\ maint \in {None} \cup 1..MaxStarts /\ guard \in {None} \cup 1..MaxStarts
    /\ scan \in {"none", "queued", "running"}
    /\ enq \in {"idle", "checked"} /\ claim \in {"idle", "checked"}
    /\ thread \in [Threads -> Requests]
    /\ shell \in Shells

\* The user's database with its images is in place or in a verified backup at
\* every moment, whatever step of a restore or of the reset of a workspace
\* with several accounts the process dies at or fails at.
UserDataKept == <<"user", "user">> \in disk.backups \cup {Live}

\* A backend that serves after a restore it recorded as done serves the
\* database and the images of the archive that was chosen, never one of them
\* with what was there before (restore_backup switches two things in steps
\* and may be repeated after a crash), unless the archive itself is a
\* workspace of several accounts, which the startup then replaces.
RestoredIsWhole ==
    Serving /\ disk.result = "restored" /\ disk.wanted[1] \notin disk.legacy => Live = disk.wanted

\* Without a request of this process no lock file stops the scans for good:
\* what a dead process left behind is gone when the backend serves, and the
\* lock of maintenance is held by an export that runs.
LocksAreLive ==
    /\ Serving => maint \in {None, proc.pid} /\ guard \in {None, proc.pid}
    /\ Serving /\ maint # None => \E t \in Threads : thread[t].pc \in {"check", "copy"}

\* The guard of an update lasts as long as the update: while the shell
\* downloads or is about to install, scans are refused, and when it is idle
\* they are not, unless it gave up on a request that then went through.
GuardFollowsUpdate ==
    Serving /\ ~shell.late =>
        /\ shell.state = "downloading" => guard = proc.pid
        /\ guard # None => shell.state # "idle"

\* A staged restore is applied or set aside by the start that follows it: it
\* is not tried again at every start (apply_pending_restore).
PendingIsSettled == (At("clear") /\ disk.pending # None) ~> (disk.pending = None)

\* What docs/DATA_BACKUP_AND_MIGRATION.md promises of a restore that fails:
\* the database and the images are the ones that were there before, at least
\* when the steps that put them back do not fail as well.
FailedRestoreKeepsData ==
    Serving /\ disk.result = "failed" /\ disk.moved = Unmoved => Live = disk.before

=============================================================================
