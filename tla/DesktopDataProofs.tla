-------------------------- MODULE DesktopDataProofs --------------------------
(***************************************************************************)
(* For any number of starts and request threads: the user's data are never *)
(* without a copy, a restore is whole, no lock file outlives its process   *)
(* and the guard of an update lasts as long as the update.                 *)
(***************************************************************************)
EXTENDS DesktopData, TLAPS

----------------------------------------------------------------------------
(* The inductive invariant, in parts *)

\* The steps from the decision to restore to the removal of the archive.
RestoreSteps ==
    {"prepare", "rollback_lock", "rollback_export", "extract", "move_db", "move_cars", "put_db",
     "put_cars", "verify", "discard", "unlink", "undo_db", "undo_cars", "back_db", "back_cars",
     "set_aside"}

TypeInv ==
    /\ TypeOK
    /\ proc.pid = 0 => proc.step = "off"
    /\ proc.step \in RestoreSteps => disk.pending # None

UserCopy == <<"user", "user">>

\* The steps after an export, which may destroy what is in place.
Destructive ==
    {"extract", "move_db", "move_cars", "put_db", "put_cars", "verify", "discard", "unlink", "record",
     "undo_db", "undo_cars", "back_db", "back_cars", "reset_db", "reset_cars"}

KeptInv ==
    /\ UserDataKept
    /\ proc.step \in Destructive => UserCopy \in disk.backups

\* A restore was recorded whose archive the startup does not replace.
Restored == disk.result = "restored" /\ disk.wanted[1] \notin disk.legacy

\* The steps at which there is a database.
WithDatabase ==
    {"rollback_lock", "rollback_export", "extract", "move_db", "normalize", "legacy_lock",
     "legacy_export", "recover", "serving"}

WholeInv ==
    /\ disk.pending # None => disk.pending = disk.wanted /\ disk.result = "pending"
    /\ disk.wanted[1] # None
    /\ \A b \in disk.backups : b[1] # None
    /\ proc.step \in WithDatabase => disk.db # None
    /\ proc.step = "record" => disk.pending = None
    /\ proc.step = "put_cars" => disk.db = disk.wanted[1]
    /\ proc.step \in {"verify", "discard", "unlink", "record"} => Live = disk.wanted
    /\ proc.step \in {"legacy_lock", "legacy_export", "reset_db", "reset_cars"} => ~Restored
    /\ Restored => Live = disk.wanted

\* Lock files name this process or an earlier one; a new process finds only
\* those of earlier ones, and after its first step none of theirs.
LockInv ==
    /\ maint # None => maint <= proc.pid
    /\ guard # None => guard <= proc.pid
    /\ proc.step = "clear" => maint # proc.pid /\ guard # proc.pid
    /\ proc.step \notin {"off", "clear"} => maint \in {None, proc.pid} /\ guard \in {None, proc.pid}
    /\ proc.step \notin {"off", "clear", "serving"} =>
          /\ guard = None
          /\ maint # None => proc.step \in {"rollback_export", "legacy_export"}
    /\ proc.step # "serving" => thread = [t \in Threads |-> Free] /\ shell = Idle
    /\ proc.step = "serving" /\ maint # None => \E t \in Threads : thread[t].pc \in {"check", "copy"}

\* Where a preparation stands when it holds the guard, and when it does not.
Holds(r) == r.pc \in {"recount", "lock", "check", "copy", "failed"} \/ (r.pc = "done" /\ r.answer = "ready")
IsWithout(r) == r.pc \in {"count", "begin"} \/ (r.pc = "done" /\ r.answer # "ready")

\* While the shell has not given up on a request, an update is prepared by
\* the thread the shell waits for and by no other.
GuardInv ==
    proc.step = "serving" /\ ~shell.late =>
        /\ shell.state = "downloading" => guard = proc.pid /\ shell.thread = None
        /\ shell.state = "idle" => guard = None /\ shell.thread = None
        /\ shell.state = "preparing" =>
              /\ shell.thread \in Threads
              /\ thread[shell.thread].op = "update"
              /\ Holds(thread[shell.thread]) => guard = proc.pid
              /\ IsWithout(thread[shell.thread]) => guard = None
        /\ \A t \in Threads : thread[t].op = "update" => shell.state = "preparing" /\ shell.thread = t

----------------------------------------------------------------------------
(* Types *)

\* The files after a step that changes several of them.
LEMMA DiskType ==
  ASSUME TypeOK
  PROVE  /\ MoveDatabase => disk' \in Disks
         /\ MoveCars => disk' \in Disks
         /\ MoveBackCars => disk' \in Disks
         /\ SetAside => disk' \in Disks
         /\ ResetCars => disk' \in Disks
         /\ StageDesktopRestore => disk' \in Disks
<1> DEFINE Moved == [db : Contents, cars : Contents]
<1>1. /\ disk \in Disks /\ None \in Contents
      /\ disk.db \in Contents /\ disk.cars \in Contents /\ disk.moved \in Moved
      /\ disk.moved.cars \in Contents /\ Unmoved \in Moved
  BY SMT DEF TypeOK, Disks, Contents, Unmoved
<1>2. ASSUME MoveDatabase PROVE disk' \in Disks
  <2> DEFINE m == [disk.moved EXCEPT !.db = disk.db]
  <2>1. m \in Moved
    BY <1>1, SMT
  <2>2. disk' = [disk EXCEPT !.moved = m, !.db = None]
    BY <1>1, <1>2, SMT DEF MoveDatabase, Step, Disks
  <2> HIDE DEF m
  <2> QED BY <1>1, <2>1, <2>2, Zenon DEF Disks
<1>3. ASSUME MoveCars PROVE disk' \in Disks
  <2> DEFINE m == [disk.moved EXCEPT !.cars = disk.cars]
  <2>1. m \in Moved
    BY <1>1, SMT
  <2>2. disk' = [disk EXCEPT !.moved = m, !.cars = None]
    BY <1>1, <1>3, SMT DEF MoveCars, Step, Disks
  <2> HIDE DEF m
  <2> QED BY <1>1, <2>1, <2>2, Zenon DEF Disks
<1>4. ASSUME MoveBackCars PROVE disk' \in Disks
  <2> DEFINE cars == IF disk.moved.cars = None THEN disk.cars ELSE disk.moved.cars
  <2>1. cars \in Contents
    BY <1>1
  <2>2. disk' = [disk EXCEPT !.cars = cars, !.moved = Unmoved]
    BY <1>4 DEF MoveBackCars, Step
  <2> HIDE DEF cars
  <2> QED BY <1>1, <2>1, <2>2, Zenon DEF Disks
<1>5. ASSUME SetAside PROVE disk' \in Disks
  BY <1>1, <1>5, Zenon DEF SetAside, Step, Disks
<1>6. ASSUME ResetCars PROVE disk' \in Disks
  <2> DEFINE d == [disk EXCEPT !.cars = None]
  <2>1. d \in Disks
    BY <1>1, Zenon DEF Disks
  <2>2. disk' = IF d.db = None THEN [d EXCEPT !.db = "empty"] ELSE d
    BY <1>6 DEF ResetCars, Step, Created
  <2> HIDE DEF d
  <2>3. "empty" \in Contents
    BY DEF Contents
  <2>4. [d EXCEPT !.db = "empty"] \in Disks
    BY <2>1, <2>3, Zenon DEF Disks
  <2> QED BY <2>1, <2>2, <2>4
<1>7. ASSUME StageDesktopRestore PROVE disk' \in Disks
  <2>1. PICK b \in disk.backups \cup {<<"backup", "backup">>} :
           disk' = [disk EXCEPT !.pending = b, !.wanted = b, !.result = "pending", !.before = Live]
    BY <1>7 DEF StageDesktopRestore
  <2>2. b \in Pairs /\ Live \in Pairs
    BY <1>1, SMT DEF Disks, Pairs, Contents, Live
  <2> HIDE DEF Live
  <2> QED BY <1>1, <2>1, <2>2, Zenon DEF Disks
<1> QED BY <1>2, <1>3, <1>4, <1>5, <1>6, <1>7

\* What a process that ends leaves of its threads.
LEMMA DownType ==
  ASSUME Down
  PROVE  thread' \in [Threads -> Requests] /\ shell' \in Shells
BY SMT DEF Down, Free, Idle, Requests, Shells

\* What the shell knows after it gave up or aborted.
LEMMA ShellType ==
  ASSUME TypeOK
  PROVE  PrepareTimesOut \/ AbortUpdateInstall => shell' \in Shells
<1>1. shell \in Shells
  BY DEF TypeOK
<1>2. Idle \in Shells
  BY DEF Idle, Shells
<1>3. PrepareTimesOut => shell' \in Shells
  BY <1>2, Zenon DEF PrepareTimesOut, Shells
<1>4. AbortUpdateInstall => shell' \in Shells
  BY <1>1, <1>2, Zenon DEF AbortUpdateInstall, Shells
<1> QED BY <1>3, <1>4

\* The answers of request threads, and the exchange with the shell.
LEMMA RequestType ==
  ASSUME TypeOK, NEW t \in Threads
  PROVE  /\ \A answer \in {"none", "active", "ready", "error"} :
               Reply(t, answer) => thread' \in [Threads -> Requests]
         /\ \A pc \in {"begin", "lock", "copy", "failed"} :
               NextIn(t, pc) => thread' \in [Threads -> Requests]
         /\ PrepareUpdateInstall(t) => thread' \in [Threads -> Requests] /\ shell' \in Shells
         /\ PreparationAnswered(t) => thread' \in [Threads -> Requests] /\ shell' \in Shells
<1>1. thread \in [Threads -> Requests] /\ shell \in Shells
  BY DEF TypeOK
<1>2. ASSUME NEW answer \in {"none", "active", "ready", "error"}, Reply(t, answer)
      PROVE  thread' \in [Threads -> Requests]
  <2> DEFINE r == [thread[t] EXCEPT !.pc = "done", !.answer = answer]
  <2>1. thread[t] \in Requests
    BY <1>1
  <2>2. r \in Requests
    BY <2>1, Zenon DEF Requests
  <2>3. thread' = [thread EXCEPT ![t] = r]
    BY <1>2 DEF Reply
  <2> HIDE DEF r
  <2> QED BY <1>1, <2>2, <2>3
<1>3. ASSUME PrepareUpdateInstall(t)
      PROVE thread' \in [Threads -> Requests] /\ shell' \in Shells
  <2>1. thread' \in [Threads -> Requests]
    BY <1>1, <1>3, SMT DEF PrepareUpdateInstall, Requests
  <2>2. shell' \in Shells
    BY <1>1, <1>3, Zenon DEF PrepareUpdateInstall, Shells
  <2> QED BY <2>1, <2>2
<1>4. ASSUME PreparationAnswered(t)
      PROVE thread' \in [Threads -> Requests] /\ shell' \in Shells
  <2>1. thread' \in [Threads -> Requests]
    BY <1>1, <1>4, SMT DEF PreparationAnswered, Free, Requests
  <2>2. shell' \in Shells
    <3> DEFINE state == IF thread[t].answer = "ready" THEN "downloading" ELSE "idle"
    <3>1. shell' = [shell EXCEPT !.thread = None, !.state = state]
      BY <1>4 DEF PreparationAnswered
    <3>2. state \in {"idle", "preparing", "downloading"}
      OBVIOUS
    <3> HIDE DEF state
    <3> QED BY <1>1, <3>1, <3>2, Zenon DEF Shells
  <2> QED BY <2>1, <2>2
<1>5. ASSUME NEW pc \in {"begin", "lock", "copy", "failed"}, NextIn(t, pc)
      PROVE  thread' \in [Threads -> Requests]
  BY <1>1, <1>5, SMT DEF NextIn, Requests
<1> QED BY <1>2, <1>3, <1>4, <1>5

\* Every step keeps the types.
LEMMA TypeStep ==
  ASSUME TypeInv, Next
  PROVE  TypeInv'
<1>1. CASE Start
  BY <1>1, StartsAssumption, SMT
    DEF Start, At, requests, files, TypeInv, TypeOK, Steps, RestoreSteps
<1>2. CASE ClearStaleMaintenanceLock
  BY <1>2, StartsAssumption, SMT
    DEF ClearStaleMaintenanceLock, ClearStale, At, GoTo, requests, TypeInv, TypeOK, Steps,
        RestoreSteps
<1>3. CASE PrepareRestore
  BY <1>3, StartsAssumption, SMT
    DEF PrepareRestore, Created, At, GoTo, requests, TypeInv, TypeOK, Disks, Contents, Pairs,
        Steps, RestoreSteps
<1>4. CASE RollbackExport
  BY <1>4, StartsAssumption, SMT
    DEF RollbackExport, ExportLock, ExportLive, Live, At, GoTo, requests, TypeInv, TypeOK,
        Disks, Contents, Pairs, Steps, RestoreSteps
<1>5. CASE ExtractArchive
  BY <1>5, StartsAssumption, SMT
    DEF ExtractArchive, Step, At, GoTo, requests, Unmoved, TypeInv, TypeOK, Disks, Contents,
        Pairs, Steps, RestoreSteps
<1>6. CASE MoveDatabase
  BY <1>6, DiskType, StartsAssumption, SMT
    DEF MoveDatabase, Step, At, GoTo, requests, Unmoved, TypeInv, TypeOK, Steps, RestoreSteps
<1>7. CASE MoveCars
  BY <1>7, DiskType, StartsAssumption, SMT
    DEF MoveCars, Step, At, GoTo, requests, Unmoved, TypeInv, TypeOK, Steps, RestoreSteps
<1>8. CASE PutDatabase
  BY <1>8, StartsAssumption, SMT
    DEF PutDatabase, Step, At, GoTo, requests, Unmoved, TypeInv, TypeOK, Disks, Contents,
        Pairs, Steps, RestoreSteps
<1>9. CASE PutCars
  BY <1>9, StartsAssumption, SMT
    DEF PutCars, Step, At, GoTo, requests, Unmoved, TypeInv, TypeOK, Disks, Contents, Pairs,
        Steps, RestoreSteps
<1>10. CASE VerifyRestored
  BY <1>10, StartsAssumption, SMT
    DEF VerifyRestored, Step, At, GoTo, requests, Unmoved, TypeInv, TypeOK, Steps, RestoreSteps
<1>11. CASE DiscardOld
  BY <1>11, StartsAssumption, SMT
    DEF DiscardOld, Step, At, GoTo, requests, Unmoved, TypeInv, TypeOK, Disks, Contents, Pairs,
        Steps, RestoreSteps
<1>12. CASE UnlinkPending
  BY <1>12, StartsAssumption, SMT
    DEF UnlinkPending, Step, At, GoTo, requests, Unmoved, TypeInv, TypeOK, Disks, Contents,
        Pairs, Steps, RestoreSteps
<1>13. CASE RecordRestored
  BY <1>13, StartsAssumption, SMT
    DEF RecordRestored, Step, At, GoTo, requests, Unmoved, TypeInv, TypeOK, Disks, Contents,
        Pairs, Steps, RestoreSteps
<1>14. CASE UndoDatabase
  BY <1>14, StartsAssumption, SMT
    DEF UndoDatabase, Step, At, GoTo, requests, Unmoved, TypeInv, TypeOK, Disks, Contents,
        Pairs, Steps, RestoreSteps
<1>15. CASE UndoCars
  BY <1>15, StartsAssumption, SMT
    DEF UndoCars, Step, At, GoTo, requests, Unmoved, TypeInv, TypeOK, Disks, Contents, Pairs,
        Steps, RestoreSteps
<1>16. CASE MoveBackDatabase
  BY <1>16, StartsAssumption, SMT
    DEF MoveBackDatabase, Step, At, GoTo, requests, Unmoved, TypeInv, TypeOK, Disks, Contents,
        Pairs, Steps, RestoreSteps
<1>17. CASE MoveBackCars
  BY <1>17, DiskType, StartsAssumption, SMT
    DEF MoveBackCars, Step, At, GoTo, requests, Unmoved, TypeInv, TypeOK, Steps, RestoreSteps
<1>18. CASE SetAside
  BY <1>18, DiskType, StartsAssumption, SMT
    DEF SetAside, Step, At, GoTo, requests, Unmoved, TypeInv, TypeOK, Steps, RestoreSteps
<1>19. CASE NormalizeDesktopWorkspace
  BY <1>19, StartsAssumption, SMT
    DEF NormalizeDesktopWorkspace, Step, At, GoTo, requests, Unmoved, TypeInv, TypeOK, Steps,
        RestoreSteps
<1>20. CASE ResetDatabase
  BY <1>20, StartsAssumption, SMT
    DEF ResetDatabase, Step, At, GoTo, requests, Unmoved, TypeInv, TypeOK, Disks, Contents,
        Pairs, Steps, RestoreSteps
<1>21. CASE InitializeDatabase
  BY <1>21, StartsAssumption, SMT
    DEF InitializeDatabase, Created, Step, At, GoTo, requests, TypeInv, TypeOK, Disks,
        Contents, Pairs, Steps, RestoreSteps
<1>22. CASE ResetCars
  BY <1>22, DiskType, StartsAssumption, SMT
    DEF ResetCars, Created, Step, At, GoTo, requests, TypeInv, TypeOK, Steps, RestoreSteps
<1>23. CASE LegacyExport
  BY <1>23, StartsAssumption, SMT
    DEF LegacyExport, ExportLock, ExportLive, Live, At, GoTo, requests, TypeInv, TypeOK, Disks,
        Contents, Pairs, Steps, RestoreSteps
<1>24. CASE LegacyExportRefused
  BY <1>24, DownType, StartsAssumption, SMT
    DEF LegacyExportRefused, Down, At, GoTo, TypeInv, TypeOK, Steps, RestoreSteps
<1>25. CASE RecoverInterruptedJobs
  BY <1>25, StartsAssumption, SMT
    DEF RecoverInterruptedJobs, At, GoTo, files, requests, TypeInv, TypeOK, Steps, RestoreSteps
<1>26. CASE RestoreFails
  BY <1>26, StartsAssumption, SMT
    DEF RestoreFails, GoTo, requests, TypeInv, TypeOK, Steps, RestoreSteps
<1>27. CASE UndoFails
  BY <1>27, StartsAssumption, SMT
    DEF UndoFails, GoTo, files, requests, TypeInv, TypeOK, Steps, RestoreSteps
<1>28. CASE Crash
  BY <1>28, DownType, StartsAssumption, SMT
    DEF Crash, Down, At, GoTo, files, TypeInv, TypeOK, Steps, RestoreSteps
<1>29. CASE Scanning
  BY <1>29, StartsAssumption, SMT
    DEF Scanning, EnqueueCheck, EnqueueInsert, ClaimCheck, ClaimNextJob, ScanEnds, Serves,
        Serving, At, files, requests, TypeInv, TypeOK, Steps, RestoreSteps
<1>30. CASE StageDesktopRestore
  <2>1. disk' \in Disks
    BY <1>30, DiskType DEF TypeInv
  <2> QED
    BY <1>30, <2>1, StartsAssumption, SMT
    DEF StageDesktopRestore, Serves, Serving, At, requests, TypeInv, TypeOK, RestoreSteps
<1>31. ASSUME NEW t \in Threads, CreateDesktopBackup(t) PROVE TypeInv'
  BY <1>31, StartsAssumption, SMT
    DEF CreateDesktopBackup, Free, InThread, Exporting, NextIn, Reply, Serves, Serving, At,
        files, TypeInv, TypeOK, Disks, Requests, Contents, Pairs, Steps, RestoreSteps
<1>32. ASSUME NEW t \in Threads, CountScans(t) PROVE TypeInv'
  <2>1. thread' \in [Threads -> Requests]
    BY <1>32, RequestType DEF TypeInv, CountScans
  <2> QED
    BY <1>32, <2>1, StartsAssumption, SMT
    DEF CountScans, InThread, Exporting, Serves, Serving, At, files, TypeInv, TypeOK,
        RestoreSteps
<1>33. ASSUME NEW t \in Threads, BeginUpdateInstall(t) PROVE TypeInv'
  BY <1>33, StartsAssumption, SMT
    DEF BeginUpdateInstall, InThread, Exporting, NextIn, Reply, Serves, Serving, At, files,
        TypeInv, TypeOK, Disks, Requests, Contents, Pairs, Steps, RestoreSteps
<1>34. ASSUME NEW t \in Threads, RecountScans(t) PROVE TypeInv'
  <2>1. thread' \in [Threads -> Requests]
    BY <1>34, RequestType DEF TypeInv, RecountScans
  <2> QED
    BY <1>34, <2>1, StartsAssumption, SMT
    DEF RecountScans, FinishUpdateInstall, InThread, Exporting, Serves, Serving, At, files, TypeInv, TypeOK,
        RestoreSteps
<1>35. ASSUME NEW t \in Threads, LockMaintenance(t) PROVE TypeInv'
  BY <1>35, StartsAssumption, SMT
    DEF LockMaintenance, InThread, Exporting, NextIn, Reply, Serves, Serving, At, files,
        TypeInv, TypeOK, Disks, Requests, Contents, Pairs, Steps, RestoreSteps
<1>36. ASSUME NEW t \in Threads, CheckActiveScans(t) PROVE TypeInv'
  BY <1>36, StartsAssumption, SMT
    DEF CheckActiveScans, InThread, Exporting, NextIn, Reply, Serves, Serving, At, files,
        TypeInv, TypeOK, Disks, Requests, Contents, Pairs, Steps, RestoreSteps
<1>37. ASSUME NEW t \in Threads, CopyAndVerify(t) PROVE TypeInv'
  <2>1. thread' \in [Threads -> Requests]
    BY <1>37, RequestType DEF TypeInv, CopyAndVerify
  <2> QED
    BY <1>37, <2>1, StartsAssumption, SMT
    DEF CopyAndVerify, Live, Disks, Contents, Pairs, InThread, Exporting, Serves, Serving, At, files, TypeInv, TypeOK,
        RestoreSteps
<1>38. ASSUME NEW t \in Threads, ExportFailed(t) PROVE TypeInv'
  <2>1. thread' \in [Threads -> Requests]
    BY <1>38, RequestType DEF TypeInv, ExportFailed
  <2> QED
    BY <1>38, <2>1, StartsAssumption, SMT
    DEF ExportFailed, FinishUpdateInstall, Exporting, Serves, Serving, At, files, TypeInv, TypeOK,
        RestoreSteps
<1>39. ASSUME NEW t \in Threads, Respond(t) PROVE TypeInv'
  BY <1>39, StartsAssumption, SMT
    DEF Respond, Free, InThread, Exporting, NextIn, Reply, Serves, Serving, At, files, TypeInv,
        TypeOK, Disks, Requests, Contents, Pairs, Steps, RestoreSteps
<1>40. ASSUME NEW t \in Threads, PrepareUpdateInstall(t) PROVE TypeInv'
  <2>1. thread' \in [Threads -> Requests] /\ shell' \in Shells
    BY <1>40, RequestType DEF TypeInv
  <2> QED
    BY <1>40, <2>1, StartsAssumption, SMT
    DEF PrepareUpdateInstall, Exporting, Serves, Serving, At, files, TypeInv, TypeOK,
        RestoreSteps
<1>41. ASSUME NEW t \in Threads, PreparationAnswered(t) PROVE TypeInv'
  <2>1. thread' \in [Threads -> Requests] /\ shell' \in Shells
    BY <1>41, RequestType DEF TypeInv
  <2> QED
    BY <1>41, <2>1, StartsAssumption, SMT
    DEF PreparationAnswered, Exporting, Serves, Serving, At, files, TypeInv, TypeOK,
        RestoreSteps
<1>42. CASE PrepareTimesOut
  BY <1>42, ShellType, StartsAssumption, SMT
    DEF PrepareTimesOut, Idle, Serves, Serving, At, files, TypeInv, TypeOK, Steps, RestoreSteps
<1>43. CASE AbortUpdateInstall
  BY <1>43, ShellType, StartsAssumption, SMT
    DEF AbortUpdateInstall, FinishUpdateInstall, Idle, Serves, Serving, At, TypeInv, TypeOK,
        Steps, RestoreSteps
<1>44. CASE InstallUpdate
  BY <1>44, DownType, StartsAssumption, SMT
    DEF InstallUpdate, Down, Serves, Serving, At, GoTo, files, TypeInv, TypeOK, Steps,
        RestoreSteps
<1> QED
  BY <1>1, <1>2, <1>3, <1>4, <1>5, <1>6, <1>7, <1>8, <1>9, <1>10, <1>11, <1>12, <1>13, <1>14,
     <1>15, <1>16, <1>17, <1>18, <1>19, <1>20, <1>21, <1>22, <1>23, <1>24, <1>25, <1>26, <1>27,
     <1>28, <1>29, <1>30, <1>31, <1>32, <1>33, <1>34, <1>35, <1>36, <1>37, <1>38, <1>39, <1>40,
     <1>41, <1>42, <1>43, <1>44
  DEF Next, Startup, Restore, Undo, Export, Updater

----------------------------------------------------------------------------
(* The data files *)

\* The steps that leave the data files and the startup alone.
LEMMA QuietSteps ==
  ASSUME Next
  PROVE  \/ Startup \/ RestoreFails \/ UndoFails \/ Crash \/ InstallUpdate \/ StageDesktopRestore
         \/ \E t \in Threads : CopyAndVerify(t)
         \/ UNCHANGED <<proc, disk>>
<1>1. ASSUME NEW t \in Threads, Export(t) PROVE CopyAndVerify(t) \/ UNCHANGED <<proc, disk>>
  BY <1>1
  DEF Export, CreateDesktopBackup, CountScans, BeginUpdateInstall, RecountScans, LockMaintenance,
      CheckActiveScans, ExportFailed, Respond, files
<1>2. Updater => InstallUpdate \/ UNCHANGED <<proc, disk>>
  BY DEF Updater, PrepareUpdateInstall, PreparationAnswered, PrepareTimesOut, AbortUpdateInstall, files
<1>3. Scanning => UNCHANGED <<proc, disk>>
  BY DEF Scanning, EnqueueCheck, EnqueueInsert, ClaimCheck, ClaimNextJob, ScanEnds, files
<1> QED BY <1>1, <1>2, <1>3 DEF Next

\* No step loses the last copy of the user's data.
LEMMA KeptStep ==
  ASSUME TypeInv, KeptInv, Next
  PROVE  KeptInv'
<1>1. CASE UNCHANGED <<proc, disk>>
  BY <1>1 DEF KeptInv, UserDataKept, UserCopy, Destructive, Live
<1>2. CASE Start
  BY <1>2, StartsAssumption, SMT
    DEF Start, At, files, KeptInv, UserDataKept, UserCopy, Destructive, Live, TypeInv, TypeOK,
        Disks
<1>3. CASE ClearStaleMaintenanceLock
  BY <1>3, StartsAssumption, SMT
    DEF ClearStaleMaintenanceLock, ClearStale, At, GoTo, KeptInv, UserDataKept, UserCopy,
        Destructive, Live, TypeInv, TypeOK, Disks
<1>4. CASE PrepareRestore
  BY <1>4, StartsAssumption, SMT
    DEF PrepareRestore, Created, At, GoTo, KeptInv, UserDataKept, UserCopy, Destructive, Live,
        TypeInv, TypeOK, Disks
<1>5. CASE RollbackExport
  BY <1>5, StartsAssumption, SMT
    DEF RollbackExport, ExportLock, ExportLive, Live, At, GoTo, KeptInv, UserDataKept,
        UserCopy, Destructive, TypeInv, TypeOK, Disks
<1>6. CASE ExtractArchive
  BY <1>6, StartsAssumption, SMT
    DEF ExtractArchive, Step, At, GoTo, KeptInv, UserDataKept, UserCopy, Destructive, Live,
        TypeInv, TypeOK, Disks
<1>7. CASE MoveDatabase
  BY <1>7, StartsAssumption, SMT
    DEF MoveDatabase, Step, At, GoTo, KeptInv, UserDataKept, UserCopy, Destructive, Live,
        TypeInv, TypeOK, Disks
<1>8. CASE MoveCars
  BY <1>8, StartsAssumption, SMT
    DEF MoveCars, Step, At, GoTo, KeptInv, UserDataKept, UserCopy, Destructive, Live, TypeInv,
        TypeOK, Disks
<1>9. CASE PutDatabase
  BY <1>9, StartsAssumption, SMT
    DEF PutDatabase, Step, At, GoTo, KeptInv, UserDataKept, UserCopy, Destructive, Live,
        TypeInv, TypeOK, Disks
<1>10. CASE PutCars
  BY <1>10, StartsAssumption, SMT
    DEF PutCars, Step, At, GoTo, KeptInv, UserDataKept, UserCopy, Destructive, Live, TypeInv,
        TypeOK, Disks
<1>11. CASE VerifyRestored
  BY <1>11, StartsAssumption, SMT
    DEF VerifyRestored, Step, At, GoTo, KeptInv, UserDataKept, UserCopy, Destructive, Live,
        TypeInv, TypeOK, Disks
<1>12. CASE DiscardOld
  BY <1>12, StartsAssumption, SMT
    DEF DiscardOld, Step, At, GoTo, KeptInv, UserDataKept, UserCopy, Destructive, Live,
        TypeInv, TypeOK, Disks
<1>13. CASE UnlinkPending
  BY <1>13, StartsAssumption, SMT
    DEF UnlinkPending, Step, At, GoTo, KeptInv, UserDataKept, UserCopy, Destructive, Live,
        TypeInv, TypeOK, Disks
<1>14. CASE RecordRestored
  BY <1>14, StartsAssumption, SMT
    DEF RecordRestored, Step, At, GoTo, KeptInv, UserDataKept, UserCopy, Destructive, Live,
        TypeInv, TypeOK, Disks
<1>15. CASE UndoDatabase
  BY <1>15, StartsAssumption, SMT
    DEF UndoDatabase, Step, At, GoTo, KeptInv, UserDataKept, UserCopy, Destructive, Live,
        TypeInv, TypeOK, Disks
<1>16. CASE UndoCars
  BY <1>16, StartsAssumption, SMT
    DEF UndoCars, Step, At, GoTo, KeptInv, UserDataKept, UserCopy, Destructive, Live, TypeInv,
        TypeOK, Disks
<1>17. CASE MoveBackDatabase
  BY <1>17, StartsAssumption, SMT
    DEF MoveBackDatabase, Step, At, GoTo, KeptInv, UserDataKept, UserCopy, Destructive, Live,
        TypeInv, TypeOK, Disks
<1>18. CASE MoveBackCars
  BY <1>18, StartsAssumption, SMT
    DEF MoveBackCars, Step, At, GoTo, KeptInv, UserDataKept, UserCopy, Destructive, Live,
        TypeInv, TypeOK, Disks
<1>19. CASE SetAside
  BY <1>19, StartsAssumption, SMT
    DEF SetAside, Step, At, GoTo, KeptInv, UserDataKept, UserCopy, Destructive, Live, TypeInv,
        TypeOK, Disks
<1>20. CASE NormalizeDesktopWorkspace
  BY <1>20, StartsAssumption, SMT
    DEF NormalizeDesktopWorkspace, Step, At, GoTo, KeptInv, UserDataKept, UserCopy,
        Destructive, Live, TypeInv, TypeOK, Disks
<1>21. CASE ResetDatabase
  BY <1>21, StartsAssumption, SMT
    DEF ResetDatabase, Step, At, GoTo, KeptInv, UserDataKept, UserCopy, Destructive, Live,
        TypeInv, TypeOK, Disks
<1>22. CASE InitializeDatabase
  BY <1>22, StartsAssumption, SMT
    DEF InitializeDatabase, Created, Step, At, GoTo, KeptInv, UserDataKept, UserCopy,
        Destructive, Live, TypeInv, TypeOK, Disks
<1>23. CASE ResetCars
  BY <1>23, StartsAssumption, SMT
    DEF ResetCars, Created, Step, At, GoTo, KeptInv, UserDataKept, UserCopy, Destructive, Live,
        TypeInv, TypeOK, Disks
<1>24. CASE LegacyExport
  BY <1>24, StartsAssumption, SMT
    DEF LegacyExport, ExportLock, ExportLive, Live, At, GoTo, KeptInv, UserDataKept, UserCopy,
        Destructive, TypeInv, TypeOK, Disks
<1>25. CASE LegacyExportRefused
  BY <1>25, StartsAssumption, SMT
    DEF LegacyExportRefused, Down, At, GoTo, KeptInv, UserDataKept, UserCopy, Destructive,
        Live, TypeInv, TypeOK, Disks
<1>26. CASE RecoverInterruptedJobs
  BY <1>26, StartsAssumption, SMT
    DEF RecoverInterruptedJobs, At, GoTo, files, KeptInv, UserDataKept, UserCopy, Destructive,
        Live, TypeInv, TypeOK, Disks
<1>27. CASE RestoreFails
  BY <1>27, StartsAssumption, SMT
    DEF RestoreFails, GoTo, KeptInv, UserDataKept, UserCopy, Destructive, Live, TypeInv,
        TypeOK, Disks
<1>28. CASE UndoFails
  BY <1>28, StartsAssumption, SMT
    DEF UndoFails, GoTo, files, KeptInv, UserDataKept, UserCopy, Destructive, Live, TypeInv,
        TypeOK, Disks
<1>29. CASE Crash
  BY <1>29, StartsAssumption, SMT
    DEF Crash, Down, At, GoTo, files, KeptInv, UserDataKept, UserCopy, Destructive, Live,
        TypeInv, TypeOK, Disks
<1>30. CASE StageDesktopRestore
  BY <1>30, StartsAssumption, SMT
    DEF StageDesktopRestore, Serves, Serving, At, Live, KeptInv, UserDataKept, UserCopy,
        Destructive, TypeInv, TypeOK, Disks
<1>31. ASSUME NEW t \in Threads, CopyAndVerify(t) PROVE KeptInv'
  BY <1>31, StartsAssumption, SMT
    DEF CopyAndVerify, Live, Exporting, Serves, Serving, At, files, KeptInv, UserDataKept,
        UserCopy, Destructive, TypeInv, TypeOK, Disks
<1>32. CASE InstallUpdate
  BY <1>32, StartsAssumption, SMT
    DEF InstallUpdate, Down, Serves, Serving, At, GoTo, files, KeptInv, UserDataKept, UserCopy,
        Destructive, Live, TypeInv, TypeOK, Disks
<1> QED
  BY QuietSteps, <1>1, <1>2, <1>3, <1>4, <1>5, <1>6, <1>7, <1>8, <1>9, <1>10, <1>11, <1>12,
     <1>13, <1>14, <1>15, <1>16, <1>17, <1>18, <1>19, <1>20, <1>21, <1>22, <1>23, <1>24, <1>25,
     <1>26, <1>27, <1>28, <1>29, <1>30, <1>31, <1>32
  DEF Startup, Restore, Undo

\* No step mixes an archive with what was there before.
LEMMA WholeStep ==
  ASSUME TypeInv, WholeInv, Next
  PROVE  WholeInv'
<1>1. CASE UNCHANGED <<proc, disk>>
  BY <1>1 DEF WholeInv, WithDatabase, Restored, RestoreSteps, Live
<1>2. CASE Start
  BY <1>2, StartsAssumption, SMT
    DEF Start, At, files, WholeInv, WithDatabase, Restored, RestoreSteps, Live, TypeInv,
        TypeOK, Disks, Contents, Pairs
<1>3. CASE ClearStaleMaintenanceLock
  BY <1>3, StartsAssumption, SMT
    DEF ClearStaleMaintenanceLock, ClearStale, At, GoTo, WholeInv, WithDatabase, Restored,
        RestoreSteps, Live, TypeInv, TypeOK, Disks, Contents, Pairs
<1>4. CASE PrepareRestore
  BY <1>4, StartsAssumption, SMT
    DEF PrepareRestore, Created, At, GoTo, WholeInv, WithDatabase, Restored, RestoreSteps,
        Live, TypeInv, TypeOK, Disks, Contents, Pairs
<1>5. CASE RollbackExport
  BY <1>5, StartsAssumption, SMT
    DEF RollbackExport, ExportLock, ExportLive, Live, At, GoTo, WholeInv, WithDatabase,
        Restored, RestoreSteps, TypeInv, TypeOK, Disks, Contents, Pairs
<1>6. CASE ExtractArchive
  BY <1>6, StartsAssumption, SMT
    DEF ExtractArchive, Step, At, GoTo, WholeInv, WithDatabase, Restored, RestoreSteps, Live,
        TypeInv, TypeOK, Disks, Contents, Pairs
<1>7. CASE MoveDatabase
  BY <1>7, StartsAssumption, SMT
    DEF MoveDatabase, Step, At, GoTo, WholeInv, WithDatabase, Restored, RestoreSteps, Live,
        TypeInv, TypeOK, Disks, Contents, Pairs
<1>8. CASE MoveCars
  BY <1>8, StartsAssumption, SMT
    DEF MoveCars, Step, At, GoTo, WholeInv, WithDatabase, Restored, RestoreSteps, Live,
        TypeInv, TypeOK, Disks, Contents, Pairs
<1>9. CASE PutDatabase
  BY <1>9, StartsAssumption, SMT
    DEF PutDatabase, Step, At, GoTo, WholeInv, WithDatabase, Restored, RestoreSteps, Live,
        TypeInv, TypeOK, Disks, Contents, Pairs
<1>10. CASE PutCars
  BY <1>10, StartsAssumption, SMT
    DEF PutCars, Step, At, GoTo, WholeInv, WithDatabase, Restored, RestoreSteps, Live, TypeInv,
        TypeOK, Disks, Contents, Pairs
<1>11. CASE VerifyRestored
  BY <1>11, StartsAssumption, SMT
    DEF VerifyRestored, Step, At, GoTo, WholeInv, WithDatabase, Restored, RestoreSteps, Live,
        TypeInv, TypeOK, Disks, Contents, Pairs
<1>12. CASE DiscardOld
  BY <1>12, StartsAssumption, SMT
    DEF DiscardOld, Step, At, GoTo, WholeInv, WithDatabase, Restored, RestoreSteps, Live,
        TypeInv, TypeOK, Disks, Contents, Pairs
<1>13. CASE UnlinkPending
  BY <1>13, StartsAssumption, SMT
    DEF UnlinkPending, Step, At, GoTo, WholeInv, WithDatabase, Restored, RestoreSteps, Live,
        TypeInv, TypeOK, Disks, Contents, Pairs
<1>14. CASE RecordRestored
  BY <1>14, StartsAssumption, SMT
    DEF RecordRestored, Step, At, GoTo, WholeInv, WithDatabase, Restored, RestoreSteps, Live,
        TypeInv, TypeOK, Disks, Contents, Pairs
<1>15. CASE UndoDatabase
  BY <1>15, StartsAssumption, SMT
    DEF UndoDatabase, Step, At, GoTo, WholeInv, WithDatabase, Restored, RestoreSteps, Live,
        TypeInv, TypeOK, Disks, Contents, Pairs
<1>16. CASE UndoCars
  BY <1>16, StartsAssumption, SMT
    DEF UndoCars, Step, At, GoTo, WholeInv, WithDatabase, Restored, RestoreSteps, Live,
        TypeInv, TypeOK, Disks, Contents, Pairs
<1>17. CASE MoveBackDatabase
  BY <1>17, StartsAssumption, SMT
    DEF MoveBackDatabase, Step, At, GoTo, WholeInv, WithDatabase, Restored, RestoreSteps, Live,
        TypeInv, TypeOK, Disks, Contents, Pairs
<1>18. CASE MoveBackCars
  BY <1>18, StartsAssumption, SMT
    DEF MoveBackCars, Step, At, GoTo, WholeInv, WithDatabase, Restored, RestoreSteps, Live,
        TypeInv, TypeOK, Disks, Contents, Pairs
<1>19. CASE SetAside
  BY <1>19, StartsAssumption, SMT
    DEF SetAside, Step, At, GoTo, WholeInv, WithDatabase, Restored, RestoreSteps, Live,
        TypeInv, TypeOK, Disks, Contents, Pairs
<1>20. CASE NormalizeDesktopWorkspace
  BY <1>20, StartsAssumption, SMT
    DEF NormalizeDesktopWorkspace, Step, At, GoTo, WholeInv, WithDatabase, Restored,
        RestoreSteps, Live, TypeInv, TypeOK, Disks, Contents, Pairs
<1>21. CASE ResetDatabase
  BY <1>21, StartsAssumption, SMT
    DEF ResetDatabase, Step, At, GoTo, WholeInv, WithDatabase, Restored, RestoreSteps, Live,
        TypeInv, TypeOK, Disks, Contents, Pairs
<1>22. CASE InitializeDatabase
  BY <1>22, StartsAssumption, SMT
    DEF InitializeDatabase, Created, Step, At, GoTo, WholeInv, WithDatabase, Restored,
        RestoreSteps, Live, TypeInv, TypeOK, Disks, Contents, Pairs
<1>23. CASE ResetCars
  BY <1>23, StartsAssumption, SMT
    DEF ResetCars, Created, Step, At, GoTo, WholeInv, WithDatabase, Restored, RestoreSteps,
        Live, TypeInv, TypeOK, Disks, Contents, Pairs
<1>24. CASE LegacyExport
  BY <1>24, StartsAssumption, SMT
    DEF LegacyExport, ExportLock, ExportLive, Live, At, GoTo, WholeInv, WithDatabase, Restored,
        RestoreSteps, TypeInv, TypeOK, Disks, Contents, Pairs
<1>25. CASE LegacyExportRefused
  BY <1>25, StartsAssumption, SMT
    DEF LegacyExportRefused, Down, At, GoTo, WholeInv, WithDatabase, Restored, RestoreSteps,
        Live, TypeInv, TypeOK, Disks, Contents, Pairs
<1>26. CASE RecoverInterruptedJobs
  BY <1>26, StartsAssumption, SMT
    DEF RecoverInterruptedJobs, At, GoTo, files, WholeInv, WithDatabase, Restored,
        RestoreSteps, Live, TypeInv, TypeOK, Disks, Contents, Pairs
<1>27. CASE RestoreFails
  BY <1>27, StartsAssumption, SMT
    DEF RestoreFails, GoTo, WholeInv, WithDatabase, Restored, RestoreSteps, Live, TypeInv,
        TypeOK, Disks, Contents, Pairs
<1>28. CASE UndoFails
  BY <1>28, StartsAssumption, SMT
    DEF UndoFails, GoTo, files, WholeInv, WithDatabase, Restored, RestoreSteps, Live, TypeInv,
        TypeOK, Disks, Contents, Pairs
<1>29. CASE Crash
  BY <1>29, StartsAssumption, SMT
    DEF Crash, Down, At, GoTo, files, WholeInv, WithDatabase, Restored, RestoreSteps, Live,
        TypeInv, TypeOK, Disks, Contents, Pairs
<1>30. CASE StageDesktopRestore
  BY <1>30, StartsAssumption, SMT
    DEF StageDesktopRestore, Serves, Serving, At, Live, WholeInv, WithDatabase, Restored,
        RestoreSteps, TypeInv, TypeOK, Disks, Contents, Pairs
<1>31. ASSUME NEW t \in Threads, CopyAndVerify(t) PROVE WholeInv'
  BY <1>31, StartsAssumption, SMT
    DEF CopyAndVerify, Live, Exporting, Serves, Serving, At, files, WholeInv, WithDatabase,
        Restored, RestoreSteps, TypeInv, TypeOK, Disks, Contents, Pairs
<1>32. CASE InstallUpdate
  BY <1>32, StartsAssumption, SMT
    DEF InstallUpdate, Down, Serves, Serving, At, GoTo, files, WholeInv, WithDatabase,
        Restored, RestoreSteps, Live, TypeInv, TypeOK, Disks, Contents, Pairs
<1> QED
  BY QuietSteps, <1>1, <1>2, <1>3, <1>4, <1>5, <1>6, <1>7, <1>8, <1>9, <1>10, <1>11, <1>12,
     <1>13, <1>14, <1>15, <1>16, <1>17, <1>18, <1>19, <1>20, <1>21, <1>22, <1>23, <1>24, <1>25,
     <1>26, <1>27, <1>28, <1>29, <1>30, <1>31, <1>32
  DEF Startup, Restore, Undo

----------------------------------------------------------------------------
(* The lock files *)

\* No step leaves a lock file of a dead process behind, or one that nobody will remove.
LEMMA LockStep ==
  ASSUME TypeInv, LockInv, Next
  PROVE  LockInv'
<1>1. CASE Start
  BY <1>1, StartsAssumption, SMT
    DEF Start, At, requests, files, LockInv, TypeInv, TypeOK, Requests, Steps, Free, Idle
<1>2. CASE ClearStaleMaintenanceLock
  BY <1>2, StartsAssumption, SMT
    DEF ClearStaleMaintenanceLock, ClearStale, At, GoTo, requests, LockInv, TypeInv, TypeOK,
        Requests, Steps, Free, Idle
<1>3. CASE PrepareRestore
  BY <1>3, StartsAssumption, SMT
    DEF PrepareRestore, Created, At, GoTo, requests, LockInv, TypeInv, TypeOK, Requests, Steps,
        Free, Idle
<1>4. CASE RollbackExport
  BY <1>4, StartsAssumption, SMT
    DEF RollbackExport, ExportLock, ExportLive, Live, At, GoTo, requests, LockInv, TypeInv,
        TypeOK, Requests, Steps, Free, Idle
<1>5. CASE ExtractArchive
  BY <1>5, StartsAssumption, SMT
    DEF ExtractArchive, Step, At, GoTo, requests, Unmoved, LockInv, TypeInv, TypeOK, Requests,
        Steps, Free, Idle
<1>6. CASE MoveDatabase
  BY <1>6, StartsAssumption, SMT
    DEF MoveDatabase, Step, At, GoTo, requests, Unmoved, LockInv, TypeInv, TypeOK, Requests,
        Steps, Free, Idle
<1>7. CASE MoveCars
  BY <1>7, StartsAssumption, SMT
    DEF MoveCars, Step, At, GoTo, requests, Unmoved, LockInv, TypeInv, TypeOK, Requests, Steps,
        Free, Idle
<1>8. CASE PutDatabase
  BY <1>8, StartsAssumption, SMT
    DEF PutDatabase, Step, At, GoTo, requests, Unmoved, LockInv, TypeInv, TypeOK, Requests,
        Steps, Free, Idle
<1>9. CASE PutCars
  BY <1>9, StartsAssumption, SMT
    DEF PutCars, Step, At, GoTo, requests, Unmoved, LockInv, TypeInv, TypeOK, Requests, Steps,
        Free, Idle
<1>10. CASE VerifyRestored
  BY <1>10, StartsAssumption, SMT
    DEF VerifyRestored, Step, At, GoTo, requests, Unmoved, LockInv, TypeInv, TypeOK, Requests,
        Steps, Free, Idle
<1>11. CASE DiscardOld
  BY <1>11, StartsAssumption, SMT
    DEF DiscardOld, Step, At, GoTo, requests, Unmoved, LockInv, TypeInv, TypeOK, Requests,
        Steps, Free, Idle
<1>12. CASE UnlinkPending
  BY <1>12, StartsAssumption, SMT
    DEF UnlinkPending, Step, At, GoTo, requests, Unmoved, LockInv, TypeInv, TypeOK, Requests,
        Steps, Free, Idle
<1>13. CASE RecordRestored
  BY <1>13, StartsAssumption, SMT
    DEF RecordRestored, Step, At, GoTo, requests, Unmoved, LockInv, TypeInv, TypeOK, Requests,
        Steps, Free, Idle
<1>14. CASE UndoDatabase
  BY <1>14, StartsAssumption, SMT
    DEF UndoDatabase, Step, At, GoTo, requests, Unmoved, LockInv, TypeInv, TypeOK, Requests,
        Steps, Free, Idle
<1>15. CASE UndoCars
  BY <1>15, StartsAssumption, SMT
    DEF UndoCars, Step, At, GoTo, requests, Unmoved, LockInv, TypeInv, TypeOK, Requests, Steps,
        Free, Idle
<1>16. CASE MoveBackDatabase
  BY <1>16, StartsAssumption, SMT
    DEF MoveBackDatabase, Step, At, GoTo, requests, Unmoved, LockInv, TypeInv, TypeOK,
        Requests, Steps, Free, Idle
<1>17. CASE MoveBackCars
  BY <1>17, StartsAssumption, SMT
    DEF MoveBackCars, Step, At, GoTo, requests, Unmoved, LockInv, TypeInv, TypeOK, Requests,
        Steps, Free, Idle
<1>18. CASE SetAside
  BY <1>18, StartsAssumption, SMT
    DEF SetAside, Step, At, GoTo, requests, Unmoved, LockInv, TypeInv, TypeOK, Requests, Steps,
        Free, Idle
<1>19. CASE NormalizeDesktopWorkspace
  BY <1>19, StartsAssumption, SMT
    DEF NormalizeDesktopWorkspace, Step, At, GoTo, requests, Unmoved, LockInv, TypeInv, TypeOK,
        Requests, Steps, Free, Idle
<1>20. CASE ResetDatabase
  BY <1>20, StartsAssumption, SMT
    DEF ResetDatabase, Step, At, GoTo, requests, Unmoved, LockInv, TypeInv, TypeOK, Requests,
        Steps, Free, Idle
<1>21. CASE InitializeDatabase
  BY <1>21, StartsAssumption, SMT
    DEF InitializeDatabase, Created, Step, At, GoTo, requests, LockInv, TypeInv, TypeOK,
        Requests, Steps, Free, Idle
<1>22. CASE ResetCars
  BY <1>22, StartsAssumption, SMT
    DEF ResetCars, Created, Step, At, GoTo, requests, LockInv, TypeInv, TypeOK, Requests,
        Steps, Free, Idle
<1>23. CASE LegacyExport
  BY <1>23, StartsAssumption, SMT
    DEF LegacyExport, ExportLock, ExportLive, Live, At, GoTo, requests, LockInv, TypeInv,
        TypeOK, Requests, Steps, Free, Idle
<1>24. CASE LegacyExportRefused
  BY <1>24, StartsAssumption, SMT
    DEF LegacyExportRefused, Down, At, GoTo, LockInv, TypeInv, TypeOK, Requests, Steps, Free,
        Idle
<1>25. CASE RecoverInterruptedJobs
  BY <1>25, StartsAssumption, SMT
    DEF RecoverInterruptedJobs, At, GoTo, files, requests, LockInv, TypeInv, TypeOK, Requests,
        Steps, Free, Idle
<1>26. CASE RestoreFails
  BY <1>26, StartsAssumption, SMT
    DEF RestoreFails, GoTo, requests, LockInv, TypeInv, TypeOK, Requests, Steps, Free, Idle
<1>27. CASE UndoFails
  BY <1>27, StartsAssumption, SMT
    DEF UndoFails, GoTo, files, requests, LockInv, TypeInv, TypeOK, Requests, Steps, Free, Idle
<1>28. CASE Crash
  BY <1>28, StartsAssumption, SMT
    DEF Crash, Down, At, GoTo, files, LockInv, TypeInv, TypeOK, Requests, Steps, Free, Idle
<1>29. CASE Scanning
  BY <1>29, StartsAssumption, SMT
    DEF Scanning, EnqueueCheck, EnqueueInsert, ClaimCheck, ClaimNextJob, ScanEnds, Serves,
        Serving, At, files, requests, LockInv, TypeInv, TypeOK, Requests, Steps, Free, Idle
<1>30. CASE StageDesktopRestore
  BY <1>30, StartsAssumption, SMT
    DEF StageDesktopRestore, Serves, Serving, At, Live, requests, LockInv, TypeInv, TypeOK,
        Requests, Steps, Free, Idle
<1>31. ASSUME NEW t \in Threads, CreateDesktopBackup(t) PROVE LockInv'
  BY <1>31, StartsAssumption, SMT
    DEF CreateDesktopBackup, Free, InThread, Exporting, NextIn, Reply, Serves, Serving, At,
        files, LockInv, TypeInv, TypeOK, Requests, Steps, Idle
<1>32. ASSUME NEW t \in Threads, CountScans(t) PROVE LockInv'
  BY <1>32, StartsAssumption, SMT
    DEF CountScans, InThread, Exporting, NextIn, Reply, Serves, Serving, At, files, LockInv,
        TypeInv, TypeOK, Requests, Steps, Free, Idle
<1>33. ASSUME NEW t \in Threads, BeginUpdateInstall(t) PROVE LockInv'
  BY <1>33, StartsAssumption, SMT
    DEF BeginUpdateInstall, InThread, Exporting, NextIn, Reply, Serves, Serving, At, files,
        LockInv, TypeInv, TypeOK, Requests, Steps, Free, Idle
<1>34. ASSUME NEW t \in Threads, RecountScans(t) PROVE LockInv'
  BY <1>34, StartsAssumption, SMT
    DEF RecountScans, FinishUpdateInstall, InThread, Exporting, NextIn, Reply, Serves, Serving,
        At, files, LockInv, TypeInv, TypeOK, Requests, Steps, Free, Idle
<1>35. ASSUME NEW t \in Threads, LockMaintenance(t) PROVE LockInv'
  BY <1>35, StartsAssumption, SMT
    DEF LockMaintenance, InThread, Exporting, NextIn, Reply, Serves, Serving, At, files,
        LockInv, TypeInv, TypeOK, Requests, Steps, Free, Idle
<1>36. ASSUME NEW t \in Threads, CheckActiveScans(t) PROVE LockInv'
  BY <1>36, StartsAssumption, SMT
    DEF CheckActiveScans, InThread, Exporting, NextIn, Reply, Serves, Serving, At, files,
        LockInv, TypeInv, TypeOK, Requests, Steps, Free, Idle
<1>37. ASSUME NEW t \in Threads, CopyAndVerify(t) PROVE LockInv'
  BY <1>37, StartsAssumption, SMT
    DEF CopyAndVerify, Live, InThread, Exporting, NextIn, Reply, Serves, Serving, At, files,
        LockInv, TypeInv, TypeOK, Requests, Steps, Free, Idle
<1>38. ASSUME NEW t \in Threads, ExportFailed(t) PROVE LockInv'
  BY <1>38, StartsAssumption, SMT
    DEF ExportFailed, FinishUpdateInstall, InThread, Exporting, NextIn, Reply, Serves, Serving,
        At, files, LockInv, TypeInv, TypeOK, Requests, Steps, Free, Idle
<1>39. ASSUME NEW t \in Threads, Respond(t) PROVE LockInv'
  BY <1>39, StartsAssumption, SMT
    DEF Respond, Free, InThread, Exporting, NextIn, Reply, Serves, Serving, At, files, LockInv,
        TypeInv, TypeOK, Requests, Steps, Idle
<1>40. ASSUME NEW t \in Threads, PrepareUpdateInstall(t) PROVE LockInv'
  BY <1>40, StartsAssumption, SMT
    DEF PrepareUpdateInstall, Free, InThread, Exporting, NextIn, Reply, Serves, Serving, At,
        files, LockInv, TypeInv, TypeOK, Requests, Steps, Idle
<1>41. ASSUME NEW t \in Threads, PreparationAnswered(t) PROVE LockInv'
  BY <1>41, StartsAssumption, SMT
    DEF PreparationAnswered, Free, InThread, Exporting, NextIn, Reply, Serves, Serving, At,
        files, LockInv, TypeInv, TypeOK, Requests, Steps, Idle
<1>42. CASE PrepareTimesOut
  BY <1>42, StartsAssumption, SMT
    DEF PrepareTimesOut, Idle, Serves, Serving, At, files, LockInv, TypeInv, TypeOK, Requests,
        Steps, Free
<1>43. CASE AbortUpdateInstall
  BY <1>43, StartsAssumption, SMT
    DEF AbortUpdateInstall, FinishUpdateInstall, Idle, Serves, Serving, At, LockInv, TypeInv,
        TypeOK, Requests, Steps, Free
<1>44. CASE InstallUpdate
  BY <1>44, StartsAssumption, SMT
    DEF InstallUpdate, Down, Serves, Serving, At, GoTo, files, LockInv, TypeInv, TypeOK,
        Requests, Steps, Free, Idle
<1> QED
  BY <1>1, <1>2, <1>3, <1>4, <1>5, <1>6, <1>7, <1>8, <1>9, <1>10, <1>11, <1>12, <1>13, <1>14,
     <1>15, <1>16, <1>17, <1>18, <1>19, <1>20, <1>21, <1>22, <1>23, <1>24, <1>25, <1>26, <1>27,
     <1>28, <1>29, <1>30, <1>31, <1>32, <1>33, <1>34, <1>35, <1>36, <1>37, <1>38, <1>39, <1>40,
     <1>41, <1>42, <1>43, <1>44
  DEF Next, Startup, Restore, Undo, Export, Updater

\* After any other step the API does not serve.
LEMMA ServingSteps ==
  ASSUME TypeInv, Next
  PROVE  \/ proc'.step # "serving"
         \/ RecoverInterruptedJobs \/ Scanning \/ StageDesktopRestore
         \/ \E t \in Threads : Export(t)
         \/ Updater
<1>1. Startup => RecoverInterruptedJobs \/ proc'.step # "serving"
  BY SMT
  DEF Startup, Start, ClearStaleMaintenanceLock, Restore, PrepareRestore, RollbackExport, ExportLock,
      ExportLive, ExtractArchive, MoveDatabase, MoveCars, PutDatabase, PutCars, VerifyRestored,
      DiscardOld, UnlinkPending, RecordRestored, Undo, UndoDatabase, UndoCars, MoveBackDatabase,
      MoveBackCars, SetAside, InitializeDatabase, NormalizeDesktopWorkspace, LegacyExport,
      LegacyExportRefused, ResetDatabase, ResetCars, Step, Down, GoTo, TypeInv, TypeOK
<1>2. RestoreFails \/ UndoFails \/ Crash => proc'.step # "serving"
  BY SMT DEF RestoreFails, UndoFails, Crash, Down, GoTo, TypeInv, TypeOK
<1> QED BY <1>1, <1>2 DEF Next

\* What an answer changes.
LEMMA ReplyFacts ==
  ASSUME TypeOK, NEW t \in Threads, NEW answer, Reply(t, answer)
  PROVE  /\ thread'[t].op = thread[t].op /\ thread'[t].pc = "done" /\ thread'[t].answer = answer
         /\ \A u \in Threads : u # t => thread'[u] = thread[u]
BY SMT DEF TypeOK, Requests, Reply

\* The guard and the preparation of an update move together.
LEMMA GuardStep ==
  ASSUME TypeInv, LockInv, GuardInv, Next
  PROVE  GuardInv'
<1>1. CASE proc'.step # "serving"
  BY <1>1 DEF GuardInv
<1>2. CASE RecoverInterruptedJobs
  BY <1>2, StartsAssumption, SMT
    DEF RecoverInterruptedJobs, At, GoTo, files, requests, GuardInv, LockInv, Holds, IsWithout,
        TypeInv, TypeOK, Requests, Shells, Free, Idle
<1>3. CASE Scanning
  BY <1>3, StartsAssumption, SMT
    DEF Scanning, EnqueueCheck, EnqueueInsert, ClaimCheck, ClaimNextJob, ScanEnds, Serves,
        Serving, At, files, requests, GuardInv, LockInv, Holds, IsWithout, TypeInv, TypeOK,
        Requests, Shells, Free, Idle
<1>4. CASE StageDesktopRestore
  BY <1>4, StartsAssumption, SMT
    DEF StageDesktopRestore, Serves, Serving, At, Live, requests, GuardInv, LockInv, Holds,
        IsWithout, TypeInv, TypeOK, Requests, Shells, Free, Idle
<1>5. ASSUME NEW t \in Threads, CreateDesktopBackup(t) PROVE GuardInv'
  BY <1>5, StartsAssumption, SMT
    DEF CreateDesktopBackup, Free, InThread, Exporting, NextIn, Reply, Serves, Serving, At,
        files, GuardInv, LockInv, Holds, IsWithout, TypeInv, TypeOK, Requests, Shells, Idle
<1>6. ASSUME NEW t \in Threads, CountScans(t) PROVE GuardInv'
  <2> DEFINE answer == "active"
  <2>1. CASE Reply(t, answer)
    <3>1. /\ thread'[t].op = thread[t].op /\ thread'[t].pc = "done" /\ thread'[t].answer = answer
          /\ \A u \in Threads : u # t => thread'[u] = thread[u]
      BY <2>1, ReplyFacts DEF TypeInv
    <3> QED
      BY <1>6, <2>1, <3>1, StartsAssumption, SMT
      DEF CountScans, InThread, Exporting, NextIn, Serves, Serving, At, files, GuardInv,
          LockInv, Holds, IsWithout, TypeInv, TypeOK, Requests, Shells
  <2>2. CASE ~Reply(t, answer)
    BY <1>6, <2>2, StartsAssumption, SMT
    DEF CountScans, InThread, Exporting, NextIn, Serves, Serving, At, files, GuardInv, LockInv,
          Holds, IsWithout, TypeInv, TypeOK, Requests, Shells
  <2> QED BY <2>1, <2>2
<1>7. ASSUME NEW t \in Threads, BeginUpdateInstall(t) PROVE GuardInv'
  BY <1>7, StartsAssumption, SMT
    DEF BeginUpdateInstall, InThread, Exporting, NextIn, Reply, Serves, Serving, At, files,
        GuardInv, LockInv, Holds, IsWithout, TypeInv, TypeOK, Requests, Shells, Free, Idle
<1>8. ASSUME NEW t \in Threads, RecountScans(t) PROVE GuardInv'
  <2> DEFINE answer == "active"
  <2>1. CASE Reply(t, answer)
    <3>1. /\ thread'[t].op = thread[t].op /\ thread'[t].pc = "done" /\ thread'[t].answer = answer
          /\ \A u \in Threads : u # t => thread'[u] = thread[u]
      BY <2>1, ReplyFacts DEF TypeInv
    <3> QED
      BY <1>8, <2>1, <3>1, StartsAssumption, SMT
      DEF RecountScans, FinishUpdateInstall, InThread, Exporting, NextIn, Serves, Serving, At,
          files, GuardInv, LockInv, Holds, IsWithout, TypeInv, TypeOK, Requests, Shells
  <2>2. CASE ~Reply(t, answer)
    BY <1>8, <2>2, StartsAssumption, SMT
    DEF RecountScans, FinishUpdateInstall, InThread, Exporting, NextIn, Serves, Serving, At,
          files, GuardInv, LockInv, Holds, IsWithout, TypeInv, TypeOK, Requests, Shells
  <2> QED BY <2>1, <2>2
<1>9. ASSUME NEW t \in Threads, LockMaintenance(t) PROVE GuardInv'
  BY <1>9, StartsAssumption, SMT
    DEF LockMaintenance, InThread, Exporting, NextIn, Reply, Serves, Serving, At, files,
        GuardInv, LockInv, Holds, IsWithout, TypeInv, TypeOK, Requests, Shells, Free, Idle
<1>10. ASSUME NEW t \in Threads, CheckActiveScans(t) PROVE GuardInv'
  BY <1>10, StartsAssumption, SMT
    DEF CheckActiveScans, InThread, Exporting, NextIn, Reply, Serves, Serving, At, files,
        GuardInv, LockInv, Holds, IsWithout, TypeInv, TypeOK, Requests, Shells, Free, Idle
<1>11. ASSUME NEW t \in Threads, CopyAndVerify(t) PROVE GuardInv'
  <2> DEFINE answer == "ready"
  <2>1. CASE Reply(t, answer)
    <3>1. /\ thread'[t].op = thread[t].op /\ thread'[t].pc = "done" /\ thread'[t].answer = answer
          /\ \A u \in Threads : u # t => thread'[u] = thread[u]
      BY <2>1, ReplyFacts DEF TypeInv
    <3> QED
      BY <1>11, <2>1, <3>1, StartsAssumption, SMT
      DEF CopyAndVerify, Live, InThread, Exporting, NextIn, Serves, Serving, At, files,
          GuardInv, LockInv, Holds, IsWithout, TypeInv, TypeOK, Requests, Shells
  <2>2. CASE ~Reply(t, answer)
    BY <1>11, <2>2, StartsAssumption, SMT
    DEF CopyAndVerify, Live, InThread, Exporting, NextIn, Serves, Serving, At, files, GuardInv,
          LockInv, Holds, IsWithout, TypeInv, TypeOK, Requests, Shells
  <2> QED BY <2>1, <2>2
<1>12. ASSUME NEW t \in Threads, ExportFailed(t) PROVE GuardInv'
  BY <1>12, StartsAssumption, SMT
    DEF ExportFailed, FinishUpdateInstall, InThread, Exporting, NextIn, Reply, Serves, Serving,
        At, files, GuardInv, LockInv, Holds, IsWithout, TypeInv, TypeOK, Requests, Shells,
        Free, Idle
<1>13. ASSUME NEW t \in Threads, Respond(t) PROVE GuardInv'
  BY <1>13, StartsAssumption, SMT
    DEF Respond, Free, InThread, Exporting, NextIn, Reply, Serves, Serving, At, files,
        GuardInv, LockInv, Holds, IsWithout, TypeInv, TypeOK, Requests, Shells, Idle
<1>14. ASSUME NEW t \in Threads, PrepareUpdateInstall(t) PROVE GuardInv'
  BY <1>14, StartsAssumption, SMT
    DEF PrepareUpdateInstall, Free, InThread, Exporting, NextIn, Reply, Serves, Serving, At,
        files, GuardInv, LockInv, Holds, IsWithout, TypeInv, TypeOK, Requests, Shells, Idle
<1>15. ASSUME NEW t \in Threads, PreparationAnswered(t) PROVE GuardInv'
  BY <1>15, StartsAssumption, SMT
    DEF PreparationAnswered, Free, InThread, Exporting, NextIn, Reply, Serves, Serving, At,
        files, GuardInv, LockInv, Holds, IsWithout, TypeInv, TypeOK, Requests, Shells, Idle
<1>16. CASE PrepareTimesOut
  BY <1>16, StartsAssumption, SMT
    DEF PrepareTimesOut, Idle, Serves, Serving, At, files, GuardInv, LockInv, Holds, IsWithout,
        TypeInv, TypeOK, Requests, Shells, Free
<1>17. CASE AbortUpdateInstall
  BY <1>17, StartsAssumption, SMT
    DEF AbortUpdateInstall, FinishUpdateInstall, Idle, Serves, Serving, At, GuardInv, LockInv,
        Holds, IsWithout, TypeInv, TypeOK, Requests, Shells, Free
<1>18. CASE InstallUpdate
  BY <1>18, StartsAssumption, SMT
    DEF InstallUpdate, Down, Serves, Serving, At, GoTo, files, GuardInv, LockInv, Holds,
        IsWithout, TypeInv, TypeOK, Requests, Shells, Free, Idle
<1> QED
  BY ServingSteps, <1>1, <1>2, <1>3, <1>4, <1>5, <1>6, <1>7, <1>8, <1>9, <1>10, <1>11, <1>12,
     <1>13, <1>14, <1>15, <1>16, <1>17, <1>18
  DEF Export, Updater

----------------------------------------------------------------------------
(* The theorems *)

DataInv == TypeInv /\ KeptInv /\ WholeInv /\ LockInv /\ GuardInv

\* The invariant holds in every reachable state.
LEMMA DataInvariant == Spec => []DataInv
<1>1. Init => DataInv
  <2> SUFFICES ASSUME Init PROVE DataInv
    OBVIOUS
  <2>1. PICK legacy \in SUBSET {"user", "backup"} :
          disk = [db |-> "user", cars |-> "user", moved |-> Unmoved, pending |-> None,
                  result |-> "none", backups |-> {}, legacy |-> legacy,
                  before |-> <<"user", "user">>, wanted |-> <<"user", "user">>]
    BY DEF Init
  <2>2. disk \in Disks
    BY <2>1, SMT DEF Unmoved, Disks, Contents, Pairs
  <2>3. thread \in [Threads -> Requests] /\ shell \in Shells
    BY SMT DEF Init, Free, Idle, Requests, Shells
  <2>4. TypeInv
    BY <2>2, <2>3, StartsAssumption, SMT DEF Init, TypeInv, TypeOK, Steps, RestoreSteps
  <2>5. KeptInv /\ WholeInv
    BY <2>1, StartsAssumption, SMT
    DEF Init, KeptInv, UserDataKept, UserCopy, Destructive, WholeInv, WithDatabase, Restored, Live
  <2>6. LockInv /\ GuardInv
    BY SMT DEF Init, LockInv, GuardInv
  <2> QED BY <2>4, <2>5, <2>6 DEF DataInv
<1>2. DataInv /\ [Next]_vars => DataInv'
  <2> SUFFICES ASSUME DataInv, [Next]_vars PROVE DataInv'
    OBVIOUS
  <2>1. CASE Next
    BY <2>1, TypeStep, KeptStep, WholeStep, LockStep, GuardStep DEF DataInv
  <2>2. CASE UNCHANGED vars
    <3>1. TypeInv'
      BY <2>2 DEF DataInv, vars, TypeInv, TypeOK
    <3>2. KeptInv' /\ WholeInv'
      BY <2>2 DEF DataInv, vars, KeptInv, UserDataKept, WholeInv, Restored, Live
    <3>3. LockInv' /\ GuardInv'
      BY <2>2 DEF DataInv, vars, LockInv, GuardInv, Holds, IsWithout
    <3> QED BY <3>1, <3>2, <3>3 DEF DataInv
  <2> QED BY <2>1, <2>2
<1> QED BY <1>1, <1>2, PTL DEF Spec

\* Types are kept in every reachable state.
THEOREM DataTypeCorrect == Spec => []TypeOK
<1>1. DataInv => TypeOK
  BY DEF DataInv, TypeInv
<1> QED BY <1>1, DataInvariant, PTL

\* Wherever a restore or the reset of a workspace fails or is cut off, at
\* whichever of any number of starts, the user's database with its images is
\* in place or in a backup.
THEOREM UserDataIsKept == Spec => []UserDataKept
<1>1. DataInv => UserDataKept
  BY DEF DataInv, KeptInv
<1> QED BY <1>1, DataInvariant, PTL

\* A restore that is recorded as done left the database and the images of
\* the chosen archive together, however often it was interrupted.
THEOREM RestoreIsWhole == Spec => []RestoredIsWhole
<1>1. DataInv => RestoredIsWhole
  BY DEF DataInv, WholeInv, Restored, RestoredIsWhole
<1> QED BY <1>1, DataInvariant, PTL

\* A process that serves sees no lock file of a dead process, and the
\* maintenance lock has a running export behind it.
THEOREM NoLockOutlivesItsHolder == Spec => []LocksAreLive
<1>1. DataInv => LocksAreLive
  BY DEF DataInv, LockInv, LocksAreLive, Serving, At
<1> QED BY <1>1, DataInvariant, PTL

\* Unless the shell gave up on a request, scans are refused during a
\* download and are refused by nobody's guard when the shell is idle.
THEOREM GuardIsTheUpdates == Spec => []GuardFollowsUpdate
<1>1. DataInv => GuardFollowsUpdate
  BY SMT DEF DataInv, GuardInv, TypeInv, TypeOK, Shells, GuardFollowsUpdate, Serving, At
<1> QED BY <1>1, DataInvariant, PTL

=============================================================================
