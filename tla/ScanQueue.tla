------------------------------ MODULE ScanQueue ------------------------------
(***************************************************************************)
(* The durable scan queue: the scan_runs and project_scan_runs tables, the *)
(* worker loop that claims and processes runs (backend/app/worker.py), the *)
(* HTTP handlers and desktop signals that write the same rows              *)
(* (backend/app/main.py, job_queue.py), and process crash and restart.     *)
(*                                                                         *)
(* Grain of atomicity.  The ORM sessions use SQLite in its default mode: a *)
(* SELECT takes no lock that outlives it, and the first write opens the    *)
(* transaction.  A handler is therefore two steps, one that loads rows and *)
(* decides, and one that writes what it decided; other commits fall        *)
(* between them.  The worker keeps a cached copy of its run and refreshes  *)
(* it only at checkpoints (sessions are created with                       *)
(* expire_on_commit=False, database.py:44).                                *)
(***************************************************************************)
EXTENDS Naturals, FiniteSets

CONSTANTS
  Users,      \* accounts
  Projects,   \* saved searches
  Owner,      \* Owner[p]: the account that owns project p
  Cars,       \* cars a CARS run can refresh
  Jobs,       \* ids of scan_runs rows, in creation order
  Workers,    \* worker loops
  Requests,   \* request threads that can be in flight at once
  Operations, \* bound: the handlers that clients of the instance call
  None        \* the null of every optional column

ASSUME ScanQueueAssumption ==
  /\ Owner \in [Projects -> Users]
  /\ Jobs \subseteq Nat
  /\ None \notin (Users \cup Projects \cup Cars \cup Workers \cup Jobs)
  /\ Projects \cap Cars = {}
  /\ Operations \subseteq {"cancel", "enqueue", "schedule", "delete", "block",
                           "shutdown", "sleep"}

VARIABLES
  runs,       \* scan_runs
  psr,        \* project_scan_runs: status of (run, project), or "ABSENT"
  active,     \* users whose status is ACTIVE
  projects,   \* existing rows of the projects table
  up,         \* the application process runs
  stopping,   \* worker_stop is set
  wk,         \* local state of each worker loop
  req         \* local state of each request thread

vars == <<runs, psr, active, projects, up, stopping, wk, req>>

-----------------------------------------------------------------------------
(* Rows *)

ActiveStatus == {"RUNNING", "CANCEL_REQUESTED"}
LiveStatus == {"QUEUED"} \cup ActiveStatus
TerminalStatus ==
  {"SUCCEEDED", "PARTIAL", "FAILED", "CANCELLED", "INTERRUPTED", "INTERRUPTED_SLEEP"}
Status == {"ABSENT"} \cup LiveStatus \cup TerminalStatus

LivePsr == {"QUEUED", "RUNNING"}
PsrStatus ==
  {"ABSENT", "SUCCEEDED", "FAILED", "CANCELLED", "INTERRUPTED", "INTERRUPTED_SLEEP"}
    \cup LivePsr

Reason == {"NONE", "PROJECT_DELETED", "APPLICATION_SHUTDOWN", "SYSTEM_SLEEP",
           "MERGED_INTO_MANUAL_RUN", "ACCOUNT_INACTIVE"}
Trigger == {"NONE", "MANUAL", "AUTOMATIC"}

\* The keys of scan_runs.payload that control flow reads.  The column is one
\* JSON value: whoever writes it writes all of it.
Payload == [trigger: Trigger, projects: SUBSET Projects, cars: SUBSET Cars,
            reason: Reason, current: Projects \cup {None}]

Run == [status: Status, owner: Users \cup {None}, worker: Workers \cup {None},
        payload: Payload]

NoPayload == [trigger |-> "NONE", projects |-> {}, cars |-> {},
              reason |-> "NONE", current |-> None]
NoRun == [status |-> "ABSENT", owner |-> None, worker |-> None, payload |-> NoPayload]

NewRun(u, payload) == [NoRun EXCEPT !.status = "QUEUED", !.owner = u, !.payload = payload]
ProjectsPayload(trigger, ps) == [NoPayload EXCEPT !.trigger = trigger, !.projects = ps]
CarsPayload(cs) == [NoPayload EXCEPT !.cars = cs]

IsAutomatic(r) == r.payload.trigger = "AUTOMATIC"

\* At most one row may be RUNNING or CANCEL_REQUESTED: the partial unique
\* index uq_scan_runs_single_active_worker.
UniqueActive(table) ==
  \A i, j \in Jobs :
    table[i].status \in ActiveStatus /\ table[j].status \in ActiveStatus => i = j

\* Mutant: every column is written back, changed or not.
Flushed_AllColumns(row, loaded, new) == new

\* What a flush writes for one row: the columns the handler changed from the
\* values it had loaded, and its whole payload, over the row as it is now.
Flushed(row, loaded, new) ==
  [row EXCEPT !.status  = IF new.status # loaded.status THEN new.status ELSE @,
              !.worker  = IF new.worker # loaded.worker THEN new.worker ELSE @,
              !.payload = new.payload]

-----------------------------------------------------------------------------
(* Local state *)

IdleReq == [op |-> "idle", user |-> None, project |-> None,
            payload |-> NoPayload, seen |-> [j \in Jobs |-> NoRun]]

\* row: the cached run; stale: a rollback expired the cached account row, so the
\* next checkpoint reads it again; todo: units left; unit: the current one;
\* failed, succeeded, captcha: the locals failures # [], successes > 0 and
\* stop_for_captcha of process_job.
IdleWorker == [pc |-> "idle", job |-> None, row |-> NoRun, stale |-> FALSE,
               todo |-> {}, unit |-> None, failed |-> FALSE,
               succeeded |-> FALSE, captcha |-> FALSE]

\* poll: past the stop_event test; begin: claimed; launch: the browser starts;
\* gate: top of the unit loop; scan: before a checkpoint inside a unit; load:
\* waiting for a page or a detail; publish: a project outcome is committed but
\* not yet in the payload; drain: a CAPTCHA ends the run; cancelled:
\* ScanCancelled was raised; dead: an exception left the worker loop.
WorkerPc == {"idle", "poll", "begin", "launch", "gate", "scan", "load", "car",
             "publish", "drain", "cancelled", "dead"}
ReqOp == {"idle"} \cup (Operations \ {"block"})

Worker == [pc: WorkerPc, job: Jobs \cup {None}, row: Run, stale: BOOLEAN,
           todo: SUBSET (Projects \cup Cars), unit: Projects \cup Cars \cup {None},
           failed: BOOLEAN, succeeded: BOOLEAN, captcha: BOOLEAN]
Request == [op: ReqOp, user: Users \cup {None},
            project: Projects \cup {None}, payload: Payload, seen: [Jobs -> Run]]

Working == WorkerPc \ {"idle", "poll", "dead"}
Holds(w, j) == wk[w].pc \in Working /\ wk[w].job = j

Init ==
  /\ runs = [j \in Jobs |-> NoRun]
  /\ psr = [j \in Jobs |-> [p \in Projects |-> "ABSENT"]]
  /\ active = Users
  /\ projects = Projects
  /\ up = TRUE
  /\ stopping = FALSE
  /\ wk = [w \in Workers |-> IdleWorker]
  /\ req = [h \in Requests |-> IdleReq]

-----------------------------------------------------------------------------
(* Request threads: the loading step of each handler *)

\* The rows a handler selected, as they were when it selected them.
Loaded(T) == [j \in Jobs |-> IF j \in T THEN runs[j] ELSE NoRun]
Selected(h) == {j \in Jobs : req[h].seen[j].status # "ABSENT"}
LiveRunsOf(u) == {j \in Jobs : runs[j].owner = u /\ runs[j].status \in LiveStatus}

\* The first half of every handler: it runs while the process is up, loads the
\* rows it needs and keeps them until it writes.
Load(h, request) ==
  /\ up
  /\ req[h].op = "idle"
  /\ request.op \in Operations
  /\ req' = [req EXCEPT ![h] = request]

cancel_scan(h, j) ==
  /\ runs[j].status \in {"QUEUED", "RUNNING"}
  /\ runs[j].owner \in active
  /\ Load(h, [IdleReq EXCEPT !.op = "cancel", !.seen = Loaded({j})])
  /\ UNCHANGED <<runs, psr, active, projects, up, stopping, wk>>

\* Bound: a row id is left for this insert and for those already in flight.
CanInsert ==
  Cardinality({h \in Requests : req[h].op \in {"enqueue", "schedule"}})
    < Cardinality({j \in Jobs : runs[j].status = "ABSENT"})

\* scan_projects (every project exists and is the caller's) and scan_cars.
enqueue(h, u, payload) ==
  /\ CanInsert
  /\ u \in active
  /\ payload.projects \subseteq projects
  /\ \A p \in payload.projects : Owner[p] = u
  /\ Load(h, [IdleReq EXCEPT !.op = "enqueue", !.user = u, !.payload = payload,
                             !.seen = Loaded(LiveRunsOf(u))])
  /\ UNCHANGED <<runs, psr, active, projects, up, stopping, wk>>

\* enqueue_scheduled for one due scheduler of u with projects ps.  It is called
\* by the worker between runs and by the resume handler at any time.
enqueue_scheduled(h, u, ps) ==
  /\ CanInsert
  /\ u \in active
  /\ ps # {} /\ ps \subseteq projects
  /\ \A p \in ps : Owner[p] = u
  /\ Load(h, [IdleReq EXCEPT !.op = "schedule", !.user = u,
                             !.payload = ProjectsPayload("AUTOMATIC", ps),
                             !.seen = Loaded(LiveRunsOf(u))])
  /\ UNCHANGED <<runs, psr, active, projects, up, stopping, wk>>

delete_project(h, p) ==
  /\ p \in projects
  /\ Owner[p] \in active
  /\ Load(h, [IdleReq EXCEPT !.op = "delete", !.project = p,
                             !.seen = Loaded({j \in LiveRunsOf(Owner[p]) :
                                                p \in runs[j].payload.projects})])
  /\ UNCHANGED <<runs, psr, active, projects, up, stopping, wk>>

\* GracefulShutdownController.request: worker_stop is set before the rows are
\* read, and only the first request does anything.
request_shutdown(h) ==
  /\ ~stopping
  /\ LET open == {j \in Jobs : runs[j].status \in {"QUEUED", "RUNNING"}}
     IN  Load(h, [IdleReq EXCEPT !.op = "shutdown", !.seen = Loaded(open)])
  /\ stopping' = TRUE
  /\ UNCHANGED <<runs, psr, active, projects, up, wk>>

request_sleep_interruption(h) ==
  /\ Load(h, [IdleReq EXCEPT !.op = "sleep",
                             !.seen = Loaded({j \in Jobs : runs[j].status = "RUNNING"})])
  /\ UNCHANGED <<runs, psr, active, projects, up, stopping, wk>>

-----------------------------------------------------------------------------
(* Request threads: the writing step of each handler *)

\* Ends the request, committing table unless it breaks the unique index; the
\* index error rolls the whole transaction back and the request fails.
Commit(h, table, newPsr, newActive, newProjects) ==
  /\ req' = [req EXCEPT ![h] = IdleReq]
  /\ IF UniqueActive(table)
     THEN /\ runs' = table
          /\ psr' = newPsr
          /\ active' = newActive
          /\ projects' = newProjects
     ELSE UNCHANGED <<runs, psr, active, projects>>
  /\ UNCHANGED <<up, stopping, wk>>

\* The table with each row of T rewritten from its loaded value.
Rewritten(h, T, New(_)) ==
  [j \in Jobs |-> IF j \in T THEN Flushed(runs[j], req[h].seen[j], New(req[h].seen[j]))
                            ELSE runs[j]]

\* The id the next insert gets: rows are never deleted, ids grow.
NextId(j) ==
  /\ runs[j].status = "ABSENT"
  /\ \A i \in Jobs : runs[i].status = "ABSENT" => j <= i

CancelledRow(r) ==
  IF r.status = "QUEUED"
  THEN [r EXCEPT !.status = "CANCELLED", !.payload.current = None]
  ELSE [r EXCEPT !.status = "CANCEL_REQUESTED"]

cancel_scan_commit(h) ==
  /\ req[h].op = "cancel"
  /\ Commit(h, Rewritten(h, Selected(h), CancelledRow), psr, active, projects)

\* Queued automatic runs of the caller that overlap a manual request give up
\* the shared projects; one left with none is cancelled.
AbsorbedRow(ps, r) ==
  LET rest == r.payload.projects \ ps IN
  IF rest # {}
  THEN [r EXCEPT !.payload.projects = rest]
  ELSE [r EXCEPT !.status = "CANCELLED", !.payload.reason = "MERGED_INTO_MANUAL_RUN"]

Absorbed(seen, payload) ==
  {j \in Jobs : /\ payload.trigger = "MANUAL"
                /\ seen[j].status = "QUEUED" /\ IsAutomatic(seen[j])
                /\ seen[j].payload.projects \cap payload.projects # {}}

\* project_scan_already_active or car_scan_already_active, judged on the rows
\* loaded, after absorption.
Refused(seen, payload) ==
  \E j \in Jobs \ Absorbed(seen, payload) :
    /\ seen[j].status \in LiveStatus
    /\ \/ seen[j].payload.projects \cap payload.projects # {}
       \/ seen[j].payload.cars \cap payload.cars # {}

\* Mutant: the absorption is committed although the request is refused.
enqueue_commit_KeepsAbsorption(h) ==
  LET payload == req[h].payload
      absorb(r) == AbsorbedRow(payload.projects, r)
      table == Rewritten(h, Absorbed(req[h].seen, payload), absorb)
  IN  /\ req[h].op = "enqueue"
      /\ IF Refused(req[h].seen, payload)
         THEN Commit(h, table, psr, active, projects)
         ELSE \E id \in Jobs :
                /\ NextId(id)
                /\ Commit(h, [table EXCEPT ![id] = NewRun(req[h].user, payload)],
                          psr, active, projects)

enqueue_commit(h) ==
  LET u == req[h].user
      payload == req[h].payload
      seen == req[h].seen
      absorb(r) == AbsorbedRow(payload.projects, r)
      table == Rewritten(h, Absorbed(seen, payload), absorb)
  IN  /\ req[h].op = "enqueue"
      /\ \/ /\ Refused(seen, payload)
            /\ Commit(h, runs, psr, active, projects)
         \/ /\ ~Refused(seen, payload)
            /\ \E id \in Jobs :
                 /\ NextId(id)
                 /\ Commit(h, [table EXCEPT ![id] = NewRun(u, payload)],
                           psr, active, projects)

\* Any live run of the account keeps enqueue_scheduled from inserting.
enqueue_scheduled_commit(h) ==
  /\ req[h].op = "schedule"
  /\ \/ /\ Selected(h) # {}
        /\ Commit(h, runs, psr, active, projects)
     \/ /\ Selected(h) = {}
        /\ \E id \in Jobs :
             /\ NextId(id)
             /\ Commit(h, [runs EXCEPT ![id] = NewRun(req[h].user, req[h].payload)],
                       psr, active, projects)

\* detach_project_from_active_jobs for one run.
DetachedRow(p, r) ==
  LET rest == [r EXCEPT !.payload.projects = @ \ {p}]
      gone == [rest EXCEPT !.payload.reason = "PROJECT_DELETED"]
  IN  IF rest.payload.projects # {} /\ r.payload.current # p THEN rest
      ELSE IF r.status = "QUEUED"
      THEN [gone EXCEPT !.status = "CANCELLED", !.worker = None, !.payload.current = None]
      ELSE [gone EXCEPT !.status = "CANCEL_REQUESTED"]

\* The project row goes with its project_scan_runs (ON DELETE CASCADE).
delete_project_commit(h) ==
  LET p == req[h].project
      detach(r) == DetachedRow(p, r)
  IN  /\ req[h].op = "delete"
      /\ Commit(h, Rewritten(h, Selected(h), detach),
                [j \in Jobs |-> [psr[j] EXCEPT ![p] = "ABSENT"]], active, projects \ {p})

\* Blocking an account.  The changed users row is flushed before the runs are
\* read, so this handler alone holds the write lock from its read to its commit;
\* it writes only the status column.
BlockedStatus(r) == IF r.status = "QUEUED" THEN "CANCELLED" ELSE "CANCEL_REQUESTED"

admin_patch_user(u) ==
  /\ up /\ "block" \in Operations
  /\ active' = active \ {u}
  /\ runs' = [j \in Jobs |-> IF j \in LiveRunsOf(u)
                             THEN [runs[j] EXCEPT !.status = BlockedStatus(runs[j])]
                             ELSE runs[j]]
  /\ UNCHANGED <<psr, projects, up, stopping, wk, req>>

\* admin_patch_user giving the account back its ACTIVE status.
reactivate_user(u) ==
  /\ up /\ u \notin active
  /\ active' = active \cup {u}
  /\ UNCHANGED <<runs, psr, projects, up, stopping, wk, req>>

ShutdownRow(r) ==
  IF r.status = "QUEUED"
  THEN [r EXCEPT !.status = "CANCELLED", !.worker = None,
                 !.payload.reason = "APPLICATION_SHUTDOWN"]
  ELSE [r EXCEPT !.status = "CANCEL_REQUESTED", !.payload.reason = "APPLICATION_SHUTDOWN"]

request_shutdown_commit(h) ==
  LET seen == req[h].seen
      newPsr == [j \in Jobs |-> [p \in Projects |->
                  IF seen[j].status = "QUEUED" /\ psr[j][p] \in LivePsr
                  THEN "CANCELLED" ELSE psr[j][p]]]
  IN  /\ req[h].op = "shutdown"
      /\ Commit(h, Rewritten(h, Selected(h), ShutdownRow), newPsr, active, projects)

SleepRow(r) == [r EXCEPT !.status = "CANCEL_REQUESTED", !.payload.reason = "SYSTEM_SLEEP"]

request_sleep_interruption_commit(h) ==
  /\ req[h].op = "sleep"
  /\ Commit(h, Rewritten(h, Selected(h), SleepRow), psr, active, projects)

-----------------------------------------------------------------------------
(* The worker loop: claiming *)

Becomes(w, local) == wk' = [wk EXCEPT ![w] = local]

\* run: one turn of the loop tests stop_event and then claims; a stop set
\* between the two does not hold the claim back.
run(w) ==
  /\ up /\ ~stopping
  /\ wk[w].pc = "idle"
  /\ Becomes(w, [wk[w] EXCEPT !.pc = "poll"])
  /\ UNCHANGED <<runs, psr, active, projects, up, stopping, req>>

\* Mutant: the claim does not look for an active run.
Claimable_IgnoresActive(j) ==
  /\ runs[j].status = "QUEUED" /\ runs[j].owner \in active
  /\ \A i \in Jobs : runs[i].status = "QUEUED" /\ runs[i].owner \in active => j <= i

Claimable(j) ==
  /\ runs[j].status = "QUEUED" /\ runs[j].owner \in active
  /\ \A i \in Jobs : runs[i].status \notin ActiveStatus
  /\ \A i \in Jobs : runs[i].status = "QUEUED" /\ runs[i].owner \in active => j <= i

\* One atomic UPDATE ... RETURNING; with nothing to claim the loop waits and
\* starts over.
claim_next_job(w) ==
  /\ up
  /\ wk[w].pc = "poll"
  /\ \/ \E j \in Jobs :
          /\ Claimable(j)
          /\ runs' = [runs EXCEPT ![j] = [@ EXCEPT !.status = "RUNNING", !.worker = w]]
          /\ Becomes(w, [IdleWorker EXCEPT !.pc = "begin", !.job = j])
     \/ /\ \A j \in Jobs : ~Claimable(j)
        /\ Becomes(w, [wk[w] EXCEPT !.pc = "idle"])
        /\ UNCHANGED runs
  /\ UNCHANGED <<psr, active, projects, up, stopping, req>>

-----------------------------------------------------------------------------
(* The worker loop: process_job *)

\* A step of w at pc, which touches no account, project, request or process.
At(w, pc) ==
  /\ up
  /\ wk[w].pc = pc
  /\ UNCHANGED <<active, projects, up, stopping, req>>

Job(w) == wk[w].job
Stored(w) == runs[Job(w)]

\* A flush of the cached run: the payload column is written whole, from the
\* cache, whatever another writer put there since the cache was read.
WithPayload(row, current) == [row.payload EXCEPT !.current = current]

SetPsr(w, p, status) == [psr EXCEPT ![Job(w)][p] = status]

\* process_job up to the browser: a run that is no longer QUEUED or RUNNING is
\* left as it is; the account is checked; the project rows are created.
begin_job(w) ==
  LET j == Job(w)
      row == Stored(w)
      mine == {p \in row.payload.projects : p \in projects /\ Owner[p] = row.owner}
  IN  /\ At(w, "begin")
      /\ \/ /\ row.status \notin {"QUEUED", "RUNNING"}
            /\ Becomes(w, IdleWorker)
            /\ UNCHANGED <<runs, psr>>
         \/ /\ row.status \in {"QUEUED", "RUNNING"}
            /\ row.owner \notin active
            /\ runs' = [runs EXCEPT ![j] = [@ EXCEPT !.status = "CANCELLED",
                                                     !.payload.reason = "ACCOUNT_INACTIVE"]]
            /\ Becomes(w, IdleWorker)
            /\ UNCHANGED psr
         \/ /\ row.status \in {"QUEUED", "RUNNING"}
            /\ row.owner \in active
            /\ psr' = [psr EXCEPT ![j] = [p \in Projects |->
                                            IF p \in mine THEN "QUEUED" ELSE @[p]]]
            /\ Becomes(w, [wk[w] EXCEPT !.pc = "launch", !.row = row,
                                        !.todo = row.payload.projects \cup row.payload.cars])
            /\ UNCHANGED runs

launch(w) ==
  /\ At(w, "launch")
  /\ Becomes(w, [wk[w] EXCEPT !.pc = "gate"])
  /\ UNCHANGED <<runs, psr>>

\* No entitlement, no browser, or a browser that does not close after the last
\* unit: the outer except Exception.  It ends the run from the cached row and
\* does not look at its project rows.
fail_job(w) ==
  /\ At(w, "launch") \/ (At(w, "gate") /\ wk[w].todo = {})
  /\ runs' = [runs EXCEPT ![Job(w)] = Flushed(@, wk[w].row,
                                              [wk[w].row EXCEPT !.status = "FAILED"])]
  /\ Becomes(w, IdleWorker)
  /\ UNCHANGED psr

\* _raise_if_cancelled, the refused case: the stored run is being cancelled, or
\* the account row was read again and is not ACTIVE (the run is then marked).
OwnerLost(w) == wk[w].stale /\ Stored(w).owner \notin active

\* Mutant: the checkpoint does not know CANCEL_REQUESTED.
Cancelling_OnlyCancelled(w) == Stored(w).status = "CANCELLED"

Cancelling(w) == Stored(w).status \in {"CANCEL_REQUESTED", "CANCELLED"}

StopAtCheckpoint(w) ==
  LET row == IF Cancelling(w) THEN Stored(w)
                              ELSE [Stored(w) EXCEPT !.status = "CANCEL_REQUESTED"]
  IN  /\ Cancelling(w) \/ OwnerLost(w)
      /\ runs' = [runs EXCEPT ![Job(w)] = row]
      /\ Becomes(w, [wk[w] EXCEPT !.pc = "cancelled", !.row = row])
      /\ UNCHANGED psr

PassCheckpoint(w) == ~Cancelling(w) /\ ~OwnerLost(w)

\* Top of the unit loop, and the final test.  Two checkpoints follow each other
\* here; the second flushes the heartbeat of the first, so the write lock is
\* held from its read to the commit and the step is atomic.
gate_stop(w) == At(w, "gate") /\ StopAtCheckpoint(w)

OpenedProject(w, p) ==
  LET payload == WithPayload(Stored(w), p) IN
  /\ p \in projects
  /\ psr' = SetPsr(w, p, "RUNNING")
  /\ runs' = [runs EXCEPT ![Job(w)].payload = payload]
  /\ Becomes(w, [wk[w] EXCEPT !.pc = "scan", !.unit = p, !.stale = FALSE,
                              !.row = [Stored(w) EXCEPT !.payload = payload]])

open_project(w, p) ==
  /\ At(w, "gate") /\ PassCheckpoint(w)
  /\ p \in wk[w].todo \cap Projects
  /\ \/ OpenedProject(w, p)
     \/ /\ p \notin projects
        /\ Becomes(w, [wk[w] EXCEPT !.row = Stored(w), !.stale = FALSE,
                                    !.failed = TRUE, !.todo = @ \ {p}])
        /\ UNCHANGED <<runs, psr>>

\* Cars come after the projects; the browser reads one car at a time.
open_car(w, c) ==
  /\ At(w, "gate") /\ PassCheckpoint(w)
  /\ wk[w].todo \cap Projects = {}
  /\ c \in wk[w].todo
  /\ Becomes(w, [wk[w] EXCEPT !.pc = "car", !.unit = c, !.stale = FALSE,
                              !.row = Stored(w)])
  /\ UNCHANGED <<runs, psr>>

\* Mutants: one success is enough; a status the column does not have.
FinalStatus_AnySuccess(w) ==
  IF wk[w].succeeded \/ ~wk[w].failed THEN "SUCCEEDED" ELSE "FAILED"
FinalStatus_Completed(w) == IF wk[w].failed THEN "PARTIAL" ELSE "COMPLETED"

FinalStatus(w) ==
  IF ~wk[w].failed THEN "SUCCEEDED" ELSE IF wk[w].succeeded THEN "PARTIAL" ELSE "FAILED"

finish_job(w) ==
  /\ At(w, "gate") /\ PassCheckpoint(w)
  /\ wk[w].todo = {}
  /\ runs' = [runs EXCEPT ![Job(w)].status = FinalStatus(w)]
  /\ Becomes(w, IdleWorker)
  /\ UNCHANGED psr

\* A checkpoint inside a project scan; the page or detail read follows it.
checkpoint(w) ==
  /\ At(w, "scan")
  /\ \/ StopAtCheckpoint(w)
     \/ /\ PassCheckpoint(w)
        /\ Becomes(w, [wk[w] EXCEPT !.pc = "load", !.row = Stored(w), !.stale = FALSE])
        /\ UNCHANGED <<runs, psr>>

\* A page or detail arrived: progress is published from the cached payload.
\* fails: the detail of one car could not be read.
publish_progress(w, fails) ==
  LET payload == WithPayload(wk[w].row, wk[w].unit) IN
  /\ At(w, "load")
  /\ runs' = [runs EXCEPT ![Job(w)].payload = payload]
  /\ Becomes(w, [wk[w] EXCEPT !.pc = "scan", !.row.payload = payload,
                              !.failed = @ \/ fails])
  /\ UNCHANGED psr

\* TrackingDisabledError: the rollback expires every cached row, so the payload
\* published next and the account checked next are read again.
discard_result(w) ==
  LET payload == WithPayload(Stored(w), wk[w].unit) IN
  /\ At(w, "load")
  /\ runs' = [runs EXCEPT ![Job(w)].payload = payload]
  /\ Becomes(w, [wk[w] EXCEPT !.pc = "scan", !.stale = TRUE,
                              !.row = [Stored(w) EXCEPT !.payload = payload]])
  /\ UNCHANGED psr

\* The project ends.  Its project_scan_runs row went if the project was deleted
\* since the checkpoint: the flush then fails, the handlers of process_job find
\* a session that must be rolled back, and the exception leaves the loop.
settle_project(w, ok, captcha) ==
  /\ At(w, "load")
  /\ ok => ~captcha
  /\ \/ /\ psr[Job(w)][wk[w].unit] # "ABSENT"
        /\ psr' = SetPsr(w, wk[w].unit, IF ok THEN "SUCCEEDED" ELSE "FAILED")
        /\ Becomes(w, [wk[w] EXCEPT !.pc = "publish", !.todo = @ \ {wk[w].unit},
                                    !.failed = @ \/ ~ok, !.succeeded = @ \/ ok,
                                    !.captcha = captcha])
     \/ /\ psr[Job(w)][wk[w].unit] = "ABSENT"
        /\ Becomes(w, [wk[w] EXCEPT !.pc = "dead"])
        /\ UNCHANGED psr
  /\ UNCHANGED runs

\* _publish_project_results
publish_project(w) ==
  LET payload == WithPayload(wk[w].row, None) IN
  /\ At(w, "publish")
  /\ runs' = [runs EXCEPT ![Job(w)].payload = payload]
  /\ Becomes(w, [wk[w] EXCEPT !.pc = IF wk[w].captcha THEN "drain" ELSE "gate",
                              !.unit = None, !.row.payload = payload])
  /\ UNCHANGED psr

\* After a CAPTCHA the projects that have not started are failed and the loop
\* ends.
drain(w) ==
  /\ At(w, "drain")
  /\ \/ StopAtCheckpoint(w)
     \/ /\ PassCheckpoint(w)
        /\ psr' = [psr EXCEPT ![Job(w)] = [p \in Projects |->
                                             IF @[p] = "QUEUED" THEN "FAILED" ELSE @[p]]]
        /\ Becomes(w, [wk[w] EXCEPT !.pc = "gate", !.todo = {}, !.row = Stored(w),
                                    !.stale = FALSE])
        /\ UNCHANGED runs

\* One car of a CARS run: refreshed, gone, of no tracked project, or failed
\* (which rolls back, so the payload published is read again).
CarOutcome == {"ok", "missing", "skip", "error"}

settle_car(w, outcome) ==
  LET row == IF outcome = "error" THEN Stored(w) ELSE wk[w].row
      payload == WithPayload(row, None)
  IN  /\ At(w, "car")
      /\ runs' = [runs EXCEPT ![Job(w)].payload = payload]
      /\ Becomes(w, [wk[w] EXCEPT !.pc = "gate", !.unit = None,
                                  !.todo = @ \ {wk[w].unit},
                                  !.row = [row EXCEPT !.payload = payload],
                                  !.stale = @ \/ outcome = "error",
                                  !.failed = @ \/ outcome \in {"missing", "error"},
                                  !.succeeded = @ \/ outcome = "ok"])
      /\ UNCHANGED psr

\* Mutant: every project row of the run gets the terminal status.
finish_cancelled_job_AllRows(w) ==
  LET row == wk[w].row IN
  /\ At(w, "cancelled")
  /\ runs' = [runs EXCEPT ![Job(w)] = Flushed(@, row, [row EXCEPT !.status = "CANCELLED"])]
  /\ psr' = [psr EXCEPT ![Job(w)] = [p \in Projects |->
                                       IF @[p] = "ABSENT" THEN @[p] ELSE "CANCELLED"]]
  /\ Becomes(w, IdleWorker)

\* _finish_cancelled_job
finish_cancelled_job(w) ==
  LET row == wk[w].row
      terminal == IF row.payload.reason = "SYSTEM_SLEEP" THEN "INTERRUPTED_SLEEP"
                                                         ELSE "CANCELLED"
      done == [row EXCEPT !.status = terminal, !.payload.current = None]
  IN  /\ At(w, "cancelled")
      /\ runs' = [runs EXCEPT ![Job(w)] = Flushed(@, row, done)]
      /\ psr' = [psr EXCEPT ![Job(w)] = [p \in Projects |->
                                           IF @[p] \in LivePsr THEN terminal ELSE @[p]]]
      /\ Becomes(w, IdleWorker)

process_job(w) ==
  \/ begin_job(w) \/ launch(w) \/ fail_job(w)
  \/ gate_stop(w) \/ finish_job(w) \/ checkpoint(w)
  \/ \E p \in Projects : open_project(w, p)
  \/ \E c \in Cars : open_car(w, c)
  \/ \E fails \in BOOLEAN : publish_progress(w, fails)
  \/ discard_result(w)
  \/ \E ok, captcha \in BOOLEAN : settle_project(w, ok, captcha)
  \/ publish_project(w) \/ drain(w)
  \/ \E outcome \in CarOutcome : settle_car(w, outcome)
  \/ finish_cancelled_job(w)

-----------------------------------------------------------------------------
(* The process *)

\* The process ends: a crash, a kill, or the exit that follows a shutdown.
crash ==
  /\ up
  /\ up' = FALSE
  /\ wk' = [w \in Workers |-> IdleWorker]
  /\ req' = [h \in Requests |-> IdleReq]
  /\ UNCHANGED <<runs, psr, active, projects, stopping>>

\* recover_interrupted_jobs, before the worker starts and requests are served.
RecoveredRow(r) ==
  IF r.status \in ActiveStatus
  THEN [r EXCEPT !.status = "INTERRUPTED", !.worker = None, !.payload.current = None]
  ELSE r

\* Mutant: recovery leaves the project rows alone.
restart_RunsOnly ==
  /\ ~up
  /\ up' = TRUE
  /\ stopping' = FALSE
  /\ runs' = [j \in Jobs |-> RecoveredRow(runs[j])]
  /\ UNCHANGED <<psr, active, projects, wk, req>>

restart ==
  /\ ~up
  /\ up' = TRUE
  /\ stopping' = FALSE
  /\ runs' = [j \in Jobs |-> RecoveredRow(runs[j])]
  /\ psr' = [j \in Jobs |-> [p \in Projects |->
              IF runs[j].status \in ActiveStatus /\ psr[j][p] \in LivePsr
              THEN "INTERRUPTED" ELSE psr[j][p]]]
  /\ UNCHANGED <<active, projects, wk, req>>

-----------------------------------------------------------------------------
(* The specification *)

ManualPayloads ==
  {ProjectsPayload("MANUAL", ps) : ps \in SUBSET Projects \ {{}}}
    \cup {CarsPayload(cs) : cs \in SUBSET Cars \ {{}}}

Call(h) ==
  \/ \E j \in Jobs : cancel_scan(h, j)
  \/ \E u \in Users, payload \in ManualPayloads : enqueue(h, u, payload)
  \/ \E u \in Users, ps \in SUBSET Projects : enqueue_scheduled(h, u, ps)
  \/ \E p \in Projects : delete_project(h, p)
  \/ request_shutdown(h)
  \/ request_sleep_interruption(h)

Reply(h) ==
  \/ cancel_scan_commit(h)
  \/ enqueue_commit(h)
  \/ enqueue_scheduled_commit(h)
  \/ delete_project_commit(h)
  \/ request_shutdown_commit(h)
  \/ request_sleep_interruption_commit(h)

Next ==
  \/ \E h \in Requests : Call(h) \/ Reply(h)
  \/ \E u \in Users : admin_patch_user(u) \/ reactivate_user(u)
  \/ \E w \in Workers : run(w) \/ claim_next_job(w) \/ process_job(w)
  \/ crash
  \/ restart

Spec == Init /\ [][Next]_vars

\* A worker thread that can move is scheduled, and a page or detail read ends (an
\* assumption: not every browser call has a timeout); nothing else is assumed.
FairSpec == Spec /\ \A w \in Workers : WF_vars(process_job(w))

-----------------------------------------------------------------------------
(* Properties *)

\* Every variable keeps the shape of its tables and of the locals it stands for.
TypeOK ==
  /\ runs \in [Jobs -> Run]
  /\ psr \in [Jobs -> [Projects -> PsrStatus]]
  /\ active \in SUBSET Users
  /\ projects \in SUBSET Projects
  /\ up \in BOOLEAN
  /\ stopping \in BOOLEAN
  /\ wk \in [Workers -> Worker]
  /\ req \in [Requests -> Request]

\* Whatever handlers commit on top of each other, and whatever the worker
\* writes from its cache, no two runs are RUNNING or CANCEL_REQUESTED at once
\* (claim_next_job and the partial unique index).
SingleActive == UniqueActive(runs)

\* No run is processed by two workers: process_job trusts the claim and takes
\* no lock of its own.  It rests on no handler, however stale the rows it
\* loaded, ever putting a claimed run back in the queue.
ExclusiveProcessing ==
  \A v, w \in Workers, j \in Jobs : Holds(v, j) /\ Holds(w, j) => v = w

\* A run that reports SUCCEEDED left no project behind: each project it had
\* rows for was scanned to the end or deleted by its user, across missing
\* projects, CAPTCHA stops and cancelled siblings.
SucceededMeansComplete ==
  \A j \in Jobs : runs[j].status = "SUCCEEDED" =>
    \A p \in Projects : psr[j][p] \in {"SUCCEEDED", "ABSENT"}

\* A run that history shows as interrupted, by a restart or by sleep, shows no
\* project as still queued or running.
InterruptedRunsAreSettled ==
  \A j \in Jobs : runs[j].status \in {"INTERRUPTED", "INTERRUPTED_SLEEP"} =>
    \A p \in Projects : psr[j][p] \notin LivePsr

\* A project outcome, once committed, survives cancellation, shutdown, crash and
\* recovery of its run; only deleting the project removes it.
SettledOutcomesPersist ==
  [][\A j \in Jobs, p \in Projects :
       psr[j][p] \in {"SUCCEEDED", "FAILED"} => psr'[j][p] \in {psr[j][p], "ABSENT"}]_vars

\* Merging never drops a project: a scheduled run that was cancelled because a
\* manual request absorbed it is covered, except for deleted projects, by one
\* manual run (enqueue).
MergedRunIsCovered ==
  \A j \in Jobs :
    runs[j].status = "CANCELLED" /\ runs[j].payload.reason = "MERGED_INTO_MANUAL_RUN" =>
      \E k \in Jobs : /\ runs[k].owner = runs[j].owner
                      /\ runs[k].payload.trigger = "MANUAL"
                      /\ runs[j].payload.projects \cap projects
                           \subseteq runs[k].payload.projects

\* Cooperative cancellation stops the worker: once its run is being cancelled,
\* a worker past the start of the run lets go of it.
Stoppable(w) ==
  /\ wk[w].pc \in Working \ {"begin"}
  /\ Stored(w).status \in {"CANCEL_REQUESTED", "CANCELLED"}
CancelledScanStops == \A w \in Workers : Stoppable(w) ~> wk[w].pc \in {"idle", "dead"}

=============================================================================
