--------------------------- MODULE ScanQueueProofs ---------------------------
(***************************************************************************)
(* Theorems about ScanQueue for every set of accounts, projects, runs,     *)
(* workers and request threads.                                            *)
(***************************************************************************)
EXTENDS ScanQueue, TLAPS

-----------------------------------------------------------------------------
(* Rows keep their type *)

\* The rows the module builds from nothing are well formed.
LEMMA NewRows ==
  /\ NoPayload \in Payload
  /\ NoRun \in Run
  /\ \A u \in Users \cup {None}, x \in Payload : NewRun(u, x) \in Run
  /\ \A ps \in SUBSET Projects, t \in Trigger : ProjectsPayload(t, ps) \in Payload
  /\ \A cs \in SUBSET Cars : CarsPayload(cs) \in Payload
<1>1. NoPayload \in Payload
  BY ZenonT(60) DEF NoPayload, Payload, Reason, Trigger
<1>2. NoRun \in Run
  BY <1>1, ZenonT(60) DEF NoRun, Run, Status
<1>3. \A u \in Users \cup {None}, x \in Payload : NewRun(u, x) \in Run
  BY <1>1, ZenonT(60) DEF NewRun, NoRun, Run, Status, LiveStatus
<1>4. \A ps \in SUBSET Projects, t \in Trigger : ProjectsPayload(t, ps) \in Payload
  BY ZenonT(60) DEF ProjectsPayload, NoPayload, Payload, Reason
<1>5. \A cs \in SUBSET Cars : CarsPayload(cs) \in Payload
  BY ZenonT(60) DEF CarsPayload, NoPayload, Payload, Reason, Trigger
<1> QED BY <1>1, <1>2, <1>3, <1>4, <1>5

\* A flush of well formed rows is a well formed row.
LEMMA FlushedType ==
  ASSUME NEW r1 \in Run, NEW r2 \in Run, NEW r3 \in Run
  PROVE  Flushed(r1, r2, r3) \in Run
BY ZenonT(60) DEF Flushed, Run

\* Each handler turns a well formed row into a well formed row.
LEMMA HandlerRows ==
  \A r \in Run : /\ CancelledRow(r) \in Run
                 /\ \A ps \in SUBSET Projects : AbsorbedRow(ps, r) \in Run
                 /\ \A p \in Projects \cup {None} : DetachedRow(p, r) \in Run
                 /\ ShutdownRow(r) \in Run
                 /\ SleepRow(r) \in Run
                 /\ RecoveredRow(r) \in Run
<1> TAKE r \in Run
<1>1. CancelledRow(r) \in Run
  BY ZenonT(60) DEF CancelledRow, Run, Payload, Status, LiveStatus, ActiveStatus, TerminalStatus
<1>2. \A ps \in SUBSET Projects : AbsorbedRow(ps, r) \in Run
  BY ZenonT(60) DEF AbsorbedRow, Run, Payload, Reason, Status, TerminalStatus
<1>3. ASSUME NEW p \in Projects \cup {None} PROVE DetachedRow(p, r) \in Run
  <2> DEFINE rest == [r EXCEPT !.payload.projects = @ \ {p}]
             gone == [rest EXCEPT !.payload.reason = "PROJECT_DELETED"]
  <2>1. rest \in Run
    BY ZenonT(60) DEF Run, Payload
  <2> HIDE DEF rest
  <2>2. gone \in Run
    BY <2>1, ZenonT(60) DEF Run, Payload, Reason
  <2> HIDE DEF gone
  <2>3. [gone EXCEPT !.status = "CANCELLED", !.worker = None, !.payload.current = None] \in Run
    BY <2>2, ZenonT(60) DEF Run, Payload, Status, TerminalStatus
  <2>4. [gone EXCEPT !.status = "CANCEL_REQUESTED"] \in Run
    BY <2>2, ZenonT(60) DEF Run, Status, LiveStatus, ActiveStatus
  <2> QED BY <2>1, <2>3, <2>4, ZenonT(60) DEF DetachedRow, rest, gone
<1>4. ShutdownRow(r) \in Run /\ SleepRow(r) \in Run
  BY ZenonT(60) DEF ShutdownRow, SleepRow, Run, Payload, Reason, Status, LiveStatus,
             ActiveStatus, TerminalStatus
<1>5. RecoveredRow(r) \in Run
  BY ZenonT(60) DEF RecoveredRow, Run, Payload, Status, LiveStatus, ActiveStatus, TerminalStatus
<1> QED BY <1>1, <1>2, <1>3, <1>4, <1>5

-----------------------------------------------------------------------------
(* The type invariant *)

\* A worker that has a run knows which, and one that scans a project knows which:
\* without it the rows a worker writes would have no type.
LocalsOK ==
  \A w \in Workers : /\ wk[w].pc \in Working => wk[w].job \in Jobs
                     /\ wk[w].pc \in {"scan", "load"} => wk[w].unit \in Projects

TypeInv == TypeOK /\ LocalsOK

\* The resting states of workers and requests are well formed.
LEMMA IdleTypes == IdleReq \in Request /\ IdleWorker \in Worker
<1>1. IdleReq \in Request
  BY NewRows, ZenonT(60) DEF IdleReq, Request, ReqOp
<1>2. IdleWorker \in Worker
  BY NewRows, ZenonT(60) DEF IdleWorker, Worker, WorkerPc
<1> QED BY <1>1, <1>2

\* The rows a handler keeps are well formed.
LEMMA LoadedType ==
  ASSUME TypeOK, NEW T
  PROVE  Loaded(T) \in [Jobs -> Run]
BY NewRows, ZenonT(60) DEF Loaded, TypeOK

\* The initial state.
LEMMA InitType == Init => TypeInv
<1> SUFFICES ASSUME Init PROVE TypeOK /\ LocalsOK
  BY DEF TypeInv
<1>1. runs \in [Jobs -> Run]
  BY NewRows, ZenonT(60) DEF Init
<1>2. psr \in [Jobs -> [Projects -> PsrStatus]]
  BY ZenonT(60) DEF Init, PsrStatus
<1>3. wk \in [Workers -> Worker] /\ req \in [Requests -> Request]
  BY IdleTypes, ZenonT(60) DEF Init
<1>4. LocalsOK
  BY SMT DEF Init, LocalsOK, IdleWorker, Working
<1> QED BY <1>1, <1>2, <1>3, <1>4 DEF Init, TypeOK

\* The loading half of a handler: only req changes.
LEMMA LoadType ==
  ASSUME TypeInv, NEW h \in Requests, NEW request \in Request, Load(h, request),
         UNCHANGED <<runs, psr, active, projects, up, wk>>, stopping' \in BOOLEAN
  PROVE  TypeInv'
<1>1. req' \in [Requests -> Request]
  BY ZenonT(60) DEF Load, TypeInv, TypeOK
<1> QED BY <1>1 DEF TypeInv, TypeOK, LocalsOK

\* The writing half of a handler: the new tables are committed or rolled back.
LEMMA CommitType ==
  ASSUME TypeInv, NEW h \in Requests, NEW table \in [Jobs -> Run],
         NEW newPsr \in [Jobs -> [Projects -> PsrStatus]],
         NEW newActive \in SUBSET Users, NEW newProjects \in SUBSET Projects,
         Commit(h, table, newPsr, newActive, newProjects)
  PROVE  TypeInv'
<1>1. req' \in [Requests -> Request]
  BY IdleTypes, ZenonT(60) DEF Commit, TypeInv, TypeOK
<1>2. /\ runs' \in [Jobs -> Run]
      /\ psr' \in [Jobs -> [Projects -> PsrStatus]]
      /\ active' \in SUBSET Users
      /\ projects' \in SUBSET Projects
  BY ZenonT(60) DEF Commit, TypeInv, TypeOK
<1> QED BY <1>1, <1>2 DEF Commit, TypeInv, TypeOK, LocalsOK

\* A step that calls a handler.
LEMMA CallType ==
  ASSUME TypeInv, NEW h \in Requests, Call(h)
  PROVE  TypeInv'
<1>0. TypeOK
  BY DEF TypeInv
<1>1. ASSUME NEW j \in Jobs, cancel_scan(h, j) PROVE TypeInv'
  <2>1. [IdleReq EXCEPT !.op = "cancel", !.seen = Loaded({j})] \in Request
    BY <1>0, <1>1, LoadedType, IdleTypes, ZenonT(60) DEF cancel_scan, Load, Request, ReqOp
  <2> QED BY <1>0, <1>1, <2>1, LoadType DEF cancel_scan, TypeOK
<1>2. ASSUME NEW u \in Users, NEW x \in ManualPayloads, enqueue(h, u, x) PROVE TypeInv'
  <2>0. x \in Payload
    BY <1>2, NewRows, ZenonT(60) DEF ManualPayloads, Trigger
  <2>1. [IdleReq EXCEPT !.op = "enqueue", !.user = u, !.payload = x,
                        !.seen = Loaded(LiveRunsOf(u))] \in Request
    BY <1>0, <1>2, <2>0, LoadedType, IdleTypes, ZenonT(60) DEF enqueue, Load, Request, ReqOp
  <2> QED BY <1>0, <1>2, <2>1, LoadType DEF enqueue, TypeOK
<1>3. ASSUME NEW u \in Users, NEW ps \in SUBSET Projects, enqueue_scheduled(h, u, ps)
      PROVE  TypeInv'
  <2>0. ProjectsPayload("AUTOMATIC", ps) \in Payload
    BY NewRows, ZenonT(60) DEF Trigger
  <2>1. [IdleReq EXCEPT !.op = "schedule", !.user = u,
                        !.payload = ProjectsPayload("AUTOMATIC", ps),
                        !.seen = Loaded(LiveRunsOf(u))] \in Request
    BY <1>0, <1>3, <2>0, LoadedType, IdleTypes, ZenonT(60)
       DEF enqueue_scheduled, Load, Request, ReqOp
  <2> QED BY <1>0, <1>3, <2>1, LoadType DEF enqueue_scheduled, TypeOK
<1>4. ASSUME NEW p \in Projects, delete_project(h, p) PROVE TypeInv'
  <2> DEFINE T == {j \in LiveRunsOf(Owner[p]) : p \in runs[j].payload.projects}
  <2>1. [IdleReq EXCEPT !.op = "delete", !.project = p, !.seen = Loaded(T)] \in Request
    BY <1>0, <1>4, LoadedType, IdleTypes, ZenonT(60) DEF delete_project, Load, Request, ReqOp
  <2> QED BY <1>0, <1>4, <2>1, LoadType DEF delete_project, TypeOK
<1>5. ASSUME request_shutdown(h) PROVE TypeInv'
  <2> DEFINE T == {j \in Jobs : runs[j].status \in {"QUEUED", "RUNNING"}}
  <2>1. [IdleReq EXCEPT !.op = "shutdown", !.seen = Loaded(T)] \in Request
    BY <1>0, <1>5, LoadedType, IdleTypes, ZenonT(60) DEF request_shutdown, Load, Request, ReqOp
  <2> QED BY <1>0, <1>5, <2>1, LoadType DEF request_shutdown, TypeOK
<1>6. ASSUME request_sleep_interruption(h) PROVE TypeInv'
  <2> DEFINE T == {j \in Jobs : runs[j].status = "RUNNING"}
  <2>1. [IdleReq EXCEPT !.op = "sleep", !.seen = Loaded(T)] \in Request
    BY <1>0, <1>6, LoadedType, IdleTypes, ZenonT(60)
       DEF request_sleep_interruption, Load, Request, ReqOp
  <2> QED BY <1>0, <1>6, <2>1, LoadType DEF request_sleep_interruption, TypeOK
<1> QED BY <1>1, <1>2, <1>3, <1>4, <1>5, <1>6 DEF Call

\* A step that finishes a handler.
LEMMA ReplyType ==
  ASSUME TypeInv, NEW h \in Requests, Reply(h)
  PROVE  TypeInv'
<1>0. /\ TypeOK
      /\ runs \in [Jobs -> Run]
      /\ psr \in [Jobs -> [Projects -> PsrStatus]]
      /\ active \in SUBSET Users /\ projects \in SUBSET Projects
      /\ req[h] \in Request
  BY DEF TypeInv, TypeOK
<1>a. req[h].seen \in [Jobs -> Run]
  BY <1>0, ZenonT(60) DEF Request
<1>b. req[h].payload \in Payload /\ req[h].payload.projects \in SUBSET Projects
  BY <1>0, ZenonT(60) DEF Request, Payload
<1>c. ASSUME NEW u \in Users \cup {None}, NEW x \in Payload, NEW id \in Jobs,
             NEW table \in [Jobs -> Run]
      PROVE  [table EXCEPT ![id] = NewRun(u, x)] \in [Jobs -> Run]
  BY NewRows, ZenonT(60)
<1>1. ASSUME cancel_scan_commit(h) PROVE TypeInv'
  <2>1. Rewritten(h, Selected(h), CancelledRow) \in [Jobs -> Run]
    BY <1>0, <1>a, FlushedType, HandlerRows, ZenonT(60) DEF Rewritten
  <2> QED BY <1>0, <1>1, <2>1, CommitType DEF cancel_scan_commit
<1>2. ASSUME enqueue_commit(h) PROVE TypeInv'
  <2> DEFINE absorb(r) == AbsorbedRow(req[h].payload.projects, r)
             table == Rewritten(h, Absorbed(req[h].seen, req[h].payload), absorb)
  <2>1. table \in [Jobs -> Run]
    BY <1>0, <1>a, <1>b, FlushedType, HandlerRows, ZenonT(60) DEF Rewritten
  <2>2. ASSUME NEW id \in Jobs
        PROVE  [table EXCEPT ![id] = NewRun(req[h].user, req[h].payload)] \in [Jobs -> Run]
    BY <1>0, <1>b, <1>c, <2>1 DEF Request
  <2>3. CASE Refused(req[h].seen, req[h].payload)
    BY <1>0, <1>2, <2>3, CommitType, ZenonT(60) DEF enqueue_commit
  <2>4. CASE ~Refused(req[h].seen, req[h].payload)
    <3>1. PICK id \in Jobs :
            Commit(h, [table EXCEPT ![id] = NewRun(req[h].user, req[h].payload)],
                   psr, active, projects)
      BY <1>2, <2>4, ZenonT(60) DEF enqueue_commit
    <3> HIDE DEF table
    <3> QED BY <1>0, <2>2, <3>1, CommitType, ZenonT(60)
  <2> QED BY <2>3, <2>4
<1>3. ASSUME enqueue_scheduled_commit(h) PROVE TypeInv'
  <2>2. ASSUME NEW id \in Jobs
        PROVE  [runs EXCEPT ![id] = NewRun(req[h].user, req[h].payload)] \in [Jobs -> Run]
    BY <1>0, <1>b, <1>c DEF Request
  <2> QED BY <1>0, <1>3, <2>2, CommitType, ZenonT(60) DEF enqueue_scheduled_commit
<1>4. ASSUME delete_project_commit(h) PROVE TypeInv'
  <2> DEFINE p == req[h].project
             detach(r) == DetachedRow(p, r)
             newPsr == [j \in Jobs |-> [psr[j] EXCEPT ![p] = "ABSENT"]]
  <2>0. p \in Projects \cup {None}
    BY <1>0, ZenonT(60) DEF Request
  <2>1. Rewritten(h, Selected(h), detach) \in [Jobs -> Run]
    BY <1>0, <1>a, <2>0, FlushedType, HandlerRows, ZenonT(60) DEF Rewritten
  <2>2. newPsr \in [Jobs -> [Projects -> PsrStatus]]
    BY <1>0, ZenonT(60) DEF PsrStatus
  <2>3. projects \ {p} \in SUBSET Projects
    BY <1>0
  <2>4. Commit(h, Rewritten(h, Selected(h), detach), newPsr, active, projects \ {p})
    BY <1>4 DEF delete_project_commit
  <2> HIDE DEF detach, newPsr, p
  <2> QED BY <1>0, <2>1, <2>2, <2>3, <2>4, CommitType
<1>5. ASSUME request_shutdown_commit(h) PROVE TypeInv'
  <2> DEFINE newPsr == [j \in Jobs |-> [p \in Projects |->
                          IF req[h].seen[j].status = "QUEUED" /\ psr[j][p] \in LivePsr
                          THEN "CANCELLED" ELSE psr[j][p]]]
  <2>1. Rewritten(h, Selected(h), ShutdownRow) \in [Jobs -> Run]
    BY <1>0, <1>a, FlushedType, HandlerRows, ZenonT(60) DEF Rewritten
  <2>2. newPsr \in [Jobs -> [Projects -> PsrStatus]]
    BY <1>0, ZenonT(60) DEF PsrStatus
  <2>3. Commit(h, Rewritten(h, Selected(h), ShutdownRow), newPsr, active, projects)
    BY <1>5 DEF request_shutdown_commit
  <2> HIDE DEF newPsr
  <2> QED BY <1>0, <2>1, <2>2, <2>3, CommitType
<1>6. ASSUME request_sleep_interruption_commit(h) PROVE TypeInv'
  <2>1. Rewritten(h, Selected(h), SleepRow) \in [Jobs -> Run]
    BY <1>0, <1>a, FlushedType, HandlerRows, ZenonT(60) DEF Rewritten
  <2> QED BY <1>0, <1>6, <2>1, CommitType DEF request_sleep_interruption_commit
<1> QED BY <1>1, <1>2, <1>3, <1>4, <1>5, <1>6 DEF Reply

\* A step of one worker: it is enough to type what it writes.
LEMMA WorkerType ==
  ASSUME TypeInv, NEW w \in Workers, NEW local \in Worker, Becomes(w, local),
         local.pc \in Working => local.job \in Jobs,
         local.pc \in {"scan", "load"} => local.unit \in Projects,
         UNCHANGED <<active, projects, up, stopping, req>>,
         runs' \in [Jobs -> Run], psr' \in [Jobs -> [Projects -> PsrStatus]]
  PROVE  TypeInv'
<1>1. wk' \in [Workers -> Worker]
  BY ZenonT(60) DEF Becomes, TypeInv, TypeOK
<1>2. LocalsOK'
  BY SMT DEF Becomes, TypeInv, TypeOK, LocalsOK
<1> QED BY <1>1, <1>2 DEF TypeInv, TypeOK

\* What the type invariant says of a worker that has a run.
LEMMA WorkingTypes ==
  ASSUME TypeInv, NEW w \in Workers, wk[w].pc \in Working
  PROVE  /\ Job(w) \in Jobs
         /\ Stored(w) \in Run
         /\ wk[w] \in Worker
         /\ wk[w].row \in Run
<1>1. Job(w) \in Jobs /\ wk[w] \in Worker
  BY ZenonT(60) DEF TypeInv, TypeOK, LocalsOK, Job
<1>2. Stored(w) \in Run
  BY <1>1, ZenonT(60) DEF TypeInv, TypeOK, Stored
<1>3. wk[w].row \in Run
  BY <1>1, ZenonT(60) DEF Worker
<1> QED BY <1>1, <1>2, <1>3

\* Replacing one run of the table.
LEMMA RunUpdate ==
  ASSUME TypeInv, NEW j \in Jobs, NEW r \in Run
  PROVE  [runs EXCEPT ![j] = r] \in [Jobs -> Run]
BY ZenonT(60) DEF TypeInv, TypeOK

\* Rewriting the payload of a run.
LEMMA PayloadUpdate ==
  ASSUME TypeInv, NEW j \in Jobs, NEW x \in Payload
  PROVE  [runs EXCEPT ![j].payload = x] \in [Jobs -> Run]
BY ZenonT(60) DEF TypeInv, TypeOK, Run

\* A payload with another current project is a payload.
LEMMA WithPayloadType ==
  ASSUME NEW r \in Run, NEW u \in Projects \cup {None}
  PROVE  WithPayload(r, u) \in Payload
BY ZenonT(60) DEF WithPayload, Run, Payload

\* Claiming and the start of the loop.
LEMMA ClaimType ==
  ASSUME TypeInv, NEW w \in Workers, run(w) \/ claim_next_job(w)
  PROVE  TypeInv'
<1>0. TypeOK /\ wk[w] \in Worker
  BY DEF TypeInv, TypeOK
<1>1. CASE run(w)
  <2>1. [wk[w] EXCEPT !.pc = "poll"] \in Worker
    BY <1>0, ZenonT(60) DEF Worker, WorkerPc
  <2>2. [wk[w] EXCEPT !.pc = "poll"].pc = "poll"
    BY <1>0, SMT DEF Worker
  <2> QED BY <1>0, <1>1, <2>1, <2>2, WorkerType DEF run, Working, TypeOK
<1>2. ASSUME NEW j \in Jobs, claim_next_job(w), Claimable(j),
             runs' = [runs EXCEPT ![j] = [@ EXCEPT !.status = "RUNNING", !.worker = w]],
             Becomes(w, [IdleWorker EXCEPT !.pc = "begin", !.job = j])
      PROVE  TypeInv'
  <2>1. [IdleWorker EXCEPT !.pc = "begin", !.job = j] \in Worker
    BY IdleTypes, ZenonT(60) DEF Worker, WorkerPc
  <2>2. /\ [IdleWorker EXCEPT !.pc = "begin", !.job = j].pc = "begin"
        /\ [IdleWorker EXCEPT !.pc = "begin", !.job = j].job = j
    BY SMT DEF IdleWorker
  <2>3. [runs[j] EXCEPT !.status = "RUNNING", !.worker = w] \in Run
    BY <1>0, ZenonT(60) DEF TypeOK, Run, Status, LiveStatus, ActiveStatus
  <2>4. runs' \in [Jobs -> Run]
    BY <1>2, <2>3, RunUpdate
  <2> QED BY <1>0, <1>2, <2>1, <2>2, <2>4, WorkerType DEF claim_next_job, TypeOK
<1>3. ASSUME claim_next_job(w), Becomes(w, [wk[w] EXCEPT !.pc = "idle"]), UNCHANGED runs
      PROVE  TypeInv'
  <2>1. [wk[w] EXCEPT !.pc = "idle"] \in Worker
    BY <1>0, ZenonT(60) DEF Worker, WorkerPc
  <2>2. [wk[w] EXCEPT !.pc = "idle"].pc = "idle"
    BY <1>0, SMT DEF Worker
  <2> QED BY <1>0, <1>3, <2>1, <2>2, WorkerType DEF claim_next_job, Working, TypeOK
<1> QED BY <1>1, <1>2, <1>3 DEF claim_next_job

\* The refused case of a checkpoint.
LEMMA StopType ==
  ASSUME TypeInv, NEW w \in Workers, wk[w].pc \in Working, StopAtCheckpoint(w),
         UNCHANGED <<active, projects, up, stopping, req>>
  PROVE  TypeInv'
<1> DEFINE row == IF Cancelling(w) THEN Stored(w)
                                   ELSE [Stored(w) EXCEPT !.status = "CANCEL_REQUESTED"]
           local == [wk[w] EXCEPT !.pc = "cancelled", !.row = row]
<1>1. Job(w) \in Jobs /\ Stored(w) \in Run /\ wk[w] \in Worker
  BY WorkingTypes
<1>2. row \in Run
  BY <1>1, ZenonT(60) DEF Run, Status, LiveStatus, ActiveStatus
<1>3. Becomes(w, local) /\ runs' = [runs EXCEPT ![Job(w)] = row] /\ UNCHANGED psr
  BY DEF StopAtCheckpoint
<1> HIDE DEF row
<1>4. local \in Worker
  BY <1>1, <1>2, ZenonT(60) DEF Worker, WorkerPc
<1>5. local.pc = "cancelled" /\ local.job = Job(w)
  BY <1>1, SMT DEF Worker, Job
<1>6. runs' \in [Jobs -> Run]
  BY <1>1, <1>2, <1>3, RunUpdate
<1> HIDE DEF local
<1> QED BY <1>1, <1>3, <1>4, <1>5, <1>6, WorkerType DEF TypeInv, TypeOK

\* The rows process_job writes, and the locals it keeps, are well formed: first
\* the steps outside a unit.
LEMMA JobType ==
  ASSUME TypeInv, NEW w \in Workers,
         \/ begin_job(w) \/ launch(w) \/ fail_job(w) \/ gate_stop(w)
         \/ finish_job(w) \/ finish_cancelled_job(w)
  PROVE  TypeInv'
<1>0. TypeOK /\ runs \in [Jobs -> Run] /\ psr \in [Jobs -> [Projects -> PsrStatus]]
  BY DEF TypeInv, TypeOK
<1>1. wk[w].pc \in Working
  BY SMT DEF begin_job, launch, fail_job, gate_stop, finish_job, finish_cancelled_job,
             At, Working, WorkerPc
<1>2. Job(w) \in Jobs /\ Stored(w) \in Run /\ wk[w] \in Worker /\ wk[w].row \in Run
  BY <1>1, WorkingTypes
<1>3. IdleWorker \in Worker /\ IdleWorker.pc = "idle"
  BY IdleTypes, ZenonT(60) DEF IdleWorker
<1>4. CASE begin_job(w)
  <2> DEFINE row == Stored(w)
             mine == {p \in row.payload.projects : p \in projects /\ Owner[p] = row.owner}
             local == [wk[w] EXCEPT !.pc = "launch", !.row = row,
                                    !.todo = row.payload.projects \cup row.payload.cars]
             newPsr == [psr EXCEPT ![Job(w)] =
                          [p \in Projects |-> IF p \in mine THEN "QUEUED" ELSE @[p]]]
  <2>1. ASSUME Becomes(w, IdleWorker), UNCHANGED <<runs, psr>>
        PROVE  TypeInv'
    BY <1>0, <1>3, <1>4, <2>1, WorkerType DEF begin_job, At, Working
  <2>2. ASSUME Becomes(w, IdleWorker), UNCHANGED psr,
               runs' = [runs EXCEPT ![Job(w)] = [@ EXCEPT !.status = "CANCELLED",
                                                 !.payload.reason = "ACCOUNT_INACTIVE"]]
        PROVE  TypeInv'
    <3>1. [runs[Job(w)] EXCEPT !.status = "CANCELLED",
                               !.payload.reason = "ACCOUNT_INACTIVE"] \in Run
      BY <1>2, ZenonT(60) DEF Stored, Run, Payload, Reason, Status, TerminalStatus
    <3>2. runs' \in [Jobs -> Run]
      BY <1>2, <2>2, <3>1, RunUpdate
    <3> QED BY <1>0, <1>3, <1>4, <2>2, <3>2, WorkerType DEF begin_job, At, Working
  <2>3. ASSUME Becomes(w, local), UNCHANGED runs, psr' = newPsr
        PROVE  TypeInv'
    <3>1. row.payload.projects \cup row.payload.cars \in SUBSET (Projects \cup Cars)
      BY <1>2, SMT DEF Run, Payload
    <3>2. local \in Worker
      BY <1>2, <3>1, ZenonT(60) DEF Worker, WorkerPc
    <3>3. local.pc = "launch" /\ local.job = Job(w)
      BY <1>2, SMT DEF Worker, Job
    <3>4. newPsr \in [Jobs -> [Projects -> PsrStatus]]
      BY <1>0, <1>2, ZenonT(60) DEF PsrStatus, LivePsr
    <3> HIDE DEF local, newPsr
    <3> QED BY <1>0, <1>2, <1>4, <2>3, <3>2, <3>3, <3>4, WorkerType DEF begin_job, At
  <2> QED BY <1>4, <2>1, <2>2, <2>3 DEF begin_job
<1>5. CASE launch(w)
  <2> DEFINE local == [wk[w] EXCEPT !.pc = "gate"]
  <2>1. local \in Worker
    BY <1>2, ZenonT(60) DEF Worker, WorkerPc
  <2>2. local.pc = "gate" /\ local.job = Job(w)
    BY <1>2, SMT DEF Worker, Job
  <2>3. Becomes(w, local)
    BY <1>5 DEF launch
  <2> HIDE DEF local
  <2> QED BY <1>0, <1>2, <1>5, <2>1, <2>2, <2>3, WorkerType DEF launch, At
<1>6. CASE fail_job(w)
  <2>1. [wk[w].row EXCEPT !.status = "FAILED"] \in Run
    BY <1>2, ZenonT(60) DEF Run, Status, TerminalStatus
  <2>2. runs' \in [Jobs -> Run]
    BY <1>0, <1>2, <1>6, <2>1, FlushedType, RunUpdate DEF fail_job
  <2> QED BY <1>0, <1>3, <1>6, <2>2, WorkerType DEF fail_job, At, Working
<1>7. CASE gate_stop(w)
  BY <1>1, <1>7, StopType DEF gate_stop, At
<1>8. CASE finish_job(w)
  <2>1. [runs EXCEPT ![Job(w)].status = FinalStatus(w)] \in [Jobs -> Run]
    BY <1>0, <1>2, ZenonT(60) DEF FinalStatus, Run, Status, TerminalStatus
  <2> QED BY <1>0, <1>3, <1>8, <2>1, WorkerType DEF finish_job, At, Working
<1>9. CASE finish_cancelled_job(w)
  <2> DEFINE row == wk[w].row
             terminal == IF row.payload.reason = "SYSTEM_SLEEP" THEN "INTERRUPTED_SLEEP"
                                                                ELSE "CANCELLED"
             done == [row EXCEPT !.status = terminal, !.payload.current = None]
             newPsr == [psr EXCEPT ![Job(w)] =
                          [p \in Projects |-> IF @[p] \in LivePsr THEN terminal ELSE @[p]]]
  <2>0. terminal \in {"INTERRUPTED_SLEEP", "CANCELLED"}
    OBVIOUS
  <2>1. runs' = [runs EXCEPT ![Job(w)] = Flushed(@, row, done)] /\ psr' = newPsr
    BY <1>9 DEF finish_cancelled_job
  <2> HIDE DEF terminal
  <2>2. done \in Run
    BY <1>2, <2>0, ZenonT(60) DEF Run, Payload, Status, TerminalStatus
  <2>3. newPsr \in [Jobs -> [Projects -> PsrStatus]]
    BY <1>0, <1>2, <2>0, ZenonT(60) DEF PsrStatus
  <2> HIDE DEF newPsr, done
  <2>4. runs' \in [Jobs -> Run]
    BY <1>0, <1>2, <2>1, <2>2, FlushedType, RunUpdate
  <2> QED BY <1>0, <1>3, <1>9, <2>1, <2>3, <2>4, WorkerType
          DEF finish_cancelled_job, At, Working
<1> QED BY <1>4, <1>5, <1>6, <1>7, <1>8, <1>9

\* The steps inside a unit.
LEMMA UnitType ==
  ASSUME TypeInv, NEW w \in Workers,
         \/ checkpoint(w) \/ discard_result(w) \/ publish_project(w) \/ drain(w)
         \/ \E p \in Projects : open_project(w, p)
         \/ \E c \in Cars : open_car(w, c)
         \/ \E fails \in BOOLEAN : publish_progress(w, fails)
         \/ \E ok, captcha \in BOOLEAN : settle_project(w, ok, captcha)
         \/ \E outcome \in CarOutcome : settle_car(w, outcome)
  PROVE  TypeInv'
<1>0. /\ TypeOK /\ runs \in [Jobs -> Run] /\ psr \in [Jobs -> [Projects -> PsrStatus]]
      /\ UNCHANGED <<active, projects, up, stopping, req>>
  BY DEF TypeInv, TypeOK, checkpoint, discard_result, publish_project, drain, open_project,
         open_car, publish_progress, settle_project, settle_car, At
<1>1. wk[w].pc \in Working
  <2>1. wk[w].pc \in {"gate", "scan", "load", "car", "publish", "drain"}
    BY ZenonT(60) DEF checkpoint, discard_result, publish_project, drain, open_project,
                 open_car, publish_progress, settle_project, settle_car, At
  <2> QED BY <2>1, SMT DEF Working, WorkerPc
<1>2. Job(w) \in Jobs /\ Stored(w) \in Run /\ wk[w] \in Worker /\ wk[w].row \in Run
  BY <1>1, WorkingTypes
<1>3. ASSUME wk[w].pc \in {"scan", "load"} PROVE wk[w].unit \in Projects
  BY <1>3 DEF TypeInv, LocalsOK
<1>4. ASSUME NEW p \in Projects, open_project(w, p) PROVE TypeInv'
  <2>1. ASSUME OpenedProject(w, p) PROVE TypeInv'
    <3> DEFINE x == WithPayload(Stored(w), p)
               row == [Stored(w) EXCEPT !.payload = x]
               local == [wk[w] EXCEPT !.pc = "scan", !.unit = p, !.stale = FALSE, !.row = row]
    <3>1. x \in Payload
      BY <1>2, WithPayloadType
    <3>2. /\ psr' = SetPsr(w, p, "RUNNING") /\ Becomes(w, local)
          /\ runs' = [runs EXCEPT ![Job(w)].payload = x]
      BY <2>1 DEF OpenedProject
    <3> HIDE DEF x
    <3>3. row \in Run
      BY <1>2, <3>1, ZenonT(60) DEF Run
    <3> HIDE DEF row
    <3>4. local \in Worker
      BY <1>2, <3>3, ZenonT(60) DEF Worker, WorkerPc
    <3>5. local.pc = "scan" /\ local.job = Job(w) /\ local.unit = p
      BY <1>2, SMT DEF Worker, Job
    <3>6. psr' \in [Jobs -> [Projects -> PsrStatus]]
      BY <1>0, <1>2, <3>2, ZenonT(60) DEF SetPsr, PsrStatus, LivePsr
    <3>7. runs' \in [Jobs -> Run]
      BY <1>2, <3>1, <3>2, PayloadUpdate
    <3> HIDE DEF local
    <3> QED BY <1>0, <1>2, <3>2, <3>4, <3>5, <3>6, <3>7, WorkerType
  <2>2. ASSUME Becomes(w, [wk[w] EXCEPT !.row = Stored(w), !.stale = FALSE,
                                        !.failed = TRUE, !.todo = @ \ {p}]),
               UNCHANGED <<runs, psr>>
        PROVE  TypeInv'
    <3> DEFINE local == [wk[w] EXCEPT !.row = Stored(w), !.stale = FALSE,
                                      !.failed = TRUE, !.todo = @ \ {p}]
    <3>1. local \in Worker
      BY <1>2, ZenonT(60) DEF Worker
    <3>2. local.pc = wk[w].pc /\ local.job = Job(w) /\ local.unit = wk[w].unit
      BY <1>2, SMT DEF Worker, Job
    <3> HIDE DEF local
    <3> QED BY <1>0, <1>2, <1>3, <2>2, <3>1, <3>2, WorkerType DEF local
  <2> QED BY <1>4, <2>1, <2>2 DEF open_project
<1>5. ASSUME NEW c \in Cars, open_car(w, c) PROVE TypeInv'
  <2> DEFINE local == [wk[w] EXCEPT !.pc = "car", !.unit = c, !.stale = FALSE,
                                    !.row = Stored(w)]
  <2>1. local \in Worker
    BY <1>2, ZenonT(60) DEF Worker, WorkerPc
  <2>2. local.pc = "car" /\ local.job = Job(w)
    BY <1>2, SMT DEF Worker, Job
  <2>3. Becomes(w, local) /\ UNCHANGED <<runs, psr>>
    BY <1>5 DEF open_car
  <2> HIDE DEF local
  <2> QED BY <1>0, <1>2, <2>1, <2>2, <2>3, WorkerType
<1>6. CASE checkpoint(w)
  <2>1. CASE StopAtCheckpoint(w)
    BY <1>0, <1>1, <2>1, StopType
  <2>2. CASE ~StopAtCheckpoint(w)
    <3> DEFINE local == [wk[w] EXCEPT !.pc = "load", !.row = Stored(w), !.stale = FALSE]
    <3>1. local \in Worker
      BY <1>2, ZenonT(60) DEF Worker, WorkerPc
    <3>2. local.pc = "load" /\ local.job = Job(w) /\ local.unit = wk[w].unit
      BY <1>2, SMT DEF Worker, Job
    <3>3. Becomes(w, local) /\ UNCHANGED <<runs, psr>> /\ wk[w].pc = "scan"
      BY <1>6, <2>2 DEF checkpoint, At
    <3> HIDE DEF local
    <3> QED BY <1>0, <1>2, <1>3, <3>1, <3>2, <3>3, WorkerType
  <2> QED BY <2>1, <2>2
<1>7. ASSUME NEW fails \in BOOLEAN, publish_progress(w, fails) PROVE TypeInv'
  <2> DEFINE x == WithPayload(wk[w].row, wk[w].unit)
             local == [wk[w] EXCEPT !.pc = "scan", !.row.payload = x, !.failed = @ \/ fails]
  <2>0. wk[w].unit \in Projects
    BY <1>3, <1>7 DEF publish_progress, At
  <2>1. x \in Payload
    BY <1>2, <2>0, WithPayloadType
  <2>2. runs' = [runs EXCEPT ![Job(w)].payload = x] /\ Becomes(w, local) /\ UNCHANGED psr
    BY <1>7 DEF publish_progress
  <2> HIDE DEF x
  <2>3. local \in Worker
    BY <1>2, <2>1, ZenonT(60) DEF Worker, WorkerPc, Run
  <2>4. local.pc = "scan" /\ local.job = Job(w) /\ local.unit = wk[w].unit
    BY <1>2, SMT DEF Worker, Job
  <2>5. runs' \in [Jobs -> Run]
    BY <1>2, <2>1, <2>2, PayloadUpdate
  <2> HIDE DEF local
  <2> QED BY <1>0, <1>2, <2>0, <2>2, <2>3, <2>4, <2>5, WorkerType
<1>8. CASE discard_result(w)
  <2> DEFINE x == WithPayload(Stored(w), wk[w].unit)
             row == [Stored(w) EXCEPT !.payload = x]
             local == [wk[w] EXCEPT !.pc = "scan", !.stale = TRUE, !.row = row]
  <2>0. wk[w].unit \in Projects
    BY <1>3, <1>8 DEF discard_result, At
  <2>1. x \in Payload
    BY <1>2, <2>0, WithPayloadType
  <2>2. runs' = [runs EXCEPT ![Job(w)].payload = x] /\ Becomes(w, local) /\ UNCHANGED psr
    BY <1>8 DEF discard_result
  <2> HIDE DEF x
  <2>3. row \in Run
    BY <1>2, <2>1, ZenonT(60) DEF Run
  <2> HIDE DEF row
  <2>4. local \in Worker
    BY <1>2, <2>3, ZenonT(60) DEF Worker, WorkerPc
  <2>5. local.pc = "scan" /\ local.job = Job(w) /\ local.unit = wk[w].unit
    BY <1>2, SMT DEF Worker, Job
  <2>6. runs' \in [Jobs -> Run]
    BY <1>2, <2>1, <2>2, PayloadUpdate
  <2> HIDE DEF local
  <2> QED BY <1>0, <1>2, <2>0, <2>2, <2>4, <2>5, <2>6, WorkerType
<1>9. ASSUME NEW ok \in BOOLEAN, NEW captcha \in BOOLEAN, settle_project(w, ok, captcha)
      PROVE  TypeInv'
  <2>0. wk[w].unit \in Projects
    BY <1>3, <1>9 DEF settle_project, At
  <2>1. ASSUME psr' = SetPsr(w, wk[w].unit, IF ok THEN "SUCCEEDED" ELSE "FAILED"),
               Becomes(w, [wk[w] EXCEPT !.pc = "publish", !.todo = @ \ {wk[w].unit},
                                        !.failed = @ \/ ~ok, !.succeeded = @ \/ ok,
                                        !.captcha = captcha])
        PROVE  TypeInv'
    <3> DEFINE local == [wk[w] EXCEPT !.pc = "publish", !.todo = @ \ {wk[w].unit},
                                      !.failed = @ \/ ~ok, !.succeeded = @ \/ ok,
                                      !.captcha = captcha]
    <3>1. local \in Worker
      BY <1>2, ZenonT(60) DEF Worker, WorkerPc
    <3>2. local.pc = "publish" /\ local.job = Job(w)
      BY <1>2, SMT DEF Worker, Job
    <3>3. psr' \in [Jobs -> [Projects -> PsrStatus]]
      BY <1>0, <1>2, <2>0, <2>1, ZenonT(60) DEF SetPsr, PsrStatus
    <3>4. runs' \in [Jobs -> Run]
      BY <1>0, <1>9 DEF settle_project
    <3>5. Becomes(w, local)
      BY <2>1
    <3> HIDE DEF local
    <3> QED BY <1>0, <1>2, <3>1, <3>2, <3>3, <3>4, <3>5, WorkerType
  <2>2. ASSUME Becomes(w, [wk[w] EXCEPT !.pc = "dead"]), UNCHANGED psr PROVE TypeInv'
    <3> DEFINE local == [wk[w] EXCEPT !.pc = "dead"]
    <3>1. local \in Worker
      BY <1>2, ZenonT(60) DEF Worker, WorkerPc
    <3>2. local.pc = "dead"
      BY <1>2, SMT DEF Worker
    <3>3. runs' \in [Jobs -> Run] /\ Becomes(w, local)
      BY <1>0, <1>9, <2>2 DEF settle_project
    <3> HIDE DEF local
    <3> QED BY <1>0, <2>2, <3>1, <3>2, <3>3, WorkerType DEF Working
  <2> QED BY <1>9, <2>1, <2>2 DEF settle_project
<1>10. CASE publish_project(w)
  <2> DEFINE x == WithPayload(wk[w].row, None)
             pc == IF wk[w].captcha THEN "drain" ELSE "gate"
             local == [wk[w] EXCEPT !.pc = pc, !.unit = None, !.row.payload = x]
  <2>1. x \in Payload
    BY <1>2, WithPayloadType
  <2>2. runs' = [runs EXCEPT ![Job(w)].payload = x] /\ Becomes(w, local) /\ UNCHANGED psr
    BY <1>10 DEF publish_project
  <2>3. pc \in {"drain", "gate"}
    OBVIOUS
  <2> HIDE DEF x, pc
  <2>4. local \in Worker
    BY <1>2, <2>1, <2>3, ZenonT(60) DEF Worker, WorkerPc, Run
  <2>5. local.pc = pc /\ local.job = Job(w)
    BY <1>2, SMT DEF Worker, Job
  <2>6. runs' \in [Jobs -> Run]
    BY <1>2, <2>1, <2>2, PayloadUpdate
  <2> HIDE DEF local
  <2> QED BY <1>0, <1>2, <2>2, <2>3, <2>4, <2>5, <2>6, WorkerType
<1>11. CASE drain(w)
  <2>1. CASE StopAtCheckpoint(w)
    BY <1>0, <1>1, <2>1, StopType
  <2>2. CASE ~StopAtCheckpoint(w)
    <3> DEFINE local == [wk[w] EXCEPT !.pc = "gate", !.todo = {}, !.row = Stored(w),
                                      !.stale = FALSE]
    <3>1. local \in Worker
      BY <1>2, ZenonT(60) DEF Worker, WorkerPc
    <3>2. local.pc = "gate" /\ local.job = Job(w)
      BY <1>2, SMT DEF Worker, Job
    <3>3. /\ Becomes(w, local) /\ UNCHANGED runs
          /\ psr' = [psr EXCEPT ![Job(w)] = [p \in Projects |->
                                               IF @[p] = "QUEUED" THEN "FAILED" ELSE @[p]]]
      BY <1>11, <2>2 DEF drain
    <3>4. psr' \in [Jobs -> [Projects -> PsrStatus]]
      BY <1>0, <1>2, <3>3, ZenonT(60) DEF PsrStatus
    <3> HIDE DEF local
    <3> QED BY <1>0, <1>2, <3>1, <3>2, <3>3, <3>4, WorkerType
  <2> QED BY <2>1, <2>2
<1>12. ASSUME NEW outcome \in CarOutcome, settle_car(w, outcome) PROVE TypeInv'
  <2> DEFINE from == IF outcome = "error" THEN Stored(w) ELSE wk[w].row
             x == WithPayload(from, None)
             row == [from EXCEPT !.payload = x]
             local == [wk[w] EXCEPT !.pc = "gate", !.unit = None,
                                    !.todo = @ \ {wk[w].unit}, !.row = row,
                                    !.stale = @ \/ outcome = "error",
                                    !.failed = @ \/ outcome \in {"missing", "error"},
                                    !.succeeded = @ \/ outcome = "ok"]
  <2>1. from \in Run
    BY <1>2
  <2>2. runs' = [runs EXCEPT ![Job(w)].payload = x] /\ Becomes(w, local) /\ UNCHANGED psr
    BY <1>12 DEF settle_car
  <2> HIDE DEF from
  <2>3. x \in Payload
    BY <2>1, WithPayloadType
  <2> HIDE DEF x
  <2>4. row \in Run
    BY <2>1, <2>3, ZenonT(60) DEF Run
  <2> HIDE DEF row
  <2>5. local \in Worker
    BY <1>2, <2>4, ZenonT(60) DEF Worker, WorkerPc
  <2>6. local.pc = "gate" /\ local.job = Job(w)
    BY <1>2, SMT DEF Worker, Job
  <2>7. runs' \in [Jobs -> Run]
    BY <1>2, <2>2, <2>3, PayloadUpdate
  <2> HIDE DEF local
  <2> QED BY <1>0, <1>2, <2>2, <2>5, <2>6, <2>7, WorkerType
<1> QED BY <1>4, <1>5, <1>6, <1>7, <1>8, <1>9, <1>10, <1>11, <1>12

\* The steps of accounts and of the process.
LEMMA ProcessType ==
  ASSUME TypeInv,
         \/ \E u \in Users : admin_patch_user(u) \/ reactivate_user(u)
         \/ crash \/ restart
  PROVE  TypeInv'
<1>0. TypeOK /\ runs \in [Jobs -> Run] /\ psr \in [Jobs -> [Projects -> PsrStatus]]
  BY DEF TypeInv, TypeOK
<1>1. ASSUME NEW u \in Users, admin_patch_user(u) PROVE TypeInv'
  <2>1. \A r \in Run : [r EXCEPT !.status = BlockedStatus(r)] \in Run
    BY ZenonT(60) DEF BlockedStatus, Run, Status, LiveStatus, ActiveStatus, TerminalStatus
  <2>2. runs' \in [Jobs -> Run]
    BY <1>0, <1>1, <2>1, ZenonT(60) DEF admin_patch_user
  <2> QED BY <1>1, <2>2 DEF admin_patch_user, TypeInv, TypeOK, LocalsOK
<1>2. ASSUME NEW u \in Users, reactivate_user(u) PROVE TypeInv'
  BY <1>2 DEF reactivate_user, TypeInv, TypeOK, LocalsOK
<1>3. CASE crash
  <2>1. wk' \in [Workers -> Worker] /\ req' \in [Requests -> Request]
    BY <1>3, IdleTypes, ZenonT(60) DEF crash
  <2>2. LocalsOK'
    BY <1>3, SMT DEF crash, LocalsOK, IdleWorker, Working
  <2> QED BY <1>0, <1>3, <2>1, <2>2 DEF crash, TypeInv, TypeOK
<1>4. CASE restart
  <2>1. runs' \in [Jobs -> Run]
    BY <1>0, <1>4, HandlerRows, ZenonT(60) DEF restart
  <2>2. psr' \in [Jobs -> [Projects -> PsrStatus]]
    BY <1>0, <1>4, ZenonT(60) DEF restart, PsrStatus
  <2> QED BY <1>0, <1>4, <2>1, <2>2 DEF restart, TypeInv, TypeOK, LocalsOK
<1> QED BY <1>1, <1>2, <1>3, <1>4

\* Every step keeps the type invariant.
LEMMA NextType == TypeInv /\ [Next]_vars => TypeInv'
<1> SUFFICES ASSUME TypeInv, [Next]_vars PROVE TypeInv'
  OBVIOUS
<1>1. ASSUME NEW h \in Requests, Call(h) \/ Reply(h) PROVE TypeInv'
  BY <1>1, CallType, ReplyType
<1>2. ASSUME NEW w \in Workers, run(w) \/ claim_next_job(w) \/ process_job(w)
      PROVE  TypeInv'
  BY <1>2, ClaimType, JobType, UnitType, ZenonT(60) DEF process_job
<1>3. CASE \/ \E u \in Users : admin_patch_user(u) \/ reactivate_user(u)
           \/ crash \/ restart
  BY <1>3, ProcessType
<1>4. CASE UNCHANGED vars
  BY <1>4 DEF vars, TypeInv, TypeOK, LocalsOK
<1> QED BY <1>1, <1>2, <1>3, <1>4, ZenonT(60) DEF Next

\* The tables and the locals of workers and handlers are well formed in every
\* reachable state, for any number of accounts, projects, runs and threads.
THEOREM TypeCorrect == Spec => []TypeOK
<1>1. Init => TypeInv
  BY InitType
<1>2. TypeInv /\ [Next]_vars => TypeInv'
  BY NextType
<1>3. TypeInv => TypeOK
  BY DEF TypeInv
<1> QED BY <1>1, <1>2, <1>3, PTL DEF Spec

-----------------------------------------------------------------------------
(* The queue invariant *)

\* What the status of a run says about its project rows q: none before the run
\* starts, all complete in a success, none open in an interrupted run.
RowInv(status, q) ==
  /\ status \in {"ABSENT", "QUEUED"} => \A p \in Projects : q[p] = "ABSENT"
  /\ status = "SUCCEEDED" => \A p \in Projects : q[p] \in {"SUCCEEDED", "ABSENT"}
  /\ status \in {"INTERRUPTED", "INTERRUPTED_SLEEP"} =>
       \A p \in Projects : q[p] \notin LivePsr

\* What the locals of a worker say about the project rows q of its run: the
\* projects still to do have no outcome, the others have a good one unless the
\* worker remembers a failure, and a CAPTCHA is a failure.
LocalInv(local, q) ==
  /\ local.pc = "begin" => \A p \in Projects : q[p] = "ABSENT"
  /\ local.pc # "begin" =>
       /\ \A p \in local.todo \cap Projects : q[p] \notin {"SUCCEEDED", "FAILED"}
       /\ ~local.failed => \A p \in Projects \ local.todo : q[p] \in {"SUCCEEDED", "ABSENT"}
  /\ local.pc \in {"scan", "load"} => local.unit \in local.todo
  /\ local.pc = "car" => local.todo \cap Projects = {}
  /\ local.pc = "drain" \/ local.captcha => local.failed

\* A worker's run is never back in the queue and never finished by another.
HeldStatus == {"RUNNING", "CANCEL_REQUESTED", "CANCELLED"}

QueueInv ==
  /\ SingleActive
  /\ ExclusiveProcessing
  /\ \A w \in Workers, j \in Jobs : Holds(w, j) => runs[j].status \in HeldStatus
  /\ \A w \in Workers : ~up => wk[w].pc \notin Working
  /\ \A w \in Workers : wk[w].pc \in Working => LocalInv(wk[w], psr[wk[w].job])
  /\ \A j \in Jobs : RowInv(runs[j].status, psr[j])

\* Project outcomes that a step keeps.
Keeps(q, r) ==
  \A p \in Projects : q[p] \in {"SUCCEEDED", "FAILED"} => r[p] \in {q[p], "ABSENT"}

\* The project rows a handler may leave behind: as they were, deleted, or
\* cancelled if they were open.
Withdrawn(q, r) ==
  \A p \in Projects : \/ r[p] \in {q[p], "ABSENT"}
                      \/ q[p] \in LivePsr /\ r[p] = "CANCELLED"

\* The statuses a handler may leave behind: as they were, a cancellation, or a
\* new run; never a run put back in the queue.
Advances(table) ==
  \A j \in Jobs : \/ table[j].status \in {runs[j].status, "CANCELLED", "CANCEL_REQUESTED"}
                  \/ runs[j].status = "ABSENT" /\ table[j].status = "QUEUED"

\* Withdrawing project rows breaks neither the run's status nor the worker's
\* view of them.
LEMMA WithdrawnRows ==
  ASSUME NEW q \in [Projects -> PsrStatus], NEW r \in [Projects -> PsrStatus],
         Withdrawn(q, r)
  PROVE  /\ Keeps(q, r)
         /\ \A status : RowInv(status, q) => RowInv(status, r)
         /\ \A local : LocalInv(local, q) => LocalInv(local, r)
<1>1. Keeps(q, r)
  BY DEF Withdrawn, Keeps, LivePsr
<1>2. ASSUME NEW status, RowInv(status, q) PROVE RowInv(status, r)
  BY <1>2 DEF Withdrawn, RowInv, LivePsr
<1>3. ASSUME NEW local, LocalInv(local, q) PROVE LocalInv(local, r)
  BY <1>3 DEF Withdrawn, LocalInv, LivePsr
<1> QED BY <1>1, <1>2, <1>3

\* A step of a request thread.  It may cancel runs and insert one, and withdraw
\* project rows; the index refuses a second active run.
LEMMA TablesInv ==
  ASSUME TypeInv, QueueInv, NEW table \in [Jobs -> Run],
         NEW newPsr \in [Jobs -> [Projects -> PsrStatus]], UNCHANGED <<up, wk>>,
         \/ UNCHANGED <<runs, psr>>
         \/ UniqueActive(table) /\ runs' = table /\ psr' = newPsr,
         Advances(table), \A j \in Jobs : Withdrawn(psr[j], newPsr[j])
  PROVE  QueueInv' /\ \A j \in Jobs : Keeps(psr[j], psr'[j])
<1>0. psr \in [Jobs -> [Projects -> PsrStatus]]
  BY DEF TypeInv, TypeOK
<1>1. CASE UNCHANGED <<runs, psr>>
  BY <1>1 DEF QueueInv, SingleActive, ExclusiveProcessing, Holds, LocalInv, RowInv, Keeps,
              UniqueActive
<1>2. CASE UniqueActive(table) /\ runs' = table /\ psr' = newPsr
  <2>1. \A j \in Jobs : /\ Keeps(psr[j], newPsr[j])
                        /\ \A status : RowInv(status, psr[j]) => RowInv(status, newPsr[j])
                        /\ \A local : LocalInv(local, psr[j]) => LocalInv(local, newPsr[j])
    BY <1>0, WithdrawnRows
  <2>2. SingleActive'
    BY <1>2 DEF SingleActive, UniqueActive
  <2>3. ExclusiveProcessing'
    BY DEF QueueInv, ExclusiveProcessing, Holds
  <2>4. \A w \in Workers, j \in Jobs : Holds(w, j)' => runs'[j].status \in HeldStatus
    BY <1>2 DEF QueueInv, Holds, HeldStatus, Advances
  <2>5. \A w \in Workers : ~up' => wk'[w].pc \notin Working
    BY DEF QueueInv
  <2>6. \A w \in Workers : wk'[w].pc \in Working => LocalInv(wk'[w], psr'[wk'[w].job])
    BY <1>2, <2>1 DEF QueueInv, TypeInv, LocalsOK
  <2>7. ASSUME NEW j \in Jobs PROVE RowInv(runs'[j].status, psr'[j])
    <3>1. RowInv(runs[j].status, newPsr[j])
      BY <2>1 DEF QueueInv
    <3> QED BY <1>2, <3>1 DEF RowInv, Advances
  <2> QED BY <1>2, <2>1, <2>2, <2>3, <2>4, <2>5, <2>6, <2>7 DEF QueueInv, Holds
<1> QED BY <1>1, <1>2

\* The same for the commit of a handler, which rolls back on an index error.
LEMMA CommitInv ==
  ASSUME TypeInv, QueueInv, NEW h \in Requests, NEW table \in [Jobs -> Run],
         NEW newPsr \in [Jobs -> [Projects -> PsrStatus]],
         NEW newActive, NEW newProjects, Commit(h, table, newPsr, newActive, newProjects),
         Advances(table), \A j \in Jobs : Withdrawn(psr[j], newPsr[j])
  PROVE  QueueInv' /\ \A j \in Jobs : Keeps(psr[j], psr'[j])
<1>1. \/ UNCHANGED <<runs, psr>>
      \/ UniqueActive(table) /\ runs' = table /\ psr' = newPsr
  BY DEF Commit
<1>2. UNCHANGED <<up, wk>>
  BY DEF Commit
<1> QED BY <1>1, <1>2, TablesInv

\* A step of a worker on its own run: it is enough to look at that run, its
\* project rows and the worker's locals.
LEMMA WorkerInv ==
  ASSUME TypeInv, QueueInv, NEW w \in Workers, wk[w].pc \in Working,
         NEW local, Becomes(w, local), UNCHANGED up, up,
         local.pc \in Working => local.job = Job(w),
         NEW status, NEW q,
         \A i \in Jobs : runs'[i].status = IF i = Job(w) THEN status ELSE runs[i].status,
         psr' = [psr EXCEPT ![Job(w)] = q],
         status \in ActiveStatus => Stored(w).status \in ActiveStatus,
         local.pc \in Working => status \in HeldStatus,
         RowInv(status, q),
         local.pc \in Working => LocalInv(local, q),
         Keeps(psr[Job(w)], q)
  PROVE  QueueInv' /\ \A j \in Jobs : Keeps(psr[j], psr'[j])
<1>0. /\ psr \in [Jobs -> [Projects -> PsrStatus]] /\ Job(w) \in Jobs
      /\ wk \in [Workers -> Worker]
  BY WorkingTypes DEF TypeInv, TypeOK
<1>1. wk'[w] = local /\ \A v \in Workers \ {w} : wk'[v] = wk[v]
  BY <1>0 DEF Becomes
<1>2. psr'[Job(w)] = q /\ \A j \in Jobs \ {Job(w)} : psr'[j] = psr[j]
  BY <1>0
<1>3. \A v \in Workers \ {w} : wk[v].pc \in Working => wk[v].job \in Jobs \ {Job(w)}
  BY <1>0 DEF QueueInv, ExclusiveProcessing, Holds, TypeInv, LocalsOK, Job
<1>4. SingleActive'
  BY <1>0 DEF QueueInv, SingleActive, UniqueActive, Stored
<1>5. ExclusiveProcessing'
  BY <1>1, <1>3 DEF QueueInv, ExclusiveProcessing, Holds
<1>6. ASSUME NEW v \in Workers, NEW j \in Jobs, Holds(v, j)'
      PROVE  runs'[j].status \in HeldStatus
  BY <1>0, <1>1, <1>3, <1>6 DEF QueueInv, Holds
<1>7. \A v \in Workers : ~up' => wk'[v].pc \notin Working
  OBVIOUS
<1>8. ASSUME NEW v \in Workers, wk'[v].pc \in Working
      PROVE  LocalInv(wk'[v], psr'[wk'[v].job])
  <2>1. CASE v = w
    BY <1>1, <1>2, <1>8, <2>1
  <2>2. CASE v # w
    BY <1>1, <1>2, <1>3, <1>8, <2>2 DEF QueueInv
  <2> QED BY <2>1, <2>2
<1>9. \A j \in Jobs : RowInv(runs'[j].status, psr'[j])
  BY <1>2 DEF QueueInv
<1>10. \A j \in Jobs : Keeps(psr[j], psr'[j])
  BY <1>2 DEF Keeps
<1> QED BY <1>4, <1>5, <1>6, <1>7, <1>8, <1>9, <1>10 DEF QueueInv, Holds

\* No handler computes a status other than the one it loaded or a cancellation,
\* so no flush puts a run back in the queue.
LEMMA HandlerStatus ==
  \A r \in Run :
    /\ CancelledRow(r).status \in {"CANCELLED", "CANCEL_REQUESTED"}
    /\ \A ps : AbsorbedRow(ps, r).status \in {r.status, "CANCELLED"}
    /\ \A p : DetachedRow(p, r).status \in {r.status, "CANCELLED", "CANCEL_REQUESTED"}
    /\ ShutdownRow(r).status \in {"CANCELLED", "CANCEL_REQUESTED"}
    /\ SleepRow(r).status = "CANCEL_REQUESTED"
<1> TAKE r \in Run
<1>1. /\ CancelledRow(r).status \in {"CANCELLED", "CANCEL_REQUESTED"}
      /\ \A ps : AbsorbedRow(ps, r).status \in {r.status, "CANCELLED"}
  BY SMT DEF CancelledRow, AbsorbedRow, Run
<1>2. ASSUME NEW p
      PROVE  DetachedRow(p, r).status \in {r.status, "CANCELLED", "CANCEL_REQUESTED"}
  BY SMT DEF DetachedRow, Run
<1>3. /\ ShutdownRow(r).status \in {"CANCELLED", "CANCEL_REQUESTED"}
      /\ SleepRow(r).status = "CANCEL_REQUESTED"
  BY SMT DEF ShutdownRow, SleepRow, Run
<1> QED BY <1>1, <1>2, <1>3

\* The status a flush leaves is the stored one or the one the handler chose.
LEMMA FlushedStatus ==
  ASSUME NEW r1 \in Run, NEW r2 \in Run, NEW r3 \in Run
  PROVE  Flushed(r1, r2, r3).status = IF r3.status # r2.status THEN r3.status ELSE r1.status
BY SMT DEF Flushed, Run

\* A flush of rows a handler computed from the rows it loaded.
LEMMA RewrittenRows ==
  ASSUME TypeInv, NEW h \in Requests, NEW T, NEW new \in [Jobs -> Run],
         \A j \in Jobs : new[j].status \in {req[h].seen[j].status, "CANCELLED",
                                            "CANCEL_REQUESTED"},
         NEW table,
         table = [j \in Jobs |-> IF j \in T THEN Flushed(runs[j], req[h].seen[j], new[j])
                                           ELSE runs[j]]
  PROVE  table \in [Jobs -> Run] /\ Advances(table)
<1>0. runs \in [Jobs -> Run] /\ req[h] \in Request
  BY DEF TypeInv, TypeOK
<1>1. req[h].seen \in [Jobs -> Run]
  BY <1>0, ZenonT(60) DEF Request
<1>2. ASSUME NEW j \in Jobs
      PROVE  /\ Flushed(runs[j], req[h].seen[j], new[j]) \in Run
             /\ Flushed(runs[j], req[h].seen[j], new[j]).status
                  \in {runs[j].status, "CANCELLED", "CANCEL_REQUESTED"}
  <2>1. runs[j] \in Run /\ req[h].seen[j] \in Run /\ new[j] \in Run
    BY <1>0, <1>1
  <2>2. Flushed(runs[j], req[h].seen[j], new[j]) \in Run
    BY <2>1, FlushedType
  <2>3. Flushed(runs[j], req[h].seen[j], new[j]).status =
          IF new[j].status # req[h].seen[j].status THEN new[j].status ELSE runs[j].status
    BY <2>1, FlushedStatus
  <2> QED BY <2>2, <2>3
<1> QED BY <1>0, <1>2 DEF Advances

\* An insert into a table.
LEMMA InsertedRow ==
  ASSUME TypeInv, NEW h \in Requests, NEW table \in [Jobs -> Run], Advances(table),
         NEW id \in Jobs, NextId(id), NEW new,
         new = [table EXCEPT ![id] = NewRun(req[h].user, req[h].payload)]
  PROVE  new \in [Jobs -> Run] /\ Advances(new)
<1>0. req[h] \in Request
  BY DEF TypeInv, TypeOK
<1>1. req[h].user \in Users \cup {None} /\ req[h].payload \in Payload
  BY <1>0, ZenonT(60) DEF Request
<1>2. NewRun(req[h].user, req[h].payload) \in Run
  BY <1>1, NewRows
<1>3. NewRun(req[h].user, req[h].payload).status = "QUEUED"
  BY SMT DEF NewRun, NoRun
<1>4. new \in [Jobs -> Run] /\ new[id] = NewRun(req[h].user, req[h].payload)
  BY <1>2
<1>5. ASSUME NEW j \in Jobs, j # id PROVE new[j] = table[j]
  BY <1>5
<1>6. runs[id].status = "ABSENT"
  BY DEF NextId
<1> QED BY <1>3, <1>4, <1>5, <1>6 DEF Advances

\* A step that calls a handler changes no row.
LEMMA CallInv ==
  ASSUME TypeInv, QueueInv, NEW h \in Requests, Call(h)
  PROVE  QueueInv' /\ \A j \in Jobs : Keeps(psr[j], psr'[j])
<1>1. UNCHANGED <<runs, psr, up, wk>>
  BY DEF Call, cancel_scan, enqueue, enqueue_scheduled, delete_project, request_shutdown,
         request_sleep_interruption, Load
<1>2. (\A j \in Jobs : Withdrawn(psr[j], psr[j])) /\ Advances(runs)
  BY DEF Withdrawn, Advances
<1> QED BY <1>1, <1>2, TablesInv DEF TypeInv, TypeOK

\* A step that finishes a handler.
LEMMA ReplyInv ==
  ASSUME TypeInv, QueueInv, NEW h \in Requests, Reply(h)
  PROVE  QueueInv' /\ \A j \in Jobs : Keeps(psr[j], psr'[j])
<1>0. /\ runs \in [Jobs -> Run] /\ psr \in [Jobs -> [Projects -> PsrStatus]]
      /\ req[h] \in Request
  BY DEF TypeInv, TypeOK
<1>a. /\ req[h].seen \in [Jobs -> Run] /\ req[h].payload.projects \in SUBSET Projects
      /\ req[h].project \in Projects \cup {None}
  BY <1>0, ZenonT(60) DEF Request, Payload
<1>b. (\A j \in Jobs : Withdrawn(psr[j], psr[j])) /\ Advances(runs)
  BY DEF Withdrawn, Advances
<1>1. CASE cancel_scan_commit(h)
  <2> DEFINE new == [j \in Jobs |-> CancelledRow(req[h].seen[j])]
             table == Rewritten(h, Selected(h), CancelledRow)
  <2>1. /\ new \in [Jobs -> Run]
        /\ \A j \in Jobs : new[j].status \in {req[h].seen[j].status, "CANCELLED",
                                              "CANCEL_REQUESTED"}
    BY <1>a, HandlerRows, HandlerStatus
  <2>2. table = [j \in Jobs |-> IF j \in Selected(h)
                                THEN Flushed(runs[j], req[h].seen[j], new[j]) ELSE runs[j]]
    BY DEF Rewritten
  <2>3. Commit(h, table, psr, active, projects)
    BY <1>1 DEF cancel_scan_commit
  <2> HIDE DEF new, table
  <2>4. table \in [Jobs -> Run] /\ Advances(table)
    BY <2>1, <2>2, RewrittenRows
  <2> QED BY <1>0, <1>b, <2>3, <2>4, CommitInv
<1>2. CASE enqueue_commit(h)
  <2> DEFINE absorb(r) == AbsorbedRow(req[h].payload.projects, r)
             new == [j \in Jobs |-> absorb(req[h].seen[j])]
             T == Absorbed(req[h].seen, req[h].payload)
             table == Rewritten(h, T, absorb)
  <2>1. /\ new \in [Jobs -> Run]
        /\ \A j \in Jobs : new[j].status \in {req[h].seen[j].status, "CANCELLED",
                                              "CANCEL_REQUESTED"}
    BY <1>a, HandlerRows, HandlerStatus
  <2>2. table = [j \in Jobs |-> IF j \in T THEN Flushed(runs[j], req[h].seen[j], new[j])
                                           ELSE runs[j]]
    BY DEF Rewritten
  <2>3. CASE Refused(req[h].seen, req[h].payload)
    <3>1. Commit(h, runs, psr, active, projects)
      BY <1>2, <2>3, ZenonT(60) DEF enqueue_commit
    <3> QED BY <1>0, <1>b, <3>1, CommitInv
  <2>4. CASE ~Refused(req[h].seen, req[h].payload)
    <3>1. PICK id \in Jobs :
            /\ NextId(id)
            /\ Commit(h, [table EXCEPT ![id] = NewRun(req[h].user, req[h].payload)],
                      psr, active, projects)
      BY <1>2, <2>4, ZenonT(60) DEF enqueue_commit
    <3> DEFINE inserted == [table EXCEPT ![id] = NewRun(req[h].user, req[h].payload)]
    <3>2. Commit(h, inserted, psr, active, projects)
      BY <3>1
    <3> HIDE DEF new, table, T
    <3>3. table \in [Jobs -> Run] /\ Advances(table)
      BY <2>1, <2>2, RewrittenRows
    <3>4. inserted \in [Jobs -> Run] /\ Advances(inserted)
      BY <3>1, <3>3, InsertedRow
    <3> HIDE DEF inserted
    <3> QED BY <1>0, <1>b, <3>2, <3>4, CommitInv
  <2> QED BY <2>3, <2>4
<1>3. CASE enqueue_scheduled_commit(h)
  <2>1. CASE Commit(h, runs, psr, active, projects)
    BY <1>0, <1>b, <2>1, CommitInv
  <2>2. CASE \E id \in Jobs :
               /\ NextId(id)
               /\ Commit(h, [runs EXCEPT ![id] = NewRun(req[h].user, req[h].payload)],
                         psr, active, projects)
    <3>1. PICK id \in Jobs :
            /\ NextId(id)
            /\ Commit(h, [runs EXCEPT ![id] = NewRun(req[h].user, req[h].payload)],
                      psr, active, projects)
      BY <2>2
    <3> DEFINE inserted == [runs EXCEPT ![id] = NewRun(req[h].user, req[h].payload)]
    <3>2. Commit(h, inserted, psr, active, projects)
      BY <3>1
    <3>3. inserted \in [Jobs -> Run] /\ Advances(inserted)
      BY <1>0, <1>b, <3>1, InsertedRow
    <3> HIDE DEF inserted
    <3> QED BY <1>0, <1>b, <3>2, <3>3, CommitInv
  <2> QED BY <1>3, <2>1, <2>2 DEF enqueue_scheduled_commit
<1>4. CASE delete_project_commit(h)
  <2> DEFINE detach(r) == DetachedRow(req[h].project, r)
             new == [j \in Jobs |-> detach(req[h].seen[j])]
             table == Rewritten(h, Selected(h), detach)
             newPsr == [j \in Jobs |-> [psr[j] EXCEPT ![req[h].project] = "ABSENT"]]
  <2>1. /\ new \in [Jobs -> Run]
        /\ \A j \in Jobs : new[j].status \in {req[h].seen[j].status, "CANCELLED",
                                              "CANCEL_REQUESTED"}
    BY <1>a, HandlerRows, HandlerStatus
  <2>2. table = [j \in Jobs |-> IF j \in Selected(h)
                                THEN Flushed(runs[j], req[h].seen[j], new[j]) ELSE runs[j]]
    BY DEF Rewritten
  <2>3. newPsr \in [Jobs -> [Projects -> PsrStatus]]
    BY <1>0, ZenonT(60) DEF PsrStatus
  <2>4. \A j \in Jobs : Withdrawn(psr[j], newPsr[j])
    BY <1>0 DEF Withdrawn
  <2>5. Commit(h, table, newPsr, active, projects \ {req[h].project})
    BY <1>4 DEF delete_project_commit
  <2> HIDE DEF new, table, newPsr
  <2>6. table \in [Jobs -> Run] /\ Advances(table)
    BY <2>1, <2>2, RewrittenRows
  <2> QED BY <2>3, <2>4, <2>5, <2>6, CommitInv
<1>5. CASE request_shutdown_commit(h)
  <2> DEFINE new == [j \in Jobs |-> ShutdownRow(req[h].seen[j])]
             table == Rewritten(h, Selected(h), ShutdownRow)
             newPsr == [j \in Jobs |-> [p \in Projects |->
                          IF req[h].seen[j].status = "QUEUED" /\ psr[j][p] \in LivePsr
                          THEN "CANCELLED" ELSE psr[j][p]]]
  <2>1. /\ new \in [Jobs -> Run]
        /\ \A j \in Jobs : new[j].status \in {req[h].seen[j].status, "CANCELLED",
                                              "CANCEL_REQUESTED"}
    BY <1>a, HandlerRows, HandlerStatus
  <2>2. table = [j \in Jobs |-> IF j \in Selected(h)
                                THEN Flushed(runs[j], req[h].seen[j], new[j]) ELSE runs[j]]
    BY DEF Rewritten
  <2>3. newPsr \in [Jobs -> [Projects -> PsrStatus]]
    BY <1>0, ZenonT(60) DEF PsrStatus
  <2>4. \A j \in Jobs : Withdrawn(psr[j], newPsr[j])
    BY <1>0 DEF Withdrawn
  <2>5. Commit(h, table, newPsr, active, projects)
    BY <1>5 DEF request_shutdown_commit
  <2> HIDE DEF new, table, newPsr
  <2>6. table \in [Jobs -> Run] /\ Advances(table)
    BY <2>1, <2>2, RewrittenRows
  <2> QED BY <2>3, <2>4, <2>5, <2>6, CommitInv
<1>6. CASE request_sleep_interruption_commit(h)
  <2> DEFINE new == [j \in Jobs |-> SleepRow(req[h].seen[j])]
             table == Rewritten(h, Selected(h), SleepRow)
  <2>1. /\ new \in [Jobs -> Run]
        /\ \A j \in Jobs : new[j].status \in {req[h].seen[j].status, "CANCELLED",
                                              "CANCEL_REQUESTED"}
    BY <1>a, HandlerRows, HandlerStatus
  <2>2. table = [j \in Jobs |-> IF j \in Selected(h)
                                THEN Flushed(runs[j], req[h].seen[j], new[j]) ELSE runs[j]]
    BY DEF Rewritten
  <2>3. Commit(h, table, psr, active, projects)
    BY <1>6 DEF request_sleep_interruption_commit
  <2> HIDE DEF new, table
  <2>4. table \in [Jobs -> Run] /\ Advances(table)
    BY <2>1, <2>2, RewrittenRows
  <2> QED BY <1>0, <1>b, <2>3, <2>4, CommitInv
<1> QED BY <1>1, <1>2, <1>3, <1>4, <1>5, <1>6 DEF Reply

\* A step of a worker that leaves statuses and project rows alone.
LEMMA QuietInv ==
  ASSUME TypeInv, QueueInv, NEW w \in Workers, wk[w].pc \in Working,
         NEW local, Becomes(w, local), UNCHANGED <<up, psr>>, up,
         local.pc \in Working => local.job = Job(w) /\ LocalInv(local, psr[Job(w)]),
         \A i \in Jobs : runs'[i].status = runs[i].status
  PROVE  QueueInv' /\ \A j \in Jobs : Keeps(psr[j], psr'[j])
<1> DEFINE status == Stored(w).status
           q == psr[Job(w)]
<1>0. Job(w) \in Jobs /\ psr \in [Jobs -> [Projects -> PsrStatus]]
  BY WorkingTypes DEF TypeInv, TypeOK
<1>1. \A i \in Jobs : runs'[i].status = IF i = Job(w) THEN status ELSE runs[i].status
  BY DEF Stored
<1>2. psr' = [psr EXCEPT ![Job(w)] = q]
  BY <1>0
<1>3. RowInv(status, q) /\ Keeps(psr[Job(w)], q)
  BY <1>0 DEF QueueInv, Stored, Keeps
<1>4. status \in HeldStatus
  BY <1>0 DEF QueueInv, Stored, Holds, Job
<1>5. status \in ActiveStatus => Stored(w).status \in ActiveStatus
  OBVIOUS
<1> HIDE DEF status, q
<1> QED BY <1>1, <1>2, <1>3, <1>4, <1>5, WorkerInv DEF q

\* What the queue invariant says of a worker that has a run.
LEMMA WorkingInv ==
  ASSUME TypeInv, QueueInv, NEW w \in Workers, wk[w].pc \in Working
  PROVE  /\ Stored(w).status \in HeldStatus
         /\ LocalInv(wk[w], psr[Job(w)])
         /\ \A q : RowInv(Stored(w).status, q)
<1>1. Job(w) \in Jobs
  BY WorkingTypes
<1>2. Stored(w).status \in HeldStatus /\ LocalInv(wk[w], psr[Job(w)])
  BY <1>1 DEF QueueInv, Stored, Holds, Job
<1> QED BY <1>2 DEF RowInv, HeldStatus

\* Claiming: only a queued run is taken, and only if none is active.
LEMMA ClaimInv ==
  ASSUME TypeInv, QueueInv, NEW w \in Workers, run(w) \/ claim_next_job(w)
  PROVE  QueueInv' /\ \A j \in Jobs : Keeps(psr[j], psr'[j])
<1>0. /\ wk \in [Workers -> Worker] /\ wk[w] \in Worker /\ runs \in [Jobs -> Run]
      /\ psr \in [Jobs -> [Projects -> PsrStatus]]
      /\ UNCHANGED <<psr, up>> /\ up
  BY DEF TypeInv, TypeOK, run, claim_next_job
<1>1. \A j \in Jobs : Keeps(psr[j], psr'[j])
  BY <1>0 DEF Keeps
<1>2. ASSUME NEW pc \in {"poll", "idle"}, Becomes(w, [wk[w] EXCEPT !.pc = pc]), UNCHANGED runs
      PROVE  QueueInv'
  <2>1. /\ wk'[w].pc \notin Working
        /\ \A v \in Workers \ {w} : wk'[v] = wk[v]
    BY <1>0, <1>2 DEF Becomes, Worker, Working
  <2> QED BY <1>0, <1>2, <2>1 DEF QueueInv, SingleActive, UniqueActive, ExclusiveProcessing,
                                  Holds
<1>3. ASSUME NEW j \in Jobs, Claimable(j),
             runs' = [runs EXCEPT ![j] = [@ EXCEPT !.status = "RUNNING", !.worker = w]],
             Becomes(w, [IdleWorker EXCEPT !.pc = "begin", !.job = j])
      PROVE  QueueInv'
  <2> DEFINE local == [IdleWorker EXCEPT !.pc = "begin", !.job = j]
  <2>0. /\ local.pc = "begin" /\ local.job = j /\ ~local.captcha /\ local.pc # "drain"
        /\ local.pc \notin {"scan", "load"} /\ local.pc # "car"
    BY SMT DEF IdleWorker
  <2>1. wk'[w] = local /\ \A v \in Workers \ {w} : wk'[v] = wk[v]
    BY <1>0, <1>3 DEF Becomes
  <2>2. runs'[j].status = "RUNNING" /\ \A i \in Jobs \ {j} : runs'[i] = runs[i]
    BY <1>0, <1>3 DEF Run
  <2>3. runs[j].status = "QUEUED" /\ \A i \in Jobs : runs[i].status \notin ActiveStatus
    BY <1>3 DEF Claimable
  <2> HIDE DEF local
  <2>4. \A v \in Workers \ {w} : wk[v].pc \in Working => wk[v].job \in Jobs \ {j}
    BY <2>3 DEF QueueInv, Holds, HeldStatus, TypeInv, LocalsOK
  <2>5. \A p \in Projects : psr[j][p] = "ABSENT"
    BY <2>3 DEF QueueInv, RowInv
  <2>6. LocalInv(local, psr[j])
    BY <2>0, <2>5 DEF LocalInv
  <2>7. SingleActive'
    BY <2>2, <2>3 DEF SingleActive, UniqueActive
  <2>8. ExclusiveProcessing'
    BY <2>0, <2>1, <2>4 DEF QueueInv, ExclusiveProcessing, Holds
  <2>9. ASSUME NEW v \in Workers, NEW i \in Jobs, Holds(v, i)'
        PROVE  runs'[i].status \in HeldStatus
    <3>1. CASE v = w
      BY <2>0, <2>1, <2>2, <2>9, <3>1 DEF Holds, HeldStatus
    <3>2. CASE v # w
      BY <2>1, <2>2, <2>4, <2>9, <3>2 DEF QueueInv, Holds
    <3> QED BY <3>1, <3>2
  <2>10. ASSUME NEW v \in Workers, wk'[v].pc \in Working
         PROVE  LocalInv(wk'[v], psr'[wk'[v].job])
    <3>1. CASE v = w
      BY <1>0, <2>0, <2>1, <2>6, <3>1
    <3>2. CASE v # w
      BY <1>0, <2>1, <2>10, <3>2 DEF QueueInv
    <3> QED BY <3>1, <3>2
  <2>11. ASSUME NEW i \in Jobs PROVE RowInv(runs'[i].status, psr'[i])
    <3>1. CASE i = j
      BY <2>2, <3>1 DEF RowInv
    <3>2. CASE i # j
      BY <1>0, <2>2, <3>2 DEF QueueInv
    <3> QED BY <3>1, <3>2
  <2> QED BY <1>0, <2>7, <2>8, <2>9, <2>10, <2>11 DEF QueueInv, Holds
<1> QED BY <1>1, <1>2, <1>3 DEF run, claim_next_job

\* The refused case of a checkpoint.
LEMMA StopInv ==
  ASSUME TypeInv, QueueInv, NEW w \in Workers, wk[w].pc \in Working, wk[w].pc # "begin",
         StopAtCheckpoint(w), up, UNCHANGED up
  PROVE  QueueInv' /\ \A j \in Jobs : Keeps(psr[j], psr'[j])
<1> DEFINE row == IF Cancelling(w) THEN Stored(w)
                                   ELSE [Stored(w) EXCEPT !.status = "CANCEL_REQUESTED"]
           local == [wk[w] EXCEPT !.pc = "cancelled", !.row = row]
           status == row.status
           q == psr[Job(w)]
<1>0. /\ Job(w) \in Jobs /\ Stored(w) \in Run /\ wk[w] \in Worker
      /\ psr \in [Jobs -> [Projects -> PsrStatus]] /\ runs \in [Jobs -> Run]
  BY WorkingTypes DEF TypeInv, TypeOK
<1>1. Stored(w).status \in HeldStatus /\ LocalInv(wk[w], psr[Job(w)])
  BY WorkingInv
<1>2. Becomes(w, local) /\ runs' = [runs EXCEPT ![Job(w)] = row]
  BY DEF StopAtCheckpoint
<1>3. psr' = [psr EXCEPT ![Job(w)] = q]
  BY <1>0 DEF StopAtCheckpoint
<1>4. /\ status \in HeldStatus
      /\ status \in ActiveStatus => Stored(w).status \in ActiveStatus
  BY <1>0, <1>1 DEF Cancelling, HeldStatus, ActiveStatus, Run
<1>5. \A i \in Jobs : runs'[i].status = IF i = Job(w) THEN status ELSE runs[i].status
  BY <1>0, <1>2
<1>6. /\ local.pc = "cancelled" /\ local.job = Job(w) /\ local.todo = wk[w].todo
      /\ local.failed = wk[w].failed /\ local.captcha = wk[w].captcha
  BY <1>0 DEF Worker, Job
<1> HIDE DEF row, local
<1>7. LocalInv(local, q)
  BY <1>1, <1>6 DEF LocalInv
<1>8. RowInv(status, q) /\ Keeps(psr[Job(w)], q)
  BY <1>4 DEF RowInv, HeldStatus, Keeps
<1> HIDE DEF status, q
<1> QED BY <1>2, <1>3, <1>4, <1>5, <1>6, <1>7, <1>8, WorkerInv

\* The steps of process_job outside a unit.
LEMMA JobInv ==
  ASSUME TypeInv, QueueInv, NEW w \in Workers,
         \/ begin_job(w) \/ launch(w) \/ fail_job(w) \/ gate_stop(w)
         \/ finish_job(w) \/ finish_cancelled_job(w)
  PROVE  QueueInv' /\ \A j \in Jobs : Keeps(psr[j], psr'[j])
<1>1. /\ wk[w].pc \in Working
      /\ up /\ UNCHANGED up
  BY SMT DEF begin_job, launch, fail_job, gate_stop, finish_job, finish_cancelled_job,
             At, Working, WorkerPc
<1>2. /\ Job(w) \in Jobs /\ Stored(w) \in Run /\ wk[w] \in Worker /\ wk[w].row \in Run
      /\ psr \in [Jobs -> [Projects -> PsrStatus]] /\ runs \in [Jobs -> Run]
  BY <1>1, WorkingTypes DEF TypeInv, TypeOK
<1>3. /\ Stored(w).status \in HeldStatus /\ LocalInv(wk[w], psr[Job(w)])
      /\ \A q : RowInv(Stored(w).status, q)
  BY <1>1, WorkingInv
<1>4. IdleWorker.pc \notin Working
  BY SMT DEF IdleWorker, Working
<1>5. psr = [psr EXCEPT ![Job(w)] = psr[Job(w)]] /\ Keeps(psr[Job(w)], psr[Job(w)])
  BY <1>2 DEF Keeps
<1>6. CASE begin_job(w)
  <2> DEFINE row == Stored(w)
             mine == {p \in row.payload.projects : p \in projects /\ Owner[p] = row.owner}
             todo == row.payload.projects \cup row.payload.cars
             local == [wk[w] EXCEPT !.pc = "launch", !.row = row, !.todo = todo]
             q == [p \in Projects |-> IF p \in mine THEN "QUEUED" ELSE psr[Job(w)][p]]
  <2>1. ASSUME Becomes(w, IdleWorker), UNCHANGED <<runs, psr>>
        PROVE  QueueInv' /\ \A j \in Jobs : Keeps(psr[j], psr'[j])
    BY <1>1, <1>4, <2>1, QuietInv
  <2>2. ASSUME Becomes(w, IdleWorker), UNCHANGED psr,
               runs' = [runs EXCEPT ![Job(w)] = [@ EXCEPT !.status = "CANCELLED",
                                                 !.payload.reason = "ACCOUNT_INACTIVE"]]
        PROVE  QueueInv' /\ \A j \in Jobs : Keeps(psr[j], psr'[j])
    <3>1. \A i \in Jobs : runs'[i].status = IF i = Job(w) THEN "CANCELLED" ELSE runs[i].status
      BY <1>2, <2>2 DEF Run
    <3>2. RowInv("CANCELLED", psr[Job(w)]) /\ "CANCELLED" \notin ActiveStatus
      BY DEF RowInv, ActiveStatus
    <3> QED BY <1>1, <1>4, <1>5, <2>2, <3>1, <3>2, WorkerInv
  <2>3. ASSUME Becomes(w, local), UNCHANGED runs, psr' = [psr EXCEPT ![Job(w)] = q]
        PROVE  QueueInv' /\ \A j \in Jobs : Keeps(psr[j], psr'[j])
    <3>1. \A p \in Projects : psr[Job(w)][p] = "ABSENT"
      BY <1>3, <1>6 DEF begin_job, At, LocalInv
    <3>2. /\ \A p \in Projects : q[p] \in {"QUEUED", "ABSENT"}
          /\ \A p \in Projects \ todo : q[p] = "ABSENT"
      BY <3>1
    <3>3. /\ local.pc = "launch" /\ local.job = Job(w) /\ local.todo = todo
          /\ local.failed = wk[w].failed /\ local.captcha = wk[w].captcha
      BY <1>2 DEF Worker, Job
    <3>4. \A i \in Jobs : runs'[i].status = IF i = Job(w) THEN Stored(w).status
                                                          ELSE runs[i].status
      BY <2>3 DEF Stored
    <3>5. Keeps(psr[Job(w)], q)
      BY <3>1 DEF Keeps
    <3> HIDE DEF local, todo, q
    <3>6. LocalInv(local, q)
      BY <1>3, <3>2, <3>3 DEF LocalInv
    <3> QED BY <1>1, <1>3, <2>3, <3>3, <3>4, <3>5, <3>6, WorkerInv
  <2>4. ASSUME psr' = [psr EXCEPT ![Job(w)] = [p \in Projects |->
                                                 IF p \in mine THEN "QUEUED" ELSE @[p]]]
        PROVE  psr' = [psr EXCEPT ![Job(w)] = q]
    BY <1>2, <2>4
  <2> QED BY <1>6, <2>1, <2>2, <2>3, <2>4 DEF begin_job
<1>7. CASE launch(w)
  <2> DEFINE local == [wk[w] EXCEPT !.pc = "gate"]
  <2>1. /\ local.pc = "gate" /\ local.job = Job(w) /\ local.todo = wk[w].todo
        /\ local.failed = wk[w].failed /\ local.captcha = wk[w].captcha
    BY <1>2 DEF Worker, Job
  <2>2. Becomes(w, local) /\ UNCHANGED <<runs, psr>> /\ wk[w].pc = "launch"
    BY <1>7 DEF launch, At
  <2> HIDE DEF local
  <2>3. LocalInv(local, psr[Job(w)])
    BY <1>3, <2>1, <2>2 DEF LocalInv
  <2> QED BY <1>1, <2>1, <2>2, <2>3, QuietInv
<1>8. CASE fail_job(w)
  <2> DEFINE new == [wk[w].row EXCEPT !.status = "FAILED"]
             status == IF new.status # wk[w].row.status THEN new.status ELSE Stored(w).status
  <2>1. new \in Run /\ new.status = "FAILED"
    <3>1. new \in Run
      BY <1>2, ZenonT(60) DEF Run, Status, TerminalStatus
    <3> QED BY <1>2, <3>1 DEF Run
  <2>2. /\ runs' = [runs EXCEPT ![Job(w)] = Flushed(@, wk[w].row, new)]
        /\ Becomes(w, IdleWorker) /\ UNCHANGED psr
    BY <1>8 DEF fail_job
  <2> HIDE DEF new
  <2>3. Flushed(Stored(w), wk[w].row, new).status = status
    BY <1>2, <2>1, FlushedStatus
  <2>4. \A i \in Jobs : runs'[i].status = IF i = Job(w) THEN status ELSE runs[i].status
    BY <1>2, <2>2, <2>3 DEF Stored
  <2>5. /\ status \in ActiveStatus => Stored(w).status \in ActiveStatus
        /\ RowInv(status, psr[Job(w)])
    BY <1>3, <2>1 DEF RowInv, ActiveStatus
  <2> HIDE DEF status
  <2> QED BY <1>1, <1>4, <1>5, <2>2, <2>4, <2>5, WorkerInv
<1>9. CASE gate_stop(w)
  BY <1>1, <1>9, StopInv DEF gate_stop, At
<1>10. CASE finish_job(w)
  <2> DEFINE status == FinalStatus(w)
  <2>1. /\ runs' = [runs EXCEPT ![Job(w)].status = status]
        /\ Becomes(w, IdleWorker) /\ UNCHANGED psr /\ wk[w].todo = {} /\ wk[w].pc = "gate"
    BY <1>10 DEF finish_job, At
  <2>2. \A i \in Jobs : runs'[i].status = IF i = Job(w) THEN status ELSE runs[i].status
    BY <1>2, <2>1 DEF Run
  <2>3. status \in {"SUCCEEDED", "PARTIAL", "FAILED"} /\ (status = "SUCCEEDED" => ~wk[w].failed)
    BY DEF FinalStatus
  <2> HIDE DEF status
  <2>4. RowInv(status, psr[Job(w)]) /\ status \notin ActiveStatus
    BY <1>3, <2>1, <2>3 DEF LocalInv, RowInv, ActiveStatus
  <2> QED BY <1>1, <1>4, <1>5, <2>1, <2>2, <2>4, WorkerInv
<1>11. CASE finish_cancelled_job(w)
  <2> DEFINE row == wk[w].row
             terminal == IF row.payload.reason = "SYSTEM_SLEEP" THEN "INTERRUPTED_SLEEP"
                                                                ELSE "CANCELLED"
             done == [row EXCEPT !.status = terminal, !.payload.current = None]
             status == IF done.status # row.status THEN done.status ELSE Stored(w).status
             q == [p \in Projects |-> IF psr[Job(w)][p] \in LivePsr THEN terminal
                                                                    ELSE psr[Job(w)][p]]
  <2>0. terminal \in {"INTERRUPTED_SLEEP", "CANCELLED"}
    OBVIOUS
  <2>1. /\ runs' = [runs EXCEPT ![Job(w)] = Flushed(@, row, done)]
        /\ Becomes(w, IdleWorker)
        /\ psr' = [psr EXCEPT ![Job(w)] = [p \in Projects |->
                                             IF @[p] \in LivePsr THEN terminal ELSE @[p]]]
    BY <1>11 DEF finish_cancelled_job
  <2>2. psr' = [psr EXCEPT ![Job(w)] = q]
    BY <1>2, <2>1
  <2> HIDE DEF terminal
  <2>3. done \in Run /\ done.status = terminal
    <3>1. done \in Run
      BY <1>2, <2>0, ZenonT(60) DEF Run, Payload, Status, TerminalStatus
    <3> QED BY <1>2, <3>1 DEF Run
  <2> HIDE DEF done
  <2>4. Flushed(Stored(w), row, done).status = status
    BY <1>2, <2>3, FlushedStatus
  <2>5. \A i \in Jobs : runs'[i].status = IF i = Job(w) THEN status ELSE runs[i].status
    BY <1>2, <2>1, <2>4 DEF Stored
  <2>6. \A p \in Projects : q[p] \notin LivePsr
    BY <2>0 DEF LivePsr
  <2>7. Keeps(psr[Job(w)], q)
    BY DEF Keeps, LivePsr
  <2> HIDE DEF q
  <2>8. /\ status \in ActiveStatus => Stored(w).status \in ActiveStatus
        /\ RowInv(status, q)
    BY <1>3, <2>0, <2>3, <2>6 DEF RowInv, ActiveStatus
  <2> HIDE DEF status
  <2> QED BY <1>1, <1>4, <2>1, <2>2, <2>5, <2>7, <2>8, WorkerInv
<1> QED BY <1>6, <1>7, <1>8, <1>9, <1>10, <1>11

\* The steps inside a unit.
LEMMA UnitInv ==
  ASSUME TypeInv, QueueInv, NEW w \in Workers,
         \/ checkpoint(w) \/ discard_result(w) \/ publish_project(w) \/ drain(w)
         \/ \E p \in Projects : open_project(w, p)
         \/ \E c \in Cars : open_car(w, c)
         \/ \E fails \in BOOLEAN : publish_progress(w, fails)
         \/ \E ok, captcha \in BOOLEAN : settle_project(w, ok, captcha)
         \/ \E outcome \in CarOutcome : settle_car(w, outcome)
  PROVE  QueueInv' /\ \A j \in Jobs : Keeps(psr[j], psr'[j])
<1>0. up /\ UNCHANGED up
  BY DEF checkpoint, discard_result, publish_project, drain, open_project,
         open_car, publish_progress, settle_project, settle_car, At
<1>1. wk[w].pc \in Working
  <2>1. wk[w].pc \in {"gate", "scan", "load", "car", "publish", "drain"}
    BY ZenonT(60) DEF checkpoint, discard_result, publish_project, drain, open_project,
                 open_car, publish_progress, settle_project, settle_car, At
  <2> QED BY <2>1, SMT DEF Working, WorkerPc
<1>2. /\ Job(w) \in Jobs /\ Stored(w) \in Run /\ wk[w] \in Worker /\ wk[w].row \in Run
      /\ psr \in [Jobs -> [Projects -> PsrStatus]] /\ runs \in [Jobs -> Run]
  BY <1>1, WorkingTypes DEF TypeInv, TypeOK
<1>3. /\ Stored(w).status \in HeldStatus /\ LocalInv(wk[w], psr[Job(w)])
      /\ \A q : RowInv(Stored(w).status, q)
  BY <1>1, WorkingInv
<1>4. ASSUME NEW x, runs' = [runs EXCEPT ![Job(w)].payload = x]
      PROVE  \A i \in Jobs : runs'[i].status = runs[i].status
  BY <1>2, <1>4 DEF Run
<1>5. ASSUME \A i \in Jobs : runs'[i].status = runs[i].status
      PROVE  \A i \in Jobs : runs'[i].status = IF i = Job(w) THEN Stored(w).status
                                                             ELSE runs[i].status
  BY <1>5 DEF Stored
<1>6. ASSUME NEW p \in Projects, open_project(w, p)
      PROVE  QueueInv' /\ \A j \in Jobs : Keeps(psr[j], psr'[j])
  <2>0. p \in wk[w].todo /\ wk[w].pc = "gate"
    BY <1>6 DEF open_project, At
  <2>1. ASSUME OpenedProject(w, p)
        PROVE  QueueInv' /\ \A j \in Jobs : Keeps(psr[j], psr'[j])
    <3> DEFINE x == WithPayload(Stored(w), p)
               row == [Stored(w) EXCEPT !.payload = x]
               local == [wk[w] EXCEPT !.pc = "scan", !.unit = p, !.stale = FALSE, !.row = row]
               q == [psr[Job(w)] EXCEPT ![p] = "RUNNING"]
    <3>1. /\ Becomes(w, local) /\ runs' = [runs EXCEPT ![Job(w)].payload = x]
          /\ psr' = SetPsr(w, p, "RUNNING")
      BY <2>1 DEF OpenedProject
    <3>2. psr' = [psr EXCEPT ![Job(w)] = q]
      BY <1>2, <3>1 DEF SetPsr
    <3>3. /\ local.pc = "scan" /\ local.job = Job(w) /\ local.unit = p
          /\ local.todo = wk[w].todo
          /\ local.failed = wk[w].failed /\ local.captcha = wk[w].captcha
      BY <1>2 DEF Worker, Job
    <3>4. \A i \in Jobs : runs'[i].status = IF i = Job(w) THEN Stored(w).status
                                                          ELSE runs[i].status
      BY <1>4, <1>5, <3>1
    <3>5. q[p] = "RUNNING" /\ \A r \in Projects \ {p} : q[r] = psr[Job(w)][r]
      BY <1>2
    <3>6. psr[Job(w)][p] \notin {"SUCCEEDED", "FAILED"}
      BY <1>3, <2>0 DEF LocalInv
    <3>7. Keeps(psr[Job(w)], q)
      BY <3>5, <3>6 DEF Keeps
    <3> HIDE DEF x, row, local, q
    <3>8. LocalInv(local, q)
      BY <1>3, <2>0, <3>3, <3>5 DEF LocalInv
    <3> QED BY <1>0, <1>1, <1>3, <3>1, <3>2, <3>3, <3>4, <3>7, <3>8, WorkerInv
  <2>2. ASSUME Becomes(w, [wk[w] EXCEPT !.row = Stored(w), !.stale = FALSE,
                                        !.failed = TRUE, !.todo = @ \ {p}]),
               UNCHANGED <<runs, psr>>
        PROVE  QueueInv' /\ \A j \in Jobs : Keeps(psr[j], psr'[j])
    <3> DEFINE local == [wk[w] EXCEPT !.row = Stored(w), !.stale = FALSE,
                                      !.failed = TRUE, !.todo = @ \ {p}]
    <3>1. /\ local.pc = "gate" /\ local.job = Job(w) /\ local.todo = wk[w].todo \ {p}
          /\ local.failed
      BY <1>2, <2>0 DEF Worker, Job
    <3>2. Becomes(w, local)
      BY <2>2
    <3> HIDE DEF local
    <3>3. LocalInv(local, psr[Job(w)])
      BY <1>3, <2>0, <3>1 DEF LocalInv
    <3> QED BY <1>0, <1>1, <2>2, <3>1, <3>2, <3>3, QuietInv
  <2> QED BY <1>6, <2>1, <2>2 DEF open_project
<1>7. ASSUME NEW c \in Cars, open_car(w, c)
      PROVE  QueueInv' /\ \A j \in Jobs : Keeps(psr[j], psr'[j])
  <2> DEFINE local == [wk[w] EXCEPT !.pc = "car", !.unit = c, !.stale = FALSE,
                                    !.row = Stored(w)]
  <2>1. /\ local.pc = "car" /\ local.job = Job(w) /\ local.todo = wk[w].todo
        /\ local.failed = wk[w].failed /\ local.captcha = wk[w].captcha
    BY <1>2 DEF Worker, Job
  <2>2. /\ Becomes(w, local) /\ UNCHANGED <<runs, psr>>
        /\ wk[w].todo \cap Projects = {} /\ wk[w].pc = "gate"
    BY <1>7 DEF open_car, At
  <2> HIDE DEF local
  <2>3. LocalInv(local, psr[Job(w)])
    BY <1>3, <2>1, <2>2 DEF LocalInv
  <2> QED BY <1>0, <1>1, <2>1, <2>2, <2>3, QuietInv
<1>8. CASE checkpoint(w)
  <2>1. CASE StopAtCheckpoint(w)
    BY <1>0, <1>1, <1>8, <2>1, StopInv DEF checkpoint, At
  <2>2. CASE ~StopAtCheckpoint(w)
    <3> DEFINE local == [wk[w] EXCEPT !.pc = "load", !.row = Stored(w), !.stale = FALSE]
    <3>1. /\ local.pc = "load" /\ local.job = Job(w) /\ local.todo = wk[w].todo
          /\ local.unit = wk[w].unit
          /\ local.failed = wk[w].failed /\ local.captcha = wk[w].captcha
      BY <1>2 DEF Worker, Job
    <3>2. Becomes(w, local) /\ UNCHANGED <<runs, psr>> /\ wk[w].pc = "scan"
      BY <1>8, <2>2 DEF checkpoint, At
    <3> HIDE DEF local
    <3>3. LocalInv(local, psr[Job(w)])
      BY <1>3, <3>1, <3>2 DEF LocalInv
    <3> QED BY <1>0, <1>1, <3>1, <3>2, <3>3, QuietInv
  <2> QED BY <2>1, <2>2
<1>9. ASSUME NEW fails \in BOOLEAN, publish_progress(w, fails)
      PROVE  QueueInv' /\ \A j \in Jobs : Keeps(psr[j], psr'[j])
  <2> DEFINE x == WithPayload(wk[w].row, wk[w].unit)
             local == [wk[w] EXCEPT !.pc = "scan", !.row.payload = x, !.failed = @ \/ fails]
  <2>1. /\ runs' = [runs EXCEPT ![Job(w)].payload = x] /\ Becomes(w, local)
        /\ UNCHANGED psr /\ wk[w].pc = "load"
    BY <1>9 DEF publish_progress, At
  <2> HIDE DEF x
  <2>2. /\ local.pc = "scan" /\ local.job = Job(w) /\ local.todo = wk[w].todo
        /\ local.unit = wk[w].unit /\ local.captcha = wk[w].captcha
    BY <1>2 DEF Worker, Job
  <2>3. wk[w].failed => local.failed
    BY <1>2, ZenonT(60) DEF Worker
  <2> HIDE DEF local
  <2>4. LocalInv(local, psr[Job(w)])
    BY <1>3, <2>1, <2>2, <2>3 DEF LocalInv
  <2> QED BY <1>0, <1>1, <1>4, <2>1, <2>2, <2>4, QuietInv
<1>10. CASE discard_result(w)
  <2> DEFINE x == WithPayload(Stored(w), wk[w].unit)
             row == [Stored(w) EXCEPT !.payload = x]
             local == [wk[w] EXCEPT !.pc = "scan", !.stale = TRUE, !.row = row]
  <2>1. /\ runs' = [runs EXCEPT ![Job(w)].payload = x] /\ Becomes(w, local)
        /\ UNCHANGED psr /\ wk[w].pc = "load"
    BY <1>10 DEF discard_result, At
  <2> HIDE DEF x, row
  <2>2. /\ local.pc = "scan" /\ local.job = Job(w) /\ local.todo = wk[w].todo
        /\ local.unit = wk[w].unit
        /\ local.failed = wk[w].failed /\ local.captcha = wk[w].captcha
    BY <1>2 DEF Worker, Job
  <2> HIDE DEF local
  <2>3. LocalInv(local, psr[Job(w)])
    BY <1>3, <2>1, <2>2 DEF LocalInv
  <2> QED BY <1>0, <1>1, <1>4, <2>1, <2>2, <2>3, QuietInv
<1>11. ASSUME NEW ok \in BOOLEAN, NEW captcha \in BOOLEAN, settle_project(w, ok, captcha)
       PROVE  QueueInv' /\ \A j \in Jobs : Keeps(psr[j], psr'[j])
  <2>0. wk[w].unit \in Projects /\ wk[w].unit \in wk[w].todo
    BY <1>1, <1>3, <1>11 DEF settle_project, At, TypeInv, LocalsOK, LocalInv
  <2>1. ASSUME psr' = SetPsr(w, wk[w].unit, IF ok THEN "SUCCEEDED" ELSE "FAILED"),
               Becomes(w, [wk[w] EXCEPT !.pc = "publish", !.todo = @ \ {wk[w].unit},
                                        !.failed = @ \/ ~ok, !.succeeded = @ \/ ok,
                                        !.captcha = captcha])
        PROVE  QueueInv' /\ \A j \in Jobs : Keeps(psr[j], psr'[j])
    <3> DEFINE outcome == IF ok THEN "SUCCEEDED" ELSE "FAILED"
               local == [wk[w] EXCEPT !.pc = "publish", !.todo = @ \ {wk[w].unit},
                                      !.failed = @ \/ ~ok, !.succeeded = @ \/ ok,
                                      !.captcha = captcha]
               q == [psr[Job(w)] EXCEPT ![wk[w].unit] = outcome]
    <3>1. psr' = [psr EXCEPT ![Job(w)] = q] /\ Becomes(w, local)
      BY <1>2, <2>1 DEF SetPsr
    <3>2. /\ local.pc = "publish" /\ local.job = Job(w)
          /\ local.todo = wk[w].todo \ {wk[w].unit}
      BY <1>2 DEF Worker, Job
    <3>3. /\ wk[w].failed => local.failed
          /\ ~ok => local.failed
          /\ local.captcha => ~ok
      BY <1>2, <1>11, ZenonT(60) DEF Worker, settle_project
    <3>4. \A i \in Jobs : runs'[i].status = IF i = Job(w) THEN Stored(w).status
                                                          ELSE runs[i].status
      BY <1>5, <1>11 DEF settle_project
    <3>5. /\ q[wk[w].unit] = outcome
          /\ \A r \in Projects \ {wk[w].unit} : q[r] = psr[Job(w)][r]
      BY <1>2, <2>0
    <3>6. ok => outcome = "SUCCEEDED"
      OBVIOUS
    <3>7. psr[Job(w)][wk[w].unit] \notin {"SUCCEEDED", "FAILED"}
      BY <1>3, <1>11, <2>0 DEF LocalInv, settle_project, At
    <3>8. Keeps(psr[Job(w)], q)
      BY <3>5, <3>7 DEF Keeps
    <3> HIDE DEF outcome, local, q
    <3>9. LocalInv(local, q)
      BY <1>3, <1>11, <2>0, <3>2, <3>3, <3>5, <3>6 DEF LocalInv, settle_project, At
    <3> QED BY <1>0, <1>1, <1>3, <3>1, <3>2, <3>4, <3>8, <3>9, WorkerInv
  <2>2. ASSUME Becomes(w, [wk[w] EXCEPT !.pc = "dead"]), UNCHANGED psr
        PROVE  QueueInv' /\ \A j \in Jobs : Keeps(psr[j], psr'[j])
    <3> DEFINE local == [wk[w] EXCEPT !.pc = "dead"]
    <3>1. local.pc \notin Working
      BY <1>2 DEF Worker, Working
    <3>2. Becomes(w, local) /\ UNCHANGED runs
      BY <1>11, <2>2 DEF settle_project
    <3> HIDE DEF local
    <3> QED BY <1>0, <1>1, <2>2, <3>1, <3>2, QuietInv
  <2> QED BY <1>11, <2>1, <2>2 DEF settle_project
<1>12. CASE publish_project(w)
  <2> DEFINE x == WithPayload(wk[w].row, None)
             pc == IF wk[w].captcha THEN "drain" ELSE "gate"
             local == [wk[w] EXCEPT !.pc = pc, !.unit = None, !.row.payload = x]
  <2>1. /\ runs' = [runs EXCEPT ![Job(w)].payload = x] /\ Becomes(w, local)
        /\ UNCHANGED psr /\ wk[w].pc = "publish"
    BY <1>12 DEF publish_project, At
  <2>2. pc \in {"drain", "gate"} /\ (pc = "drain" => wk[w].captcha)
    OBVIOUS
  <2> HIDE DEF x, pc
  <2>3. /\ local.pc = pc /\ local.job = Job(w) /\ local.todo = wk[w].todo
        /\ local.failed = wk[w].failed /\ local.captcha = wk[w].captcha
    BY <1>2 DEF Worker, Job
  <2> HIDE DEF local
  <2>4. LocalInv(local, psr[Job(w)])
    BY <1>3, <2>1, <2>2, <2>3 DEF LocalInv
  <2> QED BY <1>0, <1>1, <1>4, <2>1, <2>3, <2>4, QuietInv
<1>13. CASE drain(w)
  <2>1. CASE StopAtCheckpoint(w)
    BY <1>0, <1>1, <1>13, <2>1, StopInv DEF drain, At
  <2>2. CASE ~StopAtCheckpoint(w)
    <3> DEFINE local == [wk[w] EXCEPT !.pc = "gate", !.todo = {}, !.row = Stored(w),
                                      !.stale = FALSE]
               q == [p \in Projects |-> IF psr[Job(w)][p] = "QUEUED" THEN "FAILED"
                                                                     ELSE psr[Job(w)][p]]
    <3>1. /\ local.pc = "gate" /\ local.job = Job(w) /\ local.todo = {}
          /\ local.failed = wk[w].failed /\ local.captcha = wk[w].captcha
      BY <1>2 DEF Worker, Job
    <3>2. /\ Becomes(w, local) /\ UNCHANGED runs /\ wk[w].pc = "drain"
          /\ psr' = [psr EXCEPT ![Job(w)] = [p \in Projects |->
                                               IF @[p] = "QUEUED" THEN "FAILED" ELSE @[p]]]
      BY <1>13, <2>2 DEF drain, At
    <3>3. psr' = [psr EXCEPT ![Job(w)] = q]
      BY <1>2, <3>2
    <3>4. Keeps(psr[Job(w)], q)
      BY DEF Keeps
    <3>5. \A i \in Jobs : runs'[i].status = IF i = Job(w) THEN Stored(w).status
                                                          ELSE runs[i].status
      BY <1>5, <3>2
    <3> HIDE DEF local, q
    <3>6. LocalInv(local, q)
      BY <1>3, <3>1, <3>2 DEF LocalInv
    <3> QED BY <1>0, <1>1, <1>3, <3>1, <3>2, <3>3, <3>4, <3>5, <3>6, WorkerInv
  <2> QED BY <2>1, <2>2
<1>14. ASSUME NEW outcome \in CarOutcome, settle_car(w, outcome)
       PROVE  QueueInv' /\ \A j \in Jobs : Keeps(psr[j], psr'[j])
  <2> DEFINE from == IF outcome = "error" THEN Stored(w) ELSE wk[w].row
             x == WithPayload(from, None)
             row == [from EXCEPT !.payload = x]
             local == [wk[w] EXCEPT !.pc = "gate", !.unit = None,
                                    !.todo = @ \ {wk[w].unit}, !.row = row,
                                    !.stale = @ \/ outcome = "error",
                                    !.failed = @ \/ outcome \in {"missing", "error"},
                                    !.succeeded = @ \/ outcome = "ok"]
  <2>1. /\ runs' = [runs EXCEPT ![Job(w)].payload = x] /\ Becomes(w, local)
        /\ UNCHANGED psr /\ wk[w].pc = "car"
    BY <1>14 DEF settle_car, At
  <2> HIDE DEF from, x, row
  <2>2. /\ local.pc = "gate" /\ local.job = Job(w)
        /\ local.todo = wk[w].todo \ {wk[w].unit} /\ local.captcha = wk[w].captcha
    BY <1>2 DEF Worker, Job
  <2>3. wk[w].failed => local.failed
    BY <1>2, ZenonT(60) DEF Worker
  <2> HIDE DEF local
  <2>4. LocalInv(local, psr[Job(w)])
    BY <1>3, <2>1, <2>2, <2>3 DEF LocalInv
  <2> QED BY <1>0, <1>1, <1>4, <2>1, <2>2, <2>4, QuietInv
<1> QED BY <1>6, <1>7, <1>8, <1>9, <1>10, <1>11, <1>12, <1>13, <1>14

\* The steps of accounts and of the process.
LEMMA ProcessInv ==
  ASSUME TypeInv, QueueInv,
         \/ \E u \in Users : admin_patch_user(u) \/ reactivate_user(u)
         \/ crash \/ restart
  PROVE  QueueInv' /\ \A j \in Jobs : Keeps(psr[j], psr'[j])
<1>0. runs \in [Jobs -> Run] /\ psr \in [Jobs -> [Projects -> PsrStatus]]
  BY DEF TypeInv, TypeOK
<1>a. (\A j \in Jobs : Withdrawn(psr[j], psr[j])) /\ Advances(runs)
  BY DEF Withdrawn, Advances
<1>1. ASSUME NEW u \in Users, admin_patch_user(u)
      PROVE  QueueInv' /\ \A j \in Jobs : Keeps(psr[j], psr'[j])
  <2> DEFINE table == [j \in Jobs |-> IF j \in LiveRunsOf(u)
                                      THEN [runs[j] EXCEPT !.status = BlockedStatus(runs[j])]
                                      ELSE runs[j]]
  <2>1. /\ runs' = table /\ UNCHANGED <<psr, up, wk>>
    BY <1>1 DEF admin_patch_user
  <2>2. table \in [Jobs -> Run]
    BY <1>0, ZenonT(60) DEF BlockedStatus, Run, Status, LiveStatus, ActiveStatus, TerminalStatus
  <2>3. ASSUME NEW j \in Jobs
        PROVE  /\ table[j].status \in {runs[j].status, "CANCELLED", "CANCEL_REQUESTED"}
               /\ table[j].status \in ActiveStatus => runs[j].status \in ActiveStatus
    BY <1>0 DEF BlockedStatus, Run, LiveRunsOf, LiveStatus, ActiveStatus
  <2>4. UniqueActive(table)
    BY <2>3 DEF QueueInv, SingleActive, UniqueActive
  <2>5. Advances(table)
    BY <2>3 DEF Advances
  <2> HIDE DEF table
  <2> QED BY <1>0, <1>a, <2>1, <2>2, <2>4, <2>5, TablesInv
<1>2. ASSUME NEW u \in Users, reactivate_user(u)
      PROVE  QueueInv' /\ \A j \in Jobs : Keeps(psr[j], psr'[j])
  BY <1>0, <1>a, <1>2, TablesInv DEF reactivate_user
<1>3. CASE crash
  <2>1. \A w \in Workers : wk'[w].pc \notin Working
    BY <1>3 DEF crash, IdleWorker, Working
  <2>2. UNCHANGED <<runs, psr>>
    BY <1>3 DEF crash
  <2> QED BY <2>1, <2>2 DEF QueueInv, SingleActive, UniqueActive, ExclusiveProcessing, Holds,
                            Keeps
<1>4. CASE restart
  <2>1. \A w \in Workers : wk'[w].pc \notin Working
    BY <1>4 DEF restart, QueueInv
  <2>2. ASSUME NEW j \in Jobs
        PROVE  /\ runs[j].status \in ActiveStatus => runs'[j].status = "INTERRUPTED"
               /\ runs[j].status \notin ActiveStatus => runs'[j].status = runs[j].status
    <3>1. runs'[j] = RecoveredRow(runs[j]) /\ runs[j] \in Run
      BY <1>0, <1>4 DEF restart
    <3> QED BY <3>1 DEF RecoveredRow, Run
  <2>3. ASSUME NEW j \in Jobs
        PROVE  /\ runs[j].status \in ActiveStatus => \A p \in Projects : psr'[j][p] \notin LivePsr
               /\ runs[j].status \notin ActiveStatus => \A p \in Projects : psr'[j][p] = psr[j][p]
               /\ Keeps(psr[j], psr'[j])
    BY <1>4 DEF restart, LivePsr, Keeps
  <2>4. SingleActive'
    BY <2>2 DEF QueueInv, SingleActive, UniqueActive, ActiveStatus
  <2>5. ASSUME NEW j \in Jobs PROVE RowInv(runs'[j].status, psr'[j])
    BY <2>2, <2>3 DEF QueueInv, RowInv, ActiveStatus
  <2> QED BY <2>1, <2>3, <2>4, <2>5 DEF QueueInv, ExclusiveProcessing, Holds
<1> QED BY <1>1, <1>2, <1>3, <1>4

\* Every step keeps the queue invariant and the outcomes of projects.
LEMMA NextInv ==
  TypeInv /\ QueueInv /\ [Next]_vars => QueueInv' /\ \A j \in Jobs : Keeps(psr[j], psr'[j])
<1> SUFFICES ASSUME TypeInv, QueueInv, [Next]_vars
             PROVE  QueueInv' /\ \A j \in Jobs : Keeps(psr[j], psr'[j])
  OBVIOUS
<1>1. ASSUME NEW h \in Requests, Call(h) \/ Reply(h)
      PROVE  QueueInv' /\ \A j \in Jobs : Keeps(psr[j], psr'[j])
  BY <1>1, CallInv, ReplyInv
<1>2. ASSUME NEW w \in Workers, run(w) \/ claim_next_job(w) \/ process_job(w)
      PROVE  QueueInv' /\ \A j \in Jobs : Keeps(psr[j], psr'[j])
  BY <1>2, ClaimInv, JobInv, UnitInv, ZenonT(60) DEF process_job
<1>3. CASE \/ \E u \in Users : admin_patch_user(u) \/ reactivate_user(u)
           \/ crash \/ restart
  BY <1>3, ProcessInv
<1>4. CASE UNCHANGED vars
  <2>1. (\A j \in Jobs : Withdrawn(psr[j], psr[j])) /\ Advances(runs)
    BY DEF Withdrawn, Advances
  <2> QED BY <1>4, <2>1, TablesInv DEF vars, TypeInv, TypeOK
<1> QED BY <1>1, <1>2, <1>3, <1>4, ZenonT(60) DEF Next

\* The initial tables satisfy the queue invariant.
LEMMA InitInv == Init => QueueInv
<1> SUFFICES ASSUME Init PROVE QueueInv
  OBVIOUS
<1>1. \A w \in Workers : wk[w].pc \notin Working
  BY DEF Init, IdleWorker, Working
<1>2. \A j \in Jobs : runs[j].status = "ABSENT" /\ \A p \in Projects : psr[j][p] = "ABSENT"
  BY DEF Init, NoRun
<1>3. SingleActive
  BY <1>2 DEF SingleActive, UniqueActive, ActiveStatus
<1>4. \A j \in Jobs : RowInv(runs[j].status, psr[j])
  BY <1>2 DEF RowInv
<1> QED BY <1>1, <1>3, <1>4 DEF QueueInv, ExclusiveProcessing, Holds

\* QueueInv is an invariant.
LEMMA QueueInvariant == Spec => [](TypeInv /\ QueueInv)
<1>1. Init => TypeInv /\ QueueInv
  BY InitType, InitInv
<1>2. TypeInv /\ QueueInv /\ [Next]_vars => (TypeInv /\ QueueInv)'
  BY NextType, NextInv
<1> QED BY <1>1, <1>2, PTL DEF Spec

\* At no time are two runs RUNNING or CANCEL_REQUESTED.
THEOREM OneActiveRun == Spec => []SingleActive
<1>1. TypeInv /\ QueueInv => SingleActive
  BY DEF QueueInv
<1> QED BY <1>1, QueueInvariant, PTL

\* At no time do two workers process the same run.
THEOREM OneWorkerPerRun == Spec => []ExclusiveProcessing
<1>1. TypeInv /\ QueueInv => ExclusiveProcessing
  BY DEF QueueInv
<1> QED BY <1>1, QueueInvariant, PTL

\* A run that reports success scanned all its projects that still exist.
THEOREM SuccessIsComplete == Spec => []SucceededMeansComplete
<1>1. TypeInv /\ QueueInv => SucceededMeansComplete
  BY DEF QueueInv, RowInv, SucceededMeansComplete
<1> QED BY <1>1, QueueInvariant, PTL

\* A run that reports an interruption has no open project row.
THEOREM InterruptionIsSettled == Spec => []InterruptedRunsAreSettled
<1>1. TypeInv /\ QueueInv => InterruptedRunsAreSettled
  BY DEF QueueInv, RowInv, InterruptedRunsAreSettled
<1> QED BY <1>1, QueueInvariant, PTL

\* A committed project outcome is never overwritten.
THEOREM OutcomesPersist == Spec => SettledOutcomesPersist
<1>1. TypeInv /\ QueueInv /\ [Next]_vars =>
        [\A j \in Jobs, p \in Projects :
           psr[j][p] \in {"SUCCEEDED", "FAILED"} => psr'[j][p] \in {psr[j][p], "ABSENT"}]_vars
  BY NextInv DEF Keeps
<1> QED BY <1>1, QueueInvariant, PTL DEF Spec, SettledOutcomesPersist

-----------------------------------------------------------------------------
(* Merging drops no project *)

Merged(row) == row.payload.reason = "MERGED_INTO_MANUAL_RUN"

\* A manual run of the same account has every project of the row that exists.
Covered(table, existing, row) ==
  \E k \in Jobs : /\ table[k].owner = row.owner
                  /\ table[k].payload.trigger = "MANUAL"
                  /\ row.payload.projects \cap existing \subseteq table[k].payload.projects

\* Two versions of one run.  Only a deletion takes projects from a manual run,
\* so its versions differ in deleted projects only.
SameRun(existing, r, s) ==
  /\ r.owner = s.owner
  /\ r.payload.trigger = s.payload.trigger
  /\ s.payload.trigger = "MANUAL" =>
       r.payload.projects \cap existing = s.payload.projects \cap existing

\* A version of run j that a handler or a worker read and may write back.
Copy(table, existing, row, j) ==
  /\ table[j].status # "ABSENT"
  /\ SameRun(existing, row, table[j])
  /\ Merged(row) => Covered(table, existing, row)

TableInv(table, existing) ==
  /\ \A j \in Jobs : table[j].status = "ABSENT" => table[j].payload = NoPayload
  /\ \A j \in Jobs : Merged(table[j]) => Covered(table, existing, table[j])

\* A request inserts a run that nothing was merged into, and a manual request
\* has selected runs of its own account.
RequestInv(table, existing, request) ==
  /\ request.payload.reason = "NONE"
  /\ \A j \in Jobs : request.seen[j].status # "ABSENT" =>
       /\ Copy(table, existing, request.seen[j], j)
       /\ request.op = "enqueue" => request.seen[j].owner = request.user

\* From the start of the run on, a worker has a cached row.
HasRow(local) == local.pc \in Working \ {"begin"}

CacheInv(table, existing, local) ==
  HasRow(local) => Copy(table, existing, local.row, local.job)

MergeInv ==
  /\ TableInv(runs, projects)
  /\ \A h \in Requests : RequestInv(runs, projects, req[h])
  /\ \A w \in Workers : CacheInv(runs, projects, wk[w])

\* What every step does to the tables: no run disappears, and a manual run
\* loses deleted projects only.
Succeeds(table, existing) ==
  /\ existing \subseteq projects
  /\ \A j \in Jobs : runs[j].status # "ABSENT" =>
       table[j].status # "ABSENT" /\ SameRun(existing, table[j], runs[j])

\* Then what was covered is covered.
LEMMA CoverKept ==
  ASSUME TableInv(runs, projects), NEW table, NEW existing, Succeeds(table, existing),
         NEW row, Covered(runs, projects, row),
         NEW new, new.owner = row.owner,
         new.payload.projects \cap existing \subseteq row.payload.projects
  PROVE  Covered(table, existing, new)
<1>1. PICK k \in Jobs : /\ runs[k].owner = row.owner
                        /\ runs[k].payload.trigger = "MANUAL"
                        /\ row.payload.projects \cap projects \subseteq runs[k].payload.projects
  BY DEF Covered
<1>2. runs[k].status # "ABSENT"
  BY <1>1, SMT DEF TableInv, NoPayload
<1>3. SameRun(existing, table[k], runs[k])
  BY <1>2 DEF Succeeds
<1>4. /\ table[k].owner = new.owner /\ table[k].payload.trigger = "MANUAL"
      /\ table[k].payload.projects \cap existing = runs[k].payload.projects \cap existing
  BY <1>1, <1>3 DEF SameRun
<1>5. ASSUME NEW p \in new.payload.projects \cap existing
      PROVE  p \in table[k].payload.projects
  BY <1>1, <1>4, <1>5 DEF Succeeds
<1> QED BY <1>4, <1>5 DEF Covered

\* And what was read stays a version of its run.
LEMMA CopyKept ==
  ASSUME TableInv(runs, projects), NEW table, NEW existing, Succeeds(table, existing),
         NEW row, NEW j \in Jobs, Copy(runs, projects, row, j)
  PROVE  Copy(table, existing, row, j)
<1>1. table[j].status # "ABSENT" /\ SameRun(existing, table[j], runs[j])
  BY DEF Copy, Succeeds
<1>2. SameRun(existing, row, table[j])
  BY <1>1 DEF Copy, SameRun, Succeeds
<1>3. Merged(row) => Covered(table, existing, row)
  BY CoverKept DEF Copy
<1> QED BY <1>1, <1>2, <1>3 DEF Copy

\* A step is fine if the tables are, and each request and each worker that
\* changed.
LEMMA MergeStep ==
  ASSUME TypeInv, MergeInv, TypeInv', Succeeds(runs', projects'), TableInv(runs', projects'),
         \A h \in Requests : req'[h] = req[h] \/ RequestInv(runs', projects', req'[h]),
         \A w \in Workers : wk'[w] = wk[w] \/ CacheInv(runs', projects', wk'[w])
  PROVE  MergeInv'
<1>0. TableInv(runs, projects)
  BY DEF MergeInv
<1>1. ASSUME NEW h \in Requests PROVE RequestInv(runs', projects', req'[h])
  <2>1. CASE req'[h] = req[h]
    <3>1. RequestInv(runs, projects, req[h])
      BY DEF MergeInv
    <3> QED BY <1>0, <2>1, <3>1, CopyKept DEF RequestInv
  <2> QED BY <2>1
<1>2. ASSUME NEW w \in Workers PROVE CacheInv(runs', projects', wk'[w])
  <2>1. CASE wk'[w] = wk[w]
    <3>1. CacheInv(runs, projects, wk[w]) /\ (HasRow(wk[w]) => wk[w].job \in Jobs)
      BY DEF MergeInv, TypeInv, LocalsOK, HasRow
    <3> QED BY <1>0, <2>1, <3>1, CopyKept DEF CacheInv
  <2> QED BY <2>1
<1> QED BY <1>1, <1>2 DEF MergeInv, TableInv, Covered, RequestInv, CacheInv, Copy

\* Resting requests and workers have read nothing.
LEMMA IdleMerge ==
  \A table, existing : /\ RequestInv(table, existing, IdleReq)
                       /\ CacheInv(table, existing, IdleWorker)
<1>1. /\ IdleReq.payload.reason = "NONE"
      /\ \A j \in Jobs : IdleReq.seen[j].status = "ABSENT"
  BY SMT DEF IdleReq, NoPayload, NoRun
<1>2. ~HasRow(IdleWorker)
  BY SMT DEF IdleWorker, HasRow, Working
<1> QED BY <1>1, <1>2 DEF RequestInv, CacheInv

\* Nothing changes in the tables.
LEMMA SameTables ==
  ASSUME MergeInv
  PROVE  Succeeds(runs, projects) /\ TableInv(runs, projects)
BY DEF MergeInv, Succeeds, SameRun

\* A step that leaves the owners, and of the payloads what merging looks at,
\* and loses no run.
LEMMA StatusMerge ==
  ASSUME MergeInv, NEW table,
         \A j \in Jobs : \/ table[j] = runs[j]
                         \/ /\ runs[j].status # "ABSENT" /\ table[j].status # "ABSENT"
                            /\ table[j].owner = runs[j].owner
                            /\ table[j].payload.trigger = runs[j].payload.trigger
                            /\ table[j].payload.projects = runs[j].payload.projects
                            /\ table[j].payload.reason = runs[j].payload.reason
  PROVE  Succeeds(table, projects) /\ TableInv(table, projects)
<1>0. TableInv(runs, projects)
  BY DEF MergeInv
<1>1. Succeeds(table, projects)
  BY DEF Succeeds, SameRun
<1>2. \A j \in Jobs : table[j].status = "ABSENT" => table[j].payload = NoPayload
  BY <1>0 DEF TableInv
<1>3. ASSUME NEW j \in Jobs, Merged(table[j]) PROVE Covered(table, projects, table[j])
  <2>1. Covered(runs, projects, runs[j])
    BY <1>0, <1>3 DEF TableInv, Merged
  <2> QED BY <1>0, <1>1, <2>1, CoverKept
<1> QED BY <1>1, <1>2, <1>3 DEF TableInv

\* A flush writes the payload of the row that was computed and keeps the owner.
LEMMA FlushedFields ==
  ASSUME NEW r1 \in Run, NEW r2 \in Run, NEW r3 \in Run
  PROVE  /\ Flushed(r1, r2, r3).owner = r1.owner
         /\ Flushed(r1, r2, r3).payload = r3.payload
BY SMT DEF Flushed, Run

\* A handler rewrites the rows T of those it has loaded: a version of the same
\* run, which is covered if it is merged.
Rewrites(h, T, new, table, existing) ==
  \A j \in Jobs : j \in T =>
    /\ req[h].seen[j].status # "ABSENT"
    /\ table[j] = Flushed(runs[j], req[h].seen[j], new[j])
    /\ new[j].status \in {req[h].seen[j].status, "CANCELLED", "CANCEL_REQUESTED"}
    /\ SameRun(existing, new[j], req[h].seen[j])
    /\ Merged(new[j]) =>
         \/ /\ Merged(req[h].seen[j])
            /\ new[j].payload.projects \subseteq req[h].seen[j].payload.projects
         \/ Covered(table, existing, new[j])

\* The other rows stay, or are inserted.
Untouched(T, table) ==
  \A j \in Jobs \ T : \/ table[j] = runs[j]
                      \/ /\ runs[j].status = "ABSENT" /\ table[j].status # "ABSENT"
                         /\ ~Merged(table[j])

\* Such a handler keeps the invariant.
LEMMA RewrittenMerge ==
  ASSUME TypeInv, MergeInv, NEW h \in Requests, NEW existing, existing \subseteq projects,
         NEW T, NEW new \in [Jobs -> Run], NEW table \in [Jobs -> Run],
         Untouched(T, table), Rewrites(h, T, new, table, existing)
  PROVE  Succeeds(table, existing) /\ TableInv(table, existing)
<1>0. /\ runs \in [Jobs -> Run] /\ req[h] \in Request
      /\ TableInv(runs, projects) /\ RequestInv(runs, projects, req[h])
  BY DEF TypeInv, TypeOK, MergeInv
<1>1. req[h].seen \in [Jobs -> Run]
  BY <1>0, ZenonT(60) DEF Request
<1>2. ASSUME NEW j \in Jobs, j \in T
      PROVE  /\ table[j].owner = runs[j].owner /\ table[j].payload = new[j].payload
             /\ new[j].owner = runs[j].owner
             /\ runs[j].status # "ABSENT" /\ table[j].status # "ABSENT"
             /\ Copy(runs, projects, req[h].seen[j], j)
             /\ SameRun(existing, table[j], runs[j])
  <2>1. runs[j] \in Run /\ req[h].seen[j] \in Run /\ new[j] \in Run
    BY <1>0, <1>1
  <2>2. table[j].owner = runs[j].owner /\ table[j].payload = new[j].payload
    BY <1>2, <2>1, FlushedFields DEF Rewrites
  <2>3. Copy(runs, projects, req[h].seen[j], j)
    BY <1>0, <1>2 DEF RequestInv, Rewrites
  <2>4. table[j].status =
          IF new[j].status # req[h].seen[j].status THEN new[j].status ELSE runs[j].status
    BY <1>2, <2>1, FlushedStatus DEF Rewrites
  <2>5. SameRun(existing, new[j], req[h].seen[j])
    BY <1>2 DEF Rewrites
  <2>6. SameRun(existing, table[j], runs[j]) /\ new[j].owner = runs[j].owner
    BY <2>2, <2>3, <2>5 DEF Copy, SameRun
  <2>7. runs[j].status # "ABSENT"
    BY <2>3 DEF Copy
  <2>8. table[j].status # "ABSENT"
    BY <1>2, <2>4, <2>7 DEF Rewrites
  <2> QED BY <2>2, <2>3, <2>6, <2>7, <2>8
<1>3. Succeeds(table, existing)
  BY <1>2 DEF Succeeds, SameRun, Untouched
<1>4. ASSUME NEW j \in Jobs, table[j].status = "ABSENT" PROVE table[j].payload = NoPayload
  BY <1>0, <1>2, <1>4 DEF TableInv, Untouched
<1>5. ASSUME NEW j \in Jobs, Merged(table[j]) PROVE Covered(table, existing, table[j])
  <2>1. CASE j \in T
    <3>1. Merged(new[j])
      BY <1>2, <1>5, <2>1 DEF Merged
    <3>2. CASE Covered(table, existing, new[j])
      BY <1>2, <2>1, <3>2 DEF Covered
    <3>3. CASE /\ Merged(req[h].seen[j])
               /\ new[j].payload.projects \subseteq req[h].seen[j].payload.projects
      <4>1. Covered(runs, projects, req[h].seen[j]) /\ req[h].seen[j].owner = runs[j].owner
        BY <1>2, <2>1, <3>3 DEF Copy, SameRun
      <4> QED BY <1>0, <1>2, <1>3, <2>1, <3>3, <4>1, CoverKept
    <3> QED BY <2>1, <3>1, <3>2, <3>3 DEF Rewrites
  <2>2. CASE j \notin T
    <3>1. table[j] = runs[j]
      BY <1>5, <2>2 DEF Untouched
    <3>2. Covered(runs, projects, runs[j])
      BY <1>0, <1>5, <3>1 DEF TableInv
    <3> QED BY <1>0, <1>3, <3>1, <3>2, CoverKept
  <2> QED BY <2>1, <2>2
<1> QED BY <1>3, <1>4, <1>5 DEF TableInv

\* The commit of a handler, which rolls back on an index error.
LEMMA CommitMerge ==
  ASSUME TypeInv, TypeInv', MergeInv, NEW h \in Requests,
         NEW table, NEW newPsr, NEW newActive, NEW existing,
         Commit(h, table, newPsr, newActive, existing),
         Succeeds(table, existing), TableInv(table, existing)
  PROVE  MergeInv'
<1>1. Succeeds(runs', projects') /\ TableInv(runs', projects')
  BY SameTables DEF Commit
<1>2. /\ req'[h] = IdleReq /\ \A g \in Requests \ {h} : req'[g] = req[g]
      /\ UNCHANGED wk
  BY DEF Commit, TypeInv, TypeOK
<1>3. RequestInv(runs', projects', req'[h])
  BY <1>2, IdleMerge
<1> QED BY <1>1, <1>2, <1>3, MergeStep

\* What each handler computes from a row it loaded.
LEMMA HandlerMerge ==
  \A r \in Run :
    /\ \A new \in {CancelledRow(r), ShutdownRow(r), SleepRow(r)} :
         /\ new.owner = r.owner
         /\ new.payload.trigger = r.payload.trigger
         /\ new.payload.projects = r.payload.projects
         /\ Merged(new) => Merged(r)
    /\ \A p : /\ DetachedRow(p, r).owner = r.owner
              /\ DetachedRow(p, r).payload.trigger = r.payload.trigger
              /\ DetachedRow(p, r).payload.projects = r.payload.projects \ {p}
              /\ Merged(DetachedRow(p, r)) => Merged(r)
    /\ \A ps : /\ AbsorbedRow(ps, r).owner = r.owner
               /\ AbsorbedRow(ps, r).payload.trigger = r.payload.trigger
               /\ AbsorbedRow(ps, r).payload.projects \subseteq r.payload.projects
               /\ Merged(AbsorbedRow(ps, r)) => Merged(r) \/ r.payload.projects \subseteq ps
<1> TAKE r \in Run
<1>0. r.payload \in Payload
  BY ZenonT(60) DEF Run
<1>1. ASSUME NEW new \in {CancelledRow(r), ShutdownRow(r), SleepRow(r)}
      PROVE  /\ new.owner = r.owner
             /\ new.payload.trigger = r.payload.trigger
             /\ new.payload.projects = r.payload.projects
             /\ Merged(new) => Merged(r)
  <2>1. CASE new = CancelledRow(r)
    <3>1. /\ CancelledRow(r).owner = r.owner
          /\ CancelledRow(r).payload \in {r.payload, [r.payload EXCEPT !.current = None]}
      BY SMT DEF CancelledRow, Run
    <3> QED BY <1>0, <2>1, <3>1, SMT DEF Payload, Merged
  <2>2. CASE new = ShutdownRow(r)
    <3>1. /\ ShutdownRow(r).owner = r.owner
          /\ ShutdownRow(r).payload = [r.payload EXCEPT !.reason = "APPLICATION_SHUTDOWN"]
      BY SMT DEF ShutdownRow, Run
    <3> QED BY <1>0, <2>2, <3>1, SMT DEF Payload, Merged
  <2>3. CASE new = SleepRow(r)
    <3>1. /\ SleepRow(r).owner = r.owner
          /\ SleepRow(r).payload = [r.payload EXCEPT !.reason = "SYSTEM_SLEEP"]
      BY SMT DEF SleepRow, Run
    <3> QED BY <1>0, <2>3, <3>1, SMT DEF Payload, Merged
  <2> QED BY <1>1, <2>1, <2>2, <2>3
<1>2. ASSUME NEW p
      PROVE  /\ DetachedRow(p, r).owner = r.owner
             /\ DetachedRow(p, r).payload.trigger = r.payload.trigger
             /\ DetachedRow(p, r).payload.projects = r.payload.projects \ {p}
             /\ Merged(DetachedRow(p, r)) => Merged(r)
  <2> DEFINE rest == [r EXCEPT !.payload.projects = @ \ {p}]
             gone == [rest EXCEPT !.payload.reason = "PROJECT_DELETED"]
             c1 == [gone EXCEPT !.status = "CANCELLED", !.worker = None, !.payload.current = None]
             c2 == [gone EXCEPT !.status = "CANCEL_REQUESTED"]
  <2>1. rest \in Run /\ rest.owner = r.owner
        /\ rest.payload = [r.payload EXCEPT !.projects = @ \ {p}]
    <3>1. rest \in Run
      BY <1>0, ZenonT(60) DEF Run, Payload
    <3>2. rest.owner = r.owner /\ rest.payload = [r.payload EXCEPT !.projects = @ \ {p}]
      BY SMT DEF Run
    <3> QED BY <3>1, <3>2
  <2> HIDE DEF rest
  <2>2. gone \in Run /\ gone.owner = rest.owner
        /\ gone.payload = [rest.payload EXCEPT !.reason = "PROJECT_DELETED"]
    <3>1. gone \in Run
      BY <2>1, ZenonT(60) DEF Run, Payload, Reason
    <3>2. gone.owner = rest.owner
          /\ gone.payload = [rest.payload EXCEPT !.reason = "PROJECT_DELETED"]
      BY <2>1, SMT DEF Run
    <3> QED BY <3>1, <3>2
  <2> HIDE DEF gone
  <2>3. /\ c1.owner = gone.owner /\ c1.payload = [gone.payload EXCEPT !.current = None]
        /\ c2.owner = gone.owner /\ c2.payload = gone.payload
    <3>1. DOMAIN gone = {"status", "owner", "worker", "payload"}
      BY <2>2, SMT DEF Run
    <3>2. c1.owner = gone.owner /\ c1.payload = [gone.payload EXCEPT !.current = None]
      BY <3>1, SMT
    <3>3. c2.owner = gone.owner /\ c2.payload = gone.payload
      BY <3>1, SMT
    <3> QED BY <3>2, <3>3
  <2>4. DetachedRow(p, r) \in {rest, c1, c2}
    BY ZenonT(60) DEF DetachedRow, rest, gone
  <2> HIDE DEF c1, c2
  <2>5. /\ rest.payload.trigger = r.payload.trigger
        /\ rest.payload.projects = r.payload.projects \ {p}
        /\ rest.payload.reason = r.payload.reason
        /\ rest.payload \in Payload
    BY <1>0, <2>1, SMT DEF Payload, Run
  <2>6. /\ gone.payload.trigger = r.payload.trigger
        /\ gone.payload.projects = r.payload.projects \ {p}
        /\ gone.payload.reason = "PROJECT_DELETED"
        /\ gone.payload \in Payload
    BY <2>2, <2>5, SMT DEF Payload, Run
  <2>7. /\ c1.payload.trigger = r.payload.trigger
        /\ c1.payload.projects = r.payload.projects \ {p}
        /\ c1.payload.reason = "PROJECT_DELETED"
    BY <2>3, <2>6, SMT DEF Payload
  <2>a. rest.owner = r.owner /\ c1.owner = r.owner /\ c2.owner = r.owner
    BY <2>1, <2>2, <2>3
  <2>b. ~Merged(c1) /\ ~Merged(c2)
    BY <2>3, <2>6, <2>7, SMT DEF Merged
  <2>8. CASE DetachedRow(p, r) = rest
    BY <2>a, <2>5, <2>8 DEF Merged
  <2>9. CASE DetachedRow(p, r) = c1
    BY <2>7, <2>9, <2>a, <2>b, Zenon
  <2>10. CASE DetachedRow(p, r) = c2
    BY <2>3, <2>6, <2>10, <2>a, <2>b, Zenon
  <2> QED BY <2>4, <2>8, <2>9, <2>10
<1>3. ASSUME NEW ps
      PROVE  /\ AbsorbedRow(ps, r).owner = r.owner
             /\ AbsorbedRow(ps, r).payload.trigger = r.payload.trigger
             /\ AbsorbedRow(ps, r).payload.projects \subseteq r.payload.projects
             /\ Merged(AbsorbedRow(ps, r)) => Merged(r) \/ r.payload.projects \subseteq ps
  BY <1>0, SMT DEF AbsorbedRow, Run, Payload, Merged
<1> QED BY <1>1, <1>2, <1>3

\* The loading half of a handler: what it has read are the runs themselves.
LEMMA LoadMerge ==
  ASSUME TypeInv, TypeInv', MergeInv, NEW h \in Requests, NEW request, Load(h, request),
         UNCHANGED <<runs, projects, wk>>,
         NEW T, request.seen = Loaded(T), request.payload.reason = "NONE",
         request.op = "enqueue" => \A j \in Jobs \cap T : runs[j].owner = request.user
  PROVE  MergeInv'
<1>1. /\ req'[h] = request /\ \A g \in Requests \ {h} : req'[g] = req[g]
  BY DEF Load, TypeInv, TypeOK
<1>2. ASSUME NEW j \in Jobs, request.seen[j].status # "ABSENT"
      PROVE  /\ Copy(runs, projects, request.seen[j], j)
             /\ request.op = "enqueue" => request.seen[j].owner = request.user
  <2>1. NoRun.status = "ABSENT"
    BY SMT DEF NoRun
  <2>2. j \in T /\ request.seen[j] = runs[j]
    BY <1>2, <2>1 DEF Loaded
  <2>3. Copy(runs, projects, runs[j], j)
    BY <1>2, <2>2 DEF Copy, SameRun, MergeInv, TableInv
  <2> QED BY <2>2, <2>3
<1>3. RequestInv(runs, projects, request)
  BY <1>2 DEF RequestInv
<1> QED BY <1>1, <1>3, SameTables, MergeStep

\* A step that calls a handler.
LEMMA CallMerge ==
  ASSUME TypeInv, TypeInv', MergeInv, NEW h \in Requests, Call(h)
  PROVE  MergeInv'
<1>0. IdleReq.payload.reason = "NONE"
  BY SMT DEF IdleReq, NoPayload
<1>1. ASSUME NEW j \in Jobs, cancel_scan(h, j) PROVE MergeInv'
  <2> DEFINE request == [IdleReq EXCEPT !.op = "cancel", !.seen = Loaded({j})]
  <2>1. request.op = "cancel" /\ request.seen = Loaded({j}) /\ request.payload = IdleReq.payload
    BY SMT DEF IdleReq
  <2>2. Load(h, request) /\ UNCHANGED <<runs, projects, wk>>
    BY <1>1 DEF cancel_scan
  <2> HIDE DEF request
  <2> QED BY <1>0, <2>1, <2>2, LoadMerge
<1>2. ASSUME NEW u \in Users, NEW x \in ManualPayloads, enqueue(h, u, x) PROVE MergeInv'
  <2> DEFINE request == [IdleReq EXCEPT !.op = "enqueue", !.user = u, !.payload = x,
                                        !.seen = Loaded(LiveRunsOf(u))]
  <2>1. /\ request.seen = Loaded(LiveRunsOf(u)) /\ request.payload = x
        /\ request.user = u
    BY SMT DEF IdleReq
  <2>2. x.reason = "NONE"
    <3>1. /\ \A ps : ProjectsPayload("MANUAL", ps).reason = "NONE"
          /\ \A cs : CarsPayload(cs).reason = "NONE"
      BY SMT DEF ProjectsPayload, CarsPayload, NoPayload
    <3> QED BY <3>1, ZenonT(60) DEF ManualPayloads
  <2>3. Load(h, request) /\ UNCHANGED <<runs, projects, wk>>
    BY <1>2 DEF enqueue
  <2>4. \A j \in LiveRunsOf(u) : runs[j].owner = u
    BY DEF LiveRunsOf
  <2> HIDE DEF request
  <2> QED BY <2>1, <2>2, <2>3, <2>4, LoadMerge
<1>3. ASSUME NEW u \in Users, NEW ps \in SUBSET Projects, enqueue_scheduled(h, u, ps)
      PROVE  MergeInv'
  <2> DEFINE x == ProjectsPayload("AUTOMATIC", ps)
             request == [IdleReq EXCEPT !.op = "schedule", !.user = u, !.payload = x,
                                        !.seen = Loaded(LiveRunsOf(u))]
  <2>1. /\ request.op = "schedule" /\ request.seen = Loaded(LiveRunsOf(u))
        /\ request.payload = x
    BY SMT DEF IdleReq
  <2>2. x.reason = "NONE"
    BY SMT DEF ProjectsPayload, NoPayload
  <2>3. Load(h, request) /\ UNCHANGED <<runs, projects, wk>>
    BY <1>3 DEF enqueue_scheduled
  <2> HIDE DEF request, x
  <2> QED BY <2>1, <2>2, <2>3, LoadMerge
<1>4. ASSUME NEW p \in Projects, delete_project(h, p) PROVE MergeInv'
  <2> DEFINE T == {j \in LiveRunsOf(Owner[p]) : p \in runs[j].payload.projects}
             request == [IdleReq EXCEPT !.op = "delete", !.project = p, !.seen = Loaded(T)]
  <2>1. request.op = "delete" /\ request.seen = Loaded(T) /\ request.payload = IdleReq.payload
    BY SMT DEF IdleReq
  <2>2. Load(h, request) /\ UNCHANGED <<runs, projects, wk>>
    BY <1>4 DEF delete_project
  <2> HIDE DEF request, T
  <2> QED BY <1>0, <2>1, <2>2, LoadMerge
<1>5. ASSUME request_shutdown(h) PROVE MergeInv'
  <2> DEFINE T == {j \in Jobs : runs[j].status \in {"QUEUED", "RUNNING"}}
             request == [IdleReq EXCEPT !.op = "shutdown", !.seen = Loaded(T)]
  <2>1. request.op = "shutdown" /\ request.seen = Loaded(T) /\ request.payload = IdleReq.payload
    BY SMT DEF IdleReq
  <2>2. Load(h, request) /\ UNCHANGED <<runs, projects, wk>>
    BY <1>5 DEF request_shutdown
  <2> HIDE DEF request, T
  <2> QED BY <1>0, <2>1, <2>2, LoadMerge
<1>6. ASSUME request_sleep_interruption(h) PROVE MergeInv'
  <2> DEFINE T == {j \in Jobs : runs[j].status = "RUNNING"}
             request == [IdleReq EXCEPT !.op = "sleep", !.seen = Loaded(T)]
  <2>1. request.op = "sleep" /\ request.seen = Loaded(T) /\ request.payload = IdleReq.payload
    BY SMT DEF IdleReq
  <2>2. Load(h, request) /\ UNCHANGED <<runs, projects, wk>>
    BY <1>6 DEF request_sleep_interruption
  <2> HIDE DEF request, T
  <2> QED BY <1>0, <2>1, <2>2, LoadMerge
<1> QED BY <1>1, <1>2, <1>3, <1>4, <1>5, <1>6 DEF Call

\* An inserted run is manual exactly when the request is, and has its projects.
LEMMA InsertedMerge ==
  ASSUME TypeInv, MergeInv, NEW h \in Requests
  PROVE  LET new == NewRun(req[h].user, req[h].payload)
         IN  /\ new.status # "ABSENT" /\ ~Merged(new)
             /\ new.owner = req[h].user /\ new.payload = req[h].payload
<1>1. req[h].payload.reason = "NONE"
  BY DEF MergeInv, RequestInv
<1>2. /\ NewRun(req[h].user, req[h].payload).status = "QUEUED"
      /\ NewRun(req[h].user, req[h].payload).owner = req[h].user
      /\ NewRun(req[h].user, req[h].payload).payload = req[h].payload
  BY SMT DEF NewRun, NoRun
<1> QED BY <1>1, <1>2 DEF Merged

\* A step that finishes a handler.
LEMMA ReplyMerge ==
  ASSUME TypeInv, TypeInv', MergeInv, NEW h \in Requests, Reply(h)
  PROVE  MergeInv'
<1>0. /\ runs \in [Jobs -> Run] /\ req[h] \in Request
      /\ RequestInv(runs, projects, req[h])
  BY DEF TypeInv, TypeOK, MergeInv
<1>a. /\ req[h].seen \in [Jobs -> Run] /\ req[h].payload.projects \in SUBSET Projects
      /\ req[h].project \in Projects \cup {None}
  BY <1>0, ZenonT(60) DEF Request, Payload
<1>b. \A j \in Jobs : j \in Selected(h) => req[h].seen[j].status # "ABSENT"
  BY DEF Selected
\* A handler that changes neither the projects of a run nor who asked for it.
<1>c. ASSUME NEW new \in [Jobs -> Run], NEW table, NEW newPsr, NEW newActive,
             \A j \in Jobs :
               /\ new[j].status \in {req[h].seen[j].status, "CANCELLED", "CANCEL_REQUESTED"}
               /\ new[j].owner = req[h].seen[j].owner
               /\ new[j].payload.trigger = req[h].seen[j].payload.trigger
               /\ new[j].payload.projects = req[h].seen[j].payload.projects
               /\ Merged(new[j]) => Merged(req[h].seen[j]),
             table = [j \in Jobs |-> IF j \in Selected(h)
                                     THEN Flushed(runs[j], req[h].seen[j], new[j])
                                     ELSE runs[j]],
             Commit(h, table, newPsr, newActive, projects)
      PROVE  MergeInv'
  <2>1. table \in [Jobs -> Run]
    BY <1>c, RewrittenRows
  <2>2. \A j \in Jobs : SameRun(projects, new[j], req[h].seen[j])
    BY <1>c DEF SameRun
  <2>3. Untouched(Selected(h), table)
    BY <1>c DEF Untouched
  <2>4. Rewrites(h, Selected(h), new, table, projects)
    BY <1>b, <1>c, <2>2 DEF Rewrites
  <2>5. Succeeds(table, projects) /\ TableInv(table, projects)
    BY <2>1, <2>3, <2>4, RewrittenMerge
  <2> QED BY <1>c, <2>5, CommitMerge
<1>1. CASE cancel_scan_commit(h)
  <2> DEFINE new == [j \in Jobs |-> CancelledRow(req[h].seen[j])]
             table == Rewritten(h, Selected(h), CancelledRow)
  <2>1. new \in [Jobs -> Run]
    BY <1>a, HandlerRows
  <2>2. ASSUME NEW j \in Jobs
        PROVE  /\ new[j].status \in {req[h].seen[j].status, "CANCELLED", "CANCEL_REQUESTED"}
               /\ new[j].owner = req[h].seen[j].owner
               /\ new[j].payload.trigger = req[h].seen[j].payload.trigger
               /\ new[j].payload.projects = req[h].seen[j].payload.projects
               /\ Merged(new[j]) => Merged(req[h].seen[j])
    BY <1>a, HandlerStatus, HandlerMerge
  <2>3. table = [j \in Jobs |-> IF j \in Selected(h)
                                THEN Flushed(runs[j], req[h].seen[j], new[j]) ELSE runs[j]]
    BY DEF Rewritten
  <2>4. Commit(h, table, psr, active, projects)
    BY <1>1 DEF cancel_scan_commit
  <2> HIDE DEF new, table
  <2> QED BY <1>c, <2>1, <2>2, <2>3, <2>4
<1>2. CASE enqueue_commit(h)
  <2> DEFINE absorb(r) == AbsorbedRow(req[h].payload.projects, r)
             new == [j \in Jobs |-> absorb(req[h].seen[j])]
             T == Absorbed(req[h].seen, req[h].payload)
             table == Rewritten(h, T, absorb)
  <2>1. new \in [Jobs -> Run]
    BY <1>a, HandlerRows
  <2>2. ASSUME NEW j \in Jobs
        PROVE  /\ new[j].status \in {req[h].seen[j].status, "CANCELLED", "CANCEL_REQUESTED"}
               /\ new[j].owner = req[h].seen[j].owner
               /\ new[j].payload.trigger = req[h].seen[j].payload.trigger
               /\ new[j].payload.projects \subseteq req[h].seen[j].payload.projects
               /\ Merged(new[j]) =>
                    \/ Merged(req[h].seen[j])
                    \/ req[h].seen[j].payload.projects \subseteq req[h].payload.projects
    BY <1>a, HandlerStatus, HandlerMerge
  <2>3. table = [j \in Jobs |-> IF j \in T THEN Flushed(runs[j], req[h].seen[j], new[j])
                                           ELSE runs[j]]
    BY DEF Rewritten
  <2>4. /\ T \subseteq Jobs /\ req[h].op = "enqueue"
        /\ \A j \in T : /\ req[h].seen[j].status = "QUEUED"
                        /\ req[h].seen[j].payload.trigger = "AUTOMATIC"
                        /\ req[h].payload.trigger = "MANUAL"
    BY <1>2 DEF Absorbed, IsAutomatic, enqueue_commit
  <2>5. CASE Refused(req[h].seen, req[h].payload)
    <3>1. Commit(h, runs, psr, active, projects)
      BY <1>2, <2>5, ZenonT(60) DEF enqueue_commit
    <3> QED BY <3>1, SameTables, CommitMerge
  <2>6. CASE ~Refused(req[h].seen, req[h].payload)
    <3>1. PICK id \in Jobs :
            /\ NextId(id)
            /\ Commit(h, [table EXCEPT ![id] = NewRun(req[h].user, req[h].payload)],
                      psr, active, projects)
      BY <1>2, <2>6, ZenonT(60) DEF enqueue_commit
    <3> DEFINE inserted == [table EXCEPT ![id] = NewRun(req[h].user, req[h].payload)]
    <3>2. Commit(h, inserted, psr, active, projects)
      BY <3>1
    <3> HIDE DEF new, table, T
    <3>3. table \in [Jobs -> Run] /\ Advances(table)
      BY <2>1, <2>2, <2>3, RewrittenRows
    <3>4. inserted \in [Jobs -> Run]
      BY <3>1, <3>3, InsertedRow
    <3>5. runs[id].status = "ABSENT" /\ id \notin T
      <4>1. runs[id].status = "ABSENT"
        BY <3>1 DEF NextId
      <4> QED BY <1>0, <2>4, <4>1 DEF RequestInv, Copy
    <3>6. /\ inserted[id].status # "ABSENT" /\ ~Merged(inserted[id])
          /\ inserted[id].owner = req[h].user /\ inserted[id].payload = req[h].payload
          /\ \A j \in Jobs \ {id} : inserted[j] = table[j]
      BY <3>3, InsertedMerge
    <3> HIDE DEF inserted
    <3>7. ASSUME NEW j \in Jobs, j \in T, Merged(new[j]), ~Merged(req[h].seen[j])
          PROVE  Covered(inserted, projects, new[j])
      <4>1. req[h].seen[j].owner = req[h].user
        BY <1>0, <2>4, <3>7 DEF RequestInv
      <4>2. /\ inserted[id].owner = new[j].owner
            /\ inserted[id].payload.trigger = "MANUAL"
            /\ new[j].payload.projects \subseteq inserted[id].payload.projects
        BY <2>2, <2>4, <3>6, <3>7, <4>1
      <4> QED BY <4>2 DEF Covered
    <3>8. Untouched(T, inserted)
      BY <2>3, <3>5, <3>6 DEF Untouched
    <3>9. ASSUME NEW j \in Jobs, j \in T
          PROVE  /\ req[h].seen[j].status # "ABSENT"
                 /\ inserted[j] = Flushed(runs[j], req[h].seen[j], new[j])
                 /\ SameRun(projects, new[j], req[h].seen[j])
                 /\ Merged(new[j]) =>
                      \/ /\ Merged(req[h].seen[j])
                         /\ new[j].payload.projects \subseteq req[h].seen[j].payload.projects
                      \/ Covered(inserted, projects, new[j])
      <4>1. req[h].seen[j].status # "ABSENT"
        BY <2>4, <3>9
      <4>2. inserted[j] = Flushed(runs[j], req[h].seen[j], new[j])
        BY <2>3, <3>5, <3>6, <3>9
      <4>3. SameRun(projects, new[j], req[h].seen[j])
        BY <2>2, <2>4, <3>9 DEF SameRun
      <4>4. Merged(new[j]) =>
              \/ /\ Merged(req[h].seen[j])
                 /\ new[j].payload.projects \subseteq req[h].seen[j].payload.projects
              \/ Covered(inserted, projects, new[j])
        BY <2>2, <3>7, <3>9
      <4> QED BY <4>1, <4>2, <4>3, <4>4
    <3>10. Rewrites(h, T, new, inserted, projects)
      BY <2>2, <3>9 DEF Rewrites
    <3>11. Succeeds(inserted, projects) /\ TableInv(inserted, projects)
      BY <2>1, <3>4, <3>8, <3>10, RewrittenMerge
    <3> QED BY <3>2, <3>11, CommitMerge
  <2> QED BY <2>5, <2>6
<1>3. CASE enqueue_scheduled_commit(h)
  <2>1. CASE Commit(h, runs, psr, active, projects)
    BY <2>1, SameTables, CommitMerge
  <2>2. CASE \E id \in Jobs :
               /\ NextId(id)
               /\ Commit(h, [runs EXCEPT ![id] = NewRun(req[h].user, req[h].payload)],
                         psr, active, projects)
    <3>1. PICK id \in Jobs :
            /\ NextId(id)
            /\ Commit(h, [runs EXCEPT ![id] = NewRun(req[h].user, req[h].payload)],
                      psr, active, projects)
      BY <2>2
    <3> DEFINE inserted == [runs EXCEPT ![id] = NewRun(req[h].user, req[h].payload)]
    <3>2. Commit(h, inserted, psr, active, projects)
      BY <3>1
    <3>3. inserted \in [Jobs -> Run]
      BY <1>0, <3>1, InsertedRow DEF Advances
    <3>4. runs[id].status = "ABSENT"
      BY <3>1 DEF NextId
    <3>5. /\ inserted[id].status # "ABSENT" /\ ~Merged(inserted[id])
          /\ \A j \in Jobs \ {id} : inserted[j] = runs[j]
      BY <1>0, InsertedMerge
    <3> HIDE DEF inserted
    <3>6. Untouched({}, inserted) /\ Rewrites(h, {}, runs, inserted, projects)
      BY <3>4, <3>5 DEF Untouched, Rewrites
    <3>7. Succeeds(inserted, projects) /\ TableInv(inserted, projects)
      BY <1>0, <3>3, <3>6, RewrittenMerge
    <3> QED BY <3>2, <3>7, CommitMerge
  <2> QED BY <1>3, <2>1, <2>2 DEF enqueue_scheduled_commit
<1>4. CASE delete_project_commit(h)
  <2> DEFINE p == req[h].project
             detach(r) == DetachedRow(p, r)
             new == [j \in Jobs |-> detach(req[h].seen[j])]
             table == Rewritten(h, Selected(h), detach)
             existing == projects \ {p}
             newPsr == [j \in Jobs |-> [psr[j] EXCEPT ![p] = "ABSENT"]]
  <2>1. new \in [Jobs -> Run]
    BY <1>a, HandlerRows
  <2>2. ASSUME NEW j \in Jobs
        PROVE  /\ new[j].status \in {req[h].seen[j].status, "CANCELLED", "CANCEL_REQUESTED"}
               /\ new[j].owner = req[h].seen[j].owner
               /\ new[j].payload.trigger = req[h].seen[j].payload.trigger
               /\ new[j].payload.projects = req[h].seen[j].payload.projects \ {p}
               /\ Merged(new[j]) => Merged(req[h].seen[j])
    <3>1. req[h].seen[j] \in Run /\ new[j] = DetachedRow(p, req[h].seen[j])
      BY <1>a
    <3> HIDE DEF p, new
    <3> QED BY <3>1, HandlerStatus, HandlerMerge
  <2>3. table = [j \in Jobs |-> IF j \in Selected(h)
                                THEN Flushed(runs[j], req[h].seen[j], new[j]) ELSE runs[j]]
    BY DEF Rewritten
  <2>4. Commit(h, table, newPsr, active, existing)
    BY <1>4, ZenonT(60) DEF delete_project_commit
  <2> HIDE DEF new, table, newPsr, p
  <2>5. table \in [Jobs -> Run]
    BY <2>1, <2>2, <2>3, RewrittenRows
  <2>6. ASSUME NEW j \in Jobs
        PROVE  /\ SameRun(existing, new[j], req[h].seen[j])
               /\ new[j].payload.projects \subseteq req[h].seen[j].payload.projects
    <3>1. new[j].payload.projects = req[h].seen[j].payload.projects \ {p}
      BY <2>2
    <3>2. new[j].payload.projects \cap existing = req[h].seen[j].payload.projects \cap existing
      BY <3>1
    <3> QED BY <2>2, <3>1, <3>2 DEF SameRun
  <2> HIDE DEF existing
  <2>7. existing \subseteq projects
    BY DEF existing
  <2>8. Untouched(Selected(h), table)
    BY <2>3 DEF Untouched
  <2>9. Rewrites(h, Selected(h), new, table, existing)
    BY <1>b, <2>2, <2>3, <2>6 DEF Rewrites
  <2>10. Succeeds(table, existing) /\ TableInv(table, existing)
    BY <2>1, <2>5, <2>7, <2>8, <2>9, RewrittenMerge
  <2> QED BY <2>4, <2>10, CommitMerge
<1>5. CASE request_shutdown_commit(h)
  <2> DEFINE new == [j \in Jobs |-> ShutdownRow(req[h].seen[j])]
             table == Rewritten(h, Selected(h), ShutdownRow)
  <2>1. new \in [Jobs -> Run]
    BY <1>a, HandlerRows
  <2>2. ASSUME NEW j \in Jobs
        PROVE  /\ new[j].status \in {req[h].seen[j].status, "CANCELLED", "CANCEL_REQUESTED"}
               /\ new[j].owner = req[h].seen[j].owner
               /\ new[j].payload.trigger = req[h].seen[j].payload.trigger
               /\ new[j].payload.projects = req[h].seen[j].payload.projects
               /\ Merged(new[j]) => Merged(req[h].seen[j])
    BY <1>a, HandlerStatus, HandlerMerge
  <2>3. table = [j \in Jobs |-> IF j \in Selected(h)
                                THEN Flushed(runs[j], req[h].seen[j], new[j]) ELSE runs[j]]
    BY DEF Rewritten
  <2>4. \E newPsr : Commit(h, table, newPsr, active, projects)
    BY <1>5, ZenonT(60) DEF request_shutdown_commit
  <2> HIDE DEF new, table
  <2> QED BY <1>c, <2>1, <2>2, <2>3, <2>4
<1>6. CASE request_sleep_interruption_commit(h)
  <2> DEFINE new == [j \in Jobs |-> SleepRow(req[h].seen[j])]
             table == Rewritten(h, Selected(h), SleepRow)
  <2>1. new \in [Jobs -> Run]
    BY <1>a, HandlerRows
  <2>2. ASSUME NEW j \in Jobs
        PROVE  /\ new[j].status \in {req[h].seen[j].status, "CANCELLED", "CANCEL_REQUESTED"}
               /\ new[j].owner = req[h].seen[j].owner
               /\ new[j].payload.trigger = req[h].seen[j].payload.trigger
               /\ new[j].payload.projects = req[h].seen[j].payload.projects
               /\ Merged(new[j]) => Merged(req[h].seen[j])
    BY <1>a, HandlerStatus, HandlerMerge
  <2>3. table = [j \in Jobs |-> IF j \in Selected(h)
                                THEN Flushed(runs[j], req[h].seen[j], new[j]) ELSE runs[j]]
    BY DEF Rewritten
  <2>4. Commit(h, table, psr, active, projects)
    BY <1>6 DEF request_sleep_interruption_commit
  <2> HIDE DEF new, table
  <2> QED BY <1>c, <2>1, <2>2, <2>3, <2>4
<1> QED BY <1>1, <1>2, <1>3, <1>4, <1>5, <1>6 DEF Reply

\* A payload that a worker writes: as it was read, but for the current project
\* and for a reason of its own.
Restates(x, y) ==
  /\ x.trigger = y.trigger
  /\ x.projects = y.projects
  /\ x.reason \in {y.reason, "ACCOUNT_INACTIVE"}

\* The payload of a worker's run, or the one in its cache.
FromRun(w, x) ==
  Restates(x, Stored(w).payload) \/ (HasRow(wk[w]) /\ Restates(x, wk[w].row.payload))

\* A row that restates the run or its cached version is a version of the run
\* again.
LEMMA RestatedCopy ==
  ASSUME TypeInv, QueueInv, MergeInv, NEW w \in Workers, wk[w].pc \in Working,
         NEW row, row.owner = Stored(w).owner, FromRun(w, row.payload)
  PROVE  Copy(runs, projects, row, Job(w))
<1>1. /\ Job(w) \in Jobs /\ Stored(w).status # "ABSENT"
  BY WorkingTypes, WorkingInv DEF HeldStatus
<1>2. ASSUME NEW old, Copy(runs, projects, old, Job(w)), old.owner = Stored(w).owner,
             Restates(row.payload, old.payload)
      PROVE  Copy(runs, projects, row, Job(w))
  <2>1. SameRun(projects, row, Stored(w))
    BY <1>2 DEF Copy, SameRun, Restates, Stored
  <2>2. Merged(row) => Covered(runs, projects, row)
    BY <1>2 DEF Copy, Covered, Restates, Merged
  <2> QED BY <1>1, <2>1, <2>2 DEF Copy, Stored
<1>3. Copy(runs, projects, Stored(w), Job(w))
  BY <1>1 DEF Copy, SameRun, MergeInv, TableInv, Stored
<1>4. HasRow(wk[w]) => /\ Copy(runs, projects, wk[w].row, Job(w))
                       /\ wk[w].row.owner = Stored(w).owner
  BY <1>1 DEF MergeInv, CacheInv, Copy, SameRun, Job, Stored
<1> QED BY <1>2, <1>3, <1>4 DEF FromRun

\* A step of a worker on its own run.
LEMMA OwnRunMerge ==
  ASSUME TypeInv, TypeInv', QueueInv, MergeInv, NEW w \in Workers, wk[w].pc \in Working,
         UNCHANGED <<projects, req>>,
         NEW local, Becomes(w, local),
         NEW new, runs' = [runs EXCEPT ![Job(w)] = new],
         new.status # "ABSENT", new.owner = Stored(w).owner, FromRun(w, new.payload),
         HasRow(local) => /\ local.job = Job(w)
                          /\ local.row.owner = Stored(w).owner
                          /\ FromRun(w, local.row.payload)
  PROVE  MergeInv'
<1>0. /\ Job(w) \in Jobs /\ runs \in [Jobs -> Run] /\ wk \in [Workers -> Worker]
      /\ TableInv(runs, projects)
  BY WorkingTypes DEF TypeInv, TypeOK, MergeInv
<1>1. Copy(runs, projects, new, Job(w))
  BY RestatedCopy
<1>2. runs'[Job(w)] = new /\ \A j \in Jobs \ {Job(w)} : runs'[j] = runs[j]
  BY <1>0
<1>3. Succeeds(runs', projects)
  BY <1>1, <1>2 DEF Succeeds, SameRun, Copy
<1>4. \A j \in Jobs : runs'[j].status = "ABSENT" => runs'[j].payload = NoPayload
  BY <1>0, <1>2 DEF TableInv
<1>5. ASSUME NEW j \in Jobs, Merged(runs'[j]) PROVE Covered(runs', projects, runs'[j])
  <2>1. Covered(runs, projects, runs'[j])
    BY <1>0, <1>1, <1>2, <1>5 DEF TableInv, Copy
  <2> QED BY <1>0, <1>3, <2>1, CoverKept
<1>6. TableInv(runs', projects)
  BY <1>4, <1>5 DEF TableInv
<1>7. wk'[w] = local /\ \A v \in Workers \ {w} : wk'[v] = wk[v]
  BY <1>0 DEF Becomes
<1>8. CacheInv(runs', projects, local)
  <2>1. HasRow(local) => Copy(runs, projects, local.row, Job(w))
    BY RestatedCopy
  <2> QED BY <1>0, <1>3, <2>1, CopyKept DEF CacheInv
<1> QED BY <1>3, <1>6, <1>7, <1>8, MergeStep

\* A step of a worker that leaves the runs alone.
LEMMA QuietMerge ==
  ASSUME TypeInv, TypeInv', QueueInv, MergeInv, NEW w \in Workers, wk[w].pc \in Working,
         UNCHANGED <<projects, req, runs>>,
         NEW local, Becomes(w, local),
         HasRow(local) => /\ local.job = Job(w)
                          /\ local.row.owner = Stored(w).owner
                          /\ FromRun(w, local.row.payload)
  PROVE  MergeInv'
<1>1. Job(w) \in Jobs /\ runs \in [Jobs -> Run] /\ Stored(w).status # "ABSENT"
  BY WorkingTypes, WorkingInv DEF TypeInv, TypeOK, HeldStatus
<1>2. runs' = [runs EXCEPT ![Job(w)] = Stored(w)]
  BY <1>1 DEF Stored
<1>3. FromRun(w, Stored(w).payload)
  BY DEF FromRun, Restates
<1> QED BY <1>1, <1>2, <1>3, OwnRunMerge

\* What a worker may write.
LEMMA WorkerRows ==
  ASSUME TypeInv, QueueInv, MergeInv, NEW w \in Workers, wk[w].pc \in Working
  PROVE  /\ FromRun(w, Stored(w).payload)
         /\ \A x : FromRun(w, WithPayload(Stored(w), x))
         /\ HasRow(wk[w]) => /\ wk[w].row.owner = Stored(w).owner
                             /\ FromRun(w, wk[w].row.payload)
                             /\ \A x : FromRun(w, WithPayload(wk[w].row, x))
<1>1. /\ Stored(w).payload \in Payload /\ wk[w].row.payload \in Payload
  BY WorkingTypes, ZenonT(60) DEF Run
<1>2. ASSUME NEW r, r.payload \in Payload, NEW x
      PROVE  Restates(WithPayload(r, x), r.payload)
  BY <1>2, SMT DEF WithPayload, Payload, Restates
<1>3. HasRow(wk[w]) => wk[w].row.owner = Stored(w).owner
  BY DEF MergeInv, CacheInv, Copy, SameRun, Stored, Job
<1>4. \A x : /\ Restates(WithPayload(Stored(w), x), Stored(w).payload)
             /\ Restates(WithPayload(wk[w].row, x), wk[w].row.payload)
  BY <1>1, <1>2
<1> QED BY <1>3, <1>4 DEF FromRun, Restates

\* A step of a worker that writes the payload of its run.
LEMMA PublishMerge ==
  ASSUME TypeInv, TypeInv', QueueInv, MergeInv, NEW w \in Workers, wk[w].pc \in Working,
         UNCHANGED <<projects, req>>,
         NEW local, Becomes(w, local),
         NEW x, runs' = [runs EXCEPT ![Job(w)].payload = x], FromRun(w, x),
         HasRow(local) => /\ local.job = Job(w)
                          /\ local.row.owner = Stored(w).owner
                          /\ FromRun(w, local.row.payload)
  PROVE  MergeInv'
<1> DEFINE new == [Stored(w) EXCEPT !.payload = x]
<1>1. /\ Job(w) \in Jobs /\ runs \in [Jobs -> Run] /\ Stored(w) \in Run
      /\ Stored(w).status # "ABSENT"
  BY WorkingTypes, WorkingInv DEF TypeInv, TypeOK, HeldStatus
<1>2. runs' = [runs EXCEPT ![Job(w)] = new]
  BY <1>1 DEF Stored
<1>3. new.status = Stored(w).status /\ new.owner = Stored(w).owner /\ new.payload = x
  BY <1>1, SMT DEF Run
<1> HIDE DEF new
<1> QED BY <1>1, <1>2, <1>3, OwnRunMerge

\* The refused case of a checkpoint.
LEMMA StopMerge ==
  ASSUME TypeInv, TypeInv', QueueInv, MergeInv, NEW w \in Workers, wk[w].pc \in Working,
         UNCHANGED <<projects, req>>, StopAtCheckpoint(w)
  PROVE  MergeInv'
<1> DEFINE row == IF Cancelling(w) THEN Stored(w)
                                   ELSE [Stored(w) EXCEPT !.status = "CANCEL_REQUESTED"]
           local == [wk[w] EXCEPT !.pc = "cancelled", !.row = row]
<1>1. Stored(w) \in Run /\ wk[w] \in Worker /\ Stored(w).status # "ABSENT"
  BY WorkingTypes, WorkingInv DEF HeldStatus
<1>2. Becomes(w, local) /\ runs' = [runs EXCEPT ![Job(w)] = row]
  BY DEF StopAtCheckpoint
<1>3. row.status # "ABSENT" /\ row.owner = Stored(w).owner /\ row.payload = Stored(w).payload
  BY <1>1, SMT DEF Run
<1> HIDE DEF row
<1>4. local.job = Job(w) /\ local.row = row
  BY <1>1, SMT DEF Worker, Job
<1> HIDE DEF local
<1> QED BY <1>2, <1>3, <1>4, WorkerRows, OwnRunMerge

\* The steps of process_job outside a unit.
LEMMA JobMerge ==
  ASSUME TypeInv, TypeInv', QueueInv, MergeInv, NEW w \in Workers,
         \/ begin_job(w) \/ launch(w) \/ fail_job(w) \/ gate_stop(w)
         \/ finish_job(w) \/ finish_cancelled_job(w)
  PROVE  MergeInv'
<1>1. /\ wk[w].pc \in Working /\ UNCHANGED <<projects, req>>
  BY SMT DEF begin_job, launch, fail_job, gate_stop, finish_job, finish_cancelled_job,
             At, Working, WorkerPc
<1>2. /\ Job(w) \in Jobs /\ Stored(w) \in Run /\ wk[w] \in Worker /\ wk[w].row \in Run
      /\ runs \in [Jobs -> Run] /\ Stored(w).payload \in Payload
      /\ wk[w].row.payload \in Payload
  <2>1. Job(w) \in Jobs /\ Stored(w) \in Run /\ wk[w] \in Worker /\ wk[w].row \in Run
    BY <1>1, WorkingTypes
  <2> QED BY <2>1, ZenonT(60) DEF TypeInv, TypeOK, Run
<1>3. ~HasRow(IdleWorker)
  BY SMT DEF IdleWorker, HasRow, Working
<1>4. Stored(w).status # "ABSENT" /\ FromRun(w, Stored(w).payload)
  BY <1>1, WorkingInv, WorkerRows DEF HeldStatus
<1>5. CASE begin_job(w)
  <2>1. CASE Becomes(w, IdleWorker) /\ UNCHANGED runs
    BY <1>1, <1>3, <2>1, QuietMerge
  <2>2. CASE /\ runs' = [runs EXCEPT ![Job(w)] = [@ EXCEPT !.status = "CANCELLED",
                                                   !.payload.reason = "ACCOUNT_INACTIVE"]]
             /\ Becomes(w, IdleWorker)
    <3> DEFINE new == [Stored(w) EXCEPT !.status = "CANCELLED",
                                        !.payload.reason = "ACCOUNT_INACTIVE"]
    <3>1. runs' = [runs EXCEPT ![Job(w)] = new]
      BY <1>2, <2>2 DEF Stored
    <3>2. /\ new.status = "CANCELLED" /\ new.owner = Stored(w).owner
          /\ new.payload = [Stored(w).payload EXCEPT !.reason = "ACCOUNT_INACTIVE"]
      BY <1>2, SMT DEF Run
    <3>3. Restates(new.payload, Stored(w).payload)
      BY <1>2, <3>2, SMT DEF Payload, Restates
    <3> HIDE DEF new
    <3> QED BY <1>1, <1>3, <2>2, <3>1, <3>2, <3>3, OwnRunMerge DEF FromRun
  <2>3. CASE /\ Becomes(w, [wk[w] EXCEPT !.pc = "launch", !.row = Stored(w),
                          !.todo = Stored(w).payload.projects \cup Stored(w).payload.cars])
             /\ UNCHANGED runs
    <3> DEFINE local == [wk[w] EXCEPT !.pc = "launch", !.row = Stored(w),
                          !.todo = Stored(w).payload.projects \cup Stored(w).payload.cars]
    <3>1. local.job = Job(w) /\ local.row = Stored(w)
      BY <1>2, SMT DEF Worker, Job
    <3>2. Becomes(w, local)
      BY <2>3
    <3> HIDE DEF local
    <3> QED BY <1>1, <1>4, <2>3, <3>1, <3>2, QuietMerge
  <2> QED BY <1>5, <2>1, <2>2, <2>3, ZenonT(60) DEF begin_job
<1>6. CASE launch(w)
  <2> DEFINE local == [wk[w] EXCEPT !.pc = "gate"]
  <2>1. local.job = Job(w) /\ local.row = wk[w].row
    BY <1>2, SMT DEF Worker, Job
  <2>2. Becomes(w, local) /\ UNCHANGED runs /\ HasRow(wk[w])
    BY <1>6, SMT DEF launch, At, HasRow, Working, WorkerPc
  <2> HIDE DEF local
  <2> QED BY <1>1, <2>1, <2>2, WorkerRows, QuietMerge
<1>7. CASE fail_job(w)
  <2> DEFINE failed == [wk[w].row EXCEPT !.status = "FAILED"]
             new == Flushed(Stored(w), wk[w].row, failed)
  <2>1. Becomes(w, IdleWorker) /\ HasRow(wk[w])
    BY <1>7, SMT DEF fail_job, At, HasRow, Working, WorkerPc
  <2>2. runs' = [runs EXCEPT ![Job(w)] = new]
    BY <1>2, <1>7 DEF fail_job, Stored
  <2>3. failed \in Run /\ failed.payload = wk[w].row.payload /\ failed.status = "FAILED"
    <3>1. failed \in Run
      BY <1>2, ZenonT(60) DEF Run, Status, TerminalStatus
    <3> QED BY <1>2, <3>1, SMT DEF Run
  <2> HIDE DEF failed
  <2>4. /\ new.owner = Stored(w).owner /\ new.payload = wk[w].row.payload
        /\ new.status \in {"FAILED", Stored(w).status}
    BY <1>2, <2>3, FlushedFields, FlushedStatus
  <2> HIDE DEF new
  <2> QED BY <1>1, <1>3, <1>4, <2>1, <2>2, <2>4, WorkerRows, OwnRunMerge
<1>8. CASE gate_stop(w)
  BY <1>1, <1>8, StopMerge DEF gate_stop
<1>9. CASE finish_job(w)
  <2> DEFINE new == [Stored(w) EXCEPT !.status = FinalStatus(w)]
  <2>1. Becomes(w, IdleWorker) /\ runs' = [runs EXCEPT ![Job(w)] = new]
    BY <1>2, <1>9 DEF finish_job, Stored
  <2>2. /\ new.owner = Stored(w).owner /\ new.payload = Stored(w).payload
        /\ new.status = FinalStatus(w)
    BY <1>2, SMT DEF Run
  <2>3. FinalStatus(w) # "ABSENT"
    BY DEF FinalStatus
  <2> HIDE DEF new
  <2> QED BY <1>1, <1>3, <1>4, <2>1, <2>2, <2>3, OwnRunMerge
<1>10. CASE finish_cancelled_job(w)
  <2> DEFINE terminal == IF wk[w].row.payload.reason = "SYSTEM_SLEEP" THEN "INTERRUPTED_SLEEP"
                                                                     ELSE "CANCELLED"
             done == [wk[w].row EXCEPT !.status = terminal, !.payload.current = None]
             new == Flushed(Stored(w), wk[w].row, done)
  <2>1. Becomes(w, IdleWorker) /\ HasRow(wk[w])
    BY <1>10, SMT DEF finish_cancelled_job, At, HasRow, Working, WorkerPc
  <2>2. runs' = [runs EXCEPT ![Job(w)] = new]
    BY <1>2, <1>10, ZenonT(60) DEF finish_cancelled_job, Stored
  <2>3. terminal \in {"INTERRUPTED_SLEEP", "CANCELLED"}
    OBVIOUS
  <2> HIDE DEF terminal
  <2>4. done \in Run
    BY <1>2, <2>3, ZenonT(60) DEF Run, Payload, Status, TerminalStatus
  <2>5. done.payload = WithPayload(wk[w].row, None) /\ done.status = terminal
    BY <1>2, SMT DEF Run, WithPayload
  <2> HIDE DEF done
  <2>6. /\ new.owner = Stored(w).owner /\ new.payload = WithPayload(wk[w].row, None)
        /\ new.status \in {terminal, Stored(w).status}
    BY <1>2, <2>4, <2>5, FlushedFields, FlushedStatus
  <2> HIDE DEF new
  <2> QED BY <1>1, <1>3, <1>4, <2>1, <2>2, <2>3, <2>6, WorkerRows, OwnRunMerge
<1> QED BY <1>5, <1>6, <1>7, <1>8, <1>9, <1>10

\* The steps of process_job inside a unit.
LEMMA UnitMerge ==
  ASSUME TypeInv, TypeInv', QueueInv, MergeInv, NEW w \in Workers,
         \/ checkpoint(w) \/ discard_result(w) \/ publish_project(w) \/ drain(w)
         \/ \E p \in Projects : open_project(w, p)
         \/ \E c \in Cars : open_car(w, c)
         \/ \E fails \in BOOLEAN : publish_progress(w, fails)
         \/ \E ok, captcha \in BOOLEAN : settle_project(w, ok, captcha)
         \/ \E outcome \in CarOutcome : settle_car(w, outcome)
  PROVE  MergeInv'
<1>0. UNCHANGED <<projects, req>>
  BY ZenonT(60) DEF checkpoint, discard_result, publish_project, drain, open_project,
         open_car, publish_progress, settle_project, settle_car, At
<1>1. wk[w].pc \in Working /\ HasRow(wk[w])
  <2>1. wk[w].pc \in {"gate", "scan", "load", "car", "publish", "drain"}
    BY ZenonT(60) DEF checkpoint, discard_result, publish_project, drain, open_project,
                 open_car, publish_progress, settle_project, settle_car, At
  <2> QED BY <2>1, SMT DEF Working, WorkerPc, HasRow
<1>2. Stored(w) \in Run /\ wk[w] \in Worker /\ wk[w].row \in Run
  BY <1>1, WorkingTypes
<1>3. /\ FromRun(w, Stored(w).payload)
      /\ \A x : FromRun(w, WithPayload(Stored(w), x))
      /\ wk[w].row.owner = Stored(w).owner
      /\ FromRun(w, wk[w].row.payload)
      /\ \A x : FromRun(w, WithPayload(wk[w].row, x))
  BY <1>1, WorkerRows
<1>4. \A x : LET r == [Stored(w) EXCEPT !.payload = x]
             IN  r.owner = Stored(w).owner /\ r.payload = x
  BY <1>2, SMT DEF Run
<1>5. \A x : LET r == [wk[w].row EXCEPT !.payload = x]
             IN  r.owner = wk[w].row.owner /\ r.payload = x
  BY <1>2, SMT DEF Run
<1>6. ASSUME NEW p \in Projects, open_project(w, p) PROVE MergeInv'
  <2>1. CASE OpenedProject(w, p)
    <3> DEFINE x == WithPayload(Stored(w), p)
               row == [Stored(w) EXCEPT !.payload = x]
               local == [wk[w] EXCEPT !.pc = "scan", !.unit = p, !.stale = FALSE, !.row = row]
    <3>1. Becomes(w, local) /\ runs' = [runs EXCEPT ![Job(w)].payload = x]
      BY <2>1 DEF OpenedProject
    <3>2. row.owner = Stored(w).owner /\ row.payload = x
      BY <1>4
    <3>3. FromRun(w, x)
      BY <1>3
    <3> HIDE DEF x, row
    <3>4. local.job = Job(w) /\ local.row = row
      BY <1>2, SMT DEF Worker, Job
    <3> HIDE DEF local
    <3> QED BY <1>0, <1>1, <3>1, <3>2, <3>3, <3>4, PublishMerge
  <2>2. CASE /\ Becomes(w, [wk[w] EXCEPT !.row = Stored(w), !.stale = FALSE,
                                         !.failed = TRUE, !.todo = @ \ {p}])
             /\ UNCHANGED runs
    <3> DEFINE local == [wk[w] EXCEPT !.row = Stored(w), !.stale = FALSE,
                                      !.failed = TRUE, !.todo = @ \ {p}]
    <3>1. local.job = Job(w) /\ local.row = Stored(w)
      BY <1>2, SMT DEF Worker, Job
    <3>2. Becomes(w, local)
      BY <2>2
    <3> HIDE DEF local
    <3> QED BY <1>0, <1>1, <1>3, <2>2, <3>1, <3>2, QuietMerge
  <2> QED BY <1>6, <2>1, <2>2, ZenonT(60) DEF open_project
<1>7. ASSUME NEW c \in Cars, open_car(w, c) PROVE MergeInv'
  <2> DEFINE local == [wk[w] EXCEPT !.pc = "car", !.unit = c, !.stale = FALSE,
                                    !.row = Stored(w)]
  <2>1. local.job = Job(w) /\ local.row = Stored(w)
    BY <1>2, SMT DEF Worker, Job
  <2>2. Becomes(w, local) /\ UNCHANGED runs
    BY <1>7, ZenonT(60) DEF open_car
  <2> HIDE DEF local
  <2> QED BY <1>0, <1>1, <1>3, <2>1, <2>2, QuietMerge
<1>8. CASE checkpoint(w)
  <2>1. CASE StopAtCheckpoint(w)
    BY <1>0, <1>1, <2>1, StopMerge
  <2>2. CASE ~StopAtCheckpoint(w)
    <3> DEFINE local == [wk[w] EXCEPT !.pc = "load", !.row = Stored(w), !.stale = FALSE]
    <3>1. local.job = Job(w) /\ local.row = Stored(w)
      BY <1>2, SMT DEF Worker, Job
    <3>2. Becomes(w, local) /\ UNCHANGED runs
      BY <1>8, <2>2 DEF checkpoint
    <3> HIDE DEF local
    <3> QED BY <1>0, <1>1, <1>3, <3>1, <3>2, QuietMerge
  <2> QED BY <2>1, <2>2
<1>9. ASSUME NEW fails \in BOOLEAN, publish_progress(w, fails) PROVE MergeInv'
  <2> DEFINE x == WithPayload(wk[w].row, wk[w].unit)
             row == [wk[w].row EXCEPT !.payload = x]
             local == [wk[w] EXCEPT !.pc = "scan", !.row.payload = x, !.failed = @ \/ fails]
  <2>1. Becomes(w, local) /\ runs' = [runs EXCEPT ![Job(w)].payload = x]
    BY <1>9, ZenonT(60) DEF publish_progress
  <2>2. row.owner = Stored(w).owner /\ row.payload = x /\ FromRun(w, x)
    BY <1>3, <1>5
  <2> HIDE DEF x
  <2>3. local.job = Job(w) /\ local.row = row
    BY <1>2, SMT DEF Worker, Job
  <2> HIDE DEF local, row
  <2> QED BY <1>0, <1>1, <2>1, <2>2, <2>3, PublishMerge
<1>10. CASE discard_result(w)
  <2> DEFINE x == WithPayload(Stored(w), wk[w].unit)
             row == [Stored(w) EXCEPT !.payload = x]
             local == [wk[w] EXCEPT !.pc = "scan", !.stale = TRUE, !.row = row]
  <2>1. Becomes(w, local) /\ runs' = [runs EXCEPT ![Job(w)].payload = x]
    BY <1>10 DEF discard_result
  <2>2. row.owner = Stored(w).owner /\ row.payload = x /\ FromRun(w, x)
    BY <1>3, <1>4
  <2> HIDE DEF x, row
  <2>3. local.job = Job(w) /\ local.row = row
    BY <1>2, SMT DEF Worker, Job
  <2> HIDE DEF local
  <2> QED BY <1>0, <1>1, <2>1, <2>2, <2>3, PublishMerge
<1>11. ASSUME NEW ok \in BOOLEAN, NEW captcha \in BOOLEAN, settle_project(w, ok, captcha)
       PROVE  MergeInv'
  <2> DEFINE settled == [wk[w] EXCEPT !.pc = "publish", !.todo = @ \ {wk[w].unit},
                                      !.failed = @ \/ ~ok, !.succeeded = @ \/ ok,
                                      !.captcha = captcha]
             dead == [wk[w] EXCEPT !.pc = "dead"]
  <2>1. /\ settled.job = Job(w) /\ settled.row = wk[w].row
        /\ dead.job = Job(w) /\ dead.row = wk[w].row
    BY <1>2, SMT DEF Worker, Job
  <2>2. UNCHANGED runs /\ (Becomes(w, settled) \/ Becomes(w, dead))
    BY <1>11, ZenonT(60) DEF settle_project
  <2> HIDE DEF settled, dead
  <2> QED BY <1>0, <1>1, <1>3, <2>1, <2>2, QuietMerge
<1>12. CASE publish_project(w)
  <2> DEFINE x == WithPayload(wk[w].row, None)
             row == [wk[w].row EXCEPT !.payload = x]
             local == [wk[w] EXCEPT !.pc = IF wk[w].captcha THEN "drain" ELSE "gate",
                                    !.unit = None, !.row.payload = x]
  <2>1. Becomes(w, local) /\ runs' = [runs EXCEPT ![Job(w)].payload = x]
    BY <1>12 DEF publish_project
  <2>2. row.owner = Stored(w).owner /\ row.payload = x /\ FromRun(w, x)
    BY <1>3, <1>5
  <2> HIDE DEF x
  <2>3. local.job = Job(w) /\ local.row = row
    BY <1>2, SMT DEF Worker, Job
  <2> HIDE DEF local, row
  <2> QED BY <1>0, <1>1, <2>1, <2>2, <2>3, PublishMerge
<1>13. CASE drain(w)
  <2>1. CASE StopAtCheckpoint(w)
    BY <1>0, <1>1, <2>1, StopMerge
  <2>2. CASE ~StopAtCheckpoint(w)
    <3> DEFINE local == [wk[w] EXCEPT !.pc = "gate", !.todo = {}, !.row = Stored(w),
                                      !.stale = FALSE]
    <3>1. local.job = Job(w) /\ local.row = Stored(w)
      BY <1>2, SMT DEF Worker, Job
    <3>2. Becomes(w, local) /\ UNCHANGED runs
      BY <1>13, <2>2 DEF drain
    <3> HIDE DEF local
    <3> QED BY <1>0, <1>1, <1>3, <3>1, <3>2, QuietMerge
  <2> QED BY <2>1, <2>2
<1>14. ASSUME NEW outcome \in CarOutcome, settle_car(w, outcome) PROVE MergeInv'
  <2> DEFINE old == IF outcome = "error" THEN Stored(w) ELSE wk[w].row
             x == WithPayload(old, None)
             row == [old EXCEPT !.payload = x]
             local == [wk[w] EXCEPT !.pc = "gate", !.unit = None,
                                    !.todo = @ \ {wk[w].unit}, !.row = row,
                                    !.stale = @ \/ outcome = "error",
                                    !.failed = @ \/ outcome \in {"missing", "error"},
                                    !.succeeded = @ \/ outcome = "ok"]
  <2>1. Becomes(w, local) /\ runs' = [runs EXCEPT ![Job(w)].payload = x]
    BY <1>14, ZenonT(60) DEF settle_car
  <2>2. old \in {Stored(w), wk[w].row}
    OBVIOUS
  <2>3. row.owner = Stored(w).owner /\ row.payload = x /\ FromRun(w, x)
    <3> HIDE DEF old
    <3> QED BY <1>3, <1>4, <1>5, <2>2
  <2> HIDE DEF x, row, old
  <2>4. local.job = Job(w) /\ local.row = row
    BY <1>2, SMT DEF Worker, Job
  <2> HIDE DEF local
  <2> QED BY <1>0, <1>1, <2>1, <2>3, <2>4, PublishMerge
<1> QED BY <1>6, <1>7, <1>8, <1>9, <1>10, <1>11, <1>12, <1>13, <1>14

\* Claiming: the worker has read nothing yet.
LEMMA ClaimMerge ==
  ASSUME TypeInv, TypeInv', MergeInv, NEW w \in Workers, run(w) \/ claim_next_job(w)
  PROVE  MergeInv'
<1>0. /\ wk \in [Workers -> Worker] /\ wk[w] \in Worker /\ runs \in [Jobs -> Run]
      /\ UNCHANGED <<projects, req>>
  BY ZenonT(60) DEF TypeInv, TypeOK, run, claim_next_job
<1>1. ASSUME NEW local, Becomes(w, local), local.pc \in {"idle", "poll", "begin"}
      PROVE  \A v \in Workers : wk'[v] = wk[v] \/ CacheInv(runs', projects', wk'[v])
  <2>1. wk'[w] = local /\ \A v \in Workers \ {w} : wk'[v] = wk[v]
    BY <1>0, <1>1 DEF Becomes
  <2>2. ~HasRow(local)
    BY <1>1 DEF HasRow, Working
  <2> QED BY <2>1, <2>2 DEF CacheInv
<1>2. ASSUME NEW pc \in {"poll", "idle"}, Becomes(w, [wk[w] EXCEPT !.pc = pc]), UNCHANGED runs
      PROVE  MergeInv'
  <2>1. [wk[w] EXCEPT !.pc = pc].pc = pc
    BY <1>0, SMT DEF Worker
  <2>2. \A v \in Workers : wk'[v] = wk[v] \/ CacheInv(runs', projects', wk'[v])
    BY <1>1, <1>2, <2>1
  <2> QED BY <1>0, <1>2, <2>2, SameTables, MergeStep
<1>3. ASSUME NEW j \in Jobs, Claimable(j),
             runs' = [runs EXCEPT ![j] = [@ EXCEPT !.status = "RUNNING", !.worker = w]],
             Becomes(w, [IdleWorker EXCEPT !.pc = "begin", !.job = j])
      PROVE  MergeInv'
  <2>1. [IdleWorker EXCEPT !.pc = "begin", !.job = j].pc = "begin"
    BY SMT DEF IdleWorker
  <2>2. \A v \in Workers : wk'[v] = wk[v] \/ CacheInv(runs', projects', wk'[v])
    BY <1>1, <1>3, <2>1
  <2>3. /\ runs'[j].status = "RUNNING" /\ runs'[j].owner = runs[j].owner
        /\ runs'[j].payload = runs[j].payload
        /\ \A i \in Jobs \ {j} : runs'[i] = runs[i]
    BY <1>0, <1>3 DEF Run
  <2>4. runs[j].status # "ABSENT"
    BY <1>3 DEF Claimable
  <2>5. Succeeds(runs', projects) /\ TableInv(runs', projects)
    BY <2>3, <2>4, StatusMerge
  <2> QED BY <1>0, <2>2, <2>5, MergeStep
<1> QED BY <1>2, <1>3, ZenonT(60) DEF run, claim_next_job

\* The steps of accounts and of the process.
LEMMA ProcessMerge ==
  ASSUME TypeInv, TypeInv', MergeInv,
         \/ \E u \in Users : admin_patch_user(u) \/ reactivate_user(u)
         \/ crash \/ restart
  PROVE  MergeInv'
<1>0. runs \in [Jobs -> Run]
  BY DEF TypeInv, TypeOK
<1>1. ASSUME NEW u \in Users, admin_patch_user(u) PROVE MergeInv'
  <2>1. ASSUME NEW j \in Jobs
        PROVE  \/ runs'[j] = runs[j]
               \/ /\ runs[j].status # "ABSENT" /\ runs'[j].status # "ABSENT"
                  /\ runs'[j].owner = runs[j].owner /\ runs'[j].payload = runs[j].payload
    <3>1. CASE j \in LiveRunsOf(u)
      <4>1. runs'[j] = [runs[j] EXCEPT !.status = BlockedStatus(runs[j])] /\ runs[j] \in Run
        BY <1>0, <1>1, <3>1 DEF admin_patch_user
      <4>2. /\ runs'[j].status = BlockedStatus(runs[j]) /\ runs'[j].owner = runs[j].owner
            /\ runs'[j].payload = runs[j].payload
        BY <4>1, SMT DEF Run
      <4>3. runs[j].status # "ABSENT" /\ BlockedStatus(runs[j]) # "ABSENT"
        BY <3>1 DEF LiveRunsOf, LiveStatus, ActiveStatus, BlockedStatus
      <4> QED BY <4>2, <4>3
    <3>2. CASE j \notin LiveRunsOf(u)
      BY <1>1, <3>2 DEF admin_patch_user
    <3> QED BY <3>1, <3>2
  <2>2. UNCHANGED <<projects, req, wk>>
    BY <1>1 DEF admin_patch_user
  <2>3. Succeeds(runs', projects) /\ TableInv(runs', projects)
    BY <2>1, StatusMerge
  <2> QED BY <2>2, <2>3, MergeStep
<1>2. ASSUME NEW u \in Users, reactivate_user(u) PROVE MergeInv'
  BY <1>2, SameTables, MergeStep DEF reactivate_user
<1>3. CASE crash
  <2>1. /\ \A w \in Workers : wk'[w] = IdleWorker
        /\ \A h \in Requests : req'[h] = IdleReq
        /\ UNCHANGED <<runs, projects>>
    BY <1>3 DEF crash
  <2> QED BY <2>1, IdleMerge, SameTables, MergeStep
<1>4. CASE restart
  <2>1. ASSUME NEW j \in Jobs
        PROVE  \/ runs'[j] = runs[j]
               \/ /\ runs[j].status # "ABSENT" /\ runs'[j].status # "ABSENT"
                  /\ runs'[j].owner = runs[j].owner
                  /\ runs'[j].payload.trigger = runs[j].payload.trigger
                  /\ runs'[j].payload.projects = runs[j].payload.projects
                  /\ runs'[j].payload.reason = runs[j].payload.reason
    <3> DEFINE r == runs[j]
               new == [r EXCEPT !.status = "INTERRUPTED", !.worker = None,
                                !.payload.current = None]
    <3>1. runs'[j] = RecoveredRow(r) /\ r \in Run /\ r.payload \in Payload
      <4>1. runs'[j] = RecoveredRow(r) /\ r \in Run
        BY <1>0, <1>4 DEF restart
      <4> QED BY <4>1, ZenonT(60) DEF Run
    <3>2. CASE r.status \notin ActiveStatus
      BY <3>1, <3>2 DEF RecoveredRow
    <3>3. CASE r.status \in ActiveStatus
      <4>1. runs'[j] = new
        BY <3>1, <3>3 DEF RecoveredRow
      <4>2. /\ new.status = "INTERRUPTED" /\ new.owner = r.owner
            /\ new.payload = [r.payload EXCEPT !.current = None]
        BY <3>1, SMT DEF Run
      <4> HIDE DEF new
      <4>3. /\ new.payload.trigger = r.payload.trigger
            /\ new.payload.projects = r.payload.projects
            /\ new.payload.reason = r.payload.reason
        BY <3>1, <4>2, SMT DEF Payload
      <4> QED BY <3>3, <4>1, <4>2, <4>3 DEF ActiveStatus
    <3> QED BY <3>2, <3>3
  <2>2. UNCHANGED <<projects, req, wk>>
    BY <1>4 DEF restart
  <2>3. Succeeds(runs', projects) /\ TableInv(runs', projects)
    BY <2>1, StatusMerge
  <2> QED BY <2>2, <2>3, MergeStep
<1> QED BY <1>1, <1>2, <1>3, <1>4

\* Every step keeps the merge invariant.
LEMMA NextMerge == TypeInv /\ QueueInv /\ MergeInv /\ [Next]_vars => MergeInv'
<1> SUFFICES ASSUME TypeInv, QueueInv, MergeInv, [Next]_vars PROVE MergeInv'
  OBVIOUS
<1>0. TypeInv'
  BY NextType
<1>1. ASSUME NEW h \in Requests, Call(h) \/ Reply(h) PROVE MergeInv'
  BY <1>0, <1>1, CallMerge, ReplyMerge
<1>2. ASSUME NEW w \in Workers, run(w) \/ claim_next_job(w) \/ process_job(w) PROVE MergeInv'
  BY <1>0, <1>2, ClaimMerge, JobMerge, UnitMerge, ZenonT(60) DEF process_job
<1>3. CASE \/ \E u \in Users : admin_patch_user(u) \/ reactivate_user(u)
           \/ crash \/ restart
  BY <1>0, <1>3, ProcessMerge
<1>4. CASE UNCHANGED vars
  BY <1>0, <1>4, SameTables, MergeStep DEF vars
<1> QED BY <1>1, <1>2, <1>3, <1>4, ZenonT(60) DEF Next

\* Nothing is merged at first.
LEMMA InitMerge == Init => MergeInv
<1> SUFFICES ASSUME Init PROVE MergeInv
  OBVIOUS
<1>1. NoRun.payload = NoPayload /\ ~Merged(NoRun)
  BY SMT DEF NoRun, NoPayload, Merged
<1>2. TableInv(runs, projects)
  BY <1>1 DEF Init, TableInv
<1> QED BY <1>2, IdleMerge DEF Init, MergeInv

\* A scheduled run that was cancelled as merged is covered by a manual run of its
\* account, whatever handlers and workers wrote over either run since.
THEOREM MergingCovers == Spec => []MergedRunIsCovered
<1>1. Init => TypeInv /\ QueueInv /\ MergeInv
  BY InitType, InitInv, InitMerge
<1>2. TypeInv /\ QueueInv /\ MergeInv /\ [Next]_vars => (TypeInv /\ QueueInv /\ MergeInv)'
  BY NextType, NextInv, NextMerge
<1>3. MergeInv => MergedRunIsCovered
  BY DEF MergeInv, TableInv, Covered, Merged, MergedRunIsCovered
<1> QED BY <1>1, <1>2, <1>3, PTL DEF Spec

=============================================================================
