---------------------------- MODULE ScanScheduler ----------------------------
(***************************************************************************)
(* The automatic scan scheduler of one account: its scheduler_settings row *)
(* with the timer next_run_at, the scheduled_projects rows, and everything *)
(* that writes them.  These are the timer turn of the worker loop          *)
(* (enqueue_scheduled), the end of a run, the settings and tray handlers,  *)
(* the resume signal and the start-up of the process.                      *)
(*                                                                         *)
(* Handlers of the timer row load it, decide, and write the columns they   *)
(* changed in a later step, as in ScanQueue.  The steps on scan_runs are   *)
(* taken whole here: ScanQueue is about their interleavings.               *)
(*                                                                         *)
(* Time is relative: next counts the ticks until the timer is due, and     *)
(* completed the ticks since the last full update.  A tick is a fraction   *)
(* of an interval (60 minutes or more), far longer than any handler, so    *)
(* none passes between the two halves of one.                              *)
(***************************************************************************)
EXTENDS Naturals, FiniteSets

CONSTANTS
  Projects,   \* saved searches of the account
  Intervals,  \* interval_minutes values a user can choose, in ticks
  Longest,    \* the longest of them; ages are not counted further
  Shortest,   \* the shortest of them
  Slots,      \* bound: runs that are live at once
  Clients,    \* request threads that can be in flight at once
  Worker,     \* the worker thread
  Campaigns,  \* bound: the mixes of operations that users and the system use
  None        \* the null of next_run_at and last_completed_run_at

Threads == Clients \cup {Worker}

ASSUME ScanSchedulerAssumption ==
  /\ Intervals \subseteq Nat \ {0}
  /\ Shortest \in Intervals /\ Longest \in Intervals
  /\ \A i \in Intervals : Shortest <= i /\ i <= Longest
  /\ None \notin Nat \cup Slots
  /\ Worker \notin Clients
  /\ Campaigns \subseteq SUBSET {"save", "pause", "tray", "resume", "manual", "cars", "cancel",
                                 "delete", "patch", "license", "maintenance", "shutdown",
                                 "crash"}

VARIABLES
  ops,        \* the mix of operations of this behaviour
  sched,      \* the scheduler_settings row
  listed,     \* projects with a scheduled_projects row
  tracked,    \* existing projects
  auto,       \* projects with auto_update
  runs,       \* live scan_runs of the account
  licensed,   \* require_search_entitlement passes
  maintenance, \* maintenance_active: a lock file of an export or an update exists
  up,         \* the application process runs
  stopping,   \* worker_stop is set
  loop,       \* where the worker loop is
  job,        \* the run it has claimed
  gone,       \* the project that it is scanning has been deleted
  call,       \* what each thread has loaded and is about to write
  since,      \* ticks since an automatic run was inserted or a refresh ended
  catchup     \* ticks since a resume, the tray or a start made the timer due

vars == <<ops, sched, listed, tracked, auto, runs, licensed, maintenance, up, stopping, loop, job,
          gone, call, since, catchup>>
\* What the handlers of the timer row leave alone.
others == <<ops, tracked, auto, licensed, maintenance, up, stopping, job, gone>>

-----------------------------------------------------------------------------
(* Rows *)

Age == 0 .. Longest
Setting == [enabled: BOOLEAN, paused: BOOLEAN, interval: Intervals,
            next: Age \cup {None}, completed: Age \cup {None}]
Column == {"enabled", "paused", "interval", "next"}

Run == [trigger: {"NONE", "AUTOMATIC", "MANUAL", "CARS"},
        status: {"ABSENT", "QUEUED", "RUNNING", "CANCEL_REQUESTED"},
        projects: SUBSET Projects]
\* A run that has ended, or none yet: finished runs are history the scheduler
\* does not read.
NoRun == [trigger |-> "NONE", status |-> "ABSENT", projects |-> {}]
NewRun(trigger, ps) == [trigger |-> trigger, status |-> "QUEUED", projects |-> ps]

Live(s) == runs[s].status # "ABSENT"
Active(s) == runs[s].status \in {"RUNNING", "CANCEL_REQUESTED"}

\* What a thread carries from its read to its write: the row it computed, the
\* columns it assigned, the scheduled_projects it saves and the run it inserts.
Call == [op: {"idle", "save", "pause", "tray", "prepare", "prepared", "catch_up", "timer"},
         new: Setting, dirty: SUBSET Column, projects: SUBSET Projects,
         insert: BOOLEAN, forced: BOOLEAN]
NoSetting == [enabled |-> FALSE, paused |-> FALSE, interval |-> Shortest,
              next |-> None, completed |-> None]
IdleCall == [op |-> "idle", new |-> NoSetting, dirty |-> {}, projects |-> {},
             insert |-> FALSE, forced |-> FALSE]

\* The row after a flush: the assigned columns over the row as it is now.
Flushed(c) ==
  [sched EXCEPT !.enabled  = IF "enabled" \in c.dirty THEN c.new.enabled ELSE @,
                !.paused   = IF "paused" \in c.dirty THEN c.new.paused ELSE @,
                !.interval = IF "interval" \in c.dirty THEN c.new.interval ELSE @,
                !.next     = IF "next" \in c.dirty THEN c.new.next ELSE @]

\* A fresh installation, or one that seed.py filled: enabled, with no timer yet.
Init ==
  /\ ops \in Campaigns
  /\ sched \in {NoSetting, [NoSetting EXCEPT !.enabled = TRUE, !.interval = Longest]}
  /\ listed = IF sched.enabled THEN Projects ELSE {}
  /\ tracked = Projects
  /\ auto = Projects
  /\ runs = [s \in Slots |-> NoRun]
  /\ licensed = TRUE
  /\ maintenance = FALSE
  /\ up = TRUE
  /\ stopping = FALSE
  /\ loop = "top"
  /\ job = None
  /\ gone = FALSE
  /\ call = [t \in Threads |-> IdleCall]
  /\ since = Longest
  /\ catchup = Longest

-----------------------------------------------------------------------------
(* The timer turn: enqueue_scheduled *)

Free == {s \in Slots : ~Live(s)}
Pending == {t \in Threads : call[t].insert}

\* Mutant: the turn does not start a timer that was never set.
TimerCall_NoAnchor ==
  LET due == ~maintenance /\ sched.enabled /\ ~sched.paused /\ sched.next = 0
  IN  [IdleCall EXCEPT !.op = "timer", !.new = [sched EXCEPT !.next = sched.interval],
                       !.dirty = IF due THEN {"next"} ELSE {},
                       !.projects = listed \cap auto,
                       !.insert = /\ due /\ licensed /\ listed \cap auto # {}
                                  /\ \A s \in Slots : ~Live(s)]

\* What enqueue_scheduled decides on the rows as they are.
TimerCall ==
  LET ids == listed \cap auto
      nothing == [IdleCall EXCEPT !.op = "timer"]
      postpone == [nothing EXCEPT !.new = [sched EXCEPT !.next = sched.interval],
                                  !.dirty = {"next"}]
      disable == [nothing EXCEPT !.new = [sched EXCEPT !.enabled = FALSE, !.next = None],
                                 !.dirty = {"enabled", "next"}]
  IN  CASE maintenance \/ ~sched.enabled \/ sched.paused -> nothing
        [] OTHER ->
      CASE sched.next = None -> postpone
        [] sched.next \in 1 .. Longest -> nothing
        [] sched.next = 0 /\ ~licensed -> postpone
        [] sched.next = 0 /\ licensed /\ ids = {} -> disable
        [] sched.next = 0 /\ licensed /\ ids # {} ->
             IF \E s \in Slots : Live(s) THEN postpone
             ELSE [postpone EXCEPT !.insert = TRUE, !.projects = ids]

enqueue_scheduled(t) ==
  /\ up
  /\ TimerCall.insert => Cardinality(Pending) < Cardinality(Free)
  /\ call' = [call EXCEPT ![t] = [TimerCall EXCEPT !.forced = call[t].forced]]
  /\ UNCHANGED <<sched, listed, runs, loop, since, catchup, others>>

enqueue_scheduled_commit(t) ==
  /\ call[t].op = "timer"
  /\ sched' = Flushed(call[t])
  /\ \/ /\ call[t].insert
        /\ \E s \in Free : runs' = [runs EXCEPT ![s] = NewRun("AUTOMATIC", call[t].projects)]
        /\ since' = 0
     \/ /\ ~call[t].insert
        /\ UNCHANGED <<runs, since>>
  /\ call' = [call EXCEPT ![t] = IdleCall]
  /\ loop' = IF t = Worker THEN "claim" ELSE loop
  /\ UNCHANGED <<listed, catchup, others>>

-----------------------------------------------------------------------------
(* The worker loop *)

\* run: the stop test and the read of the turn.
run ==
  /\ loop = "top" /\ ~stopping /\ call[Worker].op = "idle"
  /\ enqueue_scheduled(Worker)

claim_next_job ==
  /\ up /\ loop = "claim"
  /\ \/ \E s \in Slots :
          /\ ~maintenance
          /\ runs[s].status = "QUEUED"
          /\ \A r \in Slots : ~Active(r)
          /\ runs' = [runs EXCEPT ![s].status = "RUNNING"]
          /\ job' = s
          /\ loop' = "begin"
     \/ /\ \/ maintenance
           \/ \E r \in Slots : Active(r)
           \/ \A s \in Slots : runs[s].status # "QUEUED"
        /\ loop' = "top"
        /\ UNCHANGED <<runs, job>>
  /\ UNCHANGED <<ops, sched, listed, tracked, auto, licensed, maintenance, up, stopping, gone,
                 call, since, catchup>>

\* process_job reads the run; one that is being cancelled is left as it is.
begin_job ==
  /\ up /\ loop = "begin"
  /\ \/ /\ runs[job].status = "RUNNING"
        /\ loop' = "scan"
        /\ UNCHANGED job
     \/ /\ runs[job].status # "RUNNING"
        /\ loop' = "top"
        /\ job' = None
  /\ UNCHANGED <<ops, sched, listed, tracked, auto, runs, licensed, maintenance, up, stopping,
                 gone, call, since, catchup>>

\* Mutants: a manual refresh leaves the timer alone; the timer is one tick late.
EndedSetting_NoReanchor(trigger, success) ==
  IF sched.enabled /\ listed # {} /\ success /\ trigger = "AUTOMATIC"
  THEN [sched EXCEPT !.next = sched.interval, !.completed = 0]
  ELSE sched
EndedSetting_Late(trigger, success) ==
  IF sched.enabled /\ listed # {} /\ trigger = "MANUAL"
  THEN [sched EXCEPT !.next = sched.interval + 1]
  ELSE sched

\* _record_completed_scheduler_run and _reanchor_scheduler_after_manual_projects.
EndedSetting(trigger, success) ==
  LET counts == sched.enabled /\ listed # {}
      full == counts /\ success /\ trigger \in {"AUTOMATIC", "MANUAL"}
      anchors == full \/ (counts /\ trigger = "MANUAL")
  IN  [sched EXCEPT !.next = IF anchors THEN sched.interval ELSE @,
                    !.completed = IF full THEN 0 ELSE @]

\* The run ends: to the end (success), with failures, or cancelled.  The run row
\* is flushed before the setting is read, so the step is atomic.
process_job(success) ==
  /\ up /\ loop = "scan"
  /\ success => runs[job].status = "RUNNING"
  /\ sched' = EndedSetting(runs[job].trigger, success)
  /\ since' = IF runs[job].trigger = "MANUAL" THEN 0 ELSE since
  /\ runs' = [runs EXCEPT ![job] = NoRun]
  /\ loop' = "top"
  /\ job' = None
  /\ gone' = FALSE
  /\ UNCHANGED <<ops, listed, tracked, auto, licensed, maintenance, up, stopping, call, catchup>>

\* The project being scanned went with its project_scan_runs row: the flush fails,
\* the handlers of process_job find a session that must be rolled back, and the
\* exception ends the worker thread, which nothing starts again.
process_job_dies ==
  /\ up /\ loop = "scan"
  /\ gone
  /\ loop' = "dead"
  /\ job' = None
  /\ gone' = FALSE
  /\ UNCHANGED <<ops, sched, listed, tracked, auto, runs, licensed, maintenance, up, stopping,
                 call, since, catchup>>

-----------------------------------------------------------------------------
(* Handlers of the timer row *)

\* The first half: a client thread loads the row and keeps what it will write.
Load(t, op, c) ==
  /\ up /\ op \in ops
  /\ call[t].op = "idle"
  /\ call' = [call EXCEPT ![t] = c]
  /\ UNCHANGED <<sched, listed, runs, loop, since, catchup, others>>

\* set_scheduler: enabling, and any change of interval or projects, restarts the
\* timer; disabling clears it.
set_scheduler(t, enabled, paused, interval, ps) ==
  LET reanchor == \/ ~sched.enabled \/ sched.interval # interval
                  \/ listed # ps \/ sched.next = None
      new == [sched EXCEPT !.enabled = enabled, !.paused = enabled /\ paused,
                           !.interval = interval,
                           !.next = IF ~enabled THEN None
                                    ELSE IF reanchor THEN interval ELSE @]
      dirty == {c \in Column \ {"next"} : new[c] # sched[c]}
                 \cup (IF (enabled /\ reanchor) \/ new.next # sched.next THEN {"next"} ELSE {})
  IN  /\ ps \subseteq tracked
      /\ enabled => ps # {}
      /\ Load(t, "save", [IdleCall EXCEPT !.op = "save", !.new = new, !.dirty = dirty,
                                          !.projects = ps])

\* A project deleted in between fails the foreign key and rolls back.
set_scheduler_commit(t) ==
  /\ call[t].op = "save"
  /\ \/ /\ call[t].projects \subseteq tracked
        /\ sched' = Flushed(call[t])
        /\ listed' = call[t].projects
     \/ /\ ~ call[t].projects \subseteq tracked
        /\ UNCHANGED <<sched, listed>>
  /\ call' = [call EXCEPT ![t] = IdleCall]
  /\ UNCHANGED <<runs, loop, since, catchup, others>>

pause_scheduler(t, value) ==
  /\ sched.enabled
  /\ Load(t, "pause", [IdleCall EXCEPT !.op = "pause", !.new = [sched EXCEPT !.paused = value],
                                       !.dirty = IF value # sched.paused THEN {"paused"} ELSE {}])

\* toggle_all_schedulers, called from the tray menu.
toggle_all_schedulers(t) ==
  LET due == sched.paused /\ sched.next = None IN
  /\ sched.enabled /\ listed # {}
  /\ Load(t, "tray", [IdleCall EXCEPT !.op = "tray",
                                      !.new = [sched EXCEPT !.paused = ~@,
                                                            !.next = IF due THEN 0 ELSE @],
                                      !.dirty = {"paused"} \cup IF due THEN {"next"} ELSE {}])

write_setting(t) ==
  /\ call[t].op \in {"pause", "tray"}
  /\ sched' = Flushed(call[t])
  /\ catchup' = IF "next" \in call[t].dirty THEN 0 ELSE catchup
  /\ call' = [call EXCEPT ![t] = IdleCall]
  /\ UNCHANGED <<listed, runs, loop, since, others>>

-----------------------------------------------------------------------------
(* Resume after sleep *)

Overdue == sched.next = 0 \/ (sched.next = None /\ sched.completed # None
                              /\ sched.completed >= sched.interval)
OverdueAfterResume ==
  IF sched.completed # None THEN sched.completed >= sched.interval ELSE Overdue

\* prepare_overdue_scheduler_catch_up
CatchesUp(forced) ==
  /\ sched.enabled /\ listed # {} /\ ~sched.paused
  /\ forced \/ OverdueAfterResume

\* request_sleep_interruption: running scans are asked to stop; an automatic one
\* forces the catch-up.
resumed(t) ==
  /\ up /\ "resume" \in ops
  /\ call[t].op = "idle"
  /\ runs' = [s \in Slots |-> IF runs[s].status = "RUNNING"
                              THEN [runs[s] EXCEPT !.status = "CANCEL_REQUESTED"] ELSE runs[s]]
  /\ call' = [call EXCEPT ![t] =
                [IdleCall EXCEPT !.op = "prepare",
                                 !.forced = \E s \in Slots : /\ runs[s].status = "RUNNING"
                                                             /\ runs[s].trigger = "AUTOMATIC"]]
  /\ UNCHANGED <<sched, listed, loop, since, catchup, others>>

prepare_catch_up(t) ==
  LET due == CatchesUp(call[t].forced) IN
  /\ call[t].op = "prepare"
  /\ call' = [call EXCEPT ![t] = [IdleCall EXCEPT !.op = "prepared",
                                                  !.new = [sched EXCEPT !.next = 0],
                                                  !.dirty = IF due THEN {"next"} ELSE {}]]
  /\ UNCHANGED <<sched, listed, runs, loop, since, catchup, others>>

prepare_catch_up_commit(t) ==
  /\ call[t].op = "prepared"
  /\ sched' = Flushed(call[t])
  /\ call' = [call EXCEPT ![t] = [IdleCall EXCEPT !.op = "catch_up",
                                                  !.forced = call[t].dirty # {}]]
  /\ catchup' = 0
  /\ UNCHANGED <<listed, runs, loop, since, others>>

\* The handler then takes a timer turn of its own.
resume_turn(t) == call[t].op = "catch_up" /\ enqueue_scheduled(t)

-----------------------------------------------------------------------------
(* Requests on runs and projects, taken whole *)

\* scan_projects and scan_cars: queued automatic runs give up the projects of a
\* manual request, other overlaps refuse it.  Bound: a slot is left for every insertion in flight.
enqueue(trigger, ps) ==
  LET absorbs(s) == /\ runs[s].status = "QUEUED" /\ runs[s].trigger = "AUTOMATIC"
                    /\ runs[s].projects \cap ps # {}
      rest(s) == runs[s].projects \ ps
      table == [s \in Slots |->
                  IF ~absorbs(s) THEN runs[s]
                  ELSE IF rest(s) = {} THEN NoRun
                  ELSE [runs[s] EXCEPT !.projects = rest(s)]]
  IN  /\ up /\ licensed /\ ~maintenance
      /\ \A s \in Slots : runs[s].projects \cap ps = {} \/ absorbs(s)
      /\ Cardinality(Pending) < Cardinality(Free)
      /\ \E s \in Free : runs' = [table EXCEPT ![s] = NewRun(trigger, ps)]
      /\ UNCHANGED <<sched, listed, loop, call, since, catchup, others>>

manual(ps) == "manual" \in ops /\ ps # {} /\ ps \subseteq tracked /\ enqueue("MANUAL", ps)
cars == "cars" \in ops /\ enqueue("CARS", {})

Cancelled(r) == IF r.status = "QUEUED" THEN NoRun ELSE [r EXCEPT !.status = "CANCEL_REQUESTED"]

cancel_scan(s) ==
  /\ up /\ "cancel" \in ops
  /\ runs[s].status \in {"QUEUED", "RUNNING"}
  /\ runs' = [runs EXCEPT ![s] = Cancelled(@)]
  /\ UNCHANGED <<sched, listed, loop, call, since, catchup, others>>

\* delete_project: live runs lose the project and the scheduled_projects row goes
\* with it.  current: the project is the one being scanned.
delete_project(p, current) ==
  LET detached(r) == [r EXCEPT !.projects = @ \ {p}]
      stops(r) == r.projects = {p} \/ (current /\ r.status # "QUEUED")
  IN  /\ up /\ "delete" \in ops
      /\ p \in tracked
      /\ current => loop = "scan" /\ p \in runs[job].projects
      /\ gone' = (gone \/ current)
      /\ tracked' = tracked \ {p}
      /\ listed' = listed \ {p}
      /\ runs' = [s \in Slots |-> IF p \notin runs[s].projects THEN runs[s]
                                  ELSE IF stops(runs[s]) THEN Cancelled(detached(runs[s]))
                                  ELSE detached(runs[s])]
      /\ UNCHANGED <<ops, sched, auto, licensed, maintenance, up, stopping, loop, job, call,
                     since, catchup>>

\* patch_project changing auto_update
patch_project(p) ==
  /\ up /\ "patch" \in ops
  /\ p \in tracked
  /\ auto' = IF p \in auto THEN auto \ {p} ELSE auto \cup {p}
  /\ UNCHANGED <<ops, sched, listed, tracked, runs, licensed, maintenance, up, stopping, loop,
                 job, gone, call, since, catchup>>

-----------------------------------------------------------------------------
(* The environment *)

\* The entitlement expires or is renewed.
license_changes ==
  /\ "license" \in ops
  /\ licensed' = ~licensed
  /\ UNCHANGED <<ops, sched, listed, tracked, auto, runs, maintenance, up, stopping, loop, job,
                 gone, call, since, catchup>>

\* An export or an update preparation takes its lock file and removes it, in any
\* order with scans (DesktopData has the steps).  A guard left behind by a
\* preparation that the shell gave up on stays: no fairness here.
maintenance_changes ==
  /\ up /\ "maintenance" \in ops
  /\ maintenance' = ~maintenance
  /\ UNCHANGED <<ops, sched, listed, tracked, auto, runs, licensed, up, stopping, loop, job, gone,
                 call, since, catchup>>

Older(age) == IF age = Longest THEN age ELSE age + 1

tick ==
  /\ \A t \in Threads : call[t].op = "idle"
  /\ sched' = [sched EXCEPT !.next = IF @ \in {None, 0} THEN @ ELSE @ - 1,
                            !.completed = IF @ = None THEN @ ELSE Older(@)]
  /\ since' = Older(since)
  /\ catchup' = Older(catchup)
  /\ UNCHANGED <<listed, runs, loop, call, others>>

\* request_shutdown_cancellation
request_shutdown ==
  /\ up /\ ~stopping /\ "shutdown" \in ops
  /\ stopping' = TRUE
  /\ runs' = [s \in Slots |-> IF runs[s].status \in {"QUEUED", "RUNNING"}
                              THEN Cancelled(runs[s]) ELSE runs[s]]
  /\ UNCHANGED <<ops, sched, listed, tracked, auto, licensed, maintenance, up, loop, job, gone,
                 call, since, catchup>>

crash ==
  /\ up /\ "crash" \in ops
  /\ up' = FALSE
  /\ stopping' = FALSE
  /\ loop' = "top"
  /\ job' = None
  /\ gone' = FALSE
  /\ call' = [t \in Threads |-> IdleCall]
  /\ UNCHANGED <<ops, sched, listed, tracked, auto, runs, licensed, maintenance, since, catchup>>

\* Start-up: lock files of the dead process are removed, active runs end as
\* INTERRUPTED, and the schedule catches up if there was one.
restart ==
  LET recovered == {s \in Slots : Active(s)}
      forced == \E s \in recovered : runs[s].trigger = "AUTOMATIC"
      due == recovered # {} /\ CatchesUp(forced)
  IN  /\ ~up
      /\ up' = TRUE
      /\ maintenance' = FALSE
      /\ runs' = [s \in Slots |-> IF s \in recovered THEN NoRun ELSE runs[s]]
      /\ sched' = IF due THEN [sched EXCEPT !.next = 0] ELSE sched
      /\ catchup' = IF due THEN 0 ELSE catchup
      /\ UNCHANGED <<ops, listed, tracked, auto, licensed, stopping, loop, job, gone, call,
                     since>>

-----------------------------------------------------------------------------
(* The specification *)

WorkerStep ==
  \/ run \/ enqueue_scheduled_commit(Worker)
  \/ claim_next_job \/ begin_job
  \/ \E success \in BOOLEAN : process_job(success)
  \/ process_job_dies

\* The steps a client thread takes once its request is in.
ClientStep(t) ==
  \/ set_scheduler_commit(t) \/ write_setting(t)
  \/ prepare_catch_up(t) \/ prepare_catch_up_commit(t)
  \/ resume_turn(t) \/ enqueue_scheduled_commit(t)

Request(t) ==
  \/ \E enabled, paused \in BOOLEAN, interval \in Intervals, ps \in SUBSET Projects :
       set_scheduler(t, enabled, paused, interval, ps)
  \/ \E value \in BOOLEAN : pause_scheduler(t, value)
  \/ toggle_all_schedulers(t)
  \/ resumed(t)

Next ==
  \/ WorkerStep
  \/ \E t \in Clients : Request(t) \/ ClientStep(t)
  \/ \E ps \in SUBSET Projects : manual(ps)
  \/ cars
  \/ \E s \in Slots : cancel_scan(s)
  \/ \E p \in Projects : patch_project(p) \/ \E current \in BOOLEAN : delete_project(p, current)
  \/ license_changes \/ maintenance_changes \/ tick \/ request_shutdown \/ crash \/ restart

Spec == Init /\ [][Next]_vars

\* Threads with work are scheduled, the browser calls of a scan end (an assumption:
\* not all of them have a timeout), and time passes: handlers are far shorter than
\* a tick, so again and again none is in flight, and tick, which waits for that, is
\* taken.
FairSpec ==
  /\ Spec
  /\ WF_vars(WorkerStep)
  /\ \A t \in Clients : WF_vars(ClientStep(t))
  /\ []<>(\A t \in Threads : call[t].op = "idle")
  /\ SF_vars(tick)

-----------------------------------------------------------------------------
(* Properties *)

\* Every variable keeps the shape of the rows and of the locals it stands for.
TypeOK ==
  /\ ops \in Campaigns
  /\ sched \in Setting
  /\ listed \in SUBSET Projects /\ tracked \in SUBSET Projects /\ auto \in SUBSET Projects
  /\ runs \in [Slots -> Run]
  /\ licensed \in BOOLEAN /\ maintenance \in BOOLEAN /\ up \in BOOLEAN /\ stopping \in BOOLEAN
  /\ loop \in {"top", "claim", "begin", "scan", "dead"}
  /\ job \in Slots \cup {None} /\ gone \in BOOLEAN
  /\ call \in [Threads -> Call]
  /\ since \in Age /\ catchup \in Age

\* Automatic runs keep their distance: one is inserted only when the shortest
\* interval the user can choose has passed since the last insertion and since the
\* last manual refresh, whatever saves, pauses and ends of runs cross the timer
\* turn.  The exception is a catch-up (resume, tray, start) that came after, or in
\* the same tick: it makes the timer due on purpose.
AutomaticRunsAreSpaced ==
  [][\A s \in Slots : ~Live(s) /\ runs'[s].trigger = "AUTOMATIC" =>
                        since >= Shortest \/ catchup <= since]_vars

AutomaticRuns == {s \in Slots : Live(s) /\ runs[s].trigger = "AUTOMATIC"}

\* "The worker still owns queue insertion, so an active scan cannot be raced or
\* duplicated by the desktop resume signal" (desktop_scheduler.py): the account has
\* at most one live automatic run.  enqueue_scheduled checks before it inserts, in a
\* transaction that holds no lock at the check.
OneAutomaticRun == Cardinality(AutomaticRuns) <= 1

\* A run that was cancelled between its claim and the first read of process_job: no
\* worker holds it, and it holds the queue until the next start.
Abandoned(s) == runs[s].status = "CANCEL_REQUESTED" /\ job # s

\* A user cancels a run before it starts, or saves the schedule: a save of another
\* interval or of other projects starts the timer again.
Interferes ==
  \/ \E s \in Slots : runs[s].status = "QUEUED" /\ cancel_scan(s)
  \/ \E t \in Clients : set_scheduler_commit(t)

\* A schedule never falls asleep: as long as it is enabled and not paused, the
\* application runs with a licence and without a maintenance lock, its worker
\* thread lives and no abandoned run holds the queue, scans keep being made.  Only
\* a user who interferes again and again can prevent it.
Serviceable ==
  /\ up /\ ~stopping /\ loop # "dead"
  /\ licensed /\ ~maintenance
  /\ sched.enabled /\ ~sched.paused
  /\ \A s \in Slots : ~Abandoned(s)
ScheduleStaysAlive ==
  \/ []<><<Interferes>>_vars
  \/ []<>(~Serviceable \/ loop = "scan")

=============================================================================
