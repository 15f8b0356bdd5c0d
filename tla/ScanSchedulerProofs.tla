------------------------- MODULE ScanSchedulerProofs -------------------------
(***************************************************************************)
(* Theorems about ScanScheduler for every set of projects, intervals, runs *)
(* and request threads.                                                    *)
(***************************************************************************)
EXTENDS ScanScheduler, TLAPS

-----------------------------------------------------------------------------
(* Rows keep their type *)

\* Ticks are counted in naturals up to the longest interval.
LEMMA Ages ==
  /\ Shortest \in Nat /\ Longest \in Nat /\ Shortest <= Longest
  /\ Intervals \subseteq Age /\ Age \subseteq Nat
  /\ 0 \in Age /\ Longest \in Age
  /\ \A i \in Intervals : Shortest <= i
  /\ None \notin Age
BY ScanSchedulerAssumption, SMT DEF Age

\* The rows the module builds from nothing are well formed.
LEMMA NewRows ==
  /\ NoSetting \in Setting
  /\ IdleCall \in Call
  /\ NoRun \in Run
  /\ \A ps \in SUBSET Projects, t \in {"AUTOMATIC", "MANUAL", "CARS"} : NewRun(t, ps) \in Run
<1>1. NoSetting \in Setting
  BY ScanSchedulerAssumption, ZenonT(60) DEF NoSetting, Setting
<1>2. IdleCall \in Call
  BY <1>1, ZenonT(60) DEF IdleCall, Call
<1>3. NoRun \in Run
  BY ZenonT(60) DEF NoRun, Run
<1>4. \A ps \in SUBSET Projects, t \in {"AUTOMATIC", "MANUAL", "CARS"} : NewRun(t, ps) \in Run
  BY ZenonT(60) DEF NewRun, Run
<1> QED BY <1>1, <1>2, <1>3, <1>4

\* A flush of well formed rows is a well formed row.
LEMMA FlushedType ==
  ASSUME TypeOK, NEW c \in Call
  PROVE  Flushed(c) \in Setting
BY ZenonT(60) DEF TypeOK, Flushed, Call, Setting

\* What the timer turn decides, field by field: a turn that inserts found the
\* timer due, no live run and a project to update, and sets the timer again.
LEMMA TimerCallFacts ==
  ASSUME TypeOK
  PROVE  /\ TimerCall \in Call
         /\ TimerCall.op = "timer"
         /\ TimerCall.dirty \in {{}, {"next"}, {"enabled", "next"}}
         /\ TimerCall.dirty = {"next"} => TimerCall.new.next = sched.interval
         /\ "enabled" \in TimerCall.dirty => TimerCall.new.enabled = FALSE /\ TimerCall.new.next = None
         /\ TimerCall.insert => /\ sched.enabled /\ sched.next = 0 /\ listed # {}
                                /\ TimerCall.dirty = {"next"}
                                /\ \A s \in Slots : ~Live(s)
<1> DEFINE nothing == [IdleCall EXCEPT !.op = "timer"]
           later == [sched EXCEPT !.next = sched.interval]
           off == [sched EXCEPT !.enabled = FALSE, !.next = None]
           postpone == [nothing EXCEPT !.new = later, !.dirty = {"next"}]
           disable == [nothing EXCEPT !.new = off, !.dirty = {"enabled", "next"}]
           insert == [postpone EXCEPT !.insert = TRUE, !.projects = listed \cap auto]
<1>1. nothing \in Call
  BY NewRows, ZenonT(60) DEF Call
<1>2. later \in Setting /\ off \in Setting
  <2>1. sched \in Setting
    BY DEF TypeOK
  <2>2. sched.interval \in Age
    BY <2>1, Ages, ZenonT(60) DEF Setting
  <2> QED BY <2>1, <2>2, ZenonT(60) DEF Setting
<1>3. later.next = sched.interval /\ off.enabled = FALSE /\ off.next = None
  BY SMT DEF TypeOK, Setting
<1>4. nothing.op = "timer" /\ nothing.dirty = {} /\ nothing.insert = FALSE
  BY SMT DEF IdleCall
<1> HIDE DEF nothing, later, off
<1>5. postpone \in Call /\ disable \in Call
  BY <1>1, <1>2, ZenonT(60) DEF Call, Column
<1>6. /\ postpone.op = "timer" /\ postpone.dirty = {"next"} /\ postpone.insert = FALSE
      /\ postpone.new = later
      /\ disable.op = "timer" /\ disable.dirty = {"enabled", "next"} /\ disable.insert = FALSE
      /\ disable.new = off
  BY <1>1, <1>4, SMT DEF Call
<1> HIDE DEF postpone, disable
<1>7. insert \in Call
  BY <1>5, ZenonT(60) DEF Call, TypeOK
<1>8. insert.op = "timer" /\ insert.dirty = {"next"} /\ insert.new = later
  BY <1>5, <1>6, SMT DEF Call
<1>9. /\ sched.next \in Age \cup {None} /\ sched.enabled \in BOOLEAN /\ sched.paused \in BOOLEAN
      /\ maintenance \in BOOLEAN
  BY SMT DEF TypeOK, Setting
<1>10. \/ TimerCall = nothing
       \/ TimerCall = postpone
       \/ TimerCall = disable
       \/ /\ TimerCall = insert
          /\ sched.enabled /\ sched.next = 0 /\ listed # {}
          /\ \A s \in Slots : ~Live(s)
  <2> HIDE DEF insert
  <2>1. CASE maintenance \/ ~sched.enabled \/ sched.paused
    BY <2>1, SMT DEF TimerCall, nothing
  <2>2. CASE ~maintenance /\ sched.enabled /\ ~sched.paused
    <3> USE <2>2, <1>9, Ages DEF TimerCall, nothing, postpone, disable, insert, later, off
    <3>1. CASE sched.next = None
      BY <3>1, SMT DEF Age
    <3>2. CASE sched.next \in 1 .. Longest
      BY <3>2, SMT DEF Age
    <3>3. CASE sched.next = 0
      BY <3>3, SMT DEF Age
    <3> QED BY <3>1, <3>2, <3>3, SMT DEF Age
  <2> QED BY <2>1, <2>2, <1>9
<1> HIDE DEF insert
<1> QED BY <1>1, <1>3, <1>4, <1>5, <1>6, <1>7, <1>8, <1>10

-----------------------------------------------------------------------------
(* The type invariant *)

\* The initial state.
LEMMA InitType == Init => TypeOK
<1> SUFFICES ASSUME Init PROVE TypeOK
  OBVIOUS
<1>1. sched \in Setting
  <2>1. [NoSetting EXCEPT !.enabled = TRUE, !.interval = Longest] \in Setting
    BY NewRows, ScanSchedulerAssumption, ZenonT(60) DEF Setting
  <2> QED BY <2>1, NewRows, ZenonT(60) DEF Init
<1>2. runs \in [Slots -> Run] /\ call \in [Threads -> Call]
  BY NewRows, ZenonT(60) DEF Init
<1>3. since \in Age /\ catchup \in Age
  BY Ages, ZenonT(60) DEF Init
<1>4. listed \in SUBSET Projects
  BY ZenonT(60) DEF Init
<1> QED BY <1>1, <1>2, <1>3, <1>4, ZenonT(60) DEF Init, TypeOK

\* A step of a thread that changes its call and the rows given.
LEMMA CallStep ==
  ASSUME TypeOK, NEW t \in Threads, NEW c \in Call,
         call' = [call EXCEPT ![t] = c],
         sched' \in Setting, listed' \in SUBSET Projects, runs' \in [Slots -> Run],
         loop' \in {"top", "claim", "begin", "scan", "dead"}, since' \in Age, catchup' \in Age,
         UNCHANGED others
  PROVE  TypeOK'
<1>1. call' \in [Threads -> Call]
  BY ZenonT(60) DEF TypeOK
<1> QED BY <1>1 DEF TypeOK, others

\* The two halves of the timer turn.
LEMMA TurnType ==
  ASSUME TypeOK, NEW t \in Threads, enqueue_scheduled(t) \/ enqueue_scheduled_commit(t)
  PROVE  TypeOK'
<1>1. CASE enqueue_scheduled(t)
  <2> DEFINE c == [TimerCall EXCEPT !.forced = call[t].forced]
  <2>1. call[t].forced \in BOOLEAN
    BY ZenonT(60) DEF TypeOK, Call
  <2>2. c \in Call
    BY <2>1, TimerCallFacts, ZenonT(60) DEF Call
  <2>3. call' = [call EXCEPT ![t] = c]
    BY <1>1 DEF enqueue_scheduled
  <2> HIDE DEF c
  <2> QED BY <1>1, <2>2, <2>3, CallStep DEF enqueue_scheduled, TypeOK
<1>2. CASE enqueue_scheduled_commit(t)
  <2>1. call[t] \in Call
    BY DEF TypeOK
  <2>2. sched' \in Setting
    BY <1>2, <2>1, FlushedType DEF enqueue_scheduled_commit
  <2>3. NewRun("AUTOMATIC", call[t].projects) \in Run
    BY <2>1, NewRows, ZenonT(60) DEF Call
  <2>4. runs' \in [Slots -> Run]
    BY <1>2, <2>3, ZenonT(60) DEF enqueue_scheduled_commit, TypeOK
  <2>5. since' \in Age
    BY <1>2, Ages, ZenonT(60) DEF enqueue_scheduled_commit, TypeOK
  <2>6. /\ loop' \in {"top", "claim", "begin", "scan", "dead"} /\ listed' \in SUBSET Projects
        /\ catchup' \in Age /\ UNCHANGED others /\ call' = [call EXCEPT ![t] = IdleCall]
    BY <1>2, ZenonT(60) DEF enqueue_scheduled_commit, TypeOK
  <2> QED BY <2>2, <2>4, <2>5, <2>6, NewRows, CallStep
<1> QED BY <1>1, <1>2

\* The setting at the end of a run.
LEMMA EndedSettingType ==
  ASSUME TypeOK, NEW trigger, NEW success \in BOOLEAN
  PROVE  EndedSetting(trigger, success) \in Setting
<1>1. sched \in Setting
  BY DEF TypeOK
<1>2. sched.interval \in Age /\ 0 \in Age
  BY <1>1, Ages, ZenonT(60) DEF Setting
<1> QED BY <1>1, <1>2, ZenonT(60) DEF EndedSetting, Setting

\* The steps of the worker loop.
LEMMA WorkerType ==
  ASSUME TypeOK, WorkerStep
  PROVE  TypeOK'
<1>0. Worker \in Threads
  BY DEF Threads
<1>1. CASE run
  BY <1>0, <1>1, TurnType DEF run
<1>2. CASE enqueue_scheduled_commit(Worker)
  BY <1>0, <1>2, TurnType
<1>3. CASE claim_next_job
  <2>1. \A s \in Slots : [runs EXCEPT ![s].status = "RUNNING"] \in [Slots -> Run]
    BY ZenonT(60) DEF TypeOK, Run
  <2>2. runs' \in [Slots -> Run] /\ job' \in Slots \cup {None}
    BY <1>3, <2>1, ZenonT(60) DEF claim_next_job, TypeOK
  <2> QED BY <1>3, <2>2, ZenonT(60) DEF claim_next_job, TypeOK
<1>4. CASE begin_job
  BY <1>4, ZenonT(60) DEF begin_job, TypeOK
<1>5. ASSUME NEW success \in BOOLEAN, process_job(success) PROVE TypeOK'
  <2>1. sched' \in Setting
    BY <1>5, EndedSettingType DEF process_job
  <2>2. since' \in Age
    BY <1>5, Ages, ZenonT(60) DEF process_job, TypeOK
  <2>3. runs' \in [Slots -> Run]
    BY <1>5, NewRows, ZenonT(60) DEF process_job, TypeOK
  <2> QED BY <1>5, <2>1, <2>2, <2>3, ZenonT(60) DEF process_job, TypeOK
<1>6. CASE process_job_dies
  BY <1>6, ZenonT(60) DEF process_job_dies, TypeOK
<1> QED BY <1>1, <1>2, <1>3, <1>4, <1>5, <1>6 DEF WorkerStep

\* The loading half of a settings handler.
LEMMA LoadType ==
  ASSUME TypeOK, NEW t \in Threads, NEW op, NEW c \in Call, Load(t, op, c)
  PROVE  TypeOK'
BY CallStep DEF Load, TypeOK

\* The settings and tray requests, and the resume signal.
LEMMA RequestType ==
  ASSUME TypeOK, NEW t \in Clients, Request(t)
  PROVE  TypeOK'
<1>0. t \in Threads /\ sched \in Setting
  BY DEF Threads, TypeOK
<1>1. ASSUME NEW enabled \in BOOLEAN, NEW paused \in BOOLEAN, NEW interval \in Intervals,
             NEW ps \in SUBSET Projects, set_scheduler(t, enabled, paused, interval, ps)
      PROVE  TypeOK'
  <2> DEFINE reanchor == \/ ~sched.enabled \/ sched.interval # interval
                         \/ listed # ps \/ sched.next = None
             new == [sched EXCEPT !.enabled = enabled, !.paused = enabled /\ paused,
                                  !.interval = interval,
                                  !.next = IF ~enabled THEN None
                                           ELSE IF reanchor THEN interval ELSE @]
             dirty == {c \in Column \ {"next"} : new[c] # sched[c]}
                        \cup (IF (enabled /\ reanchor) \/ new.next # sched.next
                              THEN {"next"} ELSE {})
             c == [IdleCall EXCEPT !.op = "save", !.new = new, !.dirty = dirty, !.projects = ps]
  <2>1. interval \in Age
    BY Ages
  <2>2. new \in Setting
    BY <1>0, <2>1, ZenonT(60) DEF Setting
  <2>3. dirty \in SUBSET Column
    BY ZenonT(60) DEF Column
  <2>4. Load(t, "save", c)
    BY <1>1 DEF set_scheduler
  <2> HIDE DEF new, dirty
  <2>5. c \in Call
    BY <2>2, <2>3, NewRows, ZenonT(60) DEF Call
  <2> HIDE DEF c
  <2> QED BY <1>0, <2>4, <2>5, LoadType
<1>2. ASSUME NEW value \in BOOLEAN, pause_scheduler(t, value) PROVE TypeOK'
  <2> DEFINE new == [sched EXCEPT !.paused = value]
             dirty == IF value # sched.paused THEN {"paused"} ELSE {}
             c == [IdleCall EXCEPT !.op = "pause", !.new = new, !.dirty = dirty]
  <2>1. new \in Setting /\ dirty \in SUBSET Column
    BY <1>0, ZenonT(60) DEF Setting, Column
  <2>2. Load(t, "pause", c)
    BY <1>2 DEF pause_scheduler
  <2> HIDE DEF new, dirty
  <2>3. c \in Call
    BY <2>1, NewRows, ZenonT(60) DEF Call
  <2> HIDE DEF c
  <2> QED BY <1>0, <2>2, <2>3, LoadType
<1>3. CASE toggle_all_schedulers(t)
  <2> DEFINE due == sched.paused /\ sched.next = None
             new == [sched EXCEPT !.paused = ~@, !.next = IF due THEN 0 ELSE @]
             dirty == {"paused"} \cup IF due THEN {"next"} ELSE {}
             c == [IdleCall EXCEPT !.op = "tray", !.new = new, !.dirty = dirty]
  <2>1. new \in Setting
    BY <1>0, Ages, ZenonT(60) DEF Setting
  <2>2. dirty \in SUBSET Column
    BY ZenonT(60) DEF Column
  <2>3. Load(t, "tray", c)
    BY <1>3 DEF toggle_all_schedulers
  <2> HIDE DEF new, dirty
  <2>4. c \in Call
    BY <2>1, <2>2, NewRows, ZenonT(60) DEF Call
  <2> HIDE DEF c
  <2> QED BY <1>0, <2>3, <2>4, LoadType
<1>4. CASE resumed(t)
  <2> DEFINE forced == \E s \in Slots : runs[s].status = "RUNNING" /\ runs[s].trigger = "AUTOMATIC"
             c == [IdleCall EXCEPT !.op = "prepare", !.forced = forced]
  <2>1. forced \in BOOLEAN
    OBVIOUS
  <2>2. call' = [call EXCEPT ![t] = c]
    BY <1>4 DEF resumed
  <2> HIDE DEF forced
  <2>3. c \in Call
    BY <2>1, NewRows, ZenonT(60) DEF Call
  <2> HIDE DEF c
  <2>4. \A s \in Slots : [runs[s] EXCEPT !.status = "CANCEL_REQUESTED"] \in Run
    BY ZenonT(60) DEF TypeOK, Run
  <2>5. runs' \in [Slots -> Run]
    BY <1>4, <2>4, ZenonT(60) DEF resumed, TypeOK
  <2> QED BY <1>0, <1>4, <2>2, <2>3, <2>5, CallStep DEF resumed, TypeOK
<1> QED BY <1>1, <1>2, <1>3, <1>4 DEF Request

\* The steps of a request that is in.
LEMMA ClientType ==
  ASSUME TypeOK, NEW t \in Clients, ClientStep(t)
  PROVE  TypeOK'
<1>0. t \in Threads /\ call[t] \in Call /\ sched \in Setting
  BY DEF Threads, TypeOK
<1>1. CASE set_scheduler_commit(t)
  <2>1. sched' \in Setting
    BY <1>0, <1>1, FlushedType DEF set_scheduler_commit
  <2>2. listed' \in SUBSET Projects
    BY <1>0, <1>1, ZenonT(60) DEF set_scheduler_commit, TypeOK, Call
  <2> QED BY <1>0, <1>1, <2>1, <2>2, NewRows, CallStep DEF set_scheduler_commit, TypeOK
<1>2. CASE write_setting(t)
  <2>1. sched' \in Setting
    BY <1>0, <1>2, FlushedType DEF write_setting
  <2>2. catchup' \in Age
    BY <1>2, Ages, ZenonT(60) DEF write_setting, TypeOK
  <2> QED BY <1>0, <1>2, <2>1, <2>2, NewRows, CallStep DEF write_setting, TypeOK
<1>3. CASE prepare_catch_up(t)
  <2> DEFINE new == [sched EXCEPT !.next = 0]
             dirty == IF CatchesUp(call[t].forced) THEN {"next"} ELSE {}
             c == [IdleCall EXCEPT !.op = "prepared", !.new = new, !.dirty = dirty]
  <2>1. new \in Setting
    BY <1>0, Ages, ZenonT(60) DEF Setting
  <2>2. dirty \in SUBSET Column
    BY ZenonT(60) DEF Column
  <2>3. call' = [call EXCEPT ![t] = c]
    BY <1>3 DEF prepare_catch_up
  <2> HIDE DEF new, dirty
  <2>4. c \in Call
    BY <2>1, <2>2, NewRows, ZenonT(60) DEF Call
  <2> HIDE DEF c
  <2> QED BY <1>0, <1>3, <2>3, <2>4, CallStep DEF prepare_catch_up, TypeOK
<1>4. CASE prepare_catch_up_commit(t)
  <2> DEFINE c == [IdleCall EXCEPT !.op = "catch_up", !.forced = call[t].dirty # {}]
  <2>1. sched' \in Setting
    BY <1>0, <1>4, FlushedType DEF prepare_catch_up_commit
  <2>2. c \in Call
    BY NewRows, ZenonT(60) DEF Call
  <2>3. call' = [call EXCEPT ![t] = c]
    BY <1>4 DEF prepare_catch_up_commit
  <2>4. catchup' \in Age
    BY <1>4, Ages DEF prepare_catch_up_commit
  <2> HIDE DEF c
  <2> QED BY <1>0, <1>4, <2>1, <2>2, <2>3, <2>4, CallStep DEF prepare_catch_up_commit, TypeOK
<1>5. CASE resume_turn(t)
  BY <1>0, <1>5, TurnType DEF resume_turn
<1>6. CASE enqueue_scheduled_commit(t)
  BY <1>0, <1>6, TurnType
<1> QED BY <1>1, <1>2, <1>3, <1>4, <1>5, <1>6 DEF ClientStep

\* The table of runs after a manual request is well formed.
LEMMA EnqueueType ==
  ASSUME TypeOK, NEW trigger \in {"MANUAL", "CARS"}, NEW ps \in SUBSET Projects,
         enqueue(trigger, ps)
  PROVE  TypeOK'
<1> DEFINE absorbs(s) == /\ runs[s].status = "QUEUED" /\ runs[s].trigger = "AUTOMATIC"
                         /\ runs[s].projects \cap ps # {}
           rest(s) == runs[s].projects \ ps
           table == [s \in Slots |->
                       IF ~absorbs(s) THEN runs[s]
                       ELSE IF rest(s) = {} THEN NoRun
                       ELSE [runs[s] EXCEPT !.projects = rest(s)]]
<1>1. \A s \in Slots : runs[s] \in Run /\ [runs[s] EXCEPT !.projects = rest(s)] \in Run
  BY ZenonT(60) DEF TypeOK, Run
<1>2. table \in [Slots -> Run]
  BY <1>1, NewRows, ZenonT(60)
<1>3. \E s \in Free : runs' = [table EXCEPT ![s] = NewRun(trigger, ps)]
  BY DEF enqueue
<1> HIDE DEF table
<1>4. runs' \in [Slots -> Run]
  BY <1>2, <1>3, NewRows, ZenonT(60)
<1> QED BY <1>4 DEF enqueue, TypeOK, others

\* A cancelled run is well formed.
LEMMA CancelledType == \A r \in Run : Cancelled(r) \in Run
BY NewRows, ZenonT(60) DEF Cancelled, Run

\* Time passes within the ages.
LEMMA TickType ==
  ASSUME TypeOK, tick
  PROVE  TypeOK'
<1>1. \A a \in Age : Older(a) \in Age
  BY Ages, SMT DEF Older, Age
<1>2. \A a \in Age : a # 0 => a - 1 \in Age
  BY Ages, SMT DEF Age
<1> DEFINE next == IF sched.next \in {None, 0} THEN sched.next ELSE sched.next - 1
           completed == IF sched.completed = None THEN sched.completed ELSE Older(sched.completed)
<1>3. sched \in Setting
  BY DEF TypeOK
<1>4. next \in Age \cup {None} /\ completed \in Age \cup {None}
  BY <1>1, <1>2, <1>3, ZenonT(60) DEF Setting
<1>5. sched' = [sched EXCEPT !.next = next, !.completed = completed]
  BY DEF tick
<1> HIDE DEF next, completed
<1>6. sched' \in Setting
  BY <1>3, <1>4, <1>5, ZenonT(60) DEF Setting
<1>7. since' \in Age /\ catchup' \in Age
  BY <1>1, ZenonT(60) DEF tick, TypeOK
<1> QED BY <1>6, <1>7 DEF tick, TypeOK, others

\* Every step keeps the type invariant.
LEMMA NextType == TypeOK /\ [Next]_vars => TypeOK'
<1> SUFFICES ASSUME TypeOK, [Next]_vars PROVE TypeOK'
  OBVIOUS
<1>0. runs \in [Slots -> Run] /\ sched \in Setting
  BY DEF TypeOK
<1>1. CASE WorkerStep
  BY <1>1, WorkerType
<1>2. ASSUME NEW t \in Clients, Request(t) \/ ClientStep(t) PROVE TypeOK'
  BY <1>2, RequestType, ClientType
<1>3. ASSUME NEW ps \in SUBSET Projects, manual(ps) PROVE TypeOK'
  BY <1>3, EnqueueType DEF manual
<1>4. CASE cars
  BY <1>4, EnqueueType DEF cars
<1>5. ASSUME NEW s \in Slots, cancel_scan(s) PROVE TypeOK'
  <2>1. runs' \in [Slots -> Run]
    BY <1>0, <1>5, CancelledType, ZenonT(60) DEF cancel_scan
  <2> QED BY <1>5, <2>1 DEF cancel_scan, TypeOK, others
<1>6. ASSUME NEW p \in Projects, patch_project(p) PROVE TypeOK'
  BY <1>6, ZenonT(60) DEF patch_project, TypeOK
<1>7. ASSUME NEW p \in Projects, NEW current \in BOOLEAN, delete_project(p, current) PROVE TypeOK'
  <2> DEFINE detached(r) == [r EXCEPT !.projects = @ \ {p}]
  <2>1. \A s \in Slots : runs[s] \in Run /\ detached(runs[s]) \in Run
    BY <1>0, ZenonT(60) DEF Run
  <2> HIDE DEF detached
  <2>2. \A s \in Slots : Cancelled(detached(runs[s])) \in Run
    BY <2>1, CancelledType
  <2>3. runs' \in [Slots -> Run]
    BY <1>7, <2>1, <2>2, ZenonT(60) DEF delete_project, detached
  <2>4. gone' \in BOOLEAN
    BY <1>7, ZenonT(60) DEF delete_project, TypeOK
  <2> QED BY <1>7, <2>3, <2>4, ZenonT(60) DEF delete_project, TypeOK
<1>8. CASE license_changes \/ maintenance_changes
  BY <1>8 DEF license_changes, maintenance_changes, TypeOK
<1>9. CASE tick
  BY <1>9, TickType
<1>10. CASE request_shutdown
  <2>1. runs' \in [Slots -> Run]
    BY <1>0, <1>10, CancelledType, ZenonT(60) DEF request_shutdown
  <2> QED BY <1>10, <2>1 DEF request_shutdown, TypeOK
<1>11. CASE crash
  <2>1. call' \in [Threads -> Call]
    BY <1>11, NewRows, ZenonT(60) DEF crash
  <2> QED BY <1>11, <2>1, ZenonT(60) DEF crash, TypeOK
<1>12. CASE restart
  <2>1. [sched EXCEPT !.next = 0] \in Setting
    BY <1>0, Ages, ZenonT(60) DEF Setting
  <2>2. runs' \in [Slots -> Run] /\ sched' \in Setting
    BY <1>0, <1>12, <2>1, NewRows, ZenonT(60) DEF restart
  <2>3. catchup' \in Age
    BY <1>12, Ages, ZenonT(60) DEF restart, TypeOK
  <2> QED BY <1>12, <2>2, <2>3, ZenonT(60) DEF restart, TypeOK
<1>13. CASE UNCHANGED vars
  BY <1>13 DEF vars, TypeOK
<1> QED BY <1>1, <1>2, <1>3, <1>4, <1>5, <1>6, <1>7, <1>8, <1>9, <1>10, <1>11, <1>12, <1>13
     DEF Next

\* The setting row, the tables and the locals of the threads keep their shape
\* through every handler, crash and restart; ages never leave 0 .. Longest.
THEOREM SchedulerTypeCorrect == Spec => []TypeOK
BY InitType, NextType, PTL DEF Spec

-----------------------------------------------------------------------------
(* Only the timer turn inserts automatic runs *)

\* A free slot holds no run.
EmptyRows == \A s \in Slots : ~Live(s) => runs[s].trigger = "NONE"

\* A step that inserts no automatic run.
InsertsNone ==
  \A s \in Slots : runs'[s].trigger = "AUTOMATIC" => runs[s].trigger = "AUTOMATIC"

Inserts(t) == enqueue_scheduled_commit(t) /\ call[t].insert

\* The projects a request rewrites keep trigger and status.
LEMMA DetachedRun ==
  ASSUME NEW r \in Run, NEW ps
  PROVE  /\ [r EXCEPT !.projects = ps].trigger = r.trigger
         /\ [r EXCEPT !.projects = ps].status = r.status
BY SMT DEF Run

\* A new status keeps the trigger.
LEMMA RestatedRun ==
  ASSUME NEW r \in Run, NEW status
  PROVE  /\ [r EXCEPT !.status = status].trigger = r.trigger
         /\ [r EXCEPT !.status = status].status = status
BY SMT DEF Run

\* Cancelling keeps the trigger or frees the slot.
LEMMA CancelledRun ==
  ASSUME NEW r \in Run
  PROVE  \/ Cancelled(r) = NoRun
         \/ Cancelled(r).trigger = r.trigger /\ Cancelled(r).status = "CANCEL_REQUESTED"
BY RestatedRun, ZenonT(60) DEF Cancelled

\* How a row may change in a step that inserts no automatic run.
Kept(new, old) ==
  \/ new = old
  \/ new = NoRun
  \/ new.trigger = old.trigger /\ new.status \in {"RUNNING", "CANCEL_REQUESTED"}
  \/ new.trigger = old.trigger /\ new.status = old.status
  \/ new.trigger \in {"MANUAL", "CARS"} /\ new.status = "QUEUED"

\* A run that starts or is asked to stop is kept.
LEMMA KeptRestated ==
  ASSUME NEW r \in Run, NEW status \in {"RUNNING", "CANCEL_REQUESTED"}
  PROVE  Kept([r EXCEPT !.status = status], r)
<1> DEFINE new == [r EXCEPT !.status = status]
<1>1. new.trigger = r.trigger /\ new.status = status
  BY RestatedRun
<1> HIDE DEF new
<1>2. Kept(new, r)
  BY <1>1 DEF Kept
<1> QED BY <1>2 DEF new

\* So is a run that is cancelled, with or without the loss of a project.
LEMMA KeptCancelled ==
  ASSUME NEW r \in Run, NEW old, r.trigger = old.trigger
  PROVE  Kept(Cancelled(r), old)
<1> DEFINE new == Cancelled(r)
<1>1. new = NoRun \/ (new.trigger = r.trigger /\ new.status = "CANCEL_REQUESTED")
  BY CancelledRun
<1> HIDE DEF new
<1>2. Kept(new, old)
  BY <1>1 DEF Kept
<1> QED BY <1>2 DEF new

\* Such a change inserts no automatic run and leaves free slots empty.
LEMMA KeptRows ==
  ASSUME EmptyRows, \A s \in Slots : Kept(runs'[s], runs[s])
  PROVE  InsertsNone /\ EmptyRows'
<1> SUFFICES ASSUME NEW s \in Slots
             PROVE  /\ runs'[s].trigger = "AUTOMATIC" => runs[s].trigger = "AUTOMATIC"
                    /\ runs'[s].status = "ABSENT" => runs'[s].trigger = "NONE"
  BY DEF InsertsNone, EmptyRows, Live
<1>1. Kept(runs'[s], runs[s])
  OBVIOUS
<1>2. runs[s].status = "ABSENT" => runs[s].trigger = "NONE"
  BY DEF EmptyRows, Live
<1> QED BY <1>1, <1>2, SMT DEF Kept, NoRun

\* Only the timer turn inserts automatic runs: every other step takes rows away,
\* changes their status, or inserts a run of another kind.
LEMMA RunsStep ==
  ASSUME TypeOK, EmptyRows, [Next]_vars
  PROVE  EmptyRows' /\ (InsertsNone \/ \E t \in Threads : Inserts(t))
<1>0. \A s \in Slots : runs[s] \in Run
  BY DEF TypeOK
<1>00. runs \in [Slots -> Run] /\ Worker \in Threads /\ Clients \subseteq Threads
  BY DEF TypeOK, Threads
<1> DEFINE Keeps == \A s \in Slots : Kept(runs'[s], runs[s])
<1>K. Keeps => EmptyRows' /\ InsertsNone
  BY KeptRows
<1>U. runs' = runs => Keeps
  BY DEF Kept
<1>I. ASSUME NEW t \in Threads, Inserts(t) PROVE EmptyRows'
  <2>1. PICK s \in Free : runs' = [runs EXCEPT ![s] = NewRun("AUTOMATIC", call[t].projects)]
    BY <1>I DEF Inserts, enqueue_scheduled_commit
  <2>2. \A r \in Slots : \/ runs'[r] = runs[r]
                         \/ runs'[r] = NewRun("AUTOMATIC", call[t].projects)
    BY <1>00, <2>1, ZenonT(60) DEF Free
  <2> QED BY <2>2, SMT DEF EmptyRows, Live, NewRun
<1> HIDE DEF Keeps
<1>1. CASE WorkerStep
  <2>1. CASE run
    BY <2>1, <1>K, <1>U DEF run, enqueue_scheduled
  <2>2. CASE enqueue_scheduled_commit(Worker)
    BY <2>2, <1>K, <1>U, <1>I, <1>00 DEF Inserts, enqueue_scheduled_commit
  <2>3. CASE claim_next_job
    <3>1. ASSUME NEW s \in Slots, runs' = [runs EXCEPT ![s].status = "RUNNING"] PROVE Keeps
      <4>1. \A r \in Slots : \/ runs'[r] = runs[r]
                             \/ runs'[r] = [runs[r] EXCEPT !.status = "RUNNING"]
        BY <1>00, <3>1, ZenonT(60)
      <4>2. \A r \in Slots : Kept([runs[r] EXCEPT !.status = "RUNNING"], runs[r])
        BY <1>0, KeptRestated
      <4>3. \A r \in Slots : Kept(runs[r], runs[r])
        BY DEF Kept
      <4> QED BY <4>1, <4>2, <4>3, ZenonT(60) DEF Keeps
    <3> QED BY <2>3, <3>1, <1>K, <1>U DEF claim_next_job
  <2>4. CASE begin_job
    BY <2>4, <1>K, <1>U DEF begin_job
  <2>5. ASSUME NEW success \in BOOLEAN, process_job(success) PROVE Keeps
    <3>1. \A r \in Slots : runs'[r] = runs[r] \/ runs'[r] = NoRun
      BY <1>00, <2>5, ZenonT(60) DEF process_job
    <3> QED BY <3>1, ZenonT(60) DEF Keeps, Kept
  <2>6. CASE process_job_dies
    BY <2>6, <1>K, <1>U DEF process_job_dies
  <2> QED BY <1>1, <2>1, <2>2, <2>3, <2>4, <2>5, <2>6, <1>K DEF WorkerStep
<1>2. ASSUME NEW t \in Clients, Request(t)
      PROVE  EmptyRows' /\ InsertsNone
  <2>1. CASE resumed(t)
    <3>1. \A r \in Slots : \/ runs'[r] = runs[r]
                           \/ runs'[r] = [runs[r] EXCEPT !.status = "CANCEL_REQUESTED"]
      BY <2>1, ZenonT(60) DEF resumed
    <3>2. \A r \in Slots : Kept([runs[r] EXCEPT !.status = "CANCEL_REQUESTED"], runs[r])
      BY <1>0, KeptRestated
    <3>3. \A r \in Slots : Kept(runs[r], runs[r])
      BY DEF Kept
    <3>4. Keeps
      BY <3>1, <3>2, <3>3, ZenonT(60) DEF Keeps
    <3> QED BY <3>4, <1>K
  <2>2. CASE ~resumed(t)
    <3>1. runs' = runs
      BY <1>2, <2>2, ZenonT(60) DEF Request, set_scheduler, pause_scheduler, toggle_all_schedulers, Load
    <3> QED BY <3>1, <1>K, <1>U
  <2> QED BY <2>1, <2>2
<1>3. ASSUME NEW t \in Clients, ClientStep(t)
      PROVE  EmptyRows' /\ (InsertsNone \/ Inserts(t))
  <2>1. CASE Inserts(t)
    BY <1>I, <1>00, <2>1
  <2>2. CASE ~Inserts(t)
    <3>1. runs' = runs
      BY <1>3, <2>2 DEF ClientStep, set_scheduler_commit, write_setting, prepare_catch_up,
         prepare_catch_up_commit, resume_turn, enqueue_scheduled, enqueue_scheduled_commit, Inserts
    <3> QED BY <3>1, <1>K, <1>U
  <2> QED BY <2>1, <2>2
<1>4. ASSUME NEW trigger \in {"MANUAL", "CARS"}, NEW ps, enqueue(trigger, ps) PROVE Keeps
  <2> DEFINE absorbs(s) == /\ runs[s].status = "QUEUED" /\ runs[s].trigger = "AUTOMATIC"
                           /\ runs[s].projects \cap ps # {}
             rest(s) == runs[s].projects \ ps
             table == [s \in Slots |->
                         IF ~absorbs(s) THEN runs[s]
                         ELSE IF rest(s) = {} THEN NoRun
                         ELSE [runs[s] EXCEPT !.projects = rest(s)]]
  <2>1. \A r \in Slots : \/ table[r] = runs[r] \/ table[r] = NoRun
                         \/ table[r] = [runs[r] EXCEPT !.projects = rest(r)]
    BY ZenonT(60)
  <2>2. \A r \in Slots : Kept(table[r], runs[r])
    BY <1>0, <2>1, DetachedRun, ZenonT(60) DEF Kept
  <2>3. PICK s \in Free : runs' = [table EXCEPT ![s] = NewRun(trigger, ps)]
    BY <1>4 DEF enqueue
  <2>4. DOMAIN table = Slots
    OBVIOUS
  <2> HIDE DEF table
  <2>5. \A r \in Slots : runs'[r] = table[r] \/ runs'[r] = NewRun(trigger, ps)
    BY <2>3, <2>4, ZenonT(60)
  <2>6. NewRun(trigger, ps).trigger = trigger /\ NewRun(trigger, ps).status = "QUEUED"
    BY DEF NewRun
  <2>7. \A r \in Slots : Kept(NewRun(trigger, ps), runs[r])
    BY <1>4, <2>6 DEF Kept
  <2> QED BY <2>2, <2>5, <2>7, ZenonT(60) DEF Keeps
<1>5. ASSUME NEW s \in Slots, cancel_scan(s) PROVE Keeps
  <2>1. \A r \in Slots : runs'[r] = runs[r] \/ runs'[r] = Cancelled(runs[r])
    BY <1>00, <1>5, ZenonT(60) DEF cancel_scan
  <2> QED BY <1>0, <2>1, CancelledRun, ZenonT(60) DEF Keeps, Kept
<1>6. ASSUME NEW p \in Projects, NEW current \in BOOLEAN, delete_project(p, current) PROVE Keeps
  <2> DEFINE detached(r) == [r EXCEPT !.projects = @ \ {p}]
  <2>1. \A r \in Run : /\ detached(r) \in Run
                       /\ detached(r).trigger = r.trigger /\ detached(r).status = r.status
    <3> TAKE r \in Run
    <3>1. detached(r) = [r EXCEPT !.projects = r.projects \ {p}]
      OBVIOUS
    <3>2. detached(r) \in Run
      BY ZenonT(60) DEF Run
    <3> QED BY <3>1, <3>2, DetachedRun
  <2>2. \A r \in Slots : \/ runs'[r] = runs[r] \/ runs'[r] = detached(runs[r])
                         \/ runs'[r] = Cancelled(detached(runs[r]))
    BY <1>6, ZenonT(60) DEF delete_project
  <2> HIDE DEF detached
  <2>3. \A r \in Slots : /\ Kept(Cancelled(detached(runs[r])), runs[r])
                         /\ Kept(detached(runs[r]), runs[r])
                         /\ Kept(runs[r], runs[r])
    BY <1>0, <2>1, KeptCancelled DEF Kept
  <2> QED BY <2>2, <2>3, ZenonT(60) DEF Keeps
<1>7. CASE request_shutdown
  <2>1. \A r \in Slots : runs'[r] = runs[r] \/ runs'[r] = Cancelled(runs[r])
    BY <1>7, ZenonT(60) DEF request_shutdown
  <2> QED BY <1>0, <2>1, <1>K, CancelledRun, ZenonT(60) DEF Keeps, Kept
<1>8. CASE restart
  <2>1. \A r \in Slots : runs'[r] = runs[r] \/ runs'[r] = NoRun
    BY <1>8, ZenonT(60) DEF restart
  <2> QED BY <2>1, <1>K, ZenonT(60) DEF Keeps, Kept
<1>9. CASE \/ license_changes \/ maintenance_changes \/ tick \/ crash
           \/ \E p \in Projects : patch_project(p)
           \/ UNCHANGED vars
  BY <1>9, <1>K, <1>U DEF license_changes, maintenance_changes, tick, crash, patch_project, vars
<1> QED BY <1>K, <1>00, <1>1, <1>2, <1>3, <1>4, <1>5, <1>6, <1>7, <1>8, <1>9
     DEF Next, manual, cars

-----------------------------------------------------------------------------
(* Automatic runs are spaced *)

\* A timer that is at least the shortest interval away, and one that is so when
\* the ticks d that have already passed are counted.
Far(next) == next = None \/ next >= Shortest
Apart(next, d) == next = None \/ d + next >= Shortest

\* A catch-up came after the last insertion and the last refresh.
Excused == catchup <= since

\* Who is about to insert a run: the worker in a turn at the top of its loop, or a
\* resume handler in the turn that follows its catch-up, in the same tick.
CallsInv ==
  /\ \A t \in Clients : /\ call[t].insert => call[t].op = "timer"
                        /\ call[t].op \in {"catch_up", "timer"} => catchup = 0
  /\ call[Worker].op \in {"idle", "timer"}
  /\ call[Worker].op = "idle" => ~call[Worker].insert
  /\ call[Worker].op = "timer" => loop = "top"

\* What a thread is about to write: only a catch-up brings the timer near, a run is
\* only inserted with a new timer, and enabling the schedule moves it too.
WritesFar(c) ==
  /\ "next" \in c.dirty /\ c.op \notin {"tray", "prepared"} => Far(c.new.next)
  /\ "enabled" \in c.dirty /\ c.new.enabled => "next" \in c.dirty
  /\ c.insert => "next" \in c.dirty

\* A save in flight that leaves a near timer alone: it keeps the projects that are
\* listed, unless one is deleted, or disables the schedule.  A catch-up during its
\* flight (catchup = 0: no tick passes) frees it of that.
KeepsTimer(c) ==
  c.op = "save" /\ "next" \notin c.dirty /\ sched.enabled /\ ~Far(sched.next) /\ catchup # 0 =>
    /\ c.new.enabled /\ c.projects \subseteq tracked => listed = c.projects
    /\ ~c.new.enabled => "enabled" \in c.dirty

TimerApart == sched.enabled /\ listed # {} => Apart(sched.next, since) \/ Excused

SpacingInv ==
  /\ EmptyRows
  /\ CallsInv
  /\ \A t \in Threads : WritesFar(call[t])
  /\ \A t \in Clients : KeepsTimer(call[t])
  /\ TimerApart
  /\ call[Worker].insert => since >= Shortest \/ Excused

\* The threads: the worker is none of the clients.
LEMMA TwoKinds ==
  Worker \in Threads /\ Worker \notin Clients /\ Clients \subseteq Threads
  /\ Threads = Clients \cup {Worker}
BY ScanSchedulerAssumption DEF Threads

\* The calls a thread keeps after a load or a commit.
LEMMA CallFields ==
  /\ IdleCall.op = "idle" /\ IdleCall.insert = FALSE /\ IdleCall.dirty = {}
  /\ \A new, dirty, ps :
       LET c == [IdleCall EXCEPT !.op = "save", !.new = new, !.dirty = dirty, !.projects = ps]
       IN  /\ c.op = "save" /\ ~c.insert
           /\ c.new = new /\ c.dirty = dirty /\ c.projects = ps
  /\ \A op, new, dirty :
       LET c == [IdleCall EXCEPT !.op = op, !.new = new, !.dirty = dirty]
       IN  c.op = op /\ ~c.insert /\ c.new = new /\ c.dirty = dirty
  /\ \A op, forced :
       LET c == [IdleCall EXCEPT !.op = op, !.forced = forced]
       IN  c.op = op /\ ~c.insert /\ c.dirty = {}
BY SMT DEF IdleCall

\* A timer that is far away stays apart from whatever came before.
LEMMA FarApart ==
  ASSUME NEW a \in Age \cup {None}, NEW d \in Age, Far(a)
  PROVE  Apart(a, d)
BY Ages, SMT DEF Far, Apart, Age

\* Every interval is far away, and so is no timer.
LEMMA IntervalsFar == Far(None) /\ \A i \in Intervals : Far(i)
BY Ages, SMT DEF Far

\* A catch-up just now excuses whatever follows in its tick.
LEMMA ExcusedNow == (TypeOK /\ catchup = 0 => Excused) /\ (TypeOK' /\ catchup' = 0 => Excused')
<1>1. \A d \in Age : 0 <= d
  BY Ages, SMT DEF Age
<1> QED BY <1>1 DEF TypeOK, Excused

\* How the steps other than a tick move the timer: a catch-up, far away, or not.
MovesFar ==
  \/ catchup' = 0
  \/ catchup' = catchup /\ Far(sched'.next)
  \/ /\ catchup' = catchup /\ sched'.next = sched.next
     /\ sched'.enabled => sched.enabled /\ listed' = listed

\* Such a step leaves the saves in flight as harmless as they were.
LEMMA MovedKeeps ==
  ASSUME MovesFar, tracked' = tracked, NEW c, KeepsTimer(c), NEW d, d = c
  PROVE  /\ d.op = "save" /\ "next" \notin d.dirty /\ sched'.enabled /\ ~Far(sched'.next)
              /\ catchup' # 0 =>
              /\ d.new.enabled /\ d.projects \subseteq tracked' => listed' = d.projects
              /\ ~d.new.enabled => "enabled" \in d.dirty
BY DEF MovesFar, KeepsTimer

\* And the timer apart from the last run, unless the run is that of the step.
LEMMA MovedApart ==
  ASSUME TypeOK, TypeOK', SpacingInv, MovesFar,
         since' = since \/ catchup' = 0 \/ Far(sched'.next)
  PROVE  TimerApart'
<1>1. sched'.next \in Age \cup {None} /\ since' \in Age
  BY ZenonT(60) DEF TypeOK, Setting
<1>2. CASE catchup' = 0
  BY <1>2, ExcusedNow DEF TimerApart
<1>3. CASE Far(sched'.next)
  BY <1>1, <1>3, FarApart DEF TimerApart
<1>4. CASE catchup' # 0 /\ ~Far(sched'.next)
  BY <1>4 DEF MovesFar, SpacingInv, TimerApart, Excused
<1> QED BY <1>2, <1>3, <1>4

\* A flush that is no catch-up moves the timer far away or leaves it.
LEMMA FlushedFar ==
  ASSUME TypeOK, NEW c \in Call, WritesFar(c), sched' = Flushed(c)
  PROVE  /\ "next" \in c.dirty => sched'.next = c.new.next
         /\ "next" \notin c.dirty => sched'.next = sched.next
                                     /\ (sched'.enabled => sched.enabled)
         /\ "enabled" \in c.dirty => sched'.enabled = c.new.enabled
         /\ "enabled" \notin c.dirty => sched'.enabled = sched.enabled
<1> DEFINE e == IF "enabled" \in c.dirty THEN c.new.enabled ELSE sched.enabled
           n == IF "next" \in c.dirty THEN c.new.next ELSE sched.next
<1>1. sched'.enabled = e /\ sched'.next = n
  BY SMT DEF Flushed, TypeOK, Setting
<1> QED BY <1>1 DEF WritesFar

\* A step of one thread leaves the calls of the others alone.
LEMMA NewCall ==
  ASSUME TypeOK, NEW t \in Threads, NEW c, call' = [call EXCEPT ![t] = c]
  PROVE  call'[t] = c /\ \A u \in Threads \ {t} : call'[u] = call[u]
BY ZenonT(60) DEF TypeOK

\* What makes a call harmless for its thread.
Harmless(t, c) ==
  /\ WritesFar(c)
  /\ t \in Clients => /\ KeepsTimer(c)
                      /\ c.insert => c.op = "timer"
                      /\ c.op \in {"catch_up", "timer"} => catchup = 0
  /\ t = Worker => /\ c.op \in {"idle", "timer"}
                   /\ c.op = "idle" => ~c.insert
                   /\ c.op = "timer" => loop = "top"
                   /\ c.insert => since >= Shortest \/ Excused

\* The invariant says so of every thread.
LEMMA CallsAreHarmless ==
  /\ SpacingInv <=> EmptyRows /\ TimerApart /\ \A t \in Threads : Harmless(t, call[t])
  /\ SpacingInv' <=> EmptyRows' /\ TimerApart' /\ \A t \in Threads : Harmless(t, call[t])'
BY TwoKinds DEF SpacingInv, Harmless, CallsInv

\* An idle thread is harmless.
LEMMA IdleIsHarmless == \A t \in Threads : Harmless(t, IdleCall) /\ Harmless(t, IdleCall)'
BY CallFields DEF Harmless, WritesFar, KeepsTimer

\* A step of one thread that only changes its call.
LEMMA SpacingLoad ==
  ASSUME TypeOK, SpacingInv, EmptyRows', NEW t \in Threads, NEW c, Harmless(t, c),
         call' = [call EXCEPT ![t] = c],
         UNCHANGED <<sched, listed, tracked, loop, since, catchup>>
  PROVE  SpacingInv'
<1>1. call'[t] = c /\ \A u \in Threads \ {t} : call'[u] = call[u]
  BY NewCall
<1>2. \A u \in Threads : Harmless(u, call'[u])
  BY <1>1, CallsAreHarmless
<1>3. \A u \in Threads : Harmless(u, call[u])'
  <2> SUFFICES ASSUME NEW u \in Threads PROVE Harmless(u, call[u])'
    OBVIOUS
  <2> DEFINE d == call'[u]
  <2>1. Harmless(u, d)
    BY <1>2
  <2> QED BY <2>1 DEF Harmless, WritesFar, KeepsTimer, Excused
<1>4. TimerApart'
  BY DEF SpacingInv, TimerApart, Excused
<1> QED BY <1>3, <1>4, CallsAreHarmless

\* A step that moves the timer and leaves the call of u alone.
LEMMA SpacingOthers ==
  ASSUME TypeOK', SpacingInv, MovesFar, tracked' = tracked,
         NEW u \in Threads, call'[u] = call[u], u = Worker => loop' = loop,
         since' = since \/ catchup' = 0
  PROVE  Harmless(u, call[u])'
<1>1. Harmless(u, call[u])
  BY CallsAreHarmless
<1>2. WritesFar(call[u])'
  BY <1>1 DEF Harmless, WritesFar
<1>3. ASSUME u \in Clients PROVE KeepsTimer(call[u])'
  <2>1. KeepsTimer(call[u])
    BY <1>1, <1>3 DEF Harmless
  <2> QED BY <2>1, MovedKeeps DEF KeepsTimer
<1>4. catchup' = catchup \/ catchup' = 0
  BY DEF MovesFar
<1>5. ASSUME u = Worker, call[u].insert PROVE since' >= Shortest \/ Excused'
  <2>1. CASE catchup' = 0
    BY <2>1, ExcusedNow
  <2>2. CASE catchup' = catchup /\ since' = since
    BY <1>1, <1>5, <2>2 DEF Harmless, Excused
  <2> QED BY <1>4, <2>1, <2>2
<1> QED BY <1>1, <1>2, <1>3, <1>4, <1>5 DEF Harmless

\* A commit of thread t: the others are left alone, and t has nothing more to write.
LEMMA SpacingCommit ==
  ASSUME TypeOK, TypeOK', SpacingInv, EmptyRows', MovesFar, NEW t \in Threads, NEW c,
         call' = [call EXCEPT ![t] = c], c.dirty = {}, ~c.insert,
         c.op = "idle" \/ (t \in Clients /\ c.op = "catch_up" /\ catchup' = 0),
         loop' = loop \/ t = Worker, tracked' = tracked,
         since' = since \/ catchup' = 0 \/ (t = Worker /\ Far(sched'.next))
  PROVE  SpacingInv'
<1>0. t \in Clients => t # Worker
  BY TwoKinds
<1>1. call'[t] = c /\ \A u \in Threads \ {t} : call'[u] = call[u]
  BY NewCall
<1>2. Harmless(t, call[t])'
  BY <1>0, <1>1 DEF Harmless, WritesFar, KeepsTimer
<1>3. \A u \in Threads \ {t} : Harmless(u, call[u])'
  <2> SUFFICES ASSUME NEW u \in Threads \ {t} PROVE Harmless(u, call[u])'
    OBVIOUS
  <2>1. CASE since' = since \/ catchup' = 0
    BY <1>1, <2>1, SpacingOthers
  <2>2. CASE t = Worker
    <3>1. u \in Clients /\ u # Worker
      BY <2>2, TwoKinds
    <3>2. Harmless(u, call[u]) /\ call'[u] = call[u]
      BY <1>1, CallsAreHarmless
    <3>3. WritesFar(call[u])'
      BY <3>2 DEF Harmless, WritesFar
    <3>4. KeepsTimer(call[u])'
      BY <3>1, <3>2, MovedKeeps DEF KeepsTimer, Harmless
    <3> QED BY <3>1, <3>2, <3>3, <3>4 DEF Harmless, MovesFar
  <2> QED BY <2>1, <2>2
<1>4. TimerApart'
  BY MovedApart
<1> QED BY <1>2, <1>3, <1>4, CallsAreHarmless

\* The read of a timer turn, by the worker or by a resume handler: what it will
\* write is far away, and it inserts only when the timer has run out.
LEMMA SpacingRun ==
  ASSUME TypeOK, SpacingInv, EmptyRows', NEW t \in Threads, enqueue_scheduled(t),
         t = Worker => loop = "top",
         t \in Clients => call[t].op = "catch_up"
  PROVE  SpacingInv'
<1> DEFINE c == [TimerCall EXCEPT !.forced = call[t].forced]
<1>1. /\ call' = [call EXCEPT ![t] = c]
      /\ UNCHANGED <<sched, listed, tracked, loop, since, catchup>>
  BY DEF enqueue_scheduled, others
<1>2. /\ c.dirty = TimerCall.dirty /\ c.new = TimerCall.new /\ c.insert = TimerCall.insert
      /\ c.op = "timer"
  BY TimerCallFacts, SMT DEF Call
<1>3. sched.interval \in Intervals
  BY SMT DEF TypeOK, Setting
<1>4. WritesFar(c)
  <2>1. CASE TimerCall.dirty = {}
    BY <1>2, <2>1, TimerCallFacts DEF WritesFar
  <2>2. CASE TimerCall.dirty = {"next"}
    BY <1>2, <1>3, <2>2, TimerCallFacts, IntervalsFar DEF WritesFar
  <2>3. CASE TimerCall.dirty = {"enabled", "next"}
    BY <1>2, <2>3, TimerCallFacts, IntervalsFar DEF WritesFar
  <2> QED BY <2>1, <2>2, <2>3, TimerCallFacts
<1>5. c.insert => since >= Shortest \/ Excused
  <2>1. c.insert => Apart(0, since) \/ Excused
    BY <1>2, TimerCallFacts DEF SpacingInv, TimerApart
  <2>2. since \in Nat /\ 0 # None
    BY Ages DEF TypeOK
  <2>3. Apart(0, since) => since >= Shortest
    BY <2>2, Ages, SMT DEF Apart
  <2> QED BY <2>1, <2>3
<1> HIDE DEF c
<1>6. t \in Clients => catchup = 0
  BY DEF SpacingInv, CallsInv
<1>7. Harmless(t, c)
  BY <1>2, <1>4, <1>5, <1>6 DEF Harmless, KeepsTimer
<1> QED BY <1>1, <1>7, SpacingLoad

\* The write of a timer turn.
LEMMA SpacingTurn ==
  ASSUME TypeOK, TypeOK', SpacingInv, EmptyRows', NEW t \in Threads,
         enqueue_scheduled_commit(t)
  PROVE  SpacingInv'
<1> DEFINE c == call[t]
<1>0. c \in Call /\ c.op = "timer" /\ WritesFar(c)
  BY DEF TypeOK, SpacingInv, enqueue_scheduled_commit
<1>1. /\ call' = [call EXCEPT ![t] = IdleCall] /\ sched' = Flushed(c)
      /\ UNCHANGED <<listed, tracked, catchup>>
      /\ loop' = loop \/ t = Worker
      /\ since' = since \/ c.insert
  BY DEF enqueue_scheduled_commit, others
<1>2. "next" \in c.dirty => Far(sched'.next)
  BY <1>0, <1>1, FlushedFar DEF WritesFar
<1>3. MovesFar
  <2>1. CASE "next" \in c.dirty
    BY <1>1, <1>2, <2>1 DEF MovesFar
  <2>2. CASE "next" \notin c.dirty
    BY <1>0, <1>1, <2>2, FlushedFar DEF MovesFar
  <2> QED BY <2>1, <2>2
<1>4. since' = since \/ catchup' = 0 \/ (t = Worker /\ Far(sched'.next))
  <2>1. CASE t = Worker
    BY <1>0, <1>1, <1>2, <2>1 DEF WritesFar
  <2>2. CASE t \in Clients
    BY <1>0, <1>1, <2>2 DEF SpacingInv, CallsInv
  <2> QED BY <2>1, <2>2, TwoKinds
<1> QED BY <1>1, <1>3, <1>4, CallFields, SpacingCommit

\* The end of a run.
LEMMA SpacingEnd ==
  ASSUME TypeOK, TypeOK', SpacingInv, EmptyRows',
         NEW success \in BOOLEAN, process_job(success)
  PROVE  SpacingInv'
<1> DEFINE trigger == runs[job].trigger
           counts == sched.enabled /\ listed # {}
           full == counts /\ success /\ trigger \in {"AUTOMATIC", "MANUAL"}
           anchors == full \/ (counts /\ trigger = "MANUAL")
<1>1. /\ UNCHANGED <<listed, tracked, call, catchup>>
      /\ sched' = [sched EXCEPT !.next = IF anchors THEN sched.interval ELSE @,
                                !.completed = IF full THEN 0 ELSE @]
      /\ since' = IF trigger = "MANUAL" THEN 0 ELSE since
  BY ZenonT(60) DEF process_job, EndedSetting
<1>2. /\ sched'.enabled = sched.enabled
      /\ sched'.next = IF anchors THEN sched.interval ELSE sched.next
  BY <1>1, SMT DEF TypeOK, Setting
<1>3. Far(sched.interval)
  BY IntervalsFar, ZenonT(60) DEF TypeOK, Setting
<1>4. MovesFar
  BY <1>1, <1>2, <1>3 DEF MovesFar
<1>5. TimerApart'
  <2>1. CASE anchors
    BY <1>2, <1>3, <1>4, <2>1, MovedApart
  <2>2. CASE ~anchors
    BY <1>1, <1>2, <2>2 DEF SpacingInv, TimerApart, Excused
  <2> QED BY <2>1, <2>2
<1>6. ~call[Worker].insert /\ call[Worker].op = "idle"
  BY DEF SpacingInv, CallsInv, process_job
<1>7. \A u \in Threads : Harmless(u, call[u])'
  <2> SUFFICES ASSUME NEW u \in Threads PROVE Harmless(u, call[u])'
    OBVIOUS
  <2>1. Harmless(u, call[u]) /\ call'[u] = call[u]
    BY <1>1, CallsAreHarmless
  <2>2. WritesFar(call[u])'
    BY <2>1 DEF Harmless, WritesFar
  <2>3. u \in Clients => KeepsTimer(call[u])'
    BY <1>1, <1>4, <2>1, MovedKeeps DEF KeepsTimer, Harmless
  <2> QED BY <1>1, <1>6, <2>1, <2>2, <2>3 DEF Harmless
<1> QED BY <1>5, <1>7, CallsAreHarmless

\* The load of a save: enabling the schedule, and any change of interval or
\* projects, moves the timer.
LEMMA SaveCall ==
  ASSUME TypeOK, NEW t \in Clients, NEW enabled \in BOOLEAN, NEW paused \in BOOLEAN,
         NEW interval \in Intervals, NEW ps \in SUBSET Projects,
         set_scheduler(t, enabled, paused, interval, ps)
  PROVE  \E c : /\ call' = [call EXCEPT ![t] = c] /\ Harmless(t, c)
                /\ UNCHANGED <<sched, listed, runs, loop, since, catchup, others>>
<1> DEFINE reanchor == \/ ~sched.enabled \/ sched.interval # interval
                       \/ listed # ps \/ sched.next = None
           new == [sched EXCEPT !.enabled = enabled, !.paused = enabled /\ paused,
                                !.interval = interval,
                                !.next = IF ~enabled THEN None
                                         ELSE IF reanchor THEN interval ELSE @]
           moved == (enabled /\ reanchor) \/ new.next # sched.next
           dirty == {c \in Column \ {"next"} : new[c] # sched[c]}
                      \cup (IF moved THEN {"next"} ELSE {})
           c == [IdleCall EXCEPT !.op = "save", !.new = new, !.dirty = dirty, !.projects = ps]
<1>1. Load(t, "save", c)
  BY DEF set_scheduler
<1>2. /\ new.enabled = enabled
      /\ new.next = IF ~enabled THEN None ELSE IF reanchor THEN interval ELSE sched.next
  BY SMT DEF TypeOK, Setting
<1>3. "next" \in dirty <=> moved
  OBVIOUS
<1>4. "enabled" \in dirty <=> new.enabled # sched.enabled
  BY DEF Column
<1> HIDE DEF new, dirty
<1>5. ~c.insert /\ c.op = "save" /\ c.new = new /\ c.dirty = dirty /\ c.projects = ps
  BY CallFields
<1> HIDE DEF c
<1>6. WritesFar(c)
  <2>1. moved => Far(new.next)
    BY <1>2, IntervalsFar
  <2>2. enabled /\ enabled # sched.enabled => moved
    BY ZenonT(60)
  <2> QED BY <1>2, <1>3, <1>4, <1>5, <2>1, <2>2 DEF WritesFar
<1>7. KeepsTimer(c)
  <2>1. enabled /\ ~moved => listed = ps
    OBVIOUS
  <2>2. sched.enabled /\ ~enabled => "enabled" \in dirty
    BY <1>2, <1>4, ZenonT(60)
  <2> QED BY <1>2, <1>3, <1>5, <2>1, <2>2 DEF KeepsTimer
<1>8. Harmless(t, c)
  BY <1>5, <1>6, <1>7, TwoKinds DEF Harmless
<1> QED BY <1>1, <1>8 DEF Load

\* The requests: each loads a row and keeps what it will write.
LEMMA SpacingRequest ==
  ASSUME TypeOK, SpacingInv, EmptyRows', NEW t \in Clients, Request(t)
  PROVE  SpacingInv'
<1>0. t \in Threads /\ t # Worker
  BY TwoKinds
<1>1. ASSUME NEW op, NEW c, Load(t, op, c), Harmless(t, c) PROVE SpacingInv'
  BY <1>0, <1>1, SpacingLoad DEF Load, others
<1>2. ASSUME NEW enabled \in BOOLEAN, NEW paused \in BOOLEAN, NEW interval \in Intervals,
             NEW ps \in SUBSET Projects, set_scheduler(t, enabled, paused, interval, ps)
      PROVE  SpacingInv'
  <2>1. PICK c : /\ call' = [call EXCEPT ![t] = c] /\ Harmless(t, c)
                 /\ UNCHANGED <<sched, listed, runs, loop, since, catchup, others>>
    BY <1>2, SaveCall
  <2> QED BY <1>0, <2>1, SpacingLoad DEF others
<1>3. ASSUME NEW value \in BOOLEAN, pause_scheduler(t, value) PROVE SpacingInv'
  <2> DEFINE new == [sched EXCEPT !.paused = value]
             dirty == IF value # sched.paused THEN {"paused"} ELSE {}
             c == [IdleCall EXCEPT !.op = "pause", !.new = new, !.dirty = dirty]
  <2>1. Load(t, "pause", c)
    BY <1>3 DEF pause_scheduler
  <2>2. "next" \notin dirty /\ "enabled" \notin dirty
    OBVIOUS
  <2> HIDE DEF new, dirty
  <2>3. ~c.insert /\ c.op = "pause" /\ c.dirty = dirty
    BY CallFields
  <2> HIDE DEF c
  <2>4. Harmless(t, c)
    BY <1>0, <2>2, <2>3 DEF Harmless, WritesFar, KeepsTimer
  <2> QED BY <1>1, <2>1, <2>4
<1>4. CASE toggle_all_schedulers(t)
  <2> DEFINE due == sched.paused /\ sched.next = None
             new == [sched EXCEPT !.paused = ~@, !.next = IF due THEN 0 ELSE @]
             dirty == {"paused"} \cup IF due THEN {"next"} ELSE {}
             c == [IdleCall EXCEPT !.op = "tray", !.new = new, !.dirty = dirty]
  <2>1. Load(t, "tray", c)
    BY <1>4 DEF toggle_all_schedulers
  <2>2. "enabled" \notin dirty
    OBVIOUS
  <2> HIDE DEF new, dirty
  <2>3. ~c.insert /\ c.op = "tray" /\ c.dirty = dirty
    BY CallFields
  <2> HIDE DEF c
  <2>4. Harmless(t, c)
    BY <1>0, <2>2, <2>3 DEF Harmless, WritesFar, KeepsTimer
  <2> QED BY <1>1, <2>1, <2>4
<1>5. CASE resumed(t)
  <2> DEFINE forced == \E s \in Slots : runs[s].status = "RUNNING" /\ runs[s].trigger = "AUTOMATIC"
             c == [IdleCall EXCEPT !.op = "prepare", !.forced = forced]
  <2>1. /\ call' = [call EXCEPT ![t] = c]
        /\ UNCHANGED <<sched, listed, tracked, loop, since, catchup>>
    BY <1>5 DEF resumed, others
  <2> HIDE DEF forced
  <2>2. ~c.insert /\ c.op = "prepare" /\ c.dirty = {}
    BY CallFields
  <2> HIDE DEF c
  <2>3. Harmless(t, c)
    BY <1>0, <2>2 DEF Harmless, WritesFar, KeepsTimer
  <2> QED BY <1>0, <2>1, <2>3, SpacingLoad
<1> QED BY <1>2, <1>3, <1>4, <1>5 DEF Request

\* The commit of a save.  One that leaves a near timer alone finds the projects it
\* keeps still listed, or disables the schedule, or a catch-up came in between.
LEMMA SpacingSave ==
  ASSUME TypeOK, TypeOK', SpacingInv, EmptyRows', NEW t \in Clients, set_scheduler_commit(t)
  PROVE  SpacingInv'
<1> DEFINE c == call[t]
<1>0. t \in Threads /\ c \in Call /\ c.op = "save" /\ WritesFar(c) /\ KeepsTimer(c)
  BY TwoKinds DEF TypeOK, SpacingInv, set_scheduler_commit
<1>1. /\ call' = [call EXCEPT ![t] = IdleCall]
      /\ UNCHANGED <<loop, since, catchup, tracked>>
  BY DEF set_scheduler_commit, others
<1>2. MovesFar
  <2>1. CASE UNCHANGED <<sched, listed>>
    BY <1>1, <2>1 DEF MovesFar
  <2>2. CASE c.projects \subseteq tracked /\ sched' = Flushed(c) /\ listed' = c.projects
    <3>1. CASE "next" \in c.dirty
      BY <1>0, <1>1, <2>2, <3>1, FlushedFar DEF WritesFar, MovesFar
    <3>2. CASE "next" \notin c.dirty /\ sched'.enabled /\ ~Far(sched'.next) /\ catchup # 0
      <4>1. sched'.next = sched.next /\ sched.enabled
        BY <1>0, <2>2, <3>2, FlushedFar
      <4>2. c.new.enabled
        <5>1. "enabled" \in c.dirty => c.new.enabled
          BY <1>0, <2>2, <3>2, FlushedFar
        <5> QED BY <1>0, <3>2, <4>1, <5>1 DEF KeepsTimer
      <4>3. listed = c.projects
        BY <1>0, <2>2, <3>2, <4>1, <4>2 DEF KeepsTimer
      <4> QED BY <1>1, <2>2, <4>1, <4>3 DEF MovesFar
    <3>3. CASE "next" \notin c.dirty /\ (~sched'.enabled \/ Far(sched'.next) \/ catchup = 0)
      BY <1>0, <1>1, <2>2, <3>3, FlushedFar DEF MovesFar
    <3> QED BY <3>1, <3>2, <3>3
  <2> QED BY <2>1, <2>2 DEF set_scheduler_commit
<1> QED BY <1>0, <1>1, <1>2, CallFields, SpacingCommit

\* The other steps of a request that is in.
LEMMA SpacingClient ==
  ASSUME TypeOK, TypeOK', SpacingInv, EmptyRows', NEW t \in Clients, ClientStep(t)
  PROVE  SpacingInv'
<1> DEFINE c == call[t]
<1>0. t \in Threads /\ t # Worker /\ c \in Call /\ WritesFar(c)
  BY TwoKinds DEF TypeOK, SpacingInv
<1>1. CASE set_scheduler_commit(t)
  BY <1>1, SpacingSave
<1>2. CASE write_setting(t)
  <2>1. /\ call' = [call EXCEPT ![t] = IdleCall] /\ sched' = Flushed(c)
        /\ catchup' = IF "next" \in c.dirty THEN 0 ELSE catchup
        /\ UNCHANGED <<listed, loop, since, tracked>>
    BY <1>2 DEF write_setting, others
  <2>2. MovesFar
    BY <1>0, <2>1, FlushedFar DEF MovesFar
  <2> QED BY <1>0, <2>1, <2>2, CallFields, SpacingCommit
<1>3. CASE prepare_catch_up(t)
  <2> DEFINE new == [sched EXCEPT !.next = 0]
             dirty == IF CatchesUp(call[t].forced) THEN {"next"} ELSE {}
             d == [IdleCall EXCEPT !.op = "prepared", !.new = new, !.dirty = dirty]
  <2>1. /\ call' = [call EXCEPT ![t] = d]
        /\ UNCHANGED <<sched, listed, tracked, loop, since, catchup>>
    BY <1>3 DEF prepare_catch_up, others
  <2>2. "enabled" \notin dirty
    OBVIOUS
  <2> HIDE DEF new, dirty
  <2>3. ~d.insert /\ d.op = "prepared" /\ d.dirty = dirty
    BY CallFields
  <2> HIDE DEF d
  <2>4. Harmless(t, d)
    BY <1>0, <2>2, <2>3 DEF Harmless, WritesFar, KeepsTimer
  <2> QED BY <1>0, <2>1, <2>4, SpacingLoad
<1>4. CASE prepare_catch_up_commit(t)
  <2> DEFINE forced == call[t].dirty # {}
             d == [IdleCall EXCEPT !.op = "catch_up", !.forced = forced]
  <2>1. /\ call' = [call EXCEPT ![t] = d] /\ catchup' = 0
        /\ UNCHANGED <<tracked, loop, since>>
    BY <1>4 DEF prepare_catch_up_commit, others
  <2> HIDE DEF forced
  <2>2. ~d.insert /\ d.op = "catch_up" /\ d.dirty = {}
    BY CallFields
  <2> HIDE DEF d
  <2>3. MovesFar
    BY <2>1 DEF MovesFar
  <2> QED BY <1>0, <2>1, <2>2, <2>3, SpacingCommit
<1>5. CASE resume_turn(t)
  BY <1>0, <1>5, SpacingRun DEF resume_turn
<1>6. CASE enqueue_scheduled_commit(t)
  BY <1>0, <1>6, SpacingTurn
<1> QED BY <1>1, <1>2, <1>3, <1>4, <1>5, <1>6 DEF ClientStep

\* Time passes only when no handler is in flight: the timer comes one tick nearer,
\* and the last run and the last catch-up are one tick further away.
LEMMA SpacingTick ==
  ASSUME TypeOK, SpacingInv, EmptyRows', tick
  PROVE  SpacingInv'
<1>1. /\ UNCHANGED <<listed, tracked, call, loop>>
      /\ since' = Older(since) /\ catchup' = Older(catchup)
      /\ \A t \in Threads : call[t].op = "idle"
  BY DEF tick, others
<1>2. /\ sched'.enabled = sched.enabled
      /\ sched'.next = IF sched.next \in {None, 0} THEN sched.next ELSE sched.next - 1
  BY SMT DEF tick, TypeOK, Setting
<1>3. sched.next \in Age \cup {None} /\ since \in Age /\ catchup \in Age
  BY ZenonT(60) DEF TypeOK, Setting
<1>4. Apart(sched.next, since) => Apart(sched'.next, since')
  BY <1>1, <1>2, <1>3, Ages, SMT DEF Apart, Older, Age
<1>5. Excused => Excused'
  BY <1>1, <1>3, Ages, SMT DEF Excused, Older, Age
<1>6. TimerApart'
  BY <1>1, <1>2, <1>4, <1>5 DEF SpacingInv, TimerApart
<1>7. \A t \in Threads : Harmless(t, call[t])'
  <2> SUFFICES ASSUME NEW t \in Threads PROVE Harmless(t, call[t])'
    OBVIOUS
  <2>1. Harmless(t, call[t]) /\ call'[t] = call[t] /\ call[t].op = "idle"
    BY <1>1, CallsAreHarmless
  <2>2. WritesFar(call[t])'
    BY <2>1 DEF Harmless, WritesFar
  <2>3. KeepsTimer(call[t])'
    BY <2>1 DEF KeepsTimer
  <2>4. ~call[t].insert
    BY <2>1, TwoKinds DEF Harmless
  <2> QED BY <2>1, <2>2, <2>3, <2>4 DEF Harmless
<1> QED BY <1>6, <1>7, CallsAreHarmless

\* Deleting a project: a save that names it can no longer commit.
LEMMA SpacingDelete ==
  ASSUME TypeOK, SpacingInv, EmptyRows',
         NEW p \in Projects, NEW current \in BOOLEAN, delete_project(p, current)
  PROVE  SpacingInv'
<1>1. /\ UNCHANGED <<sched, since, catchup, call, loop>>
      /\ listed' = listed \ {p} /\ tracked' = tracked \ {p}
  BY DEF delete_project
<1>2. TimerApart'
  BY <1>1 DEF SpacingInv, TimerApart, Excused
<1>3. \A t \in Threads : Harmless(t, call[t])'
  <2> SUFFICES ASSUME NEW t \in Threads PROVE Harmless(t, call[t])'
    OBVIOUS
  <2>1. Harmless(t, call[t]) /\ call'[t] = call[t]
    BY <1>1, CallsAreHarmless
  <2>2. WritesFar(call[t])'
    BY <2>1 DEF Harmless, WritesFar
  <2>3. ASSUME t \in Clients PROVE KeepsTimer(call[t])'
    <3>1. KeepsTimer(call[t])
      BY <2>1, <2>3 DEF Harmless
    <3>2. call[t].projects \subseteq tracked' => call[t].projects \subseteq tracked
      BY <1>1
    <3>3. call[t].projects \subseteq tracked' /\ listed = call[t].projects => listed' = listed
      BY <1>1
    <3> QED BY <1>1, <3>1, <3>2, <3>3 DEF KeepsTimer
  <2> QED BY <1>1, <2>1, <2>2, <2>3 DEF Harmless, Excused
<1> QED BY <1>2, <1>3, CallsAreHarmless

\* Steps that leave the timer, the projects and the calls alone.
LEMMA SpacingKept ==
  ASSUME SpacingInv, EmptyRows', UNCHANGED <<sched, listed, tracked, since, catchup, call>>,
         loop' = loop \/ loop # "top"
  PROVE  SpacingInv'
<1>1. loop' = loop \/ call[Worker].op = "idle"
  BY DEF SpacingInv, CallsInv
<1> QED BY <1>1 DEF SpacingInv, CallsInv, WritesFar, KeepsTimer, TimerApart, Excused

\* A crash ends every call.
LEMMA SpacingCrash ==
  ASSUME SpacingInv, EmptyRows', crash
  PROVE  SpacingInv'
<1>1. \A t \in Threads : call'[t] = IdleCall
  BY ZenonT(60) DEF crash
<1>2. \A t \in Threads : Harmless(t, call[t])'
  BY <1>1, IdleIsHarmless DEF Harmless, WritesFar, KeepsTimer
<1>3. TimerApart'
  BY DEF crash, SpacingInv, TimerApart, Excused
<1> QED BY <1>2, <1>3, CallsAreHarmless

\* Start-up leaves the timer or catches up.
LEMMA SpacingRestart ==
  ASSUME TypeOK, TypeOK', SpacingInv, EmptyRows', restart
  PROVE  SpacingInv'
<1>1. UNCHANGED <<listed, tracked, loop, call, since>>
  BY DEF restart
<1>2. catchup' = 0 \/ (catchup' = catchup /\ sched' = sched)
  BY DEF restart
<1>3. MovesFar
  BY <1>1, <1>2 DEF MovesFar
<1>4. \A t \in Threads : Harmless(t, call[t])'
  BY <1>1, <1>3, SpacingOthers
<1>5. TimerApart'
  BY <1>1, <1>3, MovedApart
<1> QED BY <1>4, <1>5, CallsAreHarmless

\* Every step keeps the invariant.
LEMMA SpacingStep ==
  ASSUME TypeOK, TypeOK', SpacingInv, [Next]_vars
  PROVE  SpacingInv'
<1>0. EmptyRows' /\ Worker \in Threads /\ Worker \notin Clients
  BY RunsStep, TwoKinds DEF SpacingInv
<1>1. CASE run
  BY <1>0, <1>1, SpacingRun DEF run
<1>2. CASE enqueue_scheduled_commit(Worker)
  BY <1>0, <1>2, SpacingTurn
<1>3. ASSUME NEW success \in BOOLEAN, process_job(success) PROVE SpacingInv'
  BY <1>0, <1>3, SpacingEnd
<1>4. ASSUME NEW t \in Clients, Request(t) PROVE SpacingInv'
  BY <1>0, <1>4, SpacingRequest
<1>5. ASSUME NEW t \in Clients, ClientStep(t) PROVE SpacingInv'
  BY <1>0, <1>5, SpacingClient
<1>6. CASE tick
  BY <1>0, <1>6, SpacingTick
<1>7. ASSUME NEW p \in Projects, NEW current \in BOOLEAN, delete_project(p, current)
      PROVE  SpacingInv'
  BY <1>0, <1>7, SpacingDelete
<1>8. CASE \/ claim_next_job \/ begin_job \/ process_job_dies
           \/ \E ps \in SUBSET Projects : manual(ps)
           \/ cars
           \/ \E s \in Slots : cancel_scan(s)
           \/ \E p \in Projects : patch_project(p)
           \/ license_changes \/ maintenance_changes \/ request_shutdown \/ UNCHANGED vars
  <2>1. UNCHANGED <<sched, listed, tracked, since, catchup, call>>
    BY <1>8 DEF claim_next_job, begin_job, process_job_dies, manual, cars, enqueue, cancel_scan,
       patch_project, license_changes, maintenance_changes, request_shutdown, others, vars
  <2>2. loop' = loop \/ loop # "top"
    BY <1>8 DEF claim_next_job, begin_job, process_job_dies, manual, cars, enqueue, cancel_scan,
       patch_project, license_changes, maintenance_changes, request_shutdown, others, vars
  <2> QED BY <1>0, <2>1, <2>2, SpacingKept
<1>9. CASE crash
  BY <1>0, <1>9, SpacingCrash
<1>10. CASE restart
  BY <1>0, <1>10, SpacingRestart
<1> QED BY <1>1, <1>2, <1>3, <1>4, <1>5, <1>6, <1>7, <1>8, <1>9, <1>10 DEF Next, WorkerStep

\* The initial state: no automatic run has been inserted, and no timer is set.
LEMMA SpacingInit == Init => SpacingInv
<1> SUFFICES ASSUME Init PROVE SpacingInv
  OBVIOUS
<1>1. EmptyRows
  BY ZenonT(60) DEF Init, EmptyRows, NoRun
<1>2. \A t \in Threads : call[t] = IdleCall
  BY ZenonT(60) DEF Init
<1>3. \A t \in Threads : Harmless(t, call[t])
  BY <1>2, IdleIsHarmless
<1>4. sched.next = None
  <2>1. NoSetting.next = None
    BY DEF NoSetting
  <2>2. [NoSetting EXCEPT !.enabled = TRUE, !.interval = Longest].next = None
    BY SMT DEF NoSetting
  <2> QED BY <2>1, <2>2, ZenonT(60) DEF Init
<1>5. TimerApart
  BY <1>4 DEF TimerApart, Apart
<1> QED BY <1>1, <1>3, <1>5, CallsAreHarmless

\* An automatic run is inserted only when the shortest interval has passed since the
\* last one was inserted and since the last manual refresh ended, or when a catch-up
\* came after them: for any number of requests in flight with stale rows, resume
\* signals, ends of runs, crashes and restarts.
THEOREM AutomaticSpacing == Spec => AutomaticRunsAreSpaced
<1> DEFINE Spaced == \A s \in Slots : ~Live(s) /\ runs'[s].trigger = "AUTOMATIC" =>
                                        since >= Shortest \/ catchup <= since
<1>1. Init => TypeOK /\ SpacingInv
  BY InitType, SpacingInit
<1>2. TypeOK /\ SpacingInv /\ [Next]_vars => (TypeOK /\ SpacingInv)'
  BY NextType, SpacingStep
<1>3. TypeOK /\ SpacingInv /\ [Next]_vars => [Spaced]_vars
  <2> SUFFICES ASSUME TypeOK, SpacingInv, [Next]_vars PROVE Spaced
    OBVIOUS
  <2>1. CASE InsertsNone
    <3>1. \A s \in Slots : ~Live(s) => runs[s].trigger = "NONE"
      BY DEF SpacingInv, EmptyRows
    <3> QED BY <2>1, <3>1, ZenonT(60) DEF InsertsNone
  <2>2. ASSUME NEW t \in Threads, Inserts(t) PROVE since >= Shortest \/ Excused
    <3>1. Harmless(t, call[t]) /\ call[t].insert /\ call[t].op = "timer"
      BY <2>2, CallsAreHarmless DEF Inserts, enqueue_scheduled_commit
    <3>2. CASE t = Worker
      BY <3>1, <3>2 DEF Harmless
    <3>3. CASE t \in Clients
      BY <3>1, <3>3, ExcusedNow DEF Harmless
    <3> QED BY <3>2, <3>3, TwoKinds
  <2> QED BY <2>1, <2>2, RunsStep DEF SpacingInv, Excused
<1> QED BY <1>1, <1>2, <1>3, PTL DEF Spec, AutomaticRunsAreSpaced

=============================================================================
