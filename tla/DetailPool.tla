------------------------------ MODULE DetailPool ------------------------------
(***************************************************************************)
(* The pool of browser threads that reads car details for one project      *)
(* (backend/app/detail_workers.py), together with its coordinator, the     *)
(* part of process_job that closes the list browser, opens the pool,       *)
(* consumes the results and launches the list browser again.               *)
(*                                                                         *)
(* Threads share two queues and two events.  Every step is one operation   *)
(* on them: each is atomic under the lock of its Queue or Event.           *)
(***************************************************************************)
EXTENDS Naturals, FiniteSets, Sequences

CONSTANTS
  Workers,    \* the threads of the pool
  Tasks,      \* detail tasks in the order they are submitted, a sequence
  PerWorker,  \* slots of the task queue per thread (3 in the code)
  Stop        \* the _STOP token

ASSUME DetailPoolAssumption ==
  /\ IsFiniteSet(Workers) /\ Workers # {}
  /\ PerWorker \in Nat \ {0}
  /\ Tasks \in Seq(Nat) /\ Tasks # <<>>
  /\ \A i, j \in DOMAIN Tasks : Tasks[i] = Tasks[j] => i = j
  /\ Stop \notin Nat

VARIABLES
  pc,         \* where each thread of the pool is
  item,       \* the task a thread took
  tasks,      \* _tasks, a bounded queue
  pending,    \* _pending
  results,    \* _results
  ready,      \* _ready: TRUE for a thread that opened its browser
  stop,       \* _stop_event
  start,      \* _start_event
  main,       \* where the coordinator is
  heard,      \* outcomes it took from _ready
  stops,      \* STOP tokens it still has to put
  joined,     \* threads it no longer waits for
  delivered,  \* results it consumed, in order
  list        \* the list browser is open

vars == <<pc, item, tasks, pending, results, ready, stop, start, main, heard, stops,
          joined, delivered, list>>
\* What a thread of the pool leaves alone, and what the coordinator does.
coordinator == <<pending, stop, start, main, heard, stops, joined, delivered, list>>
threads == <<pc, item>>

-----------------------------------------------------------------------------
Capacity == PerWorker * Cardinality(Workers)
TaskSet == {Tasks[i] : i \in DOMAIN Tasks}

\* start: the browser is being opened; ready: it waits for _start_event; top: the
\* loop condition; get: blocked in _tasks.get; turn: _wait_for_source_turn; read:
\* a detail is being read; exit: the browser is being closed.
WorkerPc == {"start", "ready", "top", "get", "turn", "read", "exit", "done"}
\* open: waiting for the threads; collect: consuming results; close: putting STOP
\* tokens; join: waiting for the threads; relaunch: the finally of process_job.
MainPc == {"open", "collect", "close", "join", "relaunch", "end"}

Init ==
  /\ pc = [w \in Workers |-> "start"]
  /\ item = [w \in Workers |-> Stop]
  /\ tasks = <<>>
  /\ pending = <<>>
  /\ results = <<>>
  /\ ready = <<>>
  /\ stop = FALSE
  /\ start = FALSE
  /\ main = "open"
  /\ heard = <<>>
  /\ stops = 0
  /\ joined = {}
  /\ delivered = <<>>
  /\ list = FALSE

-----------------------------------------------------------------------------
(* The threads: _run_worker *)

Goes(w, from, to) == pc[w] = from /\ pc' = [pc EXCEPT ![w] = to]

\* The reader factory returns a browser, or raises.
open_reader(w, ok) ==
  /\ Goes(w, "start", IF ok THEN "ready" ELSE "done")
  /\ ready' = Append(ready, ok)
  /\ UNCHANGED <<item, tasks, results, coordinator>>

wait_start(w) ==
  /\ start /\ Goes(w, "ready", "top")
  /\ UNCHANGED <<item, tasks, results, ready, coordinator>>

test_stop(w) ==
  /\ Goes(w, "top", IF stop THEN "exit" ELSE "get")
  /\ UNCHANGED <<item, tasks, results, ready, coordinator>>

get_task(w) ==
  /\ tasks # <<>>
  /\ Goes(w, "get", IF Head(tasks) = Stop THEN "exit" ELSE "turn")
  /\ item' = [item EXCEPT ![w] = Head(tasks)]
  /\ tasks' = Tail(tasks)
  /\ UNCHANGED <<results, ready, coordinator>>

\* A stop that arrives before or during the wait drops the task.
wait_for_source_turn(w) ==
  /\ Goes(w, "turn", IF stop THEN "exit" ELSE "read")
  /\ UNCHANGED <<item, tasks, results, ready, coordinator>>

\* Mutant: a read that fails has no result.
read_detail_DropsErrors(w) ==
  /\ Goes(w, "read", "top")
  /\ results' \in {results, Append(results, item[w])}
  /\ item' = [item EXCEPT ![w] = Stop]
  /\ UNCHANGED <<tasks, ready, coordinator>>

\* The read ends with a detail or with an error; both are results.
read_detail(w) ==
  /\ Goes(w, "read", "top")
  /\ results' = Append(results, item[w])
  /\ item' = [item EXCEPT ![w] = Stop]
  /\ UNCHANGED <<tasks, ready, coordinator>>

close_reader(w) ==
  /\ Goes(w, "exit", "done")
  /\ item' = [item EXCEPT ![w] = Stop]
  /\ UNCHANGED <<tasks, results, ready, coordinator>>

run_worker(w) ==
  \/ \E ok \in BOOLEAN : open_reader(w, ok)
  \/ wait_start(w) \/ test_stop(w) \/ get_task(w)
  \/ wait_for_source_turn(w) \/ read_detail(w) \/ close_reader(w)

-----------------------------------------------------------------------------
(* The coordinator *)

\* Mutant: a queue without maxsize.
Fits_Unbounded(q, p) == Len(p)

\* _fill_task_queue, from tasks q and pending p: as many as fit.  One step, where a
\* thread can take a task between two put_nowait: the next one then fits as well, and
\* the rest stays pending until the next fill all the same.
Fits(q, p) == IF Len(p) <= Capacity - Len(q) THEN Len(p) ELSE Capacity - Len(q)
Fill(q, p) ==
  /\ tasks' = q \o SubSeq(p, 1, Fits(q, p))
  /\ pending' = SubSeq(p, Fits(q, p) + 1, Len(p))

\* close: both events are set, then one token per thread is put.
Close ==
  /\ stop' = TRUE
  /\ start' = TRUE
  /\ main' = "close"
  /\ stops' = Cardinality(Workers)

\* __enter__ hears of one thread; after the last it starts them and submits the
\* tasks, or raises if every browser failed.
hear_ready ==
  LET all == Append(heard, Head(ready)) IN
  /\ main = "open" /\ ready # <<>>
  /\ ready' = Tail(ready)
  /\ heard' = all
  /\ \/ /\ Len(all) < Cardinality(Workers)
        /\ UNCHANGED <<tasks, pending, stop, start, main, stops>>
     \/ /\ Len(all) = Cardinality(Workers)
        /\ \E i \in DOMAIN all : all[i]
        /\ start' = TRUE
        /\ main' = "collect"
        /\ Fill(tasks, Tasks)
        /\ UNCHANGED <<stop, stops>>
     \/ /\ Len(all) = Cardinality(Workers)
        /\ \A i \in DOMAIN all : ~all[i]
        /\ Close
        /\ UNCHANGED <<tasks, pending>>
  /\ UNCHANGED <<threads, results, joined, delivered, list>>

\* No thread reports for 20 seconds.
start_timeout ==
  /\ main = "open" /\ ready = <<>>
  /\ Close
  /\ UNCHANGED <<threads, tasks, pending, results, ready, heard, joined, delivered, list>>

\* Mutant: the task queue is not refilled as results come in.
take_result_NoRefill ==
  /\ main = "collect" /\ Len(delivered) < Len(Tasks)
  /\ results # <<>>
  /\ results' = Tail(results)
  /\ delivered' = Append(delivered, Head(results))
  /\ \/ UNCHANGED <<stop, start, main, stops>>
     \/ Close
  /\ UNCHANGED <<threads, tasks, pending, ready, heard, joined, list>>

\* One turn of results(count), which blocks until there is one; then process_job
\* goes on, or leaves the pool: a CAPTCHA (which sets the stop first), another
\* exception, or a cancelled scan.
take_result ==
  /\ main = "collect" /\ Len(delivered) < Len(Tasks)
  /\ results # <<>>
  /\ results' = Tail(results)
  /\ delivered' = Append(delivered, Head(results))
  /\ Fill(tasks, pending)
  /\ \/ UNCHANGED <<stop, start, main, stops>>
     \/ Close
  /\ UNCHANGED <<threads, ready, heard, joined, list>>

\* Mutant: the loop ends when no result is waiting.
all_taken_Impatient ==
  /\ main = "collect" /\ results = <<>>
  /\ Close
  /\ UNCHANGED <<threads, tasks, pending, results, ready, heard, joined, delivered, list>>

\* All results are in.
all_taken ==
  /\ main = "collect" /\ Len(delivered) = Len(Tasks)
  /\ Close
  /\ UNCHANGED <<threads, tasks, pending, results, ready, heard, joined, delivered, list>>

\* Mutant: close relies on the stop event alone.
put_stop_None ==
  /\ main = "close"
  /\ main' = "join"
  /\ stops' = 0
  /\ UNCHANGED <<threads, tasks, pending, results, ready, stop, start, heard, joined,
                 delivered, list>>

\* put_nowait: a full queue ends the loop.
put_stop ==
  /\ main = "close"
  /\ \/ /\ stops > 0 /\ Len(tasks) < Capacity
        /\ tasks' = Append(tasks, Stop)
        /\ stops' = stops - 1
        /\ UNCHANGED main
     \/ /\ stops = 0 \/ Len(tasks) = Capacity
        /\ main' = "join"
        /\ stops' = 0
        /\ UNCHANGED tasks
  /\ UNCHANGED <<threads, pending, results, ready, stop, start, heard, joined, delivered, list>>

\* join(timeout=2): the thread ended, or the two seconds are over.
join(w) ==
  /\ main = "join" /\ w \notin joined
  /\ joined' = joined \cup {w}
  /\ main' = IF joined' = Workers THEN "relaunch" ELSE "join"
  /\ UNCHANGED <<threads, tasks, pending, results, ready, stop, start, heard, stops,
                 delivered, list>>

\* The finally of process_job: the list browser is launched again.
relaunch ==
  /\ main = "relaunch"
  /\ list' = TRUE
  /\ main' = "end"
  /\ UNCHANGED <<threads, tasks, pending, results, ready, stop, start, heard, stops,
                 joined, delivered>>

process_details ==
  \/ hear_ready \/ start_timeout \/ take_result \/ all_taken \/ put_stop
  \/ \E w \in Workers : join(w)
  \/ relaunch

-----------------------------------------------------------------------------
(* The specification *)

Next == process_details \/ \E w \in Workers : run_worker(w)

Spec == Init /\ [][Next]_vars

\* Every thread is scheduled, and opening a browser, reading a detail and closing
\* the browser end.  The last is an assumption about Playwright: goto and inner_text
\* have a timeout, title, content, evaluate_all and close have none.
FairSpec == Spec /\ WF_vars(process_details) /\ \A w \in Workers : WF_vars(run_worker(w))

-----------------------------------------------------------------------------
(* Properties *)

\* Every variable keeps the shape of the queue, event or local it stands for.
TypeOK ==
  /\ pc \in [Workers -> WorkerPc]
  /\ item \in [Workers -> TaskSet \cup {Stop}]
  /\ tasks \in Seq(TaskSet \cup {Stop}) /\ Len(tasks) <= Capacity
  /\ pending \in Seq(TaskSet)
  /\ results \in Seq(TaskSet)
  /\ ready \in Seq(BOOLEAN) /\ heard \in Seq(BOOLEAN)
  /\ stop \in BOOLEAN /\ start \in BOOLEAN /\ list \in BOOLEAN
  /\ main \in MainPc
  /\ stops \in 0 .. Cardinality(Workers)
  /\ joined \in SUBSET Workers
  /\ delivered \in Seq(TaskSet)

Occurs(t, q) == Cardinality({i \in DOMAIN q : q[i] = t})
Copies(t) == Occurs(t, pending) + Occurs(t, tasks) + Occurs(t, results) + Occurs(t, delivered)
               + Cardinality({w \in Workers : item[w] = t})

\* A task is never duplicated, and while results are collected it is never lost:
\* the coordinator blocks for as many results as there are tasks, so a lost one
\* would hang the scan.
EachTaskOnce ==
  \A i \in DOMAIN Tasks :
    /\ Copies(Tasks[i]) <= 1
    /\ main = "collect" /\ ~stop => Copies(Tasks[i]) = 1

\* The coordinator never hangs in _results.get or in close, also when a thread
\* failed to open its browser or the scan leaves early.
CoordinatorEnds == <>(main = "end")

Phase ==
  CASE main = "open" -> "waiting"
    [] main = "collect" -> "reading"
    [] OTHER -> "over"

Reading == INSTANCE DetailReading WITH Wanted <- TaskSet, got <- delivered, phase <- Phase

\* The pool keeps the promise of DetailReading: whatever its threads, queues and
\* events do, its consumer sees results of its own tasks, none twice, it is never
\* sent away before the last one, and it is never left waiting.
ImplementsReading == Reading!Promise

\* Threads that outlive the two seconds of join still end: none stays blocked in
\* _tasks.get with its browser open.
ThreadsEnd == \A w \in Workers : stop ~> pc[w] = "done"

=============================================================================
