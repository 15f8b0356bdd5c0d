--------------------------- MODULE DetailPoolProofs ---------------------------
(***************************************************************************)
(* For any number of threads, tasks and queue slots: no task is duplicated *)
(* and none is lost while results are collected, and the pool implements   *)
(* the safety part of DetailReading.                                       *)
(***************************************************************************)
EXTENDS DetailPool, FiniteSetTheorems, FunctionTheorems, SequenceTheorems, TLAPS

-----------------------------------------------------------------------------
(* The inductive invariant, in parts *)

Busy == {"turn", "read"}

\* A thread holds a task from the moment it takes one until its result is put;
\* only a stop makes a thread leave, and only close puts tokens.
ThreadInv ==
  /\ \A w \in Workers : pc[w] \in Busy => item[w] \in TaskSet
  /\ \A w \in Workers : pc[w] \notin Busy \cup {"exit"} => item[w] = Stop
  /\ \A w \in Workers : pc[w] = "exit" => stop
  /\ \A i \in DOMAIN tasks : tasks[i] = Stop => stop
  /\ main \in {"open", "collect"} <=> ~stop
  /\ main = "open" =>
       /\ ~start
       /\ tasks = <<>> /\ pending = <<>> /\ results = <<>> /\ delivered = <<>>
       /\ \A w \in Workers : pc[w] \in {"start", "ready", "done"}

TypeInv == TypeOK /\ ThreadInv

\* No task occurs twice in q, and none occurs in p and in q.
Inj(q) == \A i, j \in DOMAIN q : q[i] = q[j] /\ q[i] # Stop => i = j
Apart(p, q) == \A i \in DOMAIN p, j \in DOMAIN q : p[i] = q[j] => p[i] = Stop

OnceInv ==
  /\ Inj(pending) /\ Inj(tasks) /\ Inj(item) /\ Inj(results) /\ Inj(delivered)
  /\ Apart(pending, tasks) /\ Apart(pending, item) /\ Apart(pending, results) /\ Apart(pending, delivered)
  /\ Apart(tasks, item) /\ Apart(tasks, results) /\ Apart(tasks, delivered)
  /\ Apart(item, results) /\ Apart(item, delivered) /\ Apart(results, delivered)

In(t, q) == \E i \in DOMAIN q : q[i] = t

\* While results are collected every task is somewhere.
KeptInv ==
  main = "collect" =>
    \A t \in TaskSet : In(t, pending) \/ In(t, tasks) \/ In(t, item) \/ In(t, results) \/ In(t, delivered)

PoolInv == TypeInv /\ OnceInv /\ KeptInv

-----------------------------------------------------------------------------
(* Queues *)

\* The numbers the pool is built with.
LEMMA Sizes ==
  /\ Cardinality(Workers) \in Nat /\ Capacity \in Nat
  /\ TaskSet \subseteq Nat /\ Stop \notin TaskSet /\ Tasks \in Seq(TaskSet)
<1>1. Cardinality(Workers) \in Nat
  BY DetailPoolAssumption, FS_CardinalityType
<1>2. Capacity \in Nat
  BY <1>1, DetailPoolAssumption, SMT DEF Capacity
<1>3. TaskSet \subseteq Nat /\ Stop \notin TaskSet /\ Tasks \in Seq(TaskSet)
  BY DetailPoolAssumption, SMT DEF TaskSet
<1> QED BY <1>1, <1>2, <1>3

\* What _fill_task_queue does, element by element.
LEMMA FillFacts ==
  ASSUME NEW q \in Seq(TaskSet \cup {Stop}), NEW p \in Seq(TaskSet), Len(q) <= Capacity, Fill(q, p)
  PROVE  \E n \in 0 .. Len(p) :
           /\ tasks' \in Seq(TaskSet \cup {Stop}) /\ pending' \in Seq(TaskSet)
           /\ Len(tasks') = Len(q) + n /\ Len(tasks') <= Capacity /\ Len(pending') = Len(p) - n
           /\ \A i \in 1 .. Len(q) : tasks'[i] = q[i]
           /\ \A i \in (Len(q) + 1) .. (Len(q) + n) : tasks'[i] = p[i - Len(q)]
           /\ \A i \in 1 .. (Len(p) - n) : pending'[i] = p[i + n]
<1> DEFINE n == Fits(q, p)
<1>1. n \in 0 .. Len(p) /\ Len(q) + n <= Capacity
  BY Sizes, SMT DEF Fits
<1>2. tasks' = q \o SubSeq(p, 1, n) /\ pending' = SubSeq(p, n + 1, Len(p))
  BY DEF Fill
<1> HIDE DEF n
<1>3. /\ SubSeq(p, 1, n) \in Seq(TaskSet) /\ Len(SubSeq(p, 1, n)) = n
      /\ \A i \in 1 .. n : SubSeq(p, 1, n)[i] = p[i]
  BY <1>1, SMT
<1>4. /\ pending' \in Seq(TaskSet) /\ Len(pending') = Len(p) - n
      /\ \A i \in 1 .. (Len(p) - n) : pending'[i] = p[i + n]
  BY <1>1, <1>2, SMT
<1> DEFINE front == SubSeq(p, 1, n)
<1> HIDE DEF front
<1>5. /\ tasks' \in Seq(TaskSet \cup {Stop}) /\ Len(tasks') = Len(q) + n
      /\ \A i \in 1 .. Len(q) : tasks'[i] = q[i]
      /\ \A i \in (Len(q) + 1) .. (Len(q) + n) : tasks'[i] = p[i - Len(q)]
  <2>1. /\ front \in Seq(TaskSet) /\ Len(front) = n /\ \A i \in 1 .. n : front[i] = p[i]
        /\ tasks' = q \o front
    BY <1>2, <1>3 DEF front
  <2>2. front \in Seq(TaskSet \cup {Stop}) /\ Len(q) \in Nat
    BY <2>1, SMT
  <2>3. /\ tasks' \in Seq(TaskSet \cup {Stop}) /\ Len(tasks') = Len(q) + n
        /\ \A i \in 1 .. Len(q) + n : tasks'[i] = IF i <= Len(q) THEN q[i] ELSE front[i - Len(q)]
    BY <2>1, <2>2, ConcatProperties
  <2>4. \A i \in 1 .. Len(q) : tasks'[i] = q[i]
    BY <1>1, <2>2, <2>3, SMT
  <2>5. \A i \in (Len(q) + 1) .. (Len(q) + n) : tasks'[i] = p[i - Len(q)]
    BY <1>1, <2>1, <2>2, <2>3, SMT
  <2> QED BY <2>3, <2>4, <2>5
<1> QED BY <1>1, <1>4, <1>5

\* The threads keep the types.
LEMMA ThreadType ==
  ASSUME TypeInv, NEW w \in Workers, run_worker(w)
  PROVE  TypeInv'
<1>1. ASSUME NEW ok \in BOOLEAN, open_reader(w, ok) PROVE TypeInv'
  BY <1>1, Sizes, SMT
    DEF open_reader, Goes, coordinator, TypeInv, TypeOK, ThreadInv, Busy, WorkerPc, MainPc
<1>2. ASSUME wait_start(w) PROVE TypeInv'
  BY <1>2, Sizes, SMT
    DEF wait_start, Goes, coordinator, TypeInv, TypeOK, ThreadInv, Busy, WorkerPc, MainPc
<1>3. ASSUME test_stop(w) PROVE TypeInv'
  BY <1>3, Sizes, SMT
    DEF test_stop, Goes, coordinator, TypeInv, TypeOK, ThreadInv, Busy, WorkerPc, MainPc
<1>4. ASSUME get_task(w) PROVE TypeInv'
  BY <1>4, Sizes, SMT
    DEF get_task, Goes, coordinator, TypeInv, TypeOK, ThreadInv, Busy, WorkerPc, MainPc
<1>5. ASSUME wait_for_source_turn(w) PROVE TypeInv'
  BY <1>5, Sizes, SMT
    DEF wait_for_source_turn, Goes, coordinator, TypeInv, TypeOK, ThreadInv, Busy, WorkerPc, MainPc
<1>6. ASSUME read_detail(w) PROVE TypeInv'
  <2>1. item[w] \in TaskSet
    BY <1>6 DEF read_detail, Goes, TypeInv, ThreadInv, Busy
  <2>2. results' \in Seq(TaskSet)
    BY <1>6, <2>1, SMT DEF read_detail, TypeInv, TypeOK
  <2>3. pc' \in [Workers -> WorkerPc] /\ item' \in [Workers -> TaskSet \cup {Stop}]
    BY <1>6, SMT DEF read_detail, Goes, TypeInv, TypeOK, WorkerPc
  <2>4. TypeOK'
    BY <1>6, <2>2, <2>3 DEF read_detail, coordinator, TypeInv, TypeOK
  <2>5. main # "open"
    BY <1>6 DEF read_detail, Goes, TypeInv, ThreadInv
  <2>6. \A v \in Workers : pc'[v] = (IF v = w THEN "top" ELSE pc[v])
                          /\ item'[v] = (IF v = w THEN Stop ELSE item[v])
    BY <1>6 DEF read_detail, Goes, TypeInv, TypeOK
  <2>7. ThreadInv'
    BY <1>6, <2>5, <2>6 DEF read_detail, coordinator, TypeInv, ThreadInv, Busy
  <2> QED BY <2>4, <2>7 DEF TypeInv
<1>7. ASSUME close_reader(w) PROVE TypeInv'
  BY <1>7, Sizes, SMT
    DEF close_reader, Goes, coordinator, TypeInv, TypeOK, ThreadInv, Busy, WorkerPc, MainPc
<1> QED BY <1>1, <1>2, <1>3, <1>4, <1>5, <1>6, <1>7 DEF run_worker

\* Neither hear_ready nor take_result changes a thread: this is what is left to show.
LEMMA KeepsThreads ==
  ASSUME TypeInv, UNCHANGED threads, stop' = TRUE \/ UNCHANGED stop, main' # "open",
         \A i \in DOMAIN tasks' : tasks'[i] = Stop => stop',
         main' \in {"open", "collect"} <=> ~stop'
  PROVE  ThreadInv'
BY SMT DEF TypeInv, TypeOK, ThreadInv, threads

\* The coordinator keeps the types.
LEMMA CoordinatorType ==
  ASSUME TypeInv, process_details
  PROVE  TypeInv'
<1>0. CASE start_timeout
  BY <1>0, Sizes, SMT DEF start_timeout, Close, threads, TypeInv, TypeOK, ThreadInv, MainPc
<1>1. CASE all_taken
  BY <1>1, Sizes, SMT DEF all_taken, Close, threads, TypeInv, TypeOK, ThreadInv, MainPc
<1>2. CASE put_stop
  <2>1. CASE stops > 0 /\ Len(tasks) < Capacity /\ tasks' = Append(tasks, Stop) /\ stops' = stops - 1
             /\ UNCHANGED main
    <3>1. tasks' \in Seq(TaskSet \cup {Stop}) /\ Len(tasks') <= Capacity /\ stops' \in 0 .. Cardinality(Workers)
      BY <2>1, Sizes, SMT DEF TypeInv, TypeOK
    <3>2. TypeOK'
      BY <1>2, <2>1, <3>1, SMT DEF put_stop, threads, TypeInv, TypeOK
    <3>3. stop /\ main' \notin {"open", "collect"}
      BY <1>2, <2>1 DEF put_stop, TypeInv, ThreadInv
    <3>4. ThreadInv'
      BY <1>2, <3>3, KeepsThreads DEF put_stop
    <3> QED BY <3>2, <3>4 DEF TypeInv
  <2>2. CASE main' = "join" /\ stops' = 0 /\ UNCHANGED tasks
    BY <1>2, <2>2, Sizes, SMT DEF put_stop, threads, TypeInv, TypeOK, ThreadInv, MainPc
  <2> QED BY <1>2, <2>1, <2>2 DEF put_stop
<1>3. CASE relaunch
  BY <1>3, SMT DEF relaunch, threads, TypeInv, TypeOK, ThreadInv, MainPc
<1>4. ASSUME NEW w \in Workers, join(w) PROVE TypeInv'
  BY <1>4, SMT DEF join, threads, TypeInv, TypeOK, ThreadInv, MainPc
<1>5. CASE hear_ready
  <2> DEFINE all == Append(heard, Head(ready))
  <2>1. ready' \in Seq(BOOLEAN) /\ heard' \in Seq(BOOLEAN)
    <3>1. Head(ready) \in BOOLEAN /\ Tail(ready) \in Seq(BOOLEAN)
      BY <1>5, HeadTailProperties DEF hear_ready, TypeInv, TypeOK
    <3> QED BY <1>5, <3>1, AppendProperties DEF hear_ready, TypeInv, TypeOK
  <2>2. CASE UNCHANGED <<tasks, pending, stop, start, main, stops>>
    BY <1>5, <2>1, <2>2, SMT DEF hear_ready, threads, TypeInv, TypeOK, ThreadInv
  <2>3. CASE start' = TRUE /\ main' = "collect" /\ Fill(tasks, Tasks) /\ UNCHANGED <<stop, stops>>
    <3>1. tasks = <<>> /\ ~stop
      BY <1>5 DEF hear_ready, TypeInv, ThreadInv
    <3>2. PICK n \in 0 .. Len(Tasks) :
            /\ tasks' \in Seq(TaskSet \cup {Stop}) /\ pending' \in Seq(TaskSet)
            /\ Len(tasks') = Len(tasks) + n /\ Len(tasks') <= Capacity
            /\ \A i \in (Len(tasks) + 1) .. (Len(tasks) + n) : tasks'[i] = Tasks[i - Len(tasks)]
      BY <2>3, Sizes, FillFacts DEF TypeInv, TypeOK
    <3>3. TypeOK'
      BY <1>5, <2>1, <2>3, <3>2 DEF hear_ready, threads, TypeInv, TypeOK, MainPc
    <3>4. \A i \in DOMAIN tasks' : tasks'[i] # Stop
      BY <3>1, <3>2, Sizes, SMT
    <3>5. UNCHANGED threads
      BY <1>5 DEF hear_ready
    <3>6. ThreadInv'
      BY <2>3, <3>1, <3>4, <3>5, KeepsThreads
    <3> QED BY <3>3, <3>6 DEF TypeInv
  <2>4. CASE Close /\ UNCHANGED <<tasks, pending>>
    BY <1>5, <2>1, <2>4, Sizes, SMT DEF hear_ready, Close, threads, TypeInv, TypeOK, ThreadInv, MainPc
  <2> QED BY <1>5, <2>2, <2>3, <2>4 DEF hear_ready
<1>6. CASE take_result
  <2>1. Head(results) \in TaskSet /\ results' \in Seq(TaskSet) /\ delivered' \in Seq(TaskSet)
    <3>1. Head(results) \in TaskSet /\ Tail(results) \in Seq(TaskSet)
      BY <1>6, HeadTailProperties DEF take_result, TypeInv, TypeOK
    <3> QED BY <1>6, <3>1, AppendProperties DEF take_result, TypeInv, TypeOK
  <2>2. PICK n \in 0 .. Len(pending) :
          /\ tasks' \in Seq(TaskSet \cup {Stop}) /\ pending' \in Seq(TaskSet)
          /\ Len(tasks') = Len(tasks) + n /\ Len(tasks') <= Capacity
          /\ \A i \in 1 .. Len(tasks) : tasks'[i] = tasks[i]
          /\ \A i \in (Len(tasks) + 1) .. (Len(tasks) + n) : tasks'[i] = pending[i - Len(tasks)]
    BY <1>6, FillFacts DEF take_result, TypeInv, TypeOK
  <2>3. UNCHANGED <<stop, start, main, stops>> \/ Close
    BY <1>6 DEF take_result
  <2>4. TypeOK'
    <3>1. /\ stop' \in BOOLEAN /\ start' \in BOOLEAN /\ main' \in MainPc
          /\ stops' \in 0 .. Cardinality(Workers)
      <4>1. CASE UNCHANGED <<stop, start, main, stops>>
        BY <4>1 DEF TypeInv, TypeOK
      <4>2. CASE Close
        BY <4>2, Sizes, SMT DEF Close, MainPc
      <4> QED BY <2>3, <4>1, <4>2
    <3> QED BY <1>6, <2>1, <2>2, <3>1 DEF take_result, threads, TypeInv, TypeOK
  <2>5. main = "collect" /\ ~stop /\ UNCHANGED threads
    BY <1>6 DEF take_result, TypeInv, ThreadInv
  <2>6. \A i \in DOMAIN tasks' : tasks'[i] # Stop
    <3>1. \A i \in 1 .. Len(tasks) : tasks[i] # Stop
      BY <2>5, SMT DEF TypeInv, TypeOK, ThreadInv
    <3>2. \A i \in 1 .. Len(pending) : pending[i] # Stop
      BY Sizes, SMT DEF TypeInv, TypeOK
    <3>3. Len(tasks) \in Nat /\ Len(pending) \in Nat /\ DOMAIN tasks' = 1 .. (Len(tasks) + n)
      BY <2>2, SMT DEF TypeInv, TypeOK
    <3> SUFFICES ASSUME NEW i \in 1 .. (Len(tasks) + n) PROVE tasks'[i] # Stop
      BY <3>3
    <3>4. i \in 1 .. Len(tasks) \/ (i \in (Len(tasks) + 1) .. (Len(tasks) + n) /\ i - Len(tasks) \in 1 .. Len(pending))
      BY <3>3, SMT
    <3> QED BY <2>2, <3>1, <3>2, <3>4
  <2>7. ThreadInv'
    <3>1. CASE UNCHANGED <<stop, start, main, stops>>
      BY <2>5, <2>6, <3>1, KeepsThreads
    <3>2. CASE Close
      BY <2>5, <2>6, <3>2, KeepsThreads DEF Close
    <3> QED BY <2>3, <3>1, <3>2
  <2> QED BY <2>4, <2>7 DEF TypeInv
<1> QED BY <1>0, <1>1, <1>2, <1>3, <1>4, <1>5, <1>6 DEF process_details

-----------------------------------------------------------------------------
(* No task is duplicated *)

\* A thread takes the first task, puts a result or ends.
LEMMA ThreadOnce ==
  ASSUME TypeInv, OnceInv, NEW w \in Workers, run_worker(w)
  PROVE  OnceInv'
<1>1. ASSUME get_task(w) PROVE OnceInv'
  <2>1. /\ tasks \in Seq(TaskSet \cup {Stop}) /\ tasks # <<>>
        /\ item \in [Workers -> TaskSet \cup {Stop}]
    BY <1>1 DEF get_task, TypeInv, TypeOK
  <2>2. /\ DOMAIN tasks' = 1 .. (Len(tasks) - 1) /\ \A i \in DOMAIN tasks' : i + 1 \in DOMAIN tasks /\ tasks'[i] = tasks[i + 1]
        /\ 1 \in DOMAIN tasks
    BY <1>1, <2>1, SMT DEF get_task
  <2>3. /\ DOMAIN item' = DOMAIN item
        /\ \A v \in DOMAIN item : item'[v] = IF v = w THEN tasks[1] ELSE item[v]
    BY <1>1, <2>1, SMT DEF get_task
  <2>4. UNCHANGED <<pending, results, delivered>>
    BY <1>1 DEF get_task, coordinator
  <2>5. Inj(tasks') /\ Inj(item') /\ Apart(tasks', item')
    BY <2>1, <2>2, <2>3, SMT DEF OnceInv, Inj, Apart
  <2>6. Apart(pending, tasks') /\ Apart(tasks', results) /\ Apart(tasks', delivered)
    BY <2>2, SMT DEF OnceInv, Inj, Apart
  <2>7. Apart(pending, item') /\ Apart(item', results) /\ Apart(item', delivered)
    BY <2>2, <2>3, SMT DEF OnceInv, Inj, Apart
  <2> QED BY <2>4, <2>5, <2>6, <2>7 DEF OnceInv
<1>2. ASSUME read_detail(w) PROVE OnceInv'
  <2>1. /\ results \in Seq(TaskSet) /\ item[w] \in TaskSet /\ Stop \notin TaskSet
        /\ item \in [Workers -> TaskSet \cup {Stop}]
    BY <1>2, Sizes DEF read_detail, Goes, TypeInv, TypeOK, ThreadInv, Busy
  <2>2. /\ \A i \in DOMAIN results' : IF i \in DOMAIN results THEN results'[i] = results[i] ELSE results'[i] = item[w]
        /\ \A i, j \in DOMAIN results' : i \notin DOMAIN results /\ j \notin DOMAIN results => i = j
    BY <1>2, <2>1, SMT DEF read_detail
  <2>3. /\ DOMAIN item' = DOMAIN item
        /\ \A v \in DOMAIN item : item'[v] = IF v = w THEN Stop ELSE item[v]
        /\ w \in DOMAIN item
    BY <1>2, <2>1, SMT DEF read_detail
  <2>4. UNCHANGED <<pending, tasks, delivered>>
    BY <1>2 DEF read_detail, coordinator
  <2>5. Inj(results') /\ Inj(item') /\ Apart(item', results')
    BY <2>2, <2>3, SMT DEF OnceInv, Inj, Apart
  <2>6. Apart(pending, results') /\ Apart(tasks, results') /\ Apart(results', delivered)
    BY <2>2, <2>3, SMT DEF OnceInv, Inj, Apart
  <2>7. Apart(pending, item') /\ Apart(tasks, item') /\ Apart(item', delivered)
    BY <2>3, SMT DEF OnceInv, Inj, Apart
  <2> QED BY <2>4, <2>5, <2>6, <2>7 DEF OnceInv
<1>3. ASSUME close_reader(w) PROVE OnceInv'
  <2>1. /\ DOMAIN item' = DOMAIN item
        /\ \A v \in DOMAIN item : item'[v] = IF v = w THEN Stop ELSE item[v]
    BY <1>3, SMT DEF close_reader, TypeInv, TypeOK
  <2>2. UNCHANGED <<pending, tasks, results, delivered>>
    BY <1>3 DEF close_reader, coordinator
  <2> QED BY <2>1, <2>2, SMT DEF OnceInv, Inj, Apart
<1>4. ASSUME UNCHANGED <<pending, tasks, item, results, delivered>> PROVE OnceInv'
  BY <1>4 DEF OnceInv, Inj, Apart
<1>5. (\E ok \in BOOLEAN : open_reader(w, ok)) \/ wait_start(w) \/ test_stop(w) \/ wait_for_source_turn(w)
      => UNCHANGED <<pending, tasks, item, results, delivered>>
  BY DEF open_reader, wait_start, test_stop, wait_for_source_turn, coordinator
<1> QED BY <1>1, <1>2, <1>3, <1>4, <1>5 DEF run_worker

\* A token is no task, the tasks submitted are different ones, and a result
\* that is consumed leaves its queue.
LEMMA CoordinatorOnce ==
  ASSUME TypeInv, OnceInv, process_details
  PROVE  OnceInv'
<1>1. ASSUME UNCHANGED <<pending, tasks, item, results, delivered>> PROVE OnceInv'
  BY <1>1 DEF OnceInv, Inj, Apart
<1>2. start_timeout \/ all_taken \/ relaunch \/ (\E w \in Workers : join(w))
      => UNCHANGED <<pending, tasks, item, results, delivered>>
  BY DEF start_timeout, all_taken, relaunch, join, threads
<1>3. CASE put_stop
  <2>1. CASE tasks' = Append(tasks, Stop)
    <3>1. \A i \in DOMAIN tasks' : IF i \in DOMAIN tasks THEN tasks'[i] = tasks[i] ELSE tasks'[i] = Stop
      BY <2>1, SMT DEF TypeInv, TypeOK
    <3>2. UNCHANGED <<pending, item, results, delivered>>
      BY <1>3 DEF put_stop, threads
    <3>3. Inj(tasks') /\ Apart(pending, tasks') /\ Apart(tasks', item)
      BY <3>1, SMT DEF OnceInv, Inj, Apart
    <3>4. Apart(tasks', results) /\ Apart(tasks', delivered)
      BY <3>1, SMT DEF OnceInv, Inj, Apart
    <3> QED BY <3>2, <3>3, <3>4 DEF OnceInv
  <2>2. CASE UNCHANGED tasks
    BY <1>1, <1>3, <2>2 DEF put_stop, threads
  <2> QED BY <1>3, <2>1, <2>2 DEF put_stop
<1>4. CASE hear_ready
  <2>1. CASE UNCHANGED <<tasks, pending>>
    BY <1>1, <1>4, <2>1 DEF hear_ready, threads
  <2>2. CASE Fill(tasks, Tasks)
    <3>0. /\ main = "open" /\ UNCHANGED <<item, results, delivered>>
          /\ item \in [Workers -> TaskSet \cup {Stop}]
      BY <1>4 DEF hear_ready, threads, TypeInv, TypeOK
    <3>1. /\ tasks = <<>> /\ results = <<>> /\ delivered = <<>>
          /\ UNCHANGED <<item, results, delivered>>
          /\ \A v \in DOMAIN item : item'[v] = Stop
      BY <3>0 DEF TypeInv, ThreadInv, Busy
    <3>2. PICK n \in 0 .. Len(Tasks) :
            /\ tasks' \in Seq(TaskSet \cup {Stop}) /\ pending' \in Seq(TaskSet)
            /\ Len(tasks') = Len(tasks) + n /\ Len(pending') = Len(Tasks) - n
            /\ \A i \in (Len(tasks) + 1) .. (Len(tasks) + n) : tasks'[i] = Tasks[i - Len(tasks)]
            /\ \A i \in 1 .. (Len(Tasks) - n) : pending'[i] = Tasks[i + n]
      BY <2>2, Sizes, FillFacts DEF TypeInv, TypeOK
    <3>3. /\ DOMAIN tasks' = 1 .. n /\ DOMAIN pending' = 1 .. (Len(Tasks) - n)
          /\ \A i \in DOMAIN tasks' : i \in DOMAIN Tasks /\ tasks'[i] = Tasks[i]
          /\ \A i \in DOMAIN pending' : i + n \in DOMAIN Tasks /\ pending'[i] = Tasks[i + n]
      BY <3>1, <3>2, Sizes, SMT
    <3>4. \A i, j \in DOMAIN Tasks : Tasks[i] = Tasks[j] => i = j
      BY DetailPoolAssumption
    <3>5. Inj(tasks') /\ Inj(pending') /\ Apart(pending', tasks')
      BY <3>3, <3>4, SMT DEF Inj, Apart
    <3>6. Inj(item') /\ Apart(pending', item') /\ Apart(tasks', item')
      BY <3>1, SMT DEF Inj, Apart
    <3>7. DOMAIN results' = {} /\ DOMAIN delivered' = {}
      BY <3>1, SMT
    <3> QED BY <3>5, <3>6, <3>7 DEF OnceInv, Inj, Apart
  <2> QED BY <1>4, <2>1, <2>2 DEF hear_ready
<1>5. CASE take_result
  <2>1. PICK n \in 0 .. Len(pending) :
          /\ tasks' \in Seq(TaskSet \cup {Stop}) /\ pending' \in Seq(TaskSet)
          /\ Len(tasks') = Len(tasks) + n /\ Len(pending') = Len(pending) - n
          /\ \A i \in 1 .. Len(tasks) : tasks'[i] = tasks[i]
          /\ \A i \in (Len(tasks) + 1) .. (Len(tasks) + n) : tasks'[i] = pending[i - Len(tasks)]
          /\ \A i \in 1 .. (Len(pending) - n) : pending'[i] = pending[i + n]
    BY <1>5, FillFacts DEF take_result, TypeInv, TypeOK
  <2> DEFINE l == Len(tasks)
  <2>2. /\ l \in Nat /\ n \in Nat /\ DOMAIN tasks = 1 .. l /\ DOMAIN tasks' = 1 .. (l + n)
        /\ DOMAIN pending = 1 .. Len(pending) /\ DOMAIN pending' = 1 .. (Len(pending) - n) /\ Len(pending) \in Nat
    BY <2>1, SMT DEF TypeInv, TypeOK
  <2>3. \A i \in DOMAIN tasks' :
          IF i <= l THEN i \in DOMAIN tasks /\ tasks'[i] = tasks[i]
          ELSE i - l \in DOMAIN pending /\ i - l <= n /\ tasks'[i] = pending[i - l]
    <3> SUFFICES ASSUME NEW i \in 1 .. (l + n)
                 PROVE  IF i <= l THEN i \in DOMAIN tasks /\ tasks'[i] = tasks[i]
                        ELSE i - l \in DOMAIN pending /\ i - l <= n /\ tasks'[i] = pending[i - l]
      BY <2>2
    <3>1. ASSUME i <= l PROVE i \in DOMAIN tasks /\ tasks'[i] = tasks[i]
      <4>1. i \in 1 .. l
        BY <2>2, <3>1, SMT
      <4> QED BY <2>1, <2>2, <4>1
    <3>2. ASSUME ~(i <= l)
          PROVE  i - l \in DOMAIN pending /\ i - l <= n /\ tasks'[i] = pending[i - l]
      <4>1. i \in (l + 1) .. (l + n) /\ i - l \in 1 .. Len(pending) /\ i - l <= n
        BY <2>1, <2>2, <3>2, SMT
      <4> QED BY <2>1, <2>2, <4>1
    <3> QED BY <3>1, <3>2
  <2>4. \A i \in DOMAIN pending' : i + n \in DOMAIN pending /\ i + n > n /\ pending'[i] = pending[i + n]
    BY <2>1, <2>2, SMT
  <2>5. /\ results \in Seq(TaskSet) /\ results # <<>> /\ delivered \in Seq(TaskSet)
        /\ results' = Tail(results) /\ delivered' = Append(delivered, Head(results))
    BY <1>5 DEF take_result, TypeInv, TypeOK
  <2>6. /\ 1 \in DOMAIN results
        /\ \A i \in DOMAIN results' : i \in Nat /\ i + 1 > 1 /\ i + 1 \in DOMAIN results /\ results'[i] = results[i + 1]
        /\ \A i \in DOMAIN delivered' : IF i \in DOMAIN delivered THEN delivered'[i] = delivered[i]
                                                              ELSE delivered'[i] = results[1]
        /\ \A i, j \in DOMAIN delivered' : i \notin DOMAIN delivered /\ j \notin DOMAIN delivered => i = j
    BY <2>5, SMT
  <2>7. UNCHANGED item
    BY <1>5 DEF take_result, threads
  <2> HIDE DEF l
  <2>8. Inj(tasks') /\ Inj(pending')
    BY <2>2, <2>3, <2>4, SMTT(30) DEF OnceInv, Inj, Apart
  <2>9. Apart(pending', tasks')
    BY <2>2, <2>3, <2>4, SMT DEF OnceInv, Inj, Apart
  <2>10. Inj(results') /\ Inj(delivered') /\ Apart(results', delivered')
    BY <2>6, SMT DEF OnceInv, Inj, Apart
  <2>11. Apart(pending', item) /\ Apart(tasks', item)
    BY <2>3, <2>4, SMT DEF OnceInv, Inj, Apart
  <2>12. Apart(item, results') /\ Apart(item, delivered')
    BY <2>6, SMT DEF OnceInv, Inj, Apart
  <2>13. Apart(pending', results') /\ Apart(pending', delivered')
    BY <2>4, <2>6, SMT DEF OnceInv, Inj, Apart
  <2>14. Apart(tasks', results') /\ Apart(tasks', delivered')
    BY <2>3, <2>6, SMT DEF OnceInv, Inj, Apart
  <2>15. Inj(item)
    BY DEF OnceInv
  <2> QED BY <2>7, <2>8, <2>9, <2>10, <2>11, <2>12, <2>13, <2>14, <2>15 DEF OnceInv
<1> QED BY <1>1, <1>2, <1>3, <1>4, <1>5 DEF process_details

-----------------------------------------------------------------------------
(* No task is lost while results are collected *)

\* A task that leaves one place arrives at the next.
LEMMA ThreadKept ==
  ASSUME TypeInv, KeptInv, NEW w \in Workers, run_worker(w)
  PROVE  KeptInv'
<1> SUFFICES ASSUME main' = "collect", NEW t \in TaskSet
             PROVE  In(t, pending') \/ In(t, tasks') \/ In(t, item') \/ In(t, results') \/ In(t, delivered')
  BY DEF KeptInv, In
<1>1. /\ UNCHANGED <<main, stop, pending, delivered>>
      /\ t # Stop /\ ~stop
      /\ In(t, pending) \/ In(t, tasks) \/ In(t, item) \/ In(t, results) \/ In(t, delivered)
  <2>1. UNCHANGED coordinator
    BY DEF run_worker, open_reader, wait_start, test_stop, get_task, wait_for_source_turn, read_detail,
           close_reader
  <2> QED BY <2>1, Sizes DEF coordinator, KeptInv, TypeInv, ThreadInv
<1>2. ASSUME get_task(w) PROVE In(t, tasks') \/ In(t, item') \/ (~In(t, tasks) /\ ~In(t, item) /\ UNCHANGED results)
  <2>1. /\ tasks \in Seq(TaskSet \cup {Stop}) /\ tasks # <<>> /\ UNCHANGED results
        /\ item \in [Workers -> TaskSet \cup {Stop}] /\ item[w] = Stop
    BY <1>2 DEF get_task, Goes, TypeInv, TypeOK, ThreadInv, Busy
  <2>2. \A i \in DOMAIN tasks : i = 1 \/ (i - 1 \in DOMAIN tasks' /\ tasks'[i - 1] = tasks[i])
    BY <1>2, <2>1, SMT DEF get_task
  <2>3. DOMAIN item' = DOMAIN item /\ \A v \in DOMAIN item : item'[v] = IF v = w THEN tasks[1] ELSE item[v]
    BY <1>2, <2>1, SMT DEF get_task
  <2>4. w \in DOMAIN item
    BY <2>1
  <2>5. In(t, tasks) => In(t, tasks') \/ In(t, item')
    BY <2>2, <2>3, <2>4 DEF In
  <2>6. In(t, item) => In(t, item')
    BY <1>1, <2>1, <2>3 DEF In
  <2> QED BY <2>1, <2>5, <2>6
<1>3. ASSUME read_detail(w) PROVE In(t, results') \/ In(t, item') \/ (~In(t, results) /\ ~In(t, item) /\ UNCHANGED tasks)
  <2>1. /\ results \in Seq(TaskSet) /\ item[w] \in TaskSet /\ UNCHANGED tasks
        /\ item \in [Workers -> TaskSet \cup {Stop}]
    BY <1>3 DEF read_detail, Goes, TypeInv, TypeOK, ThreadInv, Busy
  <2>2. \A i \in DOMAIN results : i \in DOMAIN results' /\ results'[i] = results[i]
    BY <1>3, <2>1, SMT DEF read_detail
  <2>3. Len(results) + 1 \in DOMAIN results' /\ results'[Len(results) + 1] = item[w]
    BY <1>3, <2>1, SMT DEF read_detail
  <2>4. DOMAIN item' = DOMAIN item /\ \A v \in DOMAIN item : v # w => item'[v] = item[v]
    BY <1>3, <2>1, SMT DEF read_detail
  <2>5. In(t, results) => In(t, results')
    BY <2>2 DEF In
  <2>6. In(t, item) => In(t, results') \/ In(t, item')
    BY <2>3, <2>4 DEF In
  <2> QED BY <2>1, <2>5, <2>6
<1>4. ~close_reader(w)
  BY <1>1 DEF close_reader, Goes, TypeInv, ThreadInv
<1>5. (\E ok \in BOOLEAN : open_reader(w, ok)) \/ wait_start(w) \/ test_stop(w) \/ wait_for_source_turn(w)
      => UNCHANGED <<tasks, item, results>>
  BY DEF open_reader, wait_start, test_stop, wait_for_source_turn
<1> QED BY <1>1, <1>2, <1>3, <1>4, <1>5 DEF run_worker, In

\* The tasks are all submitted, and a result that is consumed is delivered.
LEMMA CoordinatorKept ==
  ASSUME TypeInv, KeptInv, process_details
  PROVE  KeptInv'
<1> SUFFICES ASSUME main' = "collect", NEW t \in TaskSet
             PROVE  In(t, pending') \/ In(t, tasks') \/ In(t, item') \/ In(t, results') \/ In(t, delivered')
  BY DEF KeptInv, In
<1>1. ~start_timeout /\ ~all_taken /\ ~relaunch /\ \A w \in Workers : ~join(w)
  BY DEF start_timeout, all_taken, relaunch, join, Close
<1>2. ~put_stop
  BY DEF put_stop
<1>3. ASSUME hear_ready PROVE In(t, pending') \/ In(t, tasks')
  <2>1. Fill(tasks, Tasks) /\ tasks = <<>>
    BY <1>3 DEF hear_ready, Close, TypeInv, ThreadInv
  <2>2. PICK n \in 0 .. Len(Tasks) :
          /\ tasks' \in Seq(TaskSet \cup {Stop}) /\ pending' \in Seq(TaskSet)
          /\ Len(tasks') = Len(tasks) + n /\ Len(pending') = Len(Tasks) - n
          /\ \A i \in (Len(tasks) + 1) .. (Len(tasks) + n) : tasks'[i] = Tasks[i - Len(tasks)]
          /\ \A i \in 1 .. (Len(Tasks) - n) : pending'[i] = Tasks[i + n]
    BY <2>1, Sizes, FillFacts, ZenonT(60) DEF TypeInv, TypeOK
  <2>3. PICK i \in DOMAIN Tasks : Tasks[i] = t
    BY DEF TaskSet
  <2>4. CASE i <= n
    <3>1. i \in DOMAIN tasks' /\ tasks'[i] = Tasks[i]
      BY <2>1, <2>2, <2>4, Sizes, SMT
    <3> QED BY <2>3, <3>1 DEF In
  <2>5. CASE ~(i <= n)
    <3>1. i - n \in 1 .. (Len(Tasks) - n) /\ i - n \in DOMAIN pending' /\ (i - n) + n = i
      BY <2>2, <2>5, Sizes, SMT
    <3>2. pending'[i - n] = Tasks[i]
      BY <2>2, <3>1
    <3> QED BY <2>3, <3>1, <3>2 DEF In
  <2> QED BY <2>4, <2>5
<1>4. CASE take_result
  <2>1. /\ main = "collect" /\ UNCHANGED item
        /\ results \in Seq(TaskSet) /\ results # <<>> /\ delivered \in Seq(TaskSet)
        /\ tasks \in Seq(TaskSet \cup {Stop}) /\ pending \in Seq(TaskSet)
        /\ results' = Tail(results) /\ delivered' = Append(delivered, Head(results))
    BY <1>4 DEF take_result, threads, TypeInv, TypeOK
  <2>2. PICK n \in 0 .. Len(pending) :
          /\ tasks' \in Seq(TaskSet \cup {Stop}) /\ pending' \in Seq(TaskSet)
          /\ Len(tasks') = Len(tasks) + n /\ Len(pending') = Len(pending) - n
          /\ \A i \in 1 .. Len(tasks) : tasks'[i] = tasks[i]
          /\ \A i \in (Len(tasks) + 1) .. (Len(tasks) + n) : tasks'[i] = pending[i - Len(tasks)]
          /\ \A i \in 1 .. (Len(pending) - n) : pending'[i] = pending[i + n]
    BY <1>4, FillFacts DEF take_result, TypeInv, TypeOK
  <2>3. In(t, tasks) => In(t, tasks')
    <3>0. DOMAIN tasks = 1 .. Len(tasks) /\ DOMAIN tasks \subseteq DOMAIN tasks'
      BY <2>1, <2>2, SMT
    <3>1. \A i \in DOMAIN tasks : i \in DOMAIN tasks' /\ tasks'[i] = tasks[i]
      BY <2>2, <3>0
    <3> QED BY <3>1 DEF In
  <2>4. In(t, pending) => In(t, pending') \/ In(t, tasks')
    <3> SUFFICES ASSUME NEW i \in DOMAIN pending, pending[i] = t PROVE In(t, pending') \/ In(t, tasks')
      BY DEF In
    <3>1. CASE i <= n
      <4>1. /\ i + Len(tasks) \in (Len(tasks) + 1) .. (Len(tasks) + n) /\ i + Len(tasks) \in DOMAIN tasks'
            /\ (i + Len(tasks)) - Len(tasks) = i
        BY <2>1, <2>2, <3>1, SMT
      <4>2. tasks'[i + Len(tasks)] = pending[i]
        BY <2>2, <4>1
      <4> QED BY <4>1, <4>2 DEF In
    <3>2. CASE ~(i <= n)
      <4>1. i - n \in 1 .. (Len(pending) - n) /\ i - n \in DOMAIN pending' /\ (i - n) + n = i
        BY <2>1, <2>2, <3>2, SMTT(30)
      <4>2. pending'[i - n] = pending[i]
        BY <2>2, <4>1
      <4> QED BY <4>1, <4>2 DEF In
    <3> QED BY <3>1, <3>2
  <2>5. In(t, results) => In(t, results') \/ In(t, delivered')
    <3>1. /\ \A i \in DOMAIN results : i = 1 \/ (i - 1 \in DOMAIN results' /\ results'[i - 1] = results[i])
          /\ Len(delivered) + 1 \in DOMAIN delivered' /\ delivered'[Len(delivered) + 1] = results[1]
      BY <2>1, SMT
    <3> QED BY <3>1 DEF In
  <2>6. In(t, delivered) => In(t, delivered')
    <3>1. \A i \in DOMAIN delivered : i \in DOMAIN delivered' /\ delivered'[i] = delivered[i]
      BY <2>1, SMT
    <3> QED BY <3>1 DEF In
  <2> QED BY <2>1, <2>3, <2>4, <2>5, <2>6 DEF KeptInv, In
<1> QED BY <1>1, <1>2, <1>3, <1>4 DEF process_details

-----------------------------------------------------------------------------
(* The theorems *)

\* The invariant holds in every reachable state.
LEMMA PoolInvariant == Spec => []PoolInv
<1>1. Init => PoolInv
  <2> SUFFICES ASSUME Init PROVE PoolInv
    OBVIOUS
  <2>1. TypeInv
    <3>1. /\ pc \in [Workers -> WorkerPc] /\ item \in [Workers -> TaskSet \cup {Stop}]
          /\ \A w \in Workers : pc[w] = "start" /\ item[w] = Stop
      BY SMT DEF Init, WorkerPc
    <3>2. TypeOK
      <4>1. \A S : <<>> \in Seq(S)
        OBVIOUS
      <4>2. Len(tasks) <= Capacity /\ stops \in 0 .. Cardinality(Workers)
        BY Sizes, SMT DEF Init
      <4> QED BY <3>1, <4>1, <4>2 DEF Init, TypeOK, MainPc
    <3>3. ThreadInv
      BY <3>1 DEF Init, ThreadInv, Busy
    <3> QED BY <3>2, <3>3 DEF TypeInv
  <2>2. /\ DOMAIN pending = {} /\ DOMAIN tasks = {} /\ DOMAIN results = {} /\ DOMAIN delivered = {}
        /\ \A w \in DOMAIN item : item[w] = Stop
    BY SMT DEF Init
  <2>3. OnceInv
    BY <2>2 DEF OnceInv, Inj, Apart
  <2>4. KeptInv
    BY DEF Init, KeptInv
  <2> QED BY <2>1, <2>3, <2>4 DEF PoolInv
<1>2. PoolInv /\ [Next]_vars => PoolInv'
  <2> SUFFICES ASSUME PoolInv, [Next]_vars PROVE PoolInv'
    OBVIOUS
  <2>1. CASE process_details
    BY <2>1, CoordinatorType, CoordinatorOnce, CoordinatorKept DEF PoolInv
  <2>2. ASSUME NEW w \in Workers, run_worker(w) PROVE PoolInv'
    BY <2>2, ThreadType, ThreadOnce, ThreadKept DEF PoolInv
  <2>3. CASE UNCHANGED vars
    <3>1. TypeInv'
      BY <2>3 DEF PoolInv, vars, TypeInv, TypeOK, ThreadInv
    <3>2. OnceInv' /\ KeptInv'
      BY <2>3 DEF PoolInv, vars, OnceInv, Inj, Apart, KeptInv, In
    <3> QED BY <3>1, <3>2 DEF PoolInv
  <2> QED BY <2>1, <2>2, <2>3 DEF Next
<1> QED BY <1>1, <1>2, PTL DEF Spec

\* Types are kept in every reachable state.
THEOREM PoolTypeCorrect == Spec => []TypeOK
<1>1. PoolInv => TypeOK
  BY DEF PoolInv, TypeInv
<1> QED BY <1>1, PoolInvariant, PTL

\* Where no task occurs twice, counting tells whether it occurs.
LEMMA OccursOnce ==
  ASSUME NEW q, NEW t, t # Stop, Inj(q)
  PROVE  Occurs(t, q) = IF In(t, q) THEN 1 ELSE 0
<1> DEFINE S == {i \in DOMAIN q : q[i] = t}
<1>1. CASE In(t, q)
  <2>1. PICK k \in DOMAIN q : q[k] = t
    BY <1>1 DEF In
  <2>2. S = {k}
    BY <2>1 DEF Inj
  <2> QED BY <1>1, <2>2, FS_Singleton DEF Occurs
<1>2. CASE ~In(t, q)
  <2>1. S = {}
    BY <1>2 DEF In
  <2> QED BY <1>2, <2>1, FS_EmptySet DEF Occurs
<1> QED BY <1>1, <1>2

\* A task is in at most one of two places that are apart.
LEMMA OnePlace ==
  ASSUME NEW p, NEW q, NEW t, t # Stop, Apart(p, q)
  PROVE  ~(In(t, p) /\ In(t, q))
BY DEF Apart, In

\* However many threads read however many tasks, none is in two places, and
\* while process_job collects results none is missing.
THEOREM TasksOnce == Spec => []EachTaskOnce
<1>1. PoolInv => EachTaskOnce
  <2> SUFFICES ASSUME PoolInv, NEW i \in DOMAIN Tasks
               PROVE  /\ Copies(Tasks[i]) <= 1
                      /\ main = "collect" /\ ~stop => Copies(Tasks[i]) = 1
    BY DEF EachTaskOnce
  <2> DEFINE t == Tasks[i]
  <2>1. t \in TaskSet /\ t # Stop
    BY Sizes DEF TaskSet
  <2> HIDE DEF t
  <2>2. {w \in Workers : item[w] = t} = {w \in DOMAIN item : item[w] = t}
    BY DEF PoolInv, TypeInv, TypeOK
  <2>3. Copies(t) = Occurs(t, pending) + Occurs(t, tasks) + Occurs(t, results) + Occurs(t, delivered)
                      + Occurs(t, item)
    BY <2>2 DEF Copies, Occurs
  <2>4. /\ Occurs(t, pending) = IF In(t, pending) THEN 1 ELSE 0
        /\ Occurs(t, tasks) = IF In(t, tasks) THEN 1 ELSE 0
        /\ Occurs(t, results) = IF In(t, results) THEN 1 ELSE 0
        /\ Occurs(t, delivered) = IF In(t, delivered) THEN 1 ELSE 0
        /\ Occurs(t, item) = IF In(t, item) THEN 1 ELSE 0
    BY <2>1, OccursOnce DEF PoolInv, OnceInv
  <2>5. /\ ~(In(t, pending) /\ In(t, tasks)) /\ ~(In(t, pending) /\ In(t, item))
        /\ ~(In(t, pending) /\ In(t, results)) /\ ~(In(t, pending) /\ In(t, delivered))
        /\ ~(In(t, tasks) /\ In(t, item)) /\ ~(In(t, tasks) /\ In(t, results))
        /\ ~(In(t, tasks) /\ In(t, delivered)) /\ ~(In(t, item) /\ In(t, results))
        /\ ~(In(t, item) /\ In(t, delivered)) /\ ~(In(t, results) /\ In(t, delivered))
    BY <2>1, OnePlace DEF PoolInv, OnceInv
  <2>6. main = "collect" =>
          In(t, pending) \/ In(t, tasks) \/ In(t, item) \/ In(t, results) \/ In(t, delivered)
    BY <2>1 DEF PoolInv, KeptInv
  <2>7. Copies(t) <= 1 /\ (main = "collect" => Copies(t) = 1)
    BY <2>3, <2>4, <2>5, <2>6, SMT
  <2> QED BY <2>7 DEF t
<1> QED BY <1>1, PoolInvariant, PTL

-----------------------------------------------------------------------------
(* The pool implements DetailReading *)

\* As many different tasks as there are tasks are all of them.
LEMMA AllDelivered ==
  ASSUME TypeInv, OnceInv, Len(delivered) = Len(Tasks)
  PROVE  Reading!Got = TaskSet
<1> DEFINE n == Len(Tasks)
<1>1. n \in Nat /\ DOMAIN Tasks = 1 .. n /\ DOMAIN delivered = 1 .. n /\ delivered \in Seq(TaskSet)
  BY DetailPoolAssumption, SMT DEF TypeInv, TypeOK
<1> HIDE DEF n
<1>2. Reading!Got = {delivered[i] : i \in 1 .. n} /\ TaskSet = {Tasks[i] : i \in 1 .. n}
  BY <1>1 DEF Reading!Got, TaskSet
<1>3. Tasks \in Bijection(1 .. n, TaskSet)
  <2>1. Tasks \in [1 .. n -> TaskSet]
    BY <1>1, Sizes, SMT
  <2>2. \A a, b \in 1 .. n : Tasks[a] = Tasks[b] => a = b
    BY <1>1, DetailPoolAssumption
  <2>3. \A t \in TaskSet : \E a \in 1 .. n : Tasks[a] = t
    BY <1>2
  <2> QED BY <2>1, <2>2, <2>3, Fun_IsBij
<1>4. delivered \in Bijection(1 .. n, Reading!Got)
  <2>1. delivered \in [1 .. n -> Reading!Got]
    BY <1>1, <1>2, SMT
  <2>2. \A a, b \in 1 .. n : delivered[a] = delivered[b] => a = b
    <3>1. \A a \in 1 .. n : delivered[a] # Stop
      BY <1>1, Sizes, SMT
    <3> QED BY <1>1, <3>1 DEF OnceInv, Inj
  <2>3. \A t \in Reading!Got : \E a \in 1 .. n : delivered[a] = t
    BY <1>2
  <2> QED BY <2>1, <2>2, <2>3, Fun_IsBij
<1>5. IsFiniteSet(1 .. n)
  BY <1>1, FS_Interval, SMT
<1>6. ExistsBijection(1 .. n, TaskSet) /\ ExistsBijection(1 .. n, Reading!Got)
  BY <1>3, <1>4 DEF ExistsBijection
<1>7. /\ IsFiniteSet(TaskSet) /\ Cardinality(TaskSet) = Cardinality(1 .. n)
      /\ Cardinality(Reading!Got) = Cardinality(1 .. n)
  BY <1>5, <1>6, FS_Bijection
<1>8. Reading!Got \in SUBSET TaskSet
  BY <1>1, <1>2, SMT
<1> QED BY <1>7, <1>8, FS_Subset

\* Every step of the pool is a step of DetailReading or leaves what its consumer
\* sees unchanged: results come in any order, of tasks that were not delivered
\* before, and nothing but the consumer ends the reading before the last one.
THEOREM PoolReads == Spec => Reading!Spec
<1>1. Init => Reading!Init
  BY DEF Init, Reading!Init, Phase
<1>2. PoolInv /\ [Next]_vars => [Reading!Next]_(Reading!vars)
  <2> SUFFICES ASSUME PoolInv, [Next]_vars PROVE [Reading!Next]_(Reading!vars)
    OBVIOUS
  <2>1. CASE UNCHANGED <<main, delivered>>
    BY <2>1 DEF Reading!vars, Phase
  <2>2. ASSUME NEW w \in Workers, run_worker(w) PROVE UNCHANGED <<main, delivered>>
    BY <2>2
    DEF run_worker, open_reader, wait_start, test_stop, get_task, wait_for_source_turn, read_detail,
        close_reader, coordinator
  <2>3. CASE hear_ready \/ start_timeout
    <3>1. main = "open" /\ UNCHANGED delivered
      BY <2>3 DEF hear_ready, start_timeout
    <3>2. UNCHANGED main \/ main' = "collect" \/ main' = "close"
      BY <2>3 DEF hear_ready, start_timeout, Close
    <3>3. CASE main' = "collect"
      BY <3>1, <3>3 DEF Reading!Next, Reading!Open, Phase
    <3>4. CASE main' = "close"
      BY <3>1, <3>4 DEF Reading!Next, Reading!GiveUp, Phase
    <3> QED BY <2>1, <3>1, <3>2, <3>3, <3>4
  <2>4. CASE take_result
    <3>1. /\ main = "collect" /\ delivered' = Append(delivered, Head(results))
          /\ main' = "collect" \/ main' = "close"
      BY <2>4 DEF take_result, Close
    <3>2. results \in Seq(TaskSet) /\ results # <<>>
      BY <2>4 DEF take_result, PoolInv, TypeInv, TypeOK
    <3>3. 1 \in DOMAIN results /\ Head(results) = results[1] /\ Head(results) \in TaskSet
      BY <3>2, SMT
    <3>4. \A j \in DOMAIN delivered : results[1] # delivered[j]
      BY <3>3, Sizes DEF PoolInv, OnceInv, Apart
    <3>5. Head(results) \in TaskSet \ Reading!Got
      BY <3>3, <3>4 DEF Reading!Got
    <3>6. Reading!Deliver
      BY <3>1, <3>5 DEF Reading!Deliver, Phase
    <3> QED BY <3>6 DEF Reading!Next
  <2>5. CASE all_taken
    <3>1. main = "collect" /\ main' = "close" /\ UNCHANGED delivered
      BY <2>5 DEF all_taken, Close
    <3>2. Reading!Got = TaskSet
      BY <2>5, AllDelivered DEF all_taken, PoolInv
    <3>3. Reading!Complete
      BY <3>1, <3>2 DEF Reading!Complete, Phase
    <3> QED BY <3>3 DEF Reading!Next
  <2>6. CASE put_stop \/ (\E w \in Workers : join(w)) \/ relaunch
    <3>1. main \notin {"open", "collect"} /\ main' \notin {"open", "collect"} /\ UNCHANGED delivered
      BY <2>6 DEF put_stop, join, relaunch
    <3> QED BY <3>1 DEF Reading!vars, Phase
  <2>7. CASE UNCHANGED vars
    BY <2>1, <2>7 DEF vars
  <2> QED BY <2>1, <2>2, <2>3, <2>4, <2>5, <2>6, <2>7 DEF Next, process_details
<1> QED BY <1>1, <1>2, PoolInvariant, PTL DEF Spec, Reading!Spec


=============================================================================
