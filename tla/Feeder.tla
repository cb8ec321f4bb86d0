------------------------------- MODULE Feeder -------------------------------
(* The Feeder (hpps/feeder/feeder.cc): threads that read the records of data *)
(* sources, cut them into batches and put the batches into one bounded queue *)
(* per source, from which the application takes them. An item of a record is *)
(* one ReadSampleAsArray; its rows are the samples, numbered within the      *)
(* record. A thread blocked in Queue::Pop waits until its guard holds.       *)
EXTENDS Integers, Sequences, SequencesExt

CONSTANTS Threads,
          Records,   \* the records of all sources
          Counts,    \* Counts[r][k]: the samples of record r up to its k-th item
          Plans,     \* Plans[i]: the records of the i-th source, in order
          BatchSize,
          MaxQueue   \* max_queue_size

ASSUME FeederAssumption ==
  /\ Counts \in [Records -> Seq(Nat \ {0})] /\ Plans \in Seq(Seq(Records))
  /\ \A r \in Records : \A k, l \in DOMAIN Counts[r] : k < l => Counts[r][k] < Counts[r][l]
  /\ "none" \notin Records
  /\ BatchSize \in Nat \ {0} /\ MaxQueue \in Nat \ {0} /\ IsFiniteSet(Threads)
  /\ \A i, j \in DOMAIN Plans : \A k \in DOMAIN Plans[i], l \in DOMAIN Plans[j] :
       Plans[i][k] = Plans[j][l] => i = j /\ k = l   \* a task opens its own stream

VARIABLES
  entries,   \* how many sources are scheduled
  tasks,     \* tasks[i]: the task queue of source i
  exited,    \* exited[i]: Queue::Exit was called on it
  batches,   \* batches[i]: the queue of finished batches
  stream,    \* stream[r]: the items of record r that are not read yet
  running,   \* running_
  thread,    \* thread[t]: where it is, the entry it looks at, the task it has
  app,       \* the application's thread: where it is, and the source it asks
  taken      \* taken[i]: the batches the application got

vars == <<entries, tasks, exited, batches, stream, running, thread, app, taken>>

Sources == DOMAIN Plans

\* sample_count_ when k items of record r are written, and when all are.
CountAfter(r, k) == IF k = 0 THEN 0 ELSE Counts[r][k]
SampleCount == [r \in Records |-> CountAfter(r, Len(Counts[r]))]

\* Consecutive samples, and the rows of the items of a record.
Samples(from, to) == [j \in 1..(to - from) |-> from + j]
Rows(r) == [k \in DOMAIN Counts[r] |-> Samples(CountAfter(r, k - 1), CountAfter(r, k))]

NoTask == [record |-> "none", curr |-> 0, cache |-> << >>]

Init ==
  /\ entries = 0 /\ running = FALSE
  /\ tasks = [i \in Sources |-> << >>] /\ exited = [i \in Sources |-> FALSE]
  /\ batches = [i \in Sources |-> << >>] /\ taken = [i \in Sources |-> << >>]
  /\ stream = [r \in Records |-> Rows(r)]
  /\ thread = [t \in Threads |-> [at |-> "none", entry |-> 0, task |-> NoTask]]
  /\ app = [at |-> "schedule", entry |-> 0]

-----------------------------------------------------------------------------
(* The application's thread.                                                 *)

\* Schedule and AddTask: a queue with one task per record. Start comes after
\* the last Schedule (binding/python/ddls/feeder/feeder.py:19).
Schedule ==
  /\ app.at = "schedule" /\ entries < Len(Plans)
  /\ entries' = entries + 1
  /\ tasks' = [tasks EXCEPT ![entries + 1] =
       [k \in DOMAIN Plans[entries + 1] |-> [NoTask EXCEPT !.record = Plans[entries + 1][k]]]]
  /\ UNCHANGED <<exited, batches, stream, running, thread, app, taken>>

Start ==
  /\ app.at = "schedule" /\ entries > 0
  /\ running' = TRUE /\ app' = [app EXCEPT !.at = "ready"]
  /\ thread' = [t \in Threads |-> [thread[t] EXCEPT !.at = "while"]]
  /\ UNCHANGED <<entries, tasks, exited, batches, stream, taken>>

\* The full batches a source has. The application asks for no more than that.
BatchCount ==
  [i \in Sources |-> FoldLeft(LAMBDA n, r : n + SampleCount[r] \div BatchSize, 0, Plans[i])]

Ask(i) ==
  /\ app.at = "ready" /\ i <= entries /\ Len(taken[i]) < BatchCount[i]
  /\ app' = [at |-> "pop", entry |-> i]
  /\ UNCHANGED <<entries, tasks, exited, batches, stream, running, thread, taken>>

\* BlockingQueueIterator::Pop: nothing ever calls Exit on the queue of batches.
PopBatch ==
  LET i == app.entry IN
  /\ app.at = "pop" /\ batches[i] # << >>
  /\ taken' = [taken EXCEPT ![i] = Append(@, Head(batches[i]))]
  /\ batches' = [batches EXCEPT ![i] = Tail(@)]
  /\ app' = [at |-> "ready", entry |-> 0]
  /\ UNCHANGED <<entries, tasks, exited, stream, running, thread>>

\* Mutant of StopOrder: the last queue is left out.
StopAllButLast == 1..(entries - 1)

\* The queues on which Stop calls Exit, in order.
StopOrder == 1..entries

\* Stop: running_ is cleared, then Exit is called on each task queue, then the
\* threads are joined and the queues deleted.
Stop ==
  /\ app.at = "ready"
  /\ running' = FALSE /\ app' = [at |-> "stop", entry |-> 1]
  /\ UNCHANGED <<entries, tasks, exited, batches, stream, thread, taken>>
Exit ==
  /\ app.at = "stop" /\ app.entry \in StopOrder
  /\ exited' = [exited EXCEPT ![app.entry] = TRUE]
  /\ app' = [app EXCEPT !.entry = @ + 1]
  /\ UNCHANGED <<entries, tasks, batches, stream, running, thread, taken>>
Join ==
  /\ app.at = "stop" /\ app.entry \notin StopOrder
  /\ \A t \in Threads : thread[t].at = "exited"
  /\ app' = [at |-> "stopped", entry |-> 0]
  /\ UNCHANGED <<entries, tasks, exited, batches, stream, running, thread, taken>>

-----------------------------------------------------------------------------
(* The Feeder's threads.                                                     *)

\* The thread goes on with the next entry of its loop, or starts it again.
NextEntry(t) ==
  LET e == thread[t].entry
  IN  [thread EXCEPT ![t] =
         IF e < entries THEN [at |-> "entry", entry |-> e + 1, task |-> NoTask]
                        ELSE [at |-> "while", entry |-> 0, task |-> NoTask]]

\* Run: while (running_).
Loop(t) ==
  /\ thread[t].at = "while"
  /\ thread' = IF running THEN NextEntry(t) ELSE [thread EXCEPT ![t].at = "exited"]
  /\ UNCHANGED <<entries, tasks, exited, batches, stream, running, app, taken>>

\* Mutant of Full: it is full one batch later.
FullTooLate(i) == Len(batches[i]) > MaxQueue

\* BlockingQueue::Full.
Full(i) == Len(batches[i]) >= MaxQueue

TestFull(t) ==
  /\ thread[t].at = "entry"
  /\ thread' = IF Full(thread[t].entry) THEN NextEntry(t)
               ELSE [thread EXCEPT ![t].at = "pop"]
  /\ UNCHANGED <<entries, tasks, exited, batches, stream, running, app, taken>>

\* ProduceBatch goes on when a full batch is left.
Enough(task) == task.curr + BatchSize <= SampleCount[task.record]

\* Queue::Pop: the first task, or nothing from an empty queue that has exited.
\* A task without a full batch is dropped.
PopTask(t) ==
  LET i == thread[t].entry
      task == Head(tasks[i]) IN
  /\ thread[t].at = "pop"
  /\ \/ /\ tasks[i] # << >> /\ tasks' = [tasks EXCEPT ![i] = Tail(@)]
        /\ thread' = IF Enough(task)
                     THEN [thread EXCEPT ![t] = [at |-> "assemble", entry |-> i, task |-> task]]
                     ELSE NextEntry(t)
     \/ /\ tasks[i] = << >> /\ exited[i]
        /\ thread' = NextEntry(t) /\ UNCHANGED tasks
  /\ UNCHANGED <<entries, exited, batches, stream, running, app, taken>>

\* Mutant of Split: the second part starts one row too early.
SplitOverlap(item, n) == <<SubSeq(item, 1, n), SubSeq(item, n, Len(item))>>

\* RecordIO::Split of an item without counted columns: the first n rows, and
\* the others.
Split(item, n) == <<SubSeq(item, 1, n), SubSeq(item, n + 1, Len(item))>>

\* ReadBatchTensor: whole items, the cached one first, as long as they fit;
\* the next one is split and its second part cached.
ReadBatchTensor(cache, unread) ==
  LET all   == cache \o unread
      Size(n) == Len(FlattenSeq(SubSeq(all, 1, n)))
      whole == Max({n \in 0..Len(all) : Size(n) <= BatchSize})
      rest  == BatchSize - Size(whole)
      last  == Split(all[whole + 1], rest)
  IN  [rows   |-> FlattenSeq(SubSeq(all, 1, whole)) \o (IF rest = 0 THEN << >> ELSE last[1]),
       cache  |-> IF rest = 0 THEN << >> ELSE <<last[2]>>,
       unread |-> SubSeq(all, whole + (IF rest = 0 THEN 1 ELSE 2), Len(all))]

\* AssembleBatch, then the batch is pushed. The thread has the task, and with
\* it the record's stream, to itself.
PushBatch(t) ==
  LET task == thread[t].task IN
  /\ thread[t].at = "assemble"
  /\ \E read \in {ReadBatchTensor(task.cache, stream[task.record])} :
       /\ stream' = [stream EXCEPT ![task.record] = read.unread]
       /\ batches' = [batches EXCEPT ![thread[t].entry] =
            Append(@, [record |-> task.record, rows |-> read.rows])]
       /\ thread' = [thread EXCEPT ![t] =
            [at |-> "return", entry |-> thread[t].entry,
             task |-> [record |-> task.record, curr |-> task.curr + BatchSize,
                       cache |-> read.cache]]]
  /\ UNCHANGED <<entries, tasks, exited, running, app, taken>>

\* Mutant of Unfinished: a record is done when no second batch is left.
UnfinishedForTwo(task) == task.curr + 2 * BatchSize <= SampleCount[task.record]

\* The task goes back to the front of its queue while samples are left.
Unfinished(task) == task.curr < SampleCount[task.record]

PushTask(t) ==
  LET i == thread[t].entry
      task == thread[t].task IN
  /\ thread[t].at = "return"
  /\ tasks' = IF Unfinished(task) THEN [tasks EXCEPT ![i] = <<task>> \o @] ELSE tasks
  /\ thread' = NextEntry(t)
  /\ UNCHANGED <<entries, exited, batches, stream, running, app, taken>>

-----------------------------------------------------------------------------
Step(t) == Loop(t) \/ TestFull(t) \/ PopTask(t) \/ PushBatch(t) \/ PushTask(t)
StopStep == Exit \/ Join

\* The application is done, and need not call Stop.
Finished ==
  /\ app.at = "stopped" \/ (app.at = "ready" /\ \A i \in 1..entries : Len(taken[i]) = BatchCount[i])
  /\ UNCHANGED vars

Next ==
  \/ Schedule \/ Start \/ \E i \in Sources : Ask(i)
  \/ PopBatch \/ Stop \/ StopStep
  \/ \E t \in Threads : Step(t)
  \/ Finished

\* Every thread keeps running, and so do a Pop and a Stop that were called.
Fairness ==
  /\ \A t \in Threads : WF_vars(Step(t))
  /\ WF_vars(PopBatch) /\ WF_vars(StopStep)

Spec == Init /\ [][Next]_vars /\ Fairness

-----------------------------------------------------------------------------
\* All batches of source i so far, and how many of its first k are of record r.
Produced(i) == taken[i] \o batches[i]
BatchesOf(i, r, k) == Cardinality({l \in 1..k : Produced(i)[l].record = r})

\* Whatever the sizes of the items and the threads at work, every batch is full
\* and the batches of a record hold its samples in order, none twice and none
\* left out (feeder.cc:64-148).
SamplesInOrder ==
  \A i \in Sources : \A k \in DOMAIN Produced(i) :
    LET b == Produced(i)[k]
        n == BatchesOf(i, b.record, k - 1)
    IN  b.rows = Samples(n * BatchSize, (n + 1) * BatchSize)

\* The queue of batches exceeds its limit only by threads that tested it before
\* (feeder.cc:54-58).
QueueBound ==
  \A i \in Sources : Len(batches[i]) <= MaxQueue + Cardinality(Threads) - 1

\* A record with a full batch left is in the hands of one thread, or is waiting
\* in its queue: its task is neither lost nor doubled.
TaskOfRecordIsThere ==
  \A i \in 1..entries : \A r \in ToSet(Plans[i]) :
    (BatchesOf(i, r, Len(Produced(i))) + 1) * BatchSize <= SampleCount[r] =>
      Cardinality({k \in DOMAIN tasks[i] : tasks[i][k].record = r})
        + Cardinality({t \in Threads : thread[t].task.record = r}) = 1

\* With one source, a batch the application asks for comes.
OnlySourceServed == (app.at = "pop" /\ entries = 1) ~> (app.at = "ready")

\* A batch the application asks for comes, whichever source it belongs to
\* ("produce one batch for the data source.", feeder.cc:57).
EverySourceServed == (app.at = "pop") ~> (app.at = "ready")

\* Stop returns: every thread leaves the queue it waits in, and its loop.
StopReturns == (app.at = "stop") ~> (app.at = "stopped")
=============================================================================
