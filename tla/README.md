# Models of the ddls parameter server

ddls (`hpps/`) is a parameter server in C++: several processes ("ranks") hold
shards of tables, training workers read them with Get and change them with Add,
and every request travels as a message between actors. This directory holds
TLA+ models of the parts of it where the order of events matters, the TLC
configurations that check them, and proofs checked by TLAPS. Paths and line
numbers below are those of the repository, `hpps/...`.

## The system

### Components and how they interact

| Part | State | Operations | Talks to |
|---|---|---|---|
| **Zoo** `frame/zoo.cc` | the actors of the rank (`zoo_`), its mailbox, the ids of all ranks | Start, Stop, RegisterNode, RegisterActor, Barrier, SendTo, Receive, FinishTrain | owns every actor; the application's main thread runs in it |
| **Actor** `frame/actor.cc`, **Queue** `common/queue.h` | a mailbox, one or more threads | Start, Stop, Receive, Main | base of the four actors below |
| **Communicator** `frame/communicator.cc` | a sending and a receiving thread | ProcessMessage, Communicate, LocalForward | the network and all local mailboxes |
| **Controller** `frame/controller.cc`, rank 0 only | ranks registered, ids given out, ranks in the barrier | RegisterController::Control, BarrierController::Control | through rank 0's communicator |
| **Worker** `frame/worker.cc` | two threads on one mailbox | ProcessGet/Add/Load/Store and the four replies | splits a request among the servers, counts answers |
| **WorkerTable** `frame/table_interface.cc`, **Waiter** `common/waiter.h` | `waitings_`: a Waiter per call | Get, Add, GetAsync, AddAsync, Load, Store, Wait, Reset, Notify | called by the application and by the worker's threads |
| **Server** `frame/server.cc`, **Scheduler**, **SyncScheduler** `frame/scheduler/` | one scheduler per table: two vector clocks, two caches of messages, counts of waiting Adds | ProcessGet, ProcessAdd, ProcessFinishTrain, Load, Store | the server table, replies through the communicator |
| **ArrayTable**, **KVTable** `table/` | the shard, and the caller's buffer on the worker | Partition, ProcessReplyGet, ProcessGet, ProcessAdd | Worker and Scheduler |
| **KVStore** `kvstore/` | slots of an open-addressing table | Get, Set, Clear, AddBlackList, Load, Store | KVTable |
| **Net** `net/zmq_net.h`, `net/mpi_net.h` | sockets or MPI requests | Init, Finalize, Send, Recv, SendTo, RecvFrom | Communicator, Allreduce |
| **Allreduce** `net/allreduce_*.cc` | the maps of the exchange, block offsets | Allreduce, Allgather, ReduceScatter | Net |
| **Feeder** `feeder/` | bounded queues of tasks and batches, threads | Schedule, AddTask, Run, ProduceBatch, AssembleBatch, Stop | RecordIO and the trainer |
| **Allocator**, **Blob** `common/` | free lists by size, reference counts | Alloc, Free, Refer | every message |
| Updaters, Streams, flags, log, timers, C API, Python and YARN bindings | | | |

A request goes: application thread, worker mailbox, one of two worker threads,
communicator mailbox, network, receiving thread of the other communicator,
server mailbox, scheduler, and the reply the same way back, to the worker
mailbox, where one of the worker's threads counts the caller's Waiter down.

### What is hard about it

* *Synchronous tables.* The scheduler must order the requests of all workers so
  that training is bulk-synchronous, whatever order they arrive in, and must
  never leave requests waiting for each other.
* *Waiters.* A Waiter is created by the caller, reset by a worker thread,
  counted down by either worker thread, and deleted by the caller, under two
  locks that are released in between.
* *Two worker threads on one mailbox* reorder requests and replies.
* *Start and stop.* Ranks start and stop at their own pace; messages must not be
  delivered to an actor that is not there yet, and rank 0 must not leave before
  the others have heard from it.
* *Shared state without a lock*: `zoo_`, `data_`, the worker's KVStore, the
  allocator's pool table.

### What makes each part correct

| Part | Correct when |
|---|---|
| SyncScheduler | the i-th Get of every worker returns the same parameters; a Get after j Adds returns the parameters after j Adds of everybody; no CHECK fails; nobody waits in a circle; everything is answered |
| WorkerTable | a wait ends after the last answer, not before; it does end; answers always find their Waiter; a Get fills the buffer of its own caller |
| Zoo, Controller, Communicator | a barrier is one; ids are the same everywhere and without gaps; a message finds its actor and its table; everybody stops; nothing is sent to a rank that has stopped |
| SyncTable (several servers) | the same promise on every server at once, also when some workers leave early; nobody waits in a circle across servers |
| KVStore, KVTable | the table is a map: a stored key is found with its value, two keys never share memory, a Get brings every key it asked for, Load gives back what Store wrote |
| Feeder, RecordIO | the batches of a record hold its samples in order, none twice and none left out; no record is lost between threads; a batch that is asked for comes; Stop ends every thread |
| Allreduce | every rank ends with the sum of all inputs, both ends of an exchange agree on its length, nobody waits for a message that is not sent |
| Allocator, Blob | the count of a block is the number of its blobs, every block is in one place, a blob keeps its bytes |

`PROJECT.json` lists the hazards at their lines, with the properties that cover
them, and a note where a property holds only under a condition or where there is
none.

## Modules

```
VectorClock <- SyncServer <- SyncScheduler <- SyncSchedulerProofs <- MCSyncScheduler
                 ^  ^                          |      |
                 |  '-- SyncServerProofs <-----'      '--> BulkSync  (INSTANCE, refinement)
                 |            ^
                 '- SyncTable <- SyncTableProofs <- MCSyncTable
WorkerTable <- WorkerTableProofs <- MCWorkerTable
Zoo         <- ZooProofs <- MCZoo
KVStore     <- KVTable <- KVTableProofs <- MCKVTable
                             '---> KVMap  (INSTANCE, refinement)
Feeder      <- FeederProofs <- MCFeeder
Allreduce   <- MCAllreduce
Allocator   <- MCAllocator
               ^--- AllocatorProofs
```

An MC module extends the module of the proofs where the inductive invariants are
stated there, so that TLC can check them; the configurations that do are named
MC...Inv and come with no module of their own.

A definition whose comment begins with "Mutant of" is a plausible mistake in the
definition after it, used to see that a property would catch it.

### VectorClock, SyncServer, SyncScheduler: synchronous training

`VectorClock` is the class of that name in `sync_scheduler.h`. A clock is a
record `[local, global]`; `Update` is what the method does and `UpdateReturns`
what it returns.

`SyncServer` is the scheduler of one table on one server: its two clocks, its
two caches and `num_waited_add_`, and one operator per handler. The handlers
that answer cached requests do so in a loop, and an answer may reach its worker
before the loop is over; a round of the loop is therefore a step of its own
(`DrainGet`, `DrainAdd`), and `draining` is the thread's place in the handler.
A failing CHECK sets `failed`, after which nothing happens.

`SyncScheduler` adds the workers: `Issue` is a call of the application, which
waits for its answer when the call is one of the `Blocking` kinds; `ReceiveAdd`
and `ReceiveGet` are the server taking a request. The requests between the two
are a set, from which one can be taken if fewer than `WorkerThreads` older ones
are left behind. With two threads this is what the code can do (a thread that
has popped a request may be slow to send it), and with one it is the FIFO order
of a mailbox and a channel.

*Abstractions.* The table is the number of Adds of each worker it has absorbed:
the default updater adds vectors, so this number tells apart the parameters that
a Get can return. The model has one server; `SyncTable` has several. Rank and
worker id are the same thing. Clocks are compared with `MaxInt` as in the code,
and the programs are assumed shorter than that. Every request of a table carries
data, so the test for an empty message (`scheduler.cc:15, 23`) is always passed.

`BulkSync` is what a synchronous table promises, with neither clocks nor caches:
requests are granted in program order; a request is granted when nobody is owed
anything from before the phase (run of Gets, or of Adds) that it belongs to; what
a Get returns depends only on its place in the program. `SyncSchedulerProofs` has
the refinement mapping (`answered` and `replies` are already part of the server's
state) and the inductive invariant.

### SyncTable: a synchronous table on several servers

Every server has a `SyncServer` record of its own. A call goes to the servers it
involves (`Issue`: all of them for an ArrayTable, the owners of its keys for a
KVTable) and is back when all of them have answered. `Receive` is the server's
mailbox loop, `Drain` a round of a draining loop. `SendFinish` is
`Zoo::FinishTrain`, and `FinishAdds` and `FinishGets` (in `SyncServer`, with
`FinishTrain` in `VectorClock`) the two halves of
`SyncScheduler::ProcessFinishTrain`: the first may start a draining loop, which
runs to its end before the second (`finishing`). The only call of FinishTrain in
the repository, in `Zoo::StopPS`, is commented out (`zoo.cc:119`); the plans have
workers that send it and workers that do not.

### WorkerTable: calls, Waiters, the worker's threads

Clients call `Get`, `Add` (blocking or not), `Load` and `Store`; a call is
numbered by its `msg_id`, its place in `waitings_`. `Lookup`, `Test` and `Delete`
are the three critical sections of `WorkerTable::Wait` and `Waiter::Wait`. The
worker's threads take requests (`PopGetAdd`, `PopLoadStore`), send their parts
one by one (`Send`), take replies (`PopReply`) and count the Waiter down
(`Notify`). `Reply` is the server and the network in both directions.

*Abstractions.* Steps that commute with those of the other threads are merged:
making the Waiter and pushing the message (`Call`); popping a request, splitting
it and resetting its Waiter, which is the Waiter of that request only. Storing
the buffer in `data_` is part of `Call` too: an older answer copied between the two
is one copied after both. A reply's copy and its pop are one
step, and its Notify another, because a second thread's copy may come in between.
Which servers a job has is a choice of `Init`, and which of them a request
involves a set from `Targets`: all of them for an ArrayTable, the owners of the
keys for a KVTable. The buffer is the set of answers copied into it. A thread
asleep wakes only when notified; a spurious wake-up would only make it test
again. A thread may call Get while its own asynchronous Gets are under way: the
new one overtakes them, `data_` is its buffer from then on, and `over` remembers
which they are. Two threads do not have Gets of one table under way at once, which
would be a race on `data_`. `LoadWithMany` says whether Load and Store may be called
when there are several servers.

### Zoo: start, registration, barriers, stop

Every rank has a main thread, its actors, a mailbox per actor and one of its
own, and a FIFO channel to every other rank. `Main` is `Zoo::Start`, the
application (create the table, barrier, train with blocking requests and
barriers, as `benchmark/bench_zoo.cc` does), and `Zoo::Stop`, step by step;
`CommunicatorSends` and `CommunicatorReceives` are the communicator's two
threads; `ControlRegister`, `ControlBarrier` and `ControllerSends` the
controller's handlers, which send their replies one after another;
`ServerAnswers`, `WorkerForwards` and `WorkerNotifies` the other two actors as
far as the life of the job depends on them.

*Abstractions.* `Actor::Stop` spins until the mailbox is empty and then ends the
threads: `StopActor` is enabled when it is empty. Actors stop in any order,
because `zoo_` is an unordered map. A request goes to one server, and the server
answers at once: what lies between is in the other two models. `DropsOnClose`
separates the networks: ZeroMQ is closed with linger 0, which throws away what
`zmq_send` has only queued, and MPI waits for its requests to complete.
THREAD_SERIALIZED runs the communicator's two threads' steps in one loop, an
interleaving of the same steps.

### KVStore, KVTable, KVMap: keyed tables

`KVStore` is the open-addressing hash table as operators on a record: the slots,
the array of values and the two sizes. `Share` is the part of the capacity that
`KVTableOption` gives to every store, the worker's included, and `Capacity` the power
of two that the constructor makes of it. `Find` is `KVStore::Get` that inserts,
with the search limited to `MaxProbe` slots and the process ended when all of
them are taken; `Set`, `Store` and `Load` are the methods; `Contents` is the map
that a store stands for and `Sound` what makes it one.

`KVTable` has a store per server, the worker's store, a client that makes
blocking calls, and the worker's two threads. `Partition` spreads the keys,
`Serve` is a round of the loop of the server's handler, one key at a time, and
`Answer` the reply that follows the loop; `Receive`, `Search`
and `Fill` are `ProcessReplyGet`: the search of a `Set` and the use of what it
found are two steps, because nothing locks the store. `StoreModel` and
`LoadModel` are the checkpoints.

`KVMap` is what users are promised, a map per server and a saved map; `IsMap` is
the refinement, with `Contents` of the stores and of the checkpoints.

*Abstractions.* Values have length 1 and are told apart by their key, by what
they started from (zero, random, uninitialised memory) and by the number of
updates. The array has a place for every slot, as in the constructor, and never
grows.

### Feeder: batches

`Schedule`, `Start`, `Ask`, `PopBatch`, `Stop`, `Exit` and `Join` are the
application's thread in the Feeder; `Loop`, `TestFull`, `PopTask`, `PushBatch`
and `PushTask` the loop of a Feeder thread, one step per access to shared state.
`ReadBatchTensor` takes whole items while they fit and splits the next one,
whose second part stays with the task.

*Abstractions.* A record is given by its running number of samples after each of
its items (`Counts`). An item is the sequence of the numbers of its rows, so that
copying tensors is concatenation; columns and file formats are left out. A
thread in `Queue::Pop` is at a guard that is not yet true; Exit makes it true.
`PushBatch` is one step because the thread has the task, and its record's stream,
to itself (`OneReaderPerRecord`). Every task opens its record's file itself, so
the records of the plans are told apart even where two name one file.

### Allreduce

The maps of Bruck's algorithm and of recursive halving are functions of the
number of machines and the rank. `Steps` is what a rank does in one call, as a
sequence of sends, receives and local steps, computed from the maps as the engine
does; `Send`, `Receive`, `ReceiveNothing` and `Local` execute it on a channel for
every pair of ranks. MPI's receive takes the message of the rank it names,
ZeroMQ's the message of anyone (`AnySource`). `Input` gives every rank and every
element a number of its own, a digit per rank, so that a sum shows who is in it,
and how often.

*Abstractions.* Elements are numbers, not bytes. A SendRecv is its send followed
by its receive, and no send blocks, as both networks buffer or post it.

### Allocator and Blob

Blobs and blocks are finite sets; a blob has a block, a size and the bytes it was
given. `Construct` and the steps after it (`Alloc` for `Allocator`; `TestPool`,
`InsertPool`, `LookUpPool`, `Pop` for `SmartAllocator`) are the constructor,
`Copy` the copy constructor, `Destroy` and `Release` the destructor with the
decrement and the return of the block apart, `PassOn` a message from thread to
thread. `LookUpPool` reads the table of the pools without the lock; next to an
insertion that is undefined, and the process may go down.

*Abstractions.* A new FreeList and its first block are one step under the lock.
The order within a free list does not matter, so it is a set. `OutOfMemory` is
the CHECK of AlignMalloc; the number of blocks is the size of memory.

## Runs

| Run | Shows |
|---|---|
| `sync_blocking` | three workers, blocking calls, a common program: both promises of `sync_scheduler.cc:14-20`, no CHECK fails, waiting is never mutual, workers stay within one phase, everything is answered, the inductive invariant `IInv`, and that the scheduler implements `BulkSync`, liveness included |
| `sync_table` | three workers, two servers: array and keyed calls, with and without FinishTrain, and a worker that trains longer and waits for others that leave. The promise and the CHECKs hold on every server, nobody waits in a circle, everything is answered |
| `worker_table` | two clients, jobs of one and two servers, two worker threads: Waiters are there when an answer comes, waits end last, a Get that no other overtook fills its buffer, and every wait ends |
| `worker_table_load` (violation) | Load and Store with two servers: the second answer finds no Waiter |
| `zoo` | three ranks of three different roles: no CHECK fails, barriers hold, rank 0 is answered last, ids agree, nothing is sent to a rank that has left, everybody stops |
| `kv_table` | colliding keys, two servers, Gets, Adds and checkpoints: the stores stay sound, an insertion fails only in a crowd, a Get brings the servers' values, and the table implements `KVMap` |
| `kv_load` (violation) | a checkpoint of a store whose keys are not in its first slots loses keys |
| `kv_race` (violation) | answers of two servers are inserted at once: a key is lost or has another's value |
| `feeder` | two threads, two sources, items smaller and larger than a batch: samples in order, no record lost, the queue exceeds its limit by no more than the threads that tested it, a single source is served, Stop returns |
| `feeder_two_sources` (violation) | one source is used up, all threads wait in its queue, and the other source gets no batch |
| `allreduce` | one to six machines over MPI, two over ZeroMQ, both algorithms, uneven and empty blocks: everybody ends with the sum, lengths agree, everybody ends |
| `allocator` | two threads, three blobs, four blocks, two classes of sizes, both allocators: references are counted, a block is in one place, bytes are kept, a pool is inserted once and is there past the lock, and the lookup without it races with an insertion for another size only |

The violations are disagreements between the code and a comment, an assertion or
a test of the repository; `findings` in `PROJECT.json` quotes each.

### Counterexamples kept beside the runs

Each of these configurations shows that a condition of a passing run is needed:
TLC finds the property violated, except in the last.

| Configuration | Property | What happens |
|---|---|---|
| `MCSyncSchedulerOrders.cfg` | `AllAnswered` | equally many Gets and Adds in different orders: one worker's Get and the other's Add wait for each other forever, although `sync_scheduler.cc:15` asks for equal numbers only |
| `MCSyncSchedulerReordered.cfg` | `AfterAllUpdates` | asynchronous Adds and the worker's two threads: a Get overtakes the Add before it |
| `MCSyncSchedulerAsyncGets.cfg` | `AfterAllUpdates` | asynchronous Gets: a worker's Add is applied while its own earlier Get is cached |
| `MCSyncTableKeys.cfg` | `AllAnswered` | workers with keys on different servers wait for rounds that the others never begin there |
| `MCSyncTableFinish.cfg` | `ChecksHold` | a worker leaves while another one's Add is cached: the CHECK of `sync_scheduler.cc:97` fails |
| `MCZooRace.cfg` | `ActorTableStable` | an actor is put in `zoo_` while a thread of the communicator is about to look there |
| `MCZooDrops.cfg` | `AllStop` | with ZeroMQ, rank 0 may stop before the last barrier's replies have left |
| `MCAllreduceZmq.cfg` | `EveryoneGetsTheSum` | three machines over ZeroMQ: a receive takes the message of the wrong rank |
| `MCAllocatorEmpty.cfg` | `BytesKept` | the copy of an empty blob counts no reference, its destruction gives one back, and the block is given out while in use |
| `MCSyncSchedulerAsyncAdds.cfg` | (holds) | asynchronous Adds with one worker thread: the promise and the CHECKs hold, thanks to `num_waited_add_` |

### Bounds

* *Synchronous training.* The program `ProgMixed` has every pattern of three
  consecutive requests of the two kinds, so every way a phase begins, continues
  and ends, for both kinds. Three workers are enough for a fastest, a slowest and
  one in between; the theorems cover any number and any program.
* *WorkerTable.* Two calls, by the same or by two threads, overlap in every way, a
  Get with an earlier one of its thread included;
  two servers make a call wait for more than one answer; two threads is what the
  code has (`kWorkerThreadNum`).
* *SyncTable.* Two servers can be in different rounds, which is all that more of
  them could add pairwise; the array program has every pair of consecutive kinds,
  the keyed one calls that skip a server; the longer program has its worker wait
  for two others that leave at different times.
* *KVTable.* A share of three, so four slots, and three probes: the keys collide at one slot, overflow
  into neighbouring runs and wrap at the end, and a search can fail in a table
  that is not full. Five calls fill a store until the limit is met. Checkpoints
  are taken of packed stores only (`SaveUnpacked`), since `kv_load` shows what
  happens to the others; requests are for one server, since `kv_race` shows what
  happens with two.
* *Feeder.* Items of 1, 2, 3 and 5 rows and batches of 2: a batch within an item,
  of several items, and an item that is split twice; queues of one batch are full
  and empty all the time.
* *Allreduce.* 1, 2, 3, 4, 5 and 6 machines: powers of two, one pair and two pairs
  of leader and other, one to three rounds. ZeroMQ is checked with two machines,
  since `MCAllreduceZmq.cfg` fails with three.
* *Allocator.* Sizes 32 and 33 are the two sides of a class boundary. Three blobs
  give a block with two references and another use of its class. Fewer blocks than
  the threads can ask for lets memory run out. The theorems cover any number.
* *Zoo.* Three ranks of which one is worker and server, one worker, one server;
  three barriers, so that a barrier follows and precedes another one. The
  violations need two ranks.

`MaxCalls` and `Rounds` are the only bounds on behaviours; programs, plans and
records are finite because those of the code are.

Deadlock is checked in all passing runs except `feeder`: with two sources the
Feeder may stop for good, which is what `feeder_two_sources` is about.

### Fairness

Weak fairness, per thread: a thread that can take a step takes one. For the
server's thread this is its loop over the mailbox; for the receiving thread of
the communicator it is per channel, since it polls all of them; for a worker's
thread it is its handler; for a client it is the code inside
`WorkerTable::Wait`. The application is not required to make another call in
`WorkerTable`, and is required to carry on with its program in `SyncScheduler`,
`SyncTable` and `Zoo`, since a synchronous job in which one worker never makes its
next request keeps the others waiting by design. In `Feeder` it is each Feeder
thread, and the application only inside a Pop or a Stop that it has called. In
`Allreduce` it is enough that some rank that can go on does. `KVTable` and
`Allocator` state safety only.

## Proofs

### The synchronous scheduler

`SyncSchedulerProofs` proves, for every finite set of workers and every program:

* `TypeCorrect`: the state keeps its type, for blocking and asynchronous calls
  and for programs that differ.
* `Inductive`: `IInv` is an invariant of the specification, when the workers run
  the same program (`SameProgram`) and make blocking calls (`Blocking = Op`),
  with any number of worker threads.
* `PromiseSameParameters`, `PromiseAfterAllUpdates`, `NoCheckFails`,
  `NobodyWaitsInACycle`, `WithinOnePhase`: the five properties of the run, from
  `IInv`.
* `ImplementsBulkSync`: `Spec` implements `Bulk!SafetySpec`.

*Both assumptions are needed.* The comment at `sync_scheduler.cc:15` asks for
equal numbers of Gets and Adds only; `MCSyncSchedulerOrders.cfg` shows that their
order has to agree as well, and `MCSyncSchedulerReordered.cfg` and
`MCSyncSchedulerAsyncGets.cfg` what asynchronous calls do to the promises.

*The argument.* No promise is inductive: that a Get returns the right parameters
depends on which Adds were held back, which depends on the clocks. `IInv` says:

1. the clocks of a worker count the Gets and the Adds of a prefix of its program
   (`ClocksOK`), the table agrees with the Add clocks and the answers are that
   prefix (`AnswersOK`);
2. the global clocks are the minima of the local ones, and of two workers the
   one ahead is ahead by requests of one kind only (`ClocksOK`);
3. a worker's only request under way is the next one of its program
   (`RequestsOK`, `CacheOK`), and `num_waited_add_` follows the Add cache
   (`WaitedOK`);
4. outside the loop that drains it, a cache holds only requests of workers that
   are strictly ahead on the other clock (`CachedAreAhead`);
5. in a draining loop everybody is level on one clock, and some worker that has
   nothing in the cache is among the slowest on the other: so the loop cannot
   complete a round, which is what its CHECK says (`DrainingOK`).

Point 2 is preserved because a request that is not held back is the next one of
a worker that is level with the slowest on the other clock (`PhaseStep`,
`LevelForGet`, `LevelForAdd`). Then a granted Get sees, of every worker, exactly
as many Adds as it made itself (`RepliesOK`). Each action has a lemma
(`ReceiveGetInv`, `ReceiveAddInv`, `DrainGetInv`, `DrainAddInv`, `IssueInv`);
what it leaves alone is collected in `GrantGetStep` and `GrantAddStep`.

### The synchronous table on several servers

`SyncTableProofs` proves, for every finite set of workers, any servers and any
program that all workers run (`EqualPrograms`), each call of which may go to any
of the servers, with and without FinishTrain:

* `SyncTableInvariant`: the inductive invariant `Inv`;
* `TableAfterAllUpdates`, `TableChecksHold`, `TableSomeoneFree`: the safety
  properties of the run, from `Inv`.

*The assumption is needed.* `MCSyncTableKeys.cfg` has equally many calls of each
kind but of different servers, and `MCSyncTableFinish.cfg` workers of which one
trains longer: the first hangs and in the second a CHECK fails. That the run also
passes for one such plan (`Leaving`) is a fact about that plan.

*The argument.* A server does not see the program but the calls that come to it,
and two servers are in different rounds. `SyncServerProofs` therefore describes
one server by the program as it sees it, `P`, in which the calls that pass it by
are "none", and by the positions `d`: `d[w]` is how many calls of `w` it is done
with, those that passed it by included. `ServerOK` says of it:

1. each clock of `w` counts the calls of its kind among the first `d[w]`, or is
   stopped and `w` is through (`Counts`); the global clock is the minimum;
2. of two workers the one ahead is ahead by calls of one kind (`OnePhase`);
3. a cache holds next calls of its kind, one per worker (`Holds`), of workers that
   are ahead on the other clock; in a draining loop everybody who has not left is
   level on the other clock, and somebody without a cached call is among the
   slowest (`Half`);
4. answers, table, `num_waited_add_` and replies agree with `d` (`Books`,
   `Waiting`, `Replied`).

Gets and Adds are treated alike: `Sched` is stated from the side of either kind,
and `SchedSwap` changes sides, so that a call that waits (`CallWaits`), one that is
granted (`CallGranted`), a round of a loop (`LoopGrants`) and a worker that leaves
(`WorkerLeaves`) are each proved once. A leave moves a global clock only when all
others have left too, because everybody who is through has made all its calls; so
nothing is cached then, and the CHECKs of ProcessFinishTrain hold.
`AddArrives`, `GetArrives`, `AddDrained`, `GetDrained` and `Leaves` say this of the
handlers.

In `SyncTableProofs`, `Done(s)` are the positions at server `s`, from the calls
made and the answers of `s`; `Inv` has `ServerOK` for every server, and that a call
is either on its way, in one cache, or answered. For `SomeoneFree`, take of the
workers with a cached call the one that has made the fewest calls. It is ahead of
somebody at the server that holds it (`HeldBack`), who therefore has made fewer
calls, is not through, and by the choice of the first is in no cache at any server.
`MCSyncTableInv.cfg` checks `Inv` with TLC.

### The allocators

`AllocatorProofs` proves, for any threads, any finite set of blobs, any blocks
and sizes up to 2^30, with either allocator:

* `AllocatorInvariant`: `Inv` is an invariant, when no blob is constructed with
  size 0 (`NoEmptyBlobs`; `MCAllocatorEmpty.cfg` shows that this is needed);
* `ReferencesAreCounted`, `BlocksAreInOnePlace`, `BytesAreKept`,
  `PoolsAreInsertedOnce`, `RacesNeedTwoSizes`: the properties of the run, from `Inv`.

*The argument.* That bytes are kept depends on blocks not being given out while
they are held (`BlockInOnePlace`), which a destruction preserves only if the
count is the number of holders (`RefsCounted`): then the thread that takes the
count to zero is the only one to release the block, and nobody holds it. A
construction preserves it because the blob it fills has no block, and belongs to
one thread (`OneConstructor`). That the block is large enough needs what `ClassOf`
returns (`ClassFits`) and that a block never changes its class while held. The
race needs the lock: one thread inserts at a time, a pool that is not there, and
a thread past the lock has its pool (`PoolsOK`). Each action has a lemma;
`FilledStep` is the one for the three ways to get a block, `QuietStep` for the
steps that touch neither blobs nor blocks.

### The worker's table

`WorkerTableProofs` proves, for any clients, servers, calls and threads of the
worker actor, while Load and Store are called in jobs of one server only
(`LoadWithOne`; `worker_table_load` shows what happens in the others):

* `WorkerTableInvariant`: the inductive invariant `Inv`;
* `WaiterIsAlwaysThere`, `WaitReturnsLast`, `GetsFillTheirBuffers`: the three
  safety properties of the run, from `Inv`.

*The argument.* A call returns when its Waiter is at zero, so what matters is what
the count counts. The part of a call for a server is with a thread that still has
to send it (`ToSend`), with the server (`AtServers`), in the mailbox (`Answered`)
or with a thread about to notify (`ToNotify`), and in one of these places only
(`EachOnce`); the count of a live Waiter is the number of parts in all four
(`Counted`). A thread that notifies therefore finds a live Waiter above zero, and
a client that deletes one leaves no part behind. The buffer of a Get that no other
overtook holds the answers of the servers whose part is past the copy, since `data_`
points to it while the Get is under way; any buffer holds answers of its own Get and
of those that it overtook only, since `data_` is never behind a Get under way
(`Buffered`). `MCWorkerTableInv.cfg` checks `Inv` with TLC.

### The KV table

`KVTableProofs` begins with what the operators of `KVStore` do, for any capacity
(of `Capacity` only that it is positive and not below the share is used; that
powers of two grow past any number needs induction, so it is an assumption),
probe limit and hash collisions: a search finds a stored key or the slot to put it
in, an insertion keeps every other key where it can be found, and the copy that
`Load` makes of a packed store is the store. It then proves of the table, for any servers, keys and requests, when checkpoints are taken of packed stores
(`SavesPacked`; `kv_load` shows what happens to the others):

* `ServersStaySound`: the servers' stores are sound, whatever the client asks for;
* `TableIsMap`: the table implements `KVMap`, checkpoints included (`IsMap`).

and, when the keys of a call belong to one server or the worker actor has one
thread (`CopiesInTurn`; `kv_race` shows what happens otherwise):

* `TableInvariant`, `StoresStaySound`, `FatalOnlyInCrowd`, `GetsBringValues`: the
  invariants of the run, for the worker's store too.

*The argument.* A store is `Good` when every entry is reachable: all slots from the
home of its key to it are taken, keys are stored once and offsets are distinct and
below `data_size`. An insertion takes the first free slot after the home of its
key, so no run is cut. For the worker's copy, `SearchOK` says that what a thread
found in its search is still true when it uses it, which is where one copy at a
time is needed; `Fetched` and the last part of `WorkerInv` follow the value of a
key from the server through the answer to the copy. `MCKVTableInv.cfg` (one server
per call, two threads) and `MCKVTableInvOneThread.cfg` (two servers, one thread)
check `ServerInv` and `WorkerInv` with TLC, one for each case of `CopiesInTurn`.

### The Feeder

`FeederProofs` proves, for any finite set of threads and any sources, records,
items and sizes:

* `QueuesStayBounded`: `QueueBound`. The test of Full and the push are two steps,
  and another thread's push may come between them; the invariant `Bound` counts,
  for each queue, the batches and the threads that have passed the test and not
  pushed yet (`Passed`).
* `OneReaderPerRecord`: no two threads have a task of the same record, and no
  record that a thread reads waits in a queue (`OneReader`). It needs that the
  queues hold one task per record, of a source that is scheduled (`OneTask`,
  `OwnRecords`). This is what makes `PushBatch` one step in the model: the
  record's stream and its cache are changed without a lock in the code.
* `BatchesInOrder`: `SamplesInOrder`. The batches of a record are full and hold its
  samples in order, none twice and none left out, whatever the sizes of its items.
* `TasksNotLost`: `TaskOfRecordIsThere`. A record with a full batch left has exactly
  one task, in its queue or with a thread.

*The argument* for the last two (`FeederInv`). `TasksStand` says that a task's
`curr` is the number of batches made of its record times the batch size, and that
its cached part and what is left of its stream are adjoining pieces of the samples
from `curr` to the last (`Adjoining`); so the next batch begins where the one before
it ended. `NoneLost` says that a record of a scheduled source has a task or no full
batch left: a task is dropped only when `Enough` or `Unfinished` is false, and
then no full batch is left. `Untouched` and `AppInv` are what these need of the
sources that are not scheduled, of threads without a task and of the application.
A batch that is taken moves from one queue to the end of the other, and
`Produced` stays the same.

What `ReadBatchTensor` does with the pieces is `ReadBatch`: when adjoining pieces
hold a batch, the rows it gives are the first `BatchSize` samples, and the cache and
the items it leaves adjoin again. It rests on `FlattenSamples`, which says that
flattening adjoining pieces gives the samples from the first to the last. This is
an induction over a recursive function: the proof gives that function explicitly,
shows that it satisfies the recursion, and that any two functions that do are equal,
by the least argument at which they would differ.

`MCFeederInv.cfg` checks these invariants with TLC.

### Zoo

`ZooProofs` proves, for any number of ranks, any roles, any number of rounds and
either network:

* `ZooInvariant`: the inductive invariant `Inv`;
* `NoCheckEverFails`, `BarriersHold`, `IdsAgreeAlways`, `NothingIsLost`: four of
  the properties of the run, from `Inv`;

and, for a network that sends what it accepted (`~DropsOnClose`, what MPI does;
`MCZooDrops.cfg` shows what ZeroMQ does):

* `ZooInvariantWithAnswers` and, from it, `RepliesAreOutAlways`: "my reply should
  be the last one" (`controller.cc:23`).

*The argument.* The mailboxes of all actors, the channels and the controller's two
lists are looked at as one family of queues (`Queues`). A message has an `Owner`,
the rank whose main thread waits for the end of its way. `Inv` says:

1. a rank owns at most one message, in one place (`OneEach`), of the kind its main
   thread waits for, in a queue on that message's way (`Fits`, `Route`);
2. there is a number c, the barriers that the controller has answered, such that
   every rank is back from c of them, or is in its barrier and back from c - 1
   (`ClockOK`); a request for a barrier is for the next one, a reply is for the
   c-th (`Fits`);
3. the program of the main thread, its actors and its table agree with the number
   of barriers it is back from (`MainOK`, `ActorsOK`);
4. the controller has numbered the ranks whose registration it has taken
   (`Known`, `Numbered`), and a rank past its registration has these ids, of all
   ranks (`IdsOK`).

The step that could break a barrier is the controller's answer to the N-th
request. Its N tasks belong to N ranks by point 1, so to all (`AllRanks`, by
counting); so every rank is in the barrier, no other message exists, and c + 1 is
the number for the next state. A message that the communicator looks up finds its
actor because its owner waits in a phase in which all ranks have it running, which
is where the first barrier, and the last one before `Stop`, are needed. Most other
actions move a message from a queue to the next (`MoveStep`) or are a step of one
main thread (`MainStep`). For the replies, `AnswerExists` has the reply of every
rank that was answered somewhere, and `ZeroIsLast` has rank 0's behind those that
are still in rank 0. `MCZooInv.cfg` (three ranks) and `MCZooInvDrops.cfg` (two
ranks, a network that drops) check the invariants with TLC.

### Only model-checked

Liveness (`AllAnswered`, `EveryWaitReturns`, `AllStop`, `OnlySourceServed`,
`StopReturns`, `AllFinish`, and the fairness of `BulkSpec`), which is out of the
prover's reach; asynchronous Adds; workers of a `SyncTable` whose programs differ;
and `Allreduce`, whose result is a statement about folds and powers of two for a few
numbers of machines.

## Not modelled

* *Vendored code*: GoogleTest and the header of libhdfs are three quarters of the
  lines of the repository.
* *Updaters* (floating-point arithmetic on one vector), *streams* and record layout
  (file formats), flags, logging, timers, random numbers, the table factory and
  the C API (wrappers), the bindings and the applications (clients of the
  library): sequential code without state that others share.
* *Counted columns in `RecordIO::Split`*: its inner loops use the outer index and
  read outside their arrays, which has no set of outcomes to choose from.
* *`server_thread_num` above 1*: several threads then run a scheduler's handlers on
  plain containers; no promise is left to check.
* *Requests without keys* (`Waiter::Reset(0)`): their empty blobs already break the
  allocator's counts.
* *The partition of an ArrayTable's index range*: a call goes to all servers.
* *`Blob::operator=`*, `KVStore::Clear` and `PrintDebug`, which nothing calls, and
  the destruction of the allocators at exit.
* *Several threads of one actor that stop together*: `Zoo` stops an actor as a
  whole; `Feeder` has the queue's Exit with several threads in it.

The C++ memory model is not modelled: accesses to shared data without a lock
appear as steps of their own (`KVTable`, `Allocator`) or as the condition that two
threads are at them at once (`ActorTableStable`).

## Plan

The modules above are done; what is left is proof, in this order.

1. `SyncScheduler`: the promise for asynchronous Adds with one worker thread.
