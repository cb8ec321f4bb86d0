--------------------------- MODULE SyncScheduler ---------------------------
(* Workers training synchronously against one shard of a table: every worker *)
(* runs a program of Get and Add requests, its worker actor sends them to    *)
(* the server, and the server's SyncScheduler decides when each is answered. *)
EXTENDS SyncServer

CONSTANTS Prog,           \* Prog[w]: the requests worker w makes, in order
          Blocking,       \* the kinds of request made with the blocking calls
                          \* Get and Add, the others with GetAsync and AddAsync
          WorkerThreads   \* threads of the worker actor: kWorkerThreadNum

ASSUME ProgAssumption ==
  Prog \in [Workers -> Seq(Op)] /\ \A w \in Workers : Len(Prog[w]) < MaxInt

ASSUME ClientAssumption == Blocking \subseteq Op /\ WorkerThreads \in Nat \ {0}

VARIABLES issued,   \* issued[w]: how many requests worker w has made
          transit,  \* transit[w]: the requests of w the server has not taken
          server    \* the scheduler, see SyncServer

vars == <<issued, transit, server>>

\* How many requests of this kind are among the first k of worker w.
Count(op, w, k) == Cardinality({j \in 1..k : Prog[w][j] = op})

Init ==
  /\ issued  = [w \in Workers |-> 0]
  /\ transit = [w \in Workers |-> {}]
  /\ server  = InitServer

\* WorkerTable::GetAsync or AddAsync: the request goes into the worker actor's
\* mailbox. Get and Add then wait for the answer, so that the next request is
\* made after it.
Issue(w) ==
  /\ issued[w] < Len(Prog[w])
  /\ issued[w] > 0 /\ Prog[w][issued[w]] \in Blocking
       => issued[w] \in server.answered[w]
  /\ issued'  = [issued EXCEPT ![w] = @ + 1]
  /\ transit' = [transit EXCEPT ![w] = @ \cup {issued[w] + 1}]
  /\ UNCHANGED server

\* The threads of the worker actor pop the mailbox in order, but each sends
\* what it popped in its own time: a request can be overtaken by others as long
\* as a thread is left to carry them.
MayArrive(w, k) == Cardinality({j \in transit[w] : j < k}) < WorkerThreads

\* The server actor's thread is back in its mailbox loop.
Idle == server.draining = "no" /\ ~server.failed

ReceiveAdd(w, k) ==
  /\ Idle /\ MayArrive(w, k) /\ Prog[w][k] = "Add"
  /\ transit' = [transit EXCEPT ![w] = @ \ {k}]
  /\ server'  = ProcessAdd(server, [src |-> w, k |-> k])
  /\ UNCHANGED issued

ReceiveGet(w, k) ==
  /\ Idle /\ MayArrive(w, k) /\ Prog[w][k] = "Get"
  /\ transit' = [transit EXCEPT ![w] = @ \ {k}]
  /\ server'  = ProcessGet(server, [src |-> w, k |-> k])
  /\ UNCHANGED issued

DrainNextGet ==
  /\ server.draining = "gets" /\ ~server.failed
  /\ server' = DrainGet(server)
  /\ UNCHANGED <<issued, transit>>

DrainNextAdd ==
  /\ server.draining = "adds" /\ ~server.failed
  /\ server' = DrainAdd(server)
  /\ UNCHANGED <<issued, transit>>

Receive(w) == \E k \in transit[w] : ReceiveAdd(w, k) \/ ReceiveGet(w, k)
Drain      == DrainNextGet \/ DrainNextAdd
Finished(w) == server.answered[w] = 1..Len(Prog[w])

\* Training is over, and every worker stays in the barrier that follows.
AllFinished == (\A w \in Workers : Finished(w)) /\ UNCHANGED vars

Next ==
  \/ \E w \in Workers : Issue(w) \/ Receive(w)
  \/ Drain
  \/ AllFinished

\* The server's thread never stops popping its mailbox, the network and the
\* worker's threads deliver every request, and a worker whose last request is
\* answered goes on to the next: each of them is a thread of its own.
Fairness ==
  /\ WF_vars(Drain)
  /\ \A w \in Workers : WF_vars(Issue(w)) /\ WF_vars(Receive(w))

Spec == Init /\ [][Next]_vars /\ Fairness

-----------------------------------------------------------------------------
TypeOK ==
  /\ issued  \in [Workers -> Nat]
  /\ transit \in [Workers -> SUBSET Nat]
  /\ server  \in Server

\* No CHECK of the scheduler ever fails (sync_scheduler.cc:42, 48, 72): the
\* draining loops never complete a round of the other clock, and no Add is
\* waiting when all workers reach the same number of Adds.
ChecksHold == ~server.failed

\* The promise of sync_scheduler.cc:17: the i-th Get of every worker returns
\* the same parameters.
SameParameters ==
  \A a, b \in server.replies :
    Count("Get", a.src, a.k) = Count("Get", b.src, b.k) => a.params = b.params

\* The promise of sync_scheduler.cc:18-20: a worker that has made j Adds when
\* it makes a Get is given the parameters after exactly j Adds of every worker.
AfterAllUpdates ==
  \A a \in server.replies : \A w \in Workers :
    a.params[w] = Count("Add", a.src, a.k)

\* A request whose turn it is never sits in a cache: a worker with a cached
\* request has been granted strictly more than some other worker. The slowest
\* worker is therefore never the one made to wait, so waiting is never mutual.
Cached(w) ==
  \/ \E i \in DOMAIN server.addCache : server.addCache[i].src = w
  \/ \E i \in DOMAIN server.getCache : server.getCache[i].src = w
NoMutualWait ==
  Idle => \A w \in Workers :
            Cached(w) => \E v \in Workers : 
                           /\ server.answered[v] \subseteq server.answered[w]
                           /\ server.answered[v] # server.answered[w]

\* Two workers are never more than one phase apart, a phase being a run of
\* requests of one kind: what the one ahead was already granted and the other
\* not are requests of a single kind.
OnePhaseApart ==
  \A v, w \in Workers :
    \A i, j \in server.answered[w] \ server.answered[v] :
      Prog[w][i] = Prog[w][j]

\* Every request of every worker is answered in the end.
AllAnswered == <>[](\A w \in Workers : Finished(w))
=============================================================================
