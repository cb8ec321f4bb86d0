---------------------------- MODULE WorkerTable ----------------------------
(* The worker's half of a table (hpps/frame/table_interface.cc, worker.cc,   *)
(* hpps/common/waiter.h): client threads call Get, Add, Load and Store, each *)
(* call owns a Waiter, the threads of the worker actor split the request     *)
(* among the servers and, for every reply, store the data and count the      *)
(* Waiter down. A call is identified by its msg_id, the place of its Waiter  *)
(* in waitings_. The network and the servers are asynchronous: each request  *)
(* is answered once, in any order.                                           *)
EXTENDS Integers, Sequences, FiniteSets

CONSTANTS Clients,      \* threads of the application that use the table
          Servers,
          ServerSets,   \* the sets of servers a job can have
          Threads,      \* threads of the worker actor
          Ops,          \* the operations the application calls
          Targets,      \* the sets of servers a Get or an Add can involve
          LoadWithMany, \* may Load and Store be called in a job of several servers
          MaxCalls      \* bound on the number of calls

Op == {"Get", "Add", "Load", "Store"}

ASSUME WorkerTableAssumption ==
  /\ Servers # {} /\ IsFiniteSet(Servers)
  /\ Ops \subseteq Op
  /\ ServerSets \subseteq (SUBSET Servers) \ {{}}
  /\ Targets \subseteq (SUBSET Servers) \ {{}}
  /\ LoadWithMany \in BOOLEAN /\ MaxCalls \in Nat

VARIABLES
  servers,   \* the servers of this job
  calls,     \* calls[id]: who called what, the servers it involves, the Gets it overtook
  waitings,  \* waitings[id]: the Waiter, [live, num]; live is FALSE once deleted
  client,    \* client[c]: where the thread is in WorkerTable::Wait, and the id
  mailbox,   \* the worker actor's mailbox: requests of clients and replies
  thread,    \* thread[t]: where the thread is in its handler
  network,   \* requests sent to servers and not yet answered
  data,      \* ArrayWorker::data_: the call whose buffer replies are copied to
  filled,    \* filled[id]: the replies copied into the buffer of call id
  failed     \* a CHECK failed: the process has exited

vars == <<servers, calls, waitings, client, mailbox, thread, network, data, filled, failed>>

Ids == 1..Len(calls)
Ready == [at |-> "ready", id |-> 0]
Free  == [at |-> "pop", id |-> 0, left |-> {}, server |-> 0]

Init ==
  /\ servers \in ServerSets
  /\ calls = << >> /\ waitings = << >> /\ mailbox = << >> /\ filled = << >>
  /\ client = [c \in Clients |-> Ready]
  /\ thread = [t \in Threads |-> Free]
  /\ network = {} /\ data = 0 /\ failed = FALSE

-----------------------------------------------------------------------------
(* The application's threads.                                                *)

\* ArrayWorker has one data_ for all Gets: a new one overtakes those under way.
GetsUnderWay == {id \in Ids : calls[id].op = "Get" /\ waitings[id].live}

\* GetAsync, AddAsync, and the first half of Load and Store: a new Waiter for
\* one answer, and a request in the mailbox. ArrayWorker keeps the buffer. A
\* thread may overtake its own Gets; two threads do not write data_ at once.
Call(c, op, to, at) ==
  LET id == Len(calls) + 1 IN
  /\ ~failed /\ client[c] = Ready /\ Len(calls) < MaxCalls
  /\ op = "Get" => \A i \in GetsUnderWay : calls[i].client = c
  /\ op \in {"Load", "Store"} => LoadWithMany \/ Cardinality(servers) = 1
  /\ calls'    = Append(calls, [client |-> c, op |-> op, to |-> to,
                                    over |-> IF op = "Get" THEN GetsUnderWay ELSE {}])
  /\ waitings' = Append(waitings, [live |-> TRUE, num |-> 1])
  /\ filled'   = Append(filled, {})
  /\ mailbox'  = Append(mailbox, [kind |-> "request", id |-> id, server |-> 0])
  /\ data'     = IF op = "Get" THEN id ELSE data
  /\ client'   = [client EXCEPT ![c] = IF at = "ready" THEN Ready ELSE [at |-> at, id |-> id]]
  /\ UNCHANGED <<servers, thread, network, failed>>

\* Get, Add, Load and Store go on to wait; GetAsync and AddAsync return.
CallBlocking(c) ==
  \/ \E op \in Ops \cap {"Get", "Add"}, to \in Targets \cap SUBSET servers : Call(c, op, to, "lookup")
  \/ \E op \in Ops \cap {"Load", "Store"} : Call(c, op, servers, "lookup")
CallAsync(c) ==
  \E op \in Ops \cap {"Get", "Add"}, to \in Targets \cap SUBSET servers : Call(c, op, to, "ready")

\* The application waits for an asynchronous call of its own, once.
StartWait(c) ==
  /\ ~failed /\ client[c] = Ready
  /\ \E id \in Ids :
       /\ calls[id].client = c /\ waitings[id].live
       /\ client' = [client EXCEPT ![c] = [at |-> "lookup", id |-> id]]
  /\ UNCHANGED <<servers, calls, waitings, mailbox, thread, network, data, filled, failed>>

\* WorkerTable::Wait finds the Waiter, or fails its CHECK.
Lookup(c) ==
  /\ ~failed /\ client[c].at = "lookup"
  /\ IF waitings[client[c].id].live
     THEN client' = [client EXCEPT ![c].at = "test"] /\ UNCHANGED failed
     ELSE failed' = TRUE /\ UNCHANGED client
  /\ UNCHANGED <<servers, calls, waitings, mailbox, thread, network, data, filled>>

\* Waiter::Wait tests its count, and sleeps while it is positive.
Test(c) ==
  /\ ~failed /\ client[c].at = "test"
  /\ client' = [client EXCEPT ![c].at =
                  IF waitings[client[c].id].num > 0 THEN "asleep" ELSE "delete"]
  /\ UNCHANGED <<servers, calls, waitings, mailbox, thread, network, data, filled, failed>>

\* The end of WorkerTable::Wait: the Waiter is deleted and the call returns.
Delete(c) ==
  /\ ~failed /\ client[c].at = "delete"
  /\ waitings' = [waitings EXCEPT ![client[c].id].live = FALSE]
  /\ client'   = [client EXCEPT ![c] = Ready]
  /\ UNCHANGED <<servers, calls, mailbox, thread, network, data, filled, failed>>

-----------------------------------------------------------------------------
(* The worker actor's threads.                                               *)

Pop(t, kind) ==
  /\ ~failed /\ thread[t] = Free
  /\ mailbox # << >> /\ Head(mailbox).kind = kind
  /\ mailbox' = Tail(mailbox)

\* Mutants of ResetWaiter: it is not called; it expects one answer too few.
ResetForgotten(id, n) == waitings
ResetOneTooFew(id, n) == [waitings EXCEPT ![id].num = n - 1]

\* WorkerTable::Reset: the Waiter waits for n answers.
ResetWaiter(id, n) == [waitings EXCEPT ![id].num = n]

\* Worker::ProcessGet and ProcessAdd: Partition, then Reset the Waiter (or fail
\* its CHECK), then send the parts.
PopGetAdd(t) ==
  LET id == Head(mailbox).id IN
  /\ Pop(t, "request") /\ calls[id].op \in {"Get", "Add"}
  /\ IF waitings[id].live
     THEN /\ waitings' = ResetWaiter(id, Cardinality(calls[id].to))
          /\ thread' = [thread EXCEPT ![t] =
               [at |-> "send", id |-> id, left |-> calls[id].to, server |-> 0]]
          /\ UNCHANGED failed
     ELSE failed' = TRUE /\ UNCHANGED <<waitings, thread>>
  /\ UNCHANGED <<servers, calls, client, network, data, filled>>

\* Worker::ProcessLoadModel and ProcessStoreModel: send to every server.
PopLoadStore(t) ==
  LET id == Head(mailbox).id IN
  /\ Pop(t, "request") /\ calls[id].op \in {"Load", "Store"}
  /\ thread' = [thread EXCEPT ![t] =
       [at |-> "send", id |-> id, left |-> servers, server |-> 0]]
  /\ UNCHANGED <<servers, calls, waitings, client, network, data, filled, failed>>

\* One part of a request goes to its server.
Send(t) ==
  /\ ~failed /\ thread[t].at = "send"
  /\ \E s \in thread[t].left :
       /\ network' = network \cup {[id |-> thread[t].id, server |-> s]}
       /\ thread' = [thread EXCEPT ![t] =
            IF thread[t].left = {s} THEN Free
            ELSE [thread[t] EXCEPT !.left = thread[t].left \ {s}]]
  /\ UNCHANGED <<servers, calls, waitings, client, mailbox, data, filled, failed>>

\* Mutant of CopyReply: the reply is not copied.
CopyForgotten(m) == filled

\* ArrayWorker::ProcessReplyGet copies the reply into the buffer that data_
\* points to. No other reply carries data.
CopyReply(m) == [filled EXCEPT ![data] = @ \cup {[id |-> m.id, server |-> m.server]}]

\* Worker::ProcessReply*, up to its call of Notify.
PopReply(t) ==
  LET m == Head(mailbox) IN
  /\ Pop(t, "reply")
  /\ thread' = [thread EXCEPT ![t] =
       [at |-> "notify", id |-> m.id, left |-> {}, server |-> m.server]]
  /\ filled' = IF calls[m.id].op = "Get" THEN CopyReply(m) ELSE filled
  /\ UNCHANGED <<servers, calls, waitings, client, network, data, failed>>

\* Mutant of Wake: nobody is notified.
WakeNobody(id) == client

\* Waiter::Notify wakes every thread that sleeps on the Waiter.
Wake(id) ==
  [c \in Clients |-> IF client[c] = [at |-> "asleep", id |-> id]
                     THEN [at |-> "test", id |-> id] ELSE client[c]]

\* WorkerTable::Notify: count the Waiter down, or fail its CHECK.
Notify(t) ==
  LET id == thread[t].id IN
  /\ ~failed /\ thread[t].at = "notify"
  /\ IF waitings[id].live
     THEN /\ waitings' = [waitings EXCEPT ![id].num = @ - 1]
          /\ client'   = Wake(id)
          /\ thread'   = [thread EXCEPT ![t] = Free]
          /\ UNCHANGED failed
     ELSE failed' = TRUE /\ UNCHANGED <<waitings, client, thread>>
  /\ UNCHANGED <<servers, calls, mailbox, network, data, filled>>

-----------------------------------------------------------------------------
\* A server answers a request, and the reply reaches the worker's mailbox.
Reply ==
  /\ ~failed
  /\ \E r \in network :
       /\ network' = network \ {r}
       /\ mailbox' = Append(mailbox, [kind |-> "reply", id |-> r.id, server |-> r.server])
  /\ UNCHANGED <<servers, calls, waitings, client, thread, data, filled, failed>>

Waiting(c)    == Lookup(c) \/ Test(c) \/ Delete(c)
Handle(t)     == PopGetAdd(t) \/ PopLoadStore(t) \/ Send(t) \/ PopReply(t) \/ Notify(t)

\* The parts of call id that are still on their way out or back.
Pending(id) ==
  \/ \E i \in DOMAIN mailbox : mailbox[i].id = id
  \/ \E t \in Threads : thread[t].id = id
  \/ \E r \in network : r.id = id

\* The application has made its calls and has no more to wait for.
Quiet ==
  /\ Len(calls) = MaxCalls /\ \A c \in Clients : client[c] = Ready
  /\ \A id \in Ids : ~Pending(id)
  /\ UNCHANGED vars

Next ==
  \/ \E c \in Clients : CallBlocking(c) \/ CallAsync(c) \/ StartWait(c) \/ Waiting(c)
  \/ \E t \in Threads : Handle(t)
  \/ Reply
  \/ Quiet

\* A thread inside WorkerTable::Wait, the threads of the worker actor, and the
\* servers with the network each keep running. The application itself need not
\* make another call.
Fairness ==
  /\ \A c \in Clients : WF_vars(Waiting(c))
  /\ \A t \in Threads : WF_vars(Handle(t))
  /\ WF_vars(Reply)

Spec == Init /\ [][Next]_vars /\ Fairness

-----------------------------------------------------------------------------
\* The CHECKs of Wait, Reset and Notify never fail (table_interface.cc:121, 135,
\* 142): the Waiter of a call is there whenever an answer comes.
WaiterIsThere == ~failed

\* Wait returns after the last answer and not before: once the Waiter of a call
\* is deleted no part of the call is under way, so nothing of it can still
\* touch the Waiter or a buffer.
ReturnsLast == \A id \in Ids : ~waitings[id].live => ~Pending(id)

\* A Get was called while call id was under way.
Overtaken(id) == \E j \in Ids : id \in calls[j].over

\* A buffer gets the answers to its own Get and to those that it overtook, and to
\* no other. A Get that has returned, and that no other overtook, has the answer
\* of every server it involves (array_table.cc:36, 45).
GetFillsBuffer ==
  \A id \in Ids : calls[id].op = "Get" =>
    /\ \A p \in filled[id] : p.id \in {id} \cup calls[id].over /\ p.server \in calls[p.id].to
    /\ ~waitings[id].live /\ ~Overtaken(id) =>
         \A s \in calls[id].to : [id |-> id, server |-> s] \in filled[id]

\* Whoever waits for a call gets to return.
EveryWaitReturns ==
  \A c \in Clients : client[c].at # "ready" ~> client[c].at = "ready"
=============================================================================
