----------------------------- MODULE SyncTable -----------------------------
(* A table on several servers, trained synchronously. A call goes to the     *)
(* servers it involves: all of them for an ArrayTable, those that own a key  *)
(* of the call for a KVTable. Each of them schedules it by its own clocks    *)
(* (module SyncServer), and Get and Add return when all have answered.       *)
(* After its last call a worker may tell every server that it has finished   *)
(* (Zoo::FinishTrain, whose call in StopPS is commented out).                *)
EXTENDS SyncServer

CONSTANTS Servers,
          Plans       \* what the workers do: pairs of programs and whether they
                      \* send FinishTrain

VARIABLES plan,       \* <<prog, finishes>>; prog[w]: calls [op, to], in order
          issued,     \* issued[w]: how many calls worker w has made
          transit,    \* transit[s]: messages on their way to server s
          server,     \* server[s]: its scheduler, see SyncServer
          finishing   \* finishing[s]: the worker in the middle of whose
                      \* FinishTrain the thread of s is, or {}

vars == <<plan, issued, transit, server, finishing>>

Prog(w) == plan[1][w]

ASSUME PlansAssumption ==
  \A p \in Plans :
    /\ p[1] \in [Workers -> Seq([op : Op, to : (SUBSET Servers) \ {{}}])]
    /\ p[2] \in BOOLEAN

Init ==
  /\ plan \in Plans
  /\ issued = [w \in Workers |-> 0]
  /\ transit = [s \in Servers |-> {}]
  /\ server = [s \in Servers |-> InitServer]
  /\ finishing = [s \in Servers |-> {}]

\* Waiter: a call is back when every server it went to has answered.
Answered(w, k) == \A s \in Prog(w)[k].to : k \in server[s].answered[w]
AllBack(w) == issued[w] > 0 => Answered(w, issued[w])

\* Get and Add: Partition sends a part to each server of the call.
Issue(w) ==
  /\ issued[w] < Len(Prog(w)) /\ AllBack(w)
  /\ issued' = [issued EXCEPT ![w] = @ + 1]
  /\ transit' = [s \in Servers |->
       IF s \in Prog(w)[issued[w] + 1].to
       THEN transit[s] \cup {[src |-> w, k |-> issued[w] + 1]} ELSE transit[s]]
  /\ UNCHANGED <<plan, server, finishing>>

\* Zoo::FinishTrain, after the last call; k = 0 marks its message.
SendFinish(w) ==
  /\ plan[2] /\ issued[w] = Len(Prog(w)) /\ AllBack(w)
  /\ issued' = [issued EXCEPT ![w] = @ + 1]
  /\ transit' = [s \in Servers |-> transit[s] \cup {[src |-> w, k |-> 0]}]
  /\ UNCHANGED <<plan, server, finishing>>

\* The server's thread is back in its mailbox loop, or between the two halves
\* of ProcessFinishTrain.
Ready(s) == server[s].draining = "no" /\ ~server[s].failed

\* A message reaches the server's mailbox and is handled. A worker has one call
\* under way, so that the order of its messages cannot change.
Receive(s, m) ==
  /\ Ready(s) /\ finishing[s] = {}
  /\ transit' = [transit EXCEPT ![s] = @ \ {m}]
  /\ \/ /\ m.k > 0 /\ Prog(m.src)[m.k].op = "Add"
        /\ server' = [server EXCEPT ![s] = ProcessAdd(@, m)]
        /\ UNCHANGED finishing
     \/ /\ m.k > 0 /\ Prog(m.src)[m.k].op = "Get"
        /\ server' = [server EXCEPT ![s] = ProcessGet(@, m)]
        /\ UNCHANGED finishing
     \/ /\ m.k = 0
        /\ server' = [server EXCEPT ![s] = FinishAdds(@, m.src)]
        /\ finishing' = [finishing EXCEPT ![s] = {m.src}]
  /\ UNCHANGED <<plan, issued>>

\* The second half of ProcessFinishTrain.
FinishRest(s) ==
  /\ Ready(s)
  /\ \E w \in finishing[s] : server' = [server EXCEPT ![s] = FinishGets(@, w)]
  /\ finishing' = [finishing EXCEPT ![s] = {}]
  /\ UNCHANGED <<plan, issued, transit>>

Drain(s) ==
  /\ ~server[s].failed
  /\ \/ server[s].draining = "gets" /\ server' = [server EXCEPT ![s] = DrainGet(@)]
     \/ server[s].draining = "adds" /\ server' = [server EXCEPT ![s] = DrainAdd(@)]
  /\ UNCHANGED <<plan, issued, transit, finishing>>

Handle(s) == (\E m \in transit[s] : Receive(s, m)) \/ FinishRest(s) \/ Drain(s)
Work(w) == Issue(w) \/ SendFinish(w)

Finished(w) == \A k \in DOMAIN Prog(w) : Answered(w, k)
AllFinished ==
  /\ \A w \in Workers : Finished(w) /\ (plan[2] => issued[w] > Len(Prog(w)))
  /\ \A s \in Servers : transit[s] = {} /\ finishing[s] = {} /\ Ready(s)
  /\ UNCHANGED vars

Next ==
  \/ \E w \in Workers : Work(w)
  \/ \E s \in Servers : Handle(s)
  \/ AllFinished

\* Every message is delivered, a server's thread never stops, and a worker goes
\* on when its call has returned.
Fairness ==
  /\ \A w \in Workers : WF_vars(Work(w))
  /\ \A s \in Servers : WF_vars(Handle(s))

Spec == Init /\ [][Next]_vars /\ Fairness

-----------------------------------------------------------------------------
\* Adds that the first k calls of worker w send to server s.
AddsBefore(w, k, s) == {j \in 1..k : Prog(w)[j].op = "Add" /\ s \in Prog(w)[j].to}

\* On every server, and so for the table as a whole, a Get made after j Adds
\* returns the parameters after j Adds of every worker, or all of them if it
\* made fewer and left, although the servers are in different rounds
\* (sync_scheduler.cc:18-20, 78-101).
AfterAllUpdates ==
  \A s \in Servers : \A a \in server[s].replies : \A w \in Workers :
    LET j == Cardinality(AddsBefore(a.src, a.k, s))
        all == Cardinality(AddsBefore(w, Len(Prog(w)), s))
    IN  a.params[w] = IF j <= all THEN j ELSE all

\* No CHECK of a handler fails on any server (sync_scheduler.cc:42-98).
ChecksHold == \A s \in Servers : ~server[s].failed

\* Workers never wait for each other in a cycle across servers: as long as a
\* call is held in a cache, some worker still has a call or its leave to be
\* handled that no cache holds.
Held(w) ==
  \E s \in Servers : \E cache \in {server[s].addCache, server[s].getCache} :
    \E j \in DOMAIN cache : cache[j].src = w
Gone(w) ==
  Finished(w) /\ (plan[2] => \A s \in Servers : server[s].get.local[w] = MaxInt)
SomeoneFree ==
  (\A s \in Servers : Ready(s)) /\ (\E w \in Workers : Held(w)) =>
    \E w \in Workers : ~Held(w) /\ ~Gone(w)

\* Every call of every worker returns.
AllAnswered == <>[](\A w \in Workers : Finished(w))
=============================================================================
