-------------------------------- MODULE Zoo --------------------------------
(* The life of a parameter-server job (hpps/frame/zoo.cc, controller.cc,     *)
(* communicator.cc, actor.cc): every rank starts its communicator, registers *)
(* with the controller on rank 0, starts its server and worker actors, meets *)
(* the others in a barrier, creates its table, trains, and stops. Every      *)
(* message goes through mailboxes: sender's communicator, network channel,   *)
(* receiver's communicator, actor.                                           *)
EXTENDS Integers, Sequences, FiniteSets

CONSTANTS N,             \* number of ranks; rank 0 runs the controller
          Role,          \* Role[r]: the actors of the role of rank r
          Rounds,        \* barriers the application calls, the one after it
                         \* creates its table included
          DropsOnClose   \* closing the network discards what is not sent yet
                         \* (ZeroMQ with ZMQ_LINGER 0)

Ranks == 0..(N - 1)

ASSUME ZooAssumption ==
  /\ N \in Nat \ {0} /\ Rounds \in Nat \ {0} /\ DropsOnClose \in BOOLEAN
  /\ Role \in [Ranks -> SUBSET {"server", "worker"}]
  /\ \E r \in Ranks : "server" \in Role[r]

VARIABLES
  main,     \* main[r]: where the rank's main thread is
  actors,   \* actors[r]: Zoo::zoo_, the actors that RegisterActor has put there
  running,  \* running[r]: the actors whose threads have not been stopped
  box,      \* box[r][a]: the mailbox of actor a, and of Zoo itself
  net,      \* net[r][s]: what r has sent to s and s has not received
  control,  \* the controller's state
  nodes,    \* nodes[r]: the ids of every rank, once r is registered
  table,    \* table[r]: the rank has created its table
  entered, left,  \* how many barriers the rank has called, and returned from
  failed    \* a CHECK failed

vars == <<main, actors, running, box, net, control, nodes, table, entered, left, failed>>

Actors == {"communicator", "controller", "server", "worker"}
Boxes  == Actors \cup {"zoo"}
Msg(type, src, dst) == [type |-> type, src |-> src, dst |-> dst]
RegisterReply(dst, ids) == [type |-> "ReplyRegister", src |-> 0, dst |-> dst, ids |-> ids]
NoId == [worker |-> -1, server |-> -1]
Unregistered == [r \in Ranks |-> NoId]

Init ==
  /\ main    = [r \in Ranks |-> "start"]
  /\ actors  = [r \in Ranks |-> {}]
  /\ running = [r \in Ranks |-> {}]
  /\ box     = [r \in Ranks |-> [a \in Boxes |-> << >>]]
  /\ net     = [r \in Ranks |-> [s \in Ranks |-> << >>]]
  /\ control = [tasks |-> << >>, ids |-> Unregistered, registered |-> 0,
                workers |-> 0, servers |-> 0, sending |-> << >>]
  /\ nodes   = [r \in Ranks |-> Unregistered]
  /\ table   = [r \in Ranks |-> FALSE]
  /\ entered = [r \in Ranks |-> 0] /\ left = [r \in Ranks |-> 0]
  /\ failed  = FALSE

\* Zoo::SendTo: a message for an actor that is not there fails a CHECK.
SendTo(b, r, a, m) ==
  /\ box'    = [b EXCEPT ![r][a] = Append(@, m)]
  /\ failed' = (a # "zoo" /\ a \notin actors[r])

\* Take the first message out of a mailbox.
Popped(r, a) == [box EXCEPT ![r][a] = Tail(@)]
Running(r, a) == ~failed /\ a \in running[r]

-----------------------------------------------------------------------------
(* The main thread of rank r.                                                *)

At(r, pc) == ~failed /\ main[r] = pc
GoTo(r, pc) == main' = [main EXCEPT ![r] = pc]

\* StartPS: the controller on rank 0, then the communicator.
StartCommunicator(r) ==
  LET started == {"communicator"} \cup IF r = 0 THEN {"controller"} ELSE {} IN
  /\ At(r, "start") /\ GoTo(r, "register")
  /\ actors'  = [actors EXCEPT ![r] = started]
  /\ running' = [running EXCEPT ![r] = started]
  /\ UNCHANGED <<box, net, control, nodes, table, entered, left, failed>>

\* RegisterNode: tell the controller, and wait for the ids of every rank.
RegisterNode(r) ==
  /\ At(r, "register") /\ GoTo(r, "registering")
  /\ SendTo(box, r, "communicator", Msg("Register", r, 0))
  /\ UNCHANGED <<actors, running, net, control, nodes, table, entered, left>>

Registered(r) ==
  /\ At(r, "registering") /\ box[r]["zoo"] # << >> /\ GoTo(r, "startServer")
  /\ failed' = (Head(box[r]["zoo"]).type # "ReplyRegister")
  /\ nodes'  = [nodes EXCEPT ![r] = Head(box[r]["zoo"]).ids]
  /\ box'    = Popped(r, "zoo")
  /\ UNCHANGED <<actors, running, net, control, table, entered, left>>

\* The server and the worker of the rank's role put themselves into zoo_.
StartActor(r, pc, a, next) ==
  /\ At(r, pc) /\ GoTo(r, next)
  /\ actors'  = [actors EXCEPT ![r] = @ \cup ({a} \cap Role[r])]
  /\ running' = [running EXCEPT ![r] = @ \cup ({a} \cap Role[r])]
  /\ UNCHANGED <<box, net, control, nodes, table, entered, left, failed>>
StartServer(r) == StartActor(r, "startServer", "server", "startWorker")
StartWorker(r) == StartActor(r, "startWorker", "worker", "barrier")

\* Barrier: ask the controller, and wait for its reply.
Barrier(r) ==
  /\ At(r, "barrier") /\ GoTo(r, "inBarrier")
  /\ SendTo(box, r, "communicator", Msg("Barrier", r, 0))
  /\ entered' = [entered EXCEPT ![r] = @ + 1]
  /\ UNCHANGED <<actors, running, net, control, nodes, table, left>>

\* What follows the barrier of StartPS, those of the application, and that of
\* StopPS, which is the last.
AfterBarrier(k) == IF k = 1 THEN "create" ELSE IF k <= Rounds + 1 THEN "train" ELSE "stop"

BarrierPassed(r) ==
  /\ At(r, "inBarrier") /\ box[r]["zoo"] # << >>
  /\ GoTo(r, AfterBarrier(left[r] + 1))
  /\ failed' = (Head(box[r]["zoo"]).type # "ReplyBarrier")
  /\ left'   = [left EXCEPT ![r] = @ + 1]
  /\ box'    = Popped(r, "zoo")
  /\ UNCHANGED <<actors, running, net, control, nodes, table, entered>>

\* Mutant of AfterCreate: the application does not meet in a barrier.
TrainAtOnce == "train"

\* The application calls a barrier when it has created its table.
AfterCreate == "barrier"

CreateTable(r) ==
  /\ At(r, "create") /\ GoTo(r, AfterCreate)
  /\ table' = [table EXCEPT ![r] = TRUE]
  /\ UNCHANGED <<actors, running, box, net, control, nodes, entered, left, failed>>

\* A worker makes a blocking request to one of the servers, by its id.
Request(r) ==
  /\ At(r, "train") /\ "worker" \in Role[r] /\ GoTo(r, "requesting")
  /\ \E s \in Ranks :
       /\ nodes[r][s].server # -1
       /\ SendTo(box, r, "worker", Msg("Request", r, s))
  /\ UNCHANGED <<actors, running, net, control, nodes, table, entered, left>>

\* A rank that has nothing (more) to request goes on.
EndRound(r) ==
  /\ At(r, "train") /\ GoTo(r, "barrier")
  /\ UNCHANGED <<actors, running, box, net, control, nodes, table, entered, left, failed>>

\* Actor::Stop: once its mailbox is empty the actor's threads end. Zoo::Stop
\* stops the actors in the order zoo_ happens to list them.
StopActor(r) ==
  /\ At(r, "stop")
  /\ \E a \in running[r] :
       /\ box[r][a] = << >>
       /\ a = "controller" => control.sending = << >>
       /\ running' = [running EXCEPT ![r] = @ \ {a}]
  /\ UNCHANGED <<main, actors, box, net, control, nodes, table, entered, left, failed>>

\* What remains of r's channels when its network is closed: ZeroMQ sends in the
\* background and may not have got further than some prefix of each.
Closed(r) ==
  LET prefixes(q) == {SubSeq(q, 1, k) : k \in 0..Len(q)}
  IN  IF ~DropsOnClose THEN {net[r]}
      ELSE {out \in [Ranks -> UNION {prefixes(net[r][s]) : s \in Ranks}] :
              \A s \in Ranks : out[s] \in prefixes(net[r][s])}

\* The end of Zoo::Stop: the network is closed and the actors are deleted.
Finalize(r) ==
  /\ At(r, "stop") /\ running[r] = {} /\ GoTo(r, "stopped")
  /\ \E out \in Closed(r) : net' = [net EXCEPT ![r] = out]
  /\ actors' = [actors EXCEPT ![r] = {}]
  /\ UNCHANGED <<running, box, control, nodes, table, entered, left, failed>>

Main(r) ==
  \/ StartCommunicator(r) \/ RegisterNode(r) \/ Registered(r)
  \/ StartServer(r) \/ StartWorker(r)
  \/ Barrier(r) \/ BarrierPassed(r)
  \/ CreateTable(r) \/ Request(r) \/ EndRound(r)
  \/ StopActor(r) \/ Finalize(r)

-----------------------------------------------------------------------------
(* The communicator.                                                         *)

\* LocalForward: which mailbox a message type goes to.
Recipient(m) ==
  CASE m.type = "Request"                -> "server"
    [] m.type = "Reply"                  -> "worker"
    [] m.type \in {"Register", "Barrier"} -> "controller"
    [] OTHER                             -> "zoo"

\* ProcessMessage: send to another rank, or forward to an actor of this one.
CommunicatorSends(r) ==
  LET m == Head(box[r]["communicator"]) IN
  /\ Running(r, "communicator") /\ box[r]["communicator"] # << >>
  /\ IF m.dst # r
     THEN /\ net' = [net EXCEPT ![r][m.dst] = Append(@, m)]
          /\ box' = Popped(r, "communicator") /\ UNCHANGED failed
     ELSE /\ SendTo(Popped(r, "communicator"), r, Recipient(m), m)
          /\ UNCHANGED net
  /\ UNCHANGED <<main, actors, running, control, nodes, table, entered, left>>

\* Communicate: receive from the network and forward.
CommunicatorReceives(r, s) ==
  LET m == Head(net[s][r]) IN
  /\ Running(r, "communicator") /\ net[s][r] # << >>
  /\ net' = [net EXCEPT ![s][r] = Tail(@)]
  /\ SendTo(box, r, Recipient(m), m)
  /\ UNCHANGED <<main, actors, running, control, nodes, table, entered, left>>

-----------------------------------------------------------------------------
(* The controller, on rank 0, has one thread: it sends its replies one by    *)
(* one and takes no new message in between.                                  *)

Controls(type) ==
  /\ Running(0, "controller") /\ control.sending = << >>
  /\ box[0]["controller"] # << >> /\ Head(box[0]["controller"]).type = type
  /\ box' = Popped(0, "controller")

\* Mutant of AssignId: every rank is numbered, whatever its role.
AssignAlways(r, a, n) == n

\* The worker (or server) id of rank r, when n ranks were given one before it.
AssignId(r, a, n) == IF a \in Role[r] THEN n ELSE -1

\* RegisterController: number the workers and the servers as they register;
\* when all have, tell every rank, rank 0 last.
ControlRegister ==
  LET r      == Head(box[0]["controller"]).src
      one(a) == IF a \in Role[r] THEN 1 ELSE 0
      ids    == [control.ids EXCEPT ![r] =
                   [worker |-> AssignId(r, "worker", control.workers),
                    server |-> AssignId(r, "server", control.servers)]]
  IN
  /\ Controls("Register")
  /\ control' = [control EXCEPT
       !.ids = ids, !.registered = @ + 1,
       !.workers = @ + one("worker"), !.servers = @ + one("server"),
       !.sending = IF control.registered + 1 = N
                   THEN [i \in 1..N |-> RegisterReply(N - i, ids)] ELSE << >>]
  /\ UNCHANGED <<main, actors, running, net, nodes, table, entered, left, failed>>

\* Mutants of BarrierIsFull and of AnswerOrder: one rank is not waited for;
\* rank 0 is answered first.
AlmostFull(n) == n >= N - 1
MineFirst(tasks) ==
  SelectSeq(tasks, LAMBDA m : m.src = 0) \o SelectSeq(tasks, LAMBDA m : m.src # 0)

\* BarrierController: when all ranks have asked, answer each, rank 0 last.
BarrierIsFull(n) == n = N
AnswerOrder(tasks) ==
  LET mine == {k \in DOMAIN tasks : tasks[k].src = 0}
  IN  [i \in 1..Len(tasks) |->
         IF \A k \in mine : i < k THEN tasks[i]
         ELSE IF i < Len(tasks) THEN tasks[i + 1] ELSE tasks[CHOOSE k \in mine : TRUE]]
BarrierReplies(tasks) ==
  [i \in 1..Len(tasks) |-> Msg("ReplyBarrier", 0, AnswerOrder(tasks)[i].src)]

ControlBarrier ==
  LET tasks == Append(control.tasks, Head(box[0]["controller"])) IN
  /\ Controls("Barrier")
  /\ control' = IF BarrierIsFull(Len(tasks))
                THEN [control EXCEPT !.tasks = << >>, !.sending = BarrierReplies(tasks)]
                ELSE [control EXCEPT !.tasks = tasks]
  /\ UNCHANGED <<main, actors, running, net, nodes, table, entered, left, failed>>

ControllerSends ==
  /\ Running(0, "controller") /\ control.sending # << >>
  /\ SendTo(box, 0, "communicator", Head(control.sending))
  /\ control' = [control EXCEPT !.sending = Tail(@)]
  /\ UNCHANGED <<main, actors, running, net, nodes, table, entered, left>>

-----------------------------------------------------------------------------
(* The server and the worker actor, as far as the life of the job goes.      *)

\* Server::ProcessGet and the like: the table must exist; then the request is
\* answered (a synchronous table may answer later, see SyncScheduler).
ServerAnswers(r) ==
  LET m == Head(box[r]["server"]) IN
  /\ Running(r, "server") /\ box[r]["server"] # << >>
  /\ IF table[r] THEN SendTo(Popped(r, "server"), r, "communicator", Msg("Reply", r, m.src))
                 ELSE failed' = TRUE /\ box' = Popped(r, "server")
  /\ UNCHANGED <<main, actors, running, net, control, nodes, table, entered, left>>

\* The worker actor hands requests on, and wakes the caller when the reply is in.
WorkerForwards(r) ==
  LET m == Head(box[r]["worker"]) IN
  /\ Running(r, "worker") /\ box[r]["worker"] # << >> /\ m.type = "Request"
  /\ SendTo(Popped(r, "worker"), r, "communicator", m)
  /\ UNCHANGED <<main, actors, running, net, control, nodes, table, entered, left>>
WorkerNotifies(r) ==
  /\ Running(r, "worker") /\ box[r]["worker"] # << >>
  /\ Head(box[r]["worker"]).type = "Reply"
  /\ box' = Popped(r, "worker") /\ GoTo(r, "barrier")
  /\ UNCHANGED <<actors, running, net, control, nodes, table, entered, left, failed>>

Communicator(r) == CommunicatorSends(r) \/ \E s \in Ranks : CommunicatorReceives(r, s)
Controller      == ControlRegister \/ ControlBarrier \/ ControllerSends
Worker(r)       == WorkerForwards(r) \/ WorkerNotifies(r)

AllStopped == (\A r \in Ranks : main[r] = "stopped") /\ UNCHANGED vars

Next ==
  \/ \E r \in Ranks : Main(r) \/ Communicator(r) \/ ServerAnswers(r) \/ Worker(r)
  \/ Controller
  \/ AllStopped

\* Every thread keeps running, and the receiving thread polls every channel.
Fairness ==
  /\ \A r \in Ranks : WF_vars(Main(r)) /\ WF_vars(CommunicatorSends(r))
                      /\ WF_vars(ServerAnswers(r)) /\ WF_vars(Worker(r))
  /\ \A r, s \in Ranks : WF_vars(CommunicatorReceives(r, s))
  /\ WF_vars(Controller)

Spec == Init /\ [][Next]_vars /\ Fairness

-----------------------------------------------------------------------------
Ids     == [Ranks -> [worker : Int, server : Int]]
Message == [type : {"Register", "Barrier", "ReplyBarrier", "Request", "Reply"},
            src : Ranks, dst : Ranks]
           \cup [type : {"ReplyRegister"}, src : {0}, dst : Ranks, ids : Ids]
\* No CHECK fails: a message always finds the actor and the table it is for
\* (zoo.cc:80, server.cc:47), and the reply the main thread waits for is the one
\* that comes (zoo.cc:138, 185).
NoCheckFails == ~failed

\* Zoo::Barrier is a barrier: nobody is back from the k-th before everybody has
\* called it.
BarrierHolds == \A r, s \in Ranks : left[r] <= entered[s]

\* When rank 0 is back from a barrier, every other rank's reply is out of rank
\* 0's process: "my reply should be the last one" (controller.cc:23). So rank 0
\* can stop without keeping the others waiting.
RepliesAreOut ==
  \A r \in Ranks \ {0} :
    left[r] < left[0] =>
      \E q \in {net[0][r], box[r]["zoo"]} :
        \E i \in DOMAIN q : q[i] = Msg("ReplyBarrier", 0, r)

\* Every registered rank has the same ids, and the ids of the workers and of the
\* servers are 0, 1, 2... without gap, so that a server id names one rank.
IdsAgree ==
  \A r \in Ranks : main[r] \notin {"start", "register", "registering"} =>
    /\ \A s \in Ranks : main[s] \notin {"start", "register", "registering"} =>
         nodes[r] = nodes[s]
    /\ \A a \in {"worker", "server"} :
         LET has == {s \in Ranks : a \in Role[s]} IN
         /\ {nodes[r][s][a] : s \in has} = 0..(Cardinality(has) - 1)
         /\ \A s \in Ranks \ has : nodes[r][s][a] = -1

\* Nothing is sent to a rank that has stopped.
NothingLost ==
  \A r \in Ranks : main[r] = "stopped" => \A s \in Ranks : net[s][r] = << >>

\* zoo_ is not written while a thread of the communicator is about to look an
\* actor up in it: "the start order is non-trivial, communicator should be last"
\* (zoo.cc:96).
LooksUp(r, q) == q # << >> /\ Head(q).dst = r /\ Recipient(Head(q)) # "zoo"
Registering(r) ==
  \/ main[r] = "startServer" /\ "server" \in Role[r]
  \/ main[r] = "startWorker" /\ "worker" \in Role[r]
ActorTableStable ==
  \A r \in Ranks :
    Registering(r) =>
      ~LooksUp(r, box[r]["communicator"]) /\ \A s \in Ranks : ~LooksUp(r, net[s][r])

\* Every rank gets to the end of Zoo::Stop.
AllStop == <>[](\A r \in Ranks : main[r] = "stopped")
=============================================================================
