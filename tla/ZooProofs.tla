----------------------------- MODULE ZooProofs -----------------------------
(* Proofs about Zoo, for any number of ranks, roles and rounds: no CHECK     *)
(* fails, a barrier is one, the ids agree, nothing is sent to a rank that    *)
(* has stopped, and, on a network that sends what it accepted, rank 0 is     *)
(* the last to be answered.                                                  *)
EXTENDS Zoo, FiniteSetTheorems, SequenceTheorems, TLAPS

-----------------------------------------------------------------------------
(* Every queue a message can be in, under one name.                          *)

Mail(r, a) == <<"box", r, a>>
Wire(r, s) == <<"net", r, s>>
Sending    == <<"sending", 0, 0>>
Tasks      == <<"tasks", 0, 0>>
Names ==
  ({"box"} \X Ranks \X Boxes) \cup ({"net"} \X Ranks \X Ranks) \cup {Sending, Tasks}

QueuesOf(b, n, s, t) ==
  [q \in Names |-> IF q[1] = "box" THEN b[q[2]][q[3]]
                   ELSE IF q[1] = "net" THEN n[q[2]][q[3]]
                   ELSE IF q = Sending THEN s ELSE t]
Queues == QueuesOf(box, net, control.sending, control.tasks)

In(Q, q, m)     == \E i \in DOMAIN Q[q] : Q[q][i] = m
Somewhere(Q, m) == \E q \in Names : In(Q, q, m)

\* The rank whose main thread waits for the end of a message's way.
Owner(m) == IF m.type \in {"Register", "Barrier", "Request"} THEN m.src ELSE m.dst

\* A rank waits for one message, which is in one place.
OneEach(Q) ==
  \A p, q \in Names : \A i \in DOMAIN Q[p], j \in DOMAIN Q[q] :
    Owner(Q[p][i]) = Owner(Q[q][j]) => p = q /\ i = j

\* Where a message can be.
ToMain == {"ReplyRegister", "ReplyBarrier"}
Route(m, q) ==
  \/ q = Tasks /\ m.type = "Barrier"
  \/ q = Sending /\ m.type \in ToMain
  \/ \E r \in Ranks :
       \/ q = Mail(r, "communicator") /\ m.src = r
       \/ q = Mail(r, "server") /\ m.type = "Request" /\ m.dst = r
       \/ q = Mail(r, "worker") /\ m.type = "Request" /\ m.src = r
       \/ q = Mail(r, "worker") /\ m.type = "Reply" /\ m.dst = r
       \/ q = Mail(r, "zoo") /\ m.type \in ToMain /\ m.dst = r
  \/ q = Mail(0, "controller") /\ m.type \in {"Register", "Barrier"}
  \/ \E r, s \in Ranks : q = Wire(r, s) /\ m.src = r /\ m.dst = s

-----------------------------------------------------------------------------
(* The inductive invariant. The number c is that of the barriers the         *)
(* controller has answered.                                                  *)

Early   == {"start", "register", "registering", "startServer", "startWorker"}
MainPcs == Early \cup {"barrier", "inBarrier", "create", "train", "requesting", "stop", "stopped"}

TypeOK ==
  /\ main \in [Ranks -> MainPcs]
  /\ actors \in [Ranks -> SUBSET Actors] /\ running \in [Ranks -> SUBSET Actors]
  /\ box \in [Ranks -> [Boxes -> Seq(Message)]] /\ net \in [Ranks -> [Ranks -> Seq(Message)]]
  /\ control \in [tasks : Seq(Message), ids : Ids, registered : Nat,
                  workers : Nat, servers : Nat, sending : Seq(Message)]
  /\ nodes \in [Ranks -> Ids] /\ table \in [Ranks -> BOOLEAN]
  /\ entered \in [Ranks -> Nat] /\ left \in [Ranks -> Nat]

\* What the main thread of the message's owner waits for.
WaitsFor(type) ==
  IF type \in {"Register", "ReplyRegister"} THEN "registering"
  ELSE IF type \in {"Barrier", "ReplyBarrier"} THEN "inBarrier" ELSE "requesting"

Fits(m, q, c) ==
  /\ Route(m, q) /\ main[Owner(m)] = WaitsFor(m.type)
  /\ m.type \in {"Register", "Barrier"} => m.dst = 0
  /\ m.type \in ToMain => m.src = 0
  /\ m.type = "Request" => "server" \in Role[m.dst]
  /\ m.type = "ReplyRegister" => m.ids = control.ids /\ control.registered = N
  /\ m.type = "Barrier" => left[m.src] = c
  /\ m.type = "ReplyBarrier" => left[m.dst] + 1 = c
MessagesOK(c) ==
  /\ OneEach(Queues)
  /\ \A q \in Names : \A i \in DOMAIN Queues[q] : Fits(Queues[q][i], q, c)

\* A rank has been answered every barrier but the one it is in.
ClockOK(r, c) ==
  /\ left[r] = c \/ (main[r] = "inBarrier" /\ left[r] + 1 = c)
  /\ entered[r] = IF main[r] = "inBarrier" THEN left[r] + 1 ELSE left[r]

\* How far the main thread is.
MainOK(r) ==
  /\ main[r] \in Early => left[r] = 0
  /\ main[r] = "create" => left[r] = 1
  /\ main[r] \in {"train", "requesting"} => left[r] \in 2..(Rounds + 1)
  /\ main[r] \in {"barrier", "inBarrier"} => left[r] <= Rounds + 1
  /\ main[r] \in {"stop", "stopped"} => left[r] = Rounds + 2
  /\ left[r] # 0 /\ main[r] # "create" => table[r]
  /\ main[r] = "requesting" => "worker" \in Role[r]

ActorsOK(r) ==
  /\ running[r] \subseteq actors[r]
  /\ main[r] \in {"start", "stopped"} => running[r] = {}
  /\ main[r] \notin {"start", "stopped"} =>
       "communicator" \in actors[r] /\ (r = 0 => "controller" \in actors[r])
  /\ main[r] \notin {"start", "stopped", "register", "registering", "startServer"} =>
       ("server" \in Role[r] => "server" \in actors[r])
  /\ main[r] \notin Early \cup {"stopped"} => Role[r] \subseteq actors[r]

\* The ranks that the controller has registered, and the ids it has given out.
Known ==
  {r \in Ranks : /\ main[r] \notin {"start", "register"}
                 /\ ~Somewhere(Queues, Msg("Register", r, 0))}
Has(a) == {s \in Ranks : a \in Role[s]}
Numbered(a, n, ids, known) ==
  /\ n = Cardinality(known \cap Has(a))
  /\ {ids[s][a] : s \in known \cap Has(a)} = 0..(n - 1)
  /\ \A s \in Ranks \ Has(a) : ids[s][a] = -1
IdsOK ==
  /\ control.registered = Cardinality(Known)
  /\ Numbered("worker", control.workers, control.ids, Known)
  /\ Numbered("server", control.servers, control.ids, Known)
  /\ \A r \in Ranks : main[r] \notin {"start", "register", "registering"} =>
       nodes[r] = control.ids /\ control.registered = N

InvAt(c) ==
  /\ TypeOK /\ ~failed /\ IdsOK
  /\ \A r \in Ranks : MainOK(r) /\ ActorsOK(r)
  /\ MessagesOK(c) /\ \A r \in Ranks : ClockOK(r, c)
Inv == \E c \in 0..(Rounds + 2) : InvAt(c)

\* With a network that keeps what it accepted: a rank that was answered has its
\* answer under way, and rank 0's comes after those that are still in rank 0.
AnswerExists(c) ==
  \A r \in Ranks : main[r] = "inBarrier" /\ left[r] + 1 = c =>
    Somewhere(Queues, Msg("ReplyBarrier", 0, r))
ToZero(m) == m.type \in ToMain /\ m.dst = 0
ZeroIsLast(out, s) ==
  /\ s # << >> => ToZero(s[Len(s)])
  /\ \A i \in DOMAIN out : out[i].type \in ToMain =>
       s # << >> \/ \E j \in DOMAIN out : j >= i /\ ToZero(out[j])
AnswersAt(c) == AnswerExists(c) /\ ZeroIsLast(box[0]["communicator"], control.sending)
InvWithAnswers == \E c \in 0..(Rounds + 2) : InvAt(c) /\ AnswersAt(c)

-----------------------------------------------------------------------------
(* The names of the queues.                                                  *)

LEMMA NamesDiffer ==
  /\ \A r, s, a, b : Mail(r, a) = Mail(s, b) <=> r = s /\ a = b
  /\ \A r, s, t, u : Wire(r, s) = Wire(t, u) <=> r = t /\ s = u
  /\ \A r, s, t, a : Mail(r, a) # Wire(s, t)
  /\ \A r, a : Mail(r, a) # Sending /\ Mail(r, a) # Tasks
  /\ \A r, s : Wire(r, s) # Sending /\ Wire(r, s) # Tasks
  /\ Sending # Tasks
BY DEF Mail, Wire, Sending, Tasks

LEMMA NamesAre ==
  /\ \A r \in Ranks, a \in Boxes : Mail(r, a) \in Names
  /\ \A r, s \in Ranks : Wire(r, s) \in Names
  /\ Sending \in Names /\ Tasks \in Names
  /\ \A q \in Names : \/ \E r \in Ranks, a \in Boxes : q = Mail(r, a)
                      \/ \E r, s \in Ranks : q = Wire(r, s)
                      \/ q = Sending \/ q = Tasks
BY DEF Names, Mail, Wire

LEMMA QueueIs ==
  ASSUME NEW b, NEW n, NEW s, NEW t
  PROVE  /\ \A r \in Ranks, a \in Boxes : QueuesOf(b, n, s, t)[Mail(r, a)] = b[r][a]
         /\ \A r, u \in Ranks : QueuesOf(b, n, s, t)[Wire(r, u)] = n[r][u]
         /\ QueuesOf(b, n, s, t)[Sending] = s /\ QueuesOf(b, n, s, t)[Tasks] = t
<1>1. ASSUME NEW q \in Names
      PROVE  QueuesOf(b, n, s, t)[q] = IF q[1] = "box" THEN b[q[2]][q[3]]
                                       ELSE IF q[1] = "net" THEN n[q[2]][q[3]]
                                       ELSE IF q = Sending THEN s ELSE t
  BY DEF QueuesOf
<1>2. ASSUME NEW r \in Ranks, NEW a \in Boxes PROVE QueuesOf(b, n, s, t)[Mail(r, a)] = b[r][a]
  <2>1. Mail(r, a)[1] = "box" /\ Mail(r, a)[2] = r /\ Mail(r, a)[3] = a
    BY DEF Mail
  <2> QED
    BY <1>1, <2>1, NamesAre
<1>3. ASSUME NEW r \in Ranks, NEW u \in Ranks PROVE QueuesOf(b, n, s, t)[Wire(r, u)] = n[r][u]
  <2>1. Wire(r, u)[1] = "net" /\ Wire(r, u)[2] = r /\ Wire(r, u)[3] = u
    BY DEF Wire
  <2> QED
    BY <1>1, <2>1, NamesAre
<1>4. Sending[1] = "sending" /\ Tasks[1] = "tasks"
  BY DEF Sending, Tasks
<1> QED
  BY <1>1, <1>2, <1>3, <1>4, NamesAre, NamesDiffer

Shows(Q, b, n, s, t) ==
  /\ \A r \in Ranks, a \in Boxes : Q[Mail(r, a)] = b[r][a]
  /\ \A r, u \in Ranks : Q[Wire(r, u)] = n[r][u]
  /\ Q[Sending] = s /\ Q[Tasks] = t
LEMMA QueuesShow ==
  ASSUME NEW b, NEW n, NEW s, NEW t, NEW Q, Q = QueuesOf(b, n, s, t)
  PROVE  Shows(Q, b, n, s, t)
BY QueueIs DEF Shows

LEMMA QueuesTyped ==
  ASSUME NEW b \in [Ranks -> [Boxes -> Seq(Message)]], NEW n \in [Ranks -> [Ranks -> Seq(Message)]],
         NEW s \in Seq(Message), NEW t \in Seq(Message)
  PROVE  QueuesOf(b, n, s, t) \in [Names -> Seq(Message)]
<1>1. ASSUME NEW q \in Names PROVE QueuesOf(b, n, s, t)[q] \in Seq(Message)
  <2>1. CASE \E r \in Ranks, a \in Boxes : q = Mail(r, a)
    <3>1. PICK r \in Ranks, a \in Boxes : q = Mail(r, a)
      BY <2>1
    <3>2. QueuesOf(b, n, s, t)[q] = b[r][a]
      BY <3>1, QueueIs
    <3> QED
      BY <3>2
  <2>2. CASE \E r, u \in Ranks : q = Wire(r, u)
    <3>1. PICK r \in Ranks, u \in Ranks : q = Wire(r, u)
      BY <2>2
    <3>2. QueuesOf(b, n, s, t)[q] = n[r][u]
      BY <3>1, QueueIs
    <3> QED
      BY <3>2
  <2>3. CASE q = Sending \/ q = Tasks
    BY <2>3, QueueIs
  <2> QED
    BY <2>1, <2>2, <2>3, NamesAre
<1>2. QueuesOf(b, n, s, t) = [q \in Names |-> QueuesOf(b, n, s, t)[q]]
  BY DEF QueuesOf
<1> QED
  BY <1>1, <1>2

-----------------------------------------------------------------------------
(* What taking a message out of a queue and putting one in does.             *)

Pops(Q, P, q) ==
  Q[q] # << >> /\ \A x \in Names : P[x] = IF x = q THEN Tail(Q[x]) ELSE Q[x]
Pushes(Q, P, q, m) ==
  \A x \in Names : P[x] = IF x = q THEN Append(Q[x], m) ELSE Q[x]
Moves(Q, P, p, q, m) ==
  /\ Q[p] # << >> /\ p # q
  /\ \A x \in Names : P[x] = IF x = p THEN Tail(Q[x])
                              ELSE IF x = q THEN Append(Q[x], m) ELSE Q[x]
QueueSet == [Names -> Seq(Message)]

LEMMA InIsOwned ==
  ASSUME NEW Q, OneEach(Q), NEW p \in Names, NEW q \in Names, NEW m, NEW n,
         In(Q, p, m), In(Q, q, n), Owner(m) = Owner(n)
  PROVE  p = q /\ m = n
BY DEF OneEach, In

LEMMA PopLemma ==
  ASSUME NEW Q \in QueueSet, OneEach(Q), NEW P, NEW q \in Names, Pops(Q, P, q)
  PROVE  /\ OneEach(P) /\ Head(Q[q]) \in Message /\ In(Q, q, Head(Q[q]))
         /\ \A x \in Names : \A m : In(P, x, m) <=> In(Q, x, m) /\ m # Head(Q[q])
         /\ \A x \in Names : \A m : In(P, x, m) => Owner(m) # Owner(Head(Q[q]))
<1>1. PICK f \in Seq(Message) : f = Q[q] /\ f # << >>
  BY DEF QueueSet, Pops
<1>2. /\ Len(f) \in Nat \ {0} /\ DOMAIN f = 1..Len(f) /\ Head(f) = f[1] /\ f[1] \in Message
  BY <1>1, EmptySeq, LenProperties, ElementOfSeq
<1>3. /\ DOMAIN Tail(f) = 1..(Len(f) - 1)
      /\ \A i \in 1..(Len(f) - 1) : Tail(f)[i] = f[i + 1]
  BY <1>1, <1>2, HeadTailProperties, LenProperties
<1>4. P[q] = Tail(f) /\ \A x \in Names : x # q => P[x] = Q[x]
  BY <1>1 DEF Pops
<1>5. In(Q, q, Head(Q[q])) /\ Head(Q[q]) = f[1]
  BY <1>1, <1>2 DEF In
<1>6. ASSUME NEW x \in Names, NEW i \in DOMAIN P[x]
      PROVE  \/ x # q /\ i \in DOMAIN Q[x] /\ P[x][i] = Q[x][i]
             \/ /\ x = q /\ i \in Nat /\ i + 1 \in DOMAIN Q[x] /\ P[x][i] = Q[x][i + 1]
                /\ i + 1 # 1
  <2>1. CASE x = q
    <3>1. i \in 1..(Len(f) - 1)
      BY <1>3, <1>4, <2>1
    <3>2. P[x][i] = f[i + 1] /\ i + 1 \in 1..Len(f) /\ i \in Nat /\ i + 1 # 1
      BY <1>2, <1>3, <1>4, <2>1, <3>1
    <3> QED
      BY <1>1, <1>2, <2>1, <3>2
  <2>2. CASE x # q
    BY <1>4, <2>2
  <2> QED
    BY <2>1, <2>2
<1>7. OneEach(P)
  <2> SUFFICES ASSUME NEW x \in Names, NEW y \in Names, NEW i \in DOMAIN P[x], NEW j \in DOMAIN P[y],
                      Owner(P[x][i]) = Owner(P[y][j])
               PROVE  x = y /\ i = j
    BY DEF OneEach
  <2>1. CASE x = q /\ y = q
    BY <1>6, <2>1 DEF OneEach
  <2>2. CASE x = q /\ y # q
    BY <1>6, <2>2 DEF OneEach
  <2>3. CASE x # q /\ y = q
    BY <1>6, <2>3 DEF OneEach
  <2>4. CASE x # q /\ y # q
    BY <1>6, <2>4 DEF OneEach
  <2> QED
    BY <2>1, <2>2, <2>3, <2>4
<1>8. ASSUME NEW x \in Names, NEW m, In(P, x, m)
      PROVE  In(Q, x, m) /\ Owner(m) # Owner(Head(Q[q]))
  <2>1. PICK i \in DOMAIN P[x] : P[x][i] = m
    BY <1>8 DEF In
  <2>2. PICK j \in DOMAIN Q[x] : Q[x][j] = m /\ (x = q => j # 1)
    BY <1>6, <2>1
  <2>3. In(Q, x, m)
    BY <2>2 DEF In
  <2>4. 1 \in DOMAIN Q[q] /\ Q[q][1] = Head(Q[q])
    BY <1>1, <1>2
  <2>5. Owner(Q[x][j]) # Owner(Q[q][1])
    BY <2>2, <2>4 DEF OneEach
  <2> QED
    BY <2>2, <2>3, <2>4, <2>5
<1>9. ASSUME NEW x \in Names, NEW m, In(Q, x, m), m # Head(Q[q]) PROVE In(P, x, m)
  <2>1. PICK i \in DOMAIN Q[x] : Q[x][i] = m
    BY <1>9 DEF In
  <2>2. CASE x = q
    <3>1. i \in 1..Len(f) /\ i # 1 /\ f[i] = m
      BY <1>1, <1>2, <1>9, <2>1, <2>2
    <3>2. i - 1 \in 1..(Len(f) - 1)
      BY <1>2, <3>1
    <3>3. i - 1 \in DOMAIN P[x] /\ P[x][i - 1] = m
      BY <1>2, <1>3, <1>4, <2>2, <3>1, <3>2
    <3> QED
      BY <3>3 DEF In
  <2>3. CASE x # q
    BY <1>4, <2>1, <2>3 DEF In
  <2> QED
    BY <2>2, <2>3
<1> QED
  BY <1>2, <1>5, <1>7, <1>8, <1>9

LEMMA PushLemma ==
  ASSUME NEW Q \in QueueSet, OneEach(Q), NEW P, NEW q \in Names, NEW m, Pushes(Q, P, q, m),
         \A x \in Names : \A n : In(Q, x, n) => Owner(n) # Owner(m)
  PROVE  /\ OneEach(P)
         /\ \A x \in Names : \A n : In(P, x, n) <=> In(Q, x, n) \/ (x = q /\ n = m)
<1>1. PICK f \in Seq(Message) : f = Q[q]
  BY DEF QueueSet
<1>2. Len(f) \in Nat /\ DOMAIN f = 1..Len(f)
  BY <1>1, LenProperties
<1>3. f \in Seq(Message \cup {m}) /\ m \in Message \cup {m}
  <2>1. \A i \in 1..Len(f) : f[i] \in Message \cup {m}
    BY <1>1, ElementOfSeq
  <2> QED
    BY <1>1, <1>2, <2>1
<1>4. /\ DOMAIN Append(f, m) = 1..(Len(f) + 1)
      /\ \A i \in 1..Len(f) : Append(f, m)[i] = f[i]
      /\ Append(f, m)[Len(f) + 1] = m
  BY <1>2, <1>3, AppendProperties, LenProperties
<1>5. P[q] = Append(f, m) /\ \A x \in Names : x # q => P[x] = Q[x]
  BY <1>1 DEF Pushes
<1>6. ASSUME NEW x \in Names, NEW i \in DOMAIN P[x]
      PROVE  \/ i \in DOMAIN Q[x] /\ P[x][i] = Q[x][i]
             \/ x = q /\ i = Len(f) + 1 /\ P[x][i] = m
  BY <1>1, <1>2, <1>4, <1>5
<1>7. \A x \in Names : \A i \in DOMAIN Q[x] : Owner(Q[x][i]) # Owner(m)
  BY DEF In
<1>8. OneEach(P)
  BY <1>6, <1>7 DEF OneEach
<1>9. ASSUME NEW x \in Names, NEW n, In(P, x, n) PROVE In(Q, x, n) \/ (x = q /\ n = m)
  BY <1>6, <1>9 DEF In
<1>10. ASSUME NEW x \in Names, NEW n, In(Q, x, n) PROVE In(P, x, n)
  <2>1. PICK i \in DOMAIN Q[x] : Q[x][i] = n
    BY <1>10 DEF In
  <2>2. CASE x = q
    <3>1. i \in 1..Len(f) /\ i \in 1..(Len(f) + 1)
      BY <1>1, <1>2, <2>1, <2>2
    <3> QED
      BY <1>1, <1>4, <1>5, <2>1, <2>2, <3>1 DEF In
  <2>3. CASE x # q
    BY <1>5, <2>1, <2>3 DEF In
  <2> QED
    BY <2>2, <2>3
<1>11. In(P, q, m)
  BY <1>2, <1>4, <1>5 DEF In
<1> QED
  BY <1>8, <1>9, <1>10, <1>11

LEMMA MoveLemma ==
  ASSUME NEW Q \in QueueSet, OneEach(Q), NEW P, NEW p \in Names, NEW q \in Names, NEW m,
         Moves(Q, P, p, q, m), Owner(m) = Owner(Head(Q[p]))
  PROVE  /\ OneEach(P) /\ Head(Q[p]) \in Message /\ In(Q, p, Head(Q[p]))
         /\ \A x \in Names : \A n :
              In(P, x, n) <=> (In(Q, x, n) /\ n # Head(Q[p])) \/ (x = q /\ n = m)
<1>1. PICK R : R = [x \in Names |-> IF x = p THEN Tail(Q[x]) ELSE Q[x]]
  OBVIOUS
<1>2. Pops(Q, R, p)
  BY <1>1 DEF Pops, Moves
<1>3. /\ OneEach(R) /\ Head(Q[p]) \in Message /\ In(Q, p, Head(Q[p]))
      /\ \A x \in Names : \A n : In(R, x, n) <=> In(Q, x, n) /\ n # Head(Q[p])
      /\ \A x \in Names : \A n : In(R, x, n) => Owner(n) # Owner(Head(Q[p]))
  BY <1>2, PopLemma
<1>4. R \in QueueSet
  <2>1. \A x \in Names : Q[x] \in Seq(Message)
    BY DEF QueueSet
  <2>2. Q[p] # << >>
    BY DEF Moves
  <2>3. Tail(Q[p]) \in Seq(Message)
    BY <2>1, <2>2, HeadTailProperties
  <2> QED
    BY <1>1, <2>1, <2>3 DEF QueueSet
<1>5. Pushes(R, P, q, m)
  BY <1>1 DEF Pushes, Moves
<1>6. /\ OneEach(P)
      /\ \A x \in Names : \A n : In(P, x, n) <=> In(R, x, n) \/ (x = q /\ n = m)
  BY <1>3, <1>4, <1>5, PushLemma
<1> QED
  BY <1>3, <1>6

-----------------------------------------------------------------------------
(* The same, for mailboxes, channels and the controller's two lists.         *)

BoxSet  == [Ranks -> [Boxes -> Seq(Message)]]
WireSet == [Ranks -> [Ranks -> Seq(Message)]]
MsgSeq  == Seq(Message)

LEMMA BoxPushed ==
  ASSUME NEW b \in BoxSet, NEW n, NEW s, NEW t, NEW r \in Ranks, NEW a \in Boxes, NEW m,
         NEW c, c = [b EXCEPT ![r][a] = Append(@, m)]
  PROVE  /\ Pushes(QueuesOf(b, n, s, t), QueuesOf(c, n, s, t), Mail(r, a), m)
         /\ m \in Message => c \in BoxSet
<1>1. \A u \in Ranks, x \in Boxes : c[u][x] = IF u = r /\ x = a THEN Append(b[u][x], m) ELSE b[u][x]
  BY DEF BoxSet
<1>2. ASSUME m \in Message PROVE c \in BoxSet
  BY <1>2 DEF BoxSet
<1>3. PICK Q, P : Q = QueuesOf(b, n, s, t) /\ P = QueuesOf(c, n, s, t)
  OBVIOUS
<1>4. /\ \A u \in Ranks, x \in Boxes : Q[Mail(u, x)] = b[u][x] /\ P[Mail(u, x)] = c[u][x]
      /\ \A u, v \in Ranks : Q[Wire(u, v)] = P[Wire(u, v)]
      /\ Q[Sending] = P[Sending] /\ Q[Tasks] = P[Tasks]
  <2>1. Shows(Q, b, n, s, t)
    BY ONLY <1>3, QueuesShow
  <2>2. Shows(P, c, n, s, t)
    BY ONLY <1>3, QueuesShow
  <2> QED
    BY <2>1, <2>2 DEF Shows
<1>5. ASSUME NEW x \in Names PROVE P[x] = IF x = Mail(r, a) THEN Append(Q[x], m) ELSE Q[x]
  BY <1>1, <1>4, NamesAre, NamesDiffer
<1> QED
  BY <1>2, <1>3, <1>5 DEF Pushes

LEMMA BoxPopped ==
  ASSUME NEW b \in BoxSet, NEW n, NEW s, NEW t, NEW r \in Ranks, NEW a \in Boxes,
         NEW c, b[r][a] # << >>, c = [b EXCEPT ![r][a] = Tail(@)]
  PROVE  /\ Pops(QueuesOf(b, n, s, t), QueuesOf(c, n, s, t), Mail(r, a))
         /\ c \in BoxSet
<1>1. \A u \in Ranks, x \in Boxes : c[u][x] = IF u = r /\ x = a THEN Tail(b[u][x]) ELSE b[u][x]
  BY DEF BoxSet
<1>2. c \in BoxSet
  <2>1. b[r][a] \in Seq(Message) /\ Tail(b[r][a]) \in Seq(Message)
    BY HeadTailProperties DEF BoxSet
  <2> QED
    BY <2>1 DEF BoxSet
<1>3. PICK Q, P : Q = QueuesOf(b, n, s, t) /\ P = QueuesOf(c, n, s, t)
  OBVIOUS
<1>4. /\ \A u \in Ranks, x \in Boxes : Q[Mail(u, x)] = b[u][x] /\ P[Mail(u, x)] = c[u][x]
      /\ \A u, v \in Ranks : Q[Wire(u, v)] = P[Wire(u, v)]
      /\ Q[Sending] = P[Sending] /\ Q[Tasks] = P[Tasks]
  <2>1. Shows(Q, b, n, s, t)
    BY ONLY <1>3, QueuesShow
  <2>2. Shows(P, c, n, s, t)
    BY ONLY <1>3, QueuesShow
  <2> QED
    BY <2>1, <2>2 DEF Shows
<1>5. ASSUME NEW x \in Names PROVE P[x] = IF x = Mail(r, a) THEN Tail(Q[x]) ELSE Q[x]
  BY <1>1, <1>4, NamesAre, NamesDiffer
<1> QED
  <2>1. Q[Mail(r, a)] # << >>
    BY <1>4
  <2>2. Pops(Q, P, Mail(r, a))
    BY <1>5, <2>1 DEF Pops
  <2> QED
    BY <1>1, <1>2, <1>3, <2>2

LEMMA BoxToBox ==
  ASSUME NEW b \in BoxSet, NEW n, NEW s, NEW t, NEW r \in Ranks, NEW a \in Boxes, NEW d \in Boxes,
         NEW m, a # d, b[r][a] # << >>,
         NEW c, c = [[b EXCEPT ![r][a] = Tail(@)] EXCEPT ![r][d] = Append(@, m)]
  PROVE  /\ Moves(QueuesOf(b, n, s, t), QueuesOf(c, n, s, t), Mail(r, a), Mail(r, d), m)
         /\ m \in Message => c \in BoxSet
<1>1. PICK e : e = [b EXCEPT ![r][a] = Tail(@)]
  OBVIOUS
<1>2. c = [e EXCEPT ![r][d] = Append(@, m)]
  BY <1>1
<1>3. Pops(QueuesOf(b, n, s, t), QueuesOf(e, n, s, t), Mail(r, a)) /\ e \in BoxSet
  BY <1>1, BoxPopped
<1>4. Pushes(QueuesOf(e, n, s, t), QueuesOf(c, n, s, t), Mail(r, d), m)
      /\ (m \in Message => c \in BoxSet)
  BY ONLY <1>2, <1>3, BoxPushed
<1>5. Mail(r, a) # Mail(r, d)
  BY NamesDiffer
<1> QED
  BY <1>3, <1>4, <1>5 DEF Pops, Pushes, Moves

LEMMA BoxToWire ==
  ASSUME NEW b \in BoxSet, NEW n \in WireSet, NEW s, NEW t, NEW r \in Ranks, NEW a \in Boxes,
         NEW u \in Ranks, NEW m, b[r][a] # << >>,
         NEW c, c = [b EXCEPT ![r][a] = Tail(@)], NEW w, w = [n EXCEPT ![r][u] = Append(@, m)]
  PROVE  /\ Moves(QueuesOf(b, n, s, t), QueuesOf(c, w, s, t), Mail(r, a), Wire(r, u), m)
         /\ c \in BoxSet /\ (m \in Message => w \in WireSet)
<1>1. Pops(QueuesOf(b, n, s, t), QueuesOf(c, n, s, t), Mail(r, a)) /\ c \in BoxSet
  BY BoxPopped
<1>2. \A x, y \in Ranks : w[x][y] = IF x = r /\ y = u THEN Append(n[x][y], m) ELSE n[x][y]
  BY DEF WireSet
<1>3. ASSUME m \in Message PROVE w \in WireSet
  BY <1>3 DEF WireSet
<1>4. PICK Q, P : Q = QueuesOf(c, n, s, t) /\ P = QueuesOf(c, w, s, t)
  OBVIOUS
<1>5. /\ \A x, y \in Ranks : Q[Wire(x, y)] = n[x][y] /\ P[Wire(x, y)] = w[x][y]
      /\ \A x \in Ranks, y \in Boxes : Q[Mail(x, y)] = P[Mail(x, y)]
      /\ Q[Sending] = P[Sending] /\ Q[Tasks] = P[Tasks]
  <2>1. Shows(Q, c, n, s, t)
    BY ONLY <1>4, QueuesShow
  <2>2. Shows(P, c, w, s, t)
    BY ONLY <1>4, QueuesShow
  <2> QED
    BY <2>1, <2>2 DEF Shows
<1>6. ASSUME NEW x \in Names PROVE P[x] = IF x = Wire(r, u) THEN Append(Q[x], m) ELSE Q[x]
  BY <1>2, <1>5, NamesAre, NamesDiffer
<1>7. Mail(r, a) # Wire(r, u)
  BY NamesDiffer
<1> QED
  BY <1>1, <1>3, <1>4, <1>6, <1>7 DEF Pops, Moves

LEMMA WireToBox ==
  ASSUME NEW b \in BoxSet, NEW n \in WireSet, NEW s, NEW t, NEW r \in Ranks, NEW a \in Boxes,
         NEW u \in Ranks, NEW m, n[u][r] # << >>,
         NEW c, c = [b EXCEPT ![r][a] = Append(@, m)], NEW w, w = [n EXCEPT ![u][r] = Tail(@)]
  PROVE  /\ Moves(QueuesOf(b, n, s, t), QueuesOf(c, w, s, t), Wire(u, r), Mail(r, a), m)
         /\ w \in WireSet /\ (m \in Message => c \in BoxSet)
<1>1. Pushes(QueuesOf(b, w, s, t), QueuesOf(c, w, s, t), Mail(r, a), m)
      /\ (m \in Message => c \in BoxSet)
  BY BoxPushed
<1>2. \A x, y \in Ranks : w[x][y] = IF x = u /\ y = r THEN Tail(n[x][y]) ELSE n[x][y]
  BY DEF WireSet
<1>3. w \in WireSet
  <2>1. n[u][r] \in Seq(Message) /\ Tail(n[u][r]) \in Seq(Message)
    BY HeadTailProperties DEF WireSet
  <2> QED
    BY <2>1 DEF WireSet
<1>4. PICK Q, P : Q = QueuesOf(b, n, s, t) /\ P = QueuesOf(b, w, s, t)
  OBVIOUS
<1>5. /\ \A x, y \in Ranks : Q[Wire(x, y)] = n[x][y] /\ P[Wire(x, y)] = w[x][y]
      /\ \A x \in Ranks, y \in Boxes : Q[Mail(x, y)] = P[Mail(x, y)]
      /\ Q[Sending] = P[Sending] /\ Q[Tasks] = P[Tasks]
  <2>1. Shows(Q, b, n, s, t)
    BY ONLY <1>4, QueuesShow
  <2>2. Shows(P, b, w, s, t)
    BY ONLY <1>4, QueuesShow
  <2> QED
    BY <2>1, <2>2 DEF Shows
<1>6. ASSUME NEW x \in Names PROVE P[x] = IF x = Wire(u, r) THEN Tail(Q[x]) ELSE Q[x]
  BY <1>2, <1>5, NamesAre, NamesDiffer
<1>7. Mail(r, a) # Wire(u, r) /\ Q[Wire(u, r)] # << >>
  BY <1>5, NamesDiffer
<1> QED
  BY <1>1, <1>3, <1>4, <1>6, <1>7 DEF Pushes, Moves

LEMMA SendingToBox ==
  ASSUME NEW b \in BoxSet, NEW n, NEW s, NEW t, NEW r \in Ranks, NEW a \in Boxes, NEW m, s # << >>,
         NEW c, c = [b EXCEPT ![r][a] = Append(@, m)]
  PROVE  /\ Moves(QueuesOf(b, n, s, t), QueuesOf(c, n, Tail(s), t), Sending, Mail(r, a), m)
         /\ m \in Message => c \in BoxSet
<1>1. Pushes(QueuesOf(b, n, Tail(s), t), QueuesOf(c, n, Tail(s), t), Mail(r, a), m)
      /\ (m \in Message => c \in BoxSet)
  BY BoxPushed
<1>2. PICK Q, P : Q = QueuesOf(b, n, s, t) /\ P = QueuesOf(b, n, Tail(s), t)
  OBVIOUS
<1>3. /\ \A x, y \in Ranks : Q[Wire(x, y)] = P[Wire(x, y)]
      /\ \A x \in Ranks, y \in Boxes : Q[Mail(x, y)] = P[Mail(x, y)]
      /\ Q[Sending] = s /\ P[Sending] = Tail(s) /\ Q[Tasks] = P[Tasks]
  <2>1. Shows(Q, b, n, s, t)
    BY ONLY <1>2, QueuesShow
  <2>2. Shows(P, b, n, Tail(s), t)
    BY ONLY <1>2, QueuesShow
  <2> QED
    BY <2>1, <2>2 DEF Shows
<1>4. ASSUME NEW x \in Names PROVE P[x] = IF x = Sending THEN Tail(Q[x]) ELSE Q[x]
  <2>1. CASE x = Sending
    BY <1>3, <2>1
  <2>2. CASE x # Sending
    BY <1>3, <2>2, NamesAre
  <2> QED
    BY <2>1, <2>2
<1>5. Mail(r, a) # Sending
  BY NamesDiffer
<1> QED
  BY <1>1, <1>2, <1>3, <1>4, <1>5 DEF Pushes, Moves

LEMMA BoxToTasks ==
  ASSUME NEW b \in BoxSet, NEW n, NEW s, NEW t, NEW r \in Ranks, NEW a \in Boxes, NEW m,
         b[r][a] # << >>, NEW c, c = [b EXCEPT ![r][a] = Tail(@)]
  PROVE  /\ Moves(QueuesOf(b, n, s, t), QueuesOf(c, n, s, Append(t, m)), Mail(r, a), Tasks, m)
         /\ c \in BoxSet
<1>1. Pops(QueuesOf(b, n, s, t), QueuesOf(c, n, s, t), Mail(r, a)) /\ c \in BoxSet
  BY BoxPopped
<1>2. PICK Q, P : Q = QueuesOf(c, n, s, t) /\ P = QueuesOf(c, n, s, Append(t, m))
  OBVIOUS
<1>3. /\ \A x, y \in Ranks : Q[Wire(x, y)] = P[Wire(x, y)]
      /\ \A x \in Ranks, y \in Boxes : Q[Mail(x, y)] = P[Mail(x, y)]
      /\ Q[Tasks] = t /\ P[Tasks] = Append(t, m) /\ Q[Sending] = P[Sending]
  <2>1. Shows(Q, c, n, s, t)
    BY ONLY <1>2, QueuesShow
  <2>2. Shows(P, c, n, s, Append(t, m))
    BY ONLY <1>2, QueuesShow
  <2> QED
    BY <2>1, <2>2 DEF Shows
<1>4. ASSUME NEW x \in Names PROVE P[x] = IF x = Tasks THEN Append(Q[x], m) ELSE Q[x]
  <2>1. CASE x = Tasks
    BY <1>3, <2>1
  <2>2. CASE x # Tasks
    BY <1>3, <2>2, NamesAre
  <2> QED
    BY <2>1, <2>2
<1>5. Mail(r, a) # Tasks
  BY NamesDiffer
<1> QED
  BY <1>1, <1>2, <1>4, <1>5 DEF Pops, Moves

-----------------------------------------------------------------------------
(* What the invariant says of a message.                                     *)

Waiting == {"registering", "inBarrier", "requesting"}

LEMMA Typed ==
  ASSUME TypeOK
  PROVE  /\ Queues \in QueueSet /\ Shows(Queues, box, net, control.sending, control.tasks)
         /\ box \in BoxSet /\ net \in WireSet /\ control.sending \in MsgSeq /\ control.tasks \in MsgSeq
<1>1. /\ box \in BoxSet /\ net \in WireSet
      /\ control.sending \in MsgSeq /\ control.tasks \in MsgSeq
  BY DEF TypeOK, BoxSet, WireSet, MsgSeq
<1>2. Queues \in QueueSet
  BY <1>1, QueuesTyped DEF Queues, BoxSet, WireSet, MsgSeq, QueueSet
<1> QED
  BY <1>1, <1>2, QueuesShow DEF Queues

LEMMA RanksAre == 0 \in Ranks /\ Ranks \subseteq Nat /\ N \in Nat \ {0} /\ Rounds \in Nat \ {0}
BY ZooAssumption DEF Ranks

LEMMA MessageIs ==
  ASSUME NEW m \in Message
  PROVE  /\ m.type \in {"Register", "Barrier", "ReplyBarrier", "Request", "Reply", "ReplyRegister"}
         /\ m.src \in Ranks /\ m.dst \in Ranks /\ Owner(m) \in Ranks
         /\ m.type # "ReplyRegister" => m = Msg(m.type, m.src, m.dst)
         /\ m.type = "ReplyRegister" => m.ids \in Ids /\ m.src = 0
<1>1. CASE m \in [type : {"Register", "Barrier", "ReplyBarrier", "Request", "Reply"},
                  src : Ranks, dst : Ranks]
  BY <1>1 DEF Msg, Owner
<1>2. CASE m \in [type : {"ReplyRegister"}, src : {0}, dst : Ranks, ids : Ids]
  BY <1>2, RanksAre DEF Owner
<1> QED
  BY <1>1, <1>2 DEF Message

LEMMA MsgIsMessage ==
  ASSUME NEW type \in {"Register", "Barrier", "ReplyBarrier", "Request", "Reply"},
         NEW r \in Ranks, NEW u \in Ranks
  PROVE  /\ Msg(type, r, u) \in Message
         /\ Msg(type, r, u).type = type /\ Msg(type, r, u).src = r /\ Msg(type, r, u).dst = u
BY DEF Msg, Message

LEMMA InTyped ==
  ASSUME NEW Q \in QueueSet, NEW q \in Names, NEW m, In(Q, q, m)
  PROVE  m \in Message
<1>1. PICK i \in DOMAIN Q[q] : Q[q][i] = m
  BY DEF In
<1>2. Q[q] \in Seq(Message)
  BY DEF QueueSet
<1> QED
  BY <1>1, <1>2, ElementOfSeq, LenProperties

LEMMA HeadIsIn ==
  ASSUME NEW Q \in QueueSet, NEW q \in Names, Q[q] # << >>
  PROVE  In(Q, q, Head(Q[q])) /\ Head(Q[q]) \in Message
<1>1. Q[q] \in Seq(Message)
  BY DEF QueueSet
<1>2. 1 \in DOMAIN Q[q] /\ Head(Q[q]) = Q[q][1]
  BY <1>1, EmptySeq, LenProperties
<1>3. In(Q, q, Head(Q[q]))
  BY <1>2 DEF In
<1> QED
  BY <1>3, InTyped

LEMMA InFits ==
  ASSUME NEW c, InvAt(c), NEW q \in Names, NEW m, In(Queues, q, m)
  PROVE  /\ m \in Message /\ Fits(m, q, c) /\ Owner(m) \in Ranks
         /\ main[Owner(m)] \in Waiting
<1>1. m \in Message
  BY Typed, InTyped DEF InvAt
<1>2. Fits(m, q, c)
  BY DEF InvAt, MessagesOK, In
<1> QED
  BY <1>1, <1>2, MessageIs DEF Fits, WaitsFor, Waiting

\* A rank that does not wait has no message under way.
LEMMA NoneOfMine ==
  ASSUME NEW c, InvAt(c), NEW r, main[r] \notin Waiting, NEW q \in Names, NEW m, In(Queues, q, m)
  PROVE  Owner(m) # r
BY InFits

\* All ranks have been answered c barriers, or wait for the answer to the c-th.
LEMMA ClockIs ==
  ASSUME NEW c \in 0..(Rounds + 2), InvAt(c), NEW r \in Ranks
  PROVE  /\ left[r] \in Nat /\ c \in Nat /\ left[r] <= c /\ c <= left[r] + 1
         /\ main[r] # "inBarrier" => left[r] = c
         /\ entered[r] >= c
<1>1. left[r] \in Nat /\ entered[r] \in Nat /\ ClockOK(r, c)
  BY DEF InvAt, TypeOK
<1>2. c \in Nat
  BY RanksAre
<1> QED
  BY ONLY <1>1, <1>2 DEF ClockOK

\* A request finds its server in the middle of training, with its table.
LEMMA RequestServed ==
  ASSUME NEW c \in 0..(Rounds + 2), InvAt(c), NEW q \in Names, NEW m, In(Queues, q, m),
         m.type = "Request"
  PROVE  /\ m.dst \in Ranks /\ table[m.dst] /\ "server" \in actors[m.dst]
         /\ main[m.dst] \notin Early \cup {"stop", "stopped"}
<1>1. /\ m.src \in Ranks /\ m.dst \in Ranks /\ main[m.src] = "requesting"
      /\ "server" \in Role[m.dst]
  BY InFits, MessageIs DEF Fits, Owner, WaitsFor
<1>2. left[m.src] = c /\ c \in 2..(Rounds + 1)
  BY <1>1, ClockIs DEF InvAt, MainOK
<1>3. /\ left[m.dst] \in Nat /\ left[m.dst] <= Rounds + 1 /\ left[m.dst] # 0
      /\ left[m.dst] = 1 => main[m.dst] = "inBarrier"
  BY <1>1, <1>2, ClockIs, RanksAre
<1>4. MainOK(m.dst) /\ ActorsOK(m.dst)
  BY <1>1 DEF InvAt
<1>5. main[m.dst] \notin Early \cup {"stop", "stopped"}
  BY <1>3, <1>4, RanksAre DEF MainOK
<1>6. table[m.dst]
  BY <1>3, <1>4 DEF MainOK
<1>7. "server" \in actors[m.dst]
  BY <1>1, <1>4, <1>5 DEF ActorsOK
<1> QED
  BY <1>1, <1>5, <1>6, <1>7

\* The communicator finds the actor a message is for.
LEMMA Delivery ==
  ASSUME NEW c \in 0..(Rounds + 2), InvAt(c), NEW q \in Names, NEW m, In(Queues, q, m),
         NEW r \in Ranks, m.dst = r, "communicator" \in running[r]
  PROVE  /\ Recipient(m) \in Boxes \ {"communicator"} /\ Route(m, Mail(r, Recipient(m)))
         /\ Recipient(m) = "zoo" \/ Recipient(m) \in actors[r]
<1>1. /\ Fits(m, q, c)
      /\ m.type \in {"Register", "Barrier", "ReplyBarrier", "Request", "Reply", "ReplyRegister"}
  BY InFits, MessageIs
<1>2. MainOK(r) /\ ActorsOK(r)
  BY DEF InvAt
<1>3. CASE m.type = "Request"
  <2>1. Recipient(m) = "server"
    BY <1>3 DEF Recipient
  <2>2. "server" \in actors[r]
    BY <1>3, RequestServed
  <2> QED
    BY <1>3, <2>1, <2>2 DEF Route, Boxes, Actors
<1>4. CASE m.type = "Reply"
  <2>1. Recipient(m) = "worker"
    BY <1>4 DEF Recipient
  <2>2. main[r] = "requesting"
    BY <1>1, <1>4 DEF Fits, Owner, WaitsFor
  <2>3. "worker" \in actors[r]
    BY <1>2, <2>2 DEF MainOK, ActorsOK, Early
  <2> QED
    BY <1>4, <2>1, <2>3 DEF Route, Boxes, Actors
<1>5. CASE m.type \in {"Register", "Barrier"}
  <2>1. Recipient(m) = "controller" /\ r = 0
    BY <1>1, <1>5 DEF Recipient, Fits
  <2>2. "controller" \in actors[r]
    BY <1>2, <2>1 DEF ActorsOK
  <2> QED
    BY <1>5, <2>1, <2>2 DEF Route, Boxes, Actors
<1>6. CASE m.type \in ToMain
  <2>1. Recipient(m) = "zoo"
    BY <1>6 DEF Recipient, ToMain
  <2> QED
    BY <1>6, <2>1 DEF Route, Boxes, Actors
<1> QED
  BY <1>1, <1>3, <1>4, <1>5, <1>6 DEF ToMain

\* Which messages a mailbox or a channel has.
LEMMA RouteIs ==
  ASSUME NEW m, NEW r \in Ranks, NEW u \in Ranks
  PROVE  /\ Route(m, Wire(r, u)) => m.src = r /\ m.dst = u
         /\ Route(m, Mail(r, "communicator")) => m.src = r
         /\ Route(m, Mail(r, "server")) => m.type = "Request" /\ m.dst = r
         /\ Route(m, Mail(r, "worker")) =>
              ((m.type = "Request" /\ m.src = r) \/ (m.type = "Reply" /\ m.dst = r))
         /\ Route(m, Mail(r, "zoo")) => m.type \in ToMain /\ m.dst = r
         /\ Route(m, Mail(r, "controller")) => r = 0 /\ m.type \in {"Register", "Barrier"}
         /\ Route(m, Sending) => m.type \in ToMain
         /\ Route(m, Tasks) => m.type = "Barrier"
<1>1. Route(m, Wire(r, u)) => m.src = r /\ m.dst = u
  BY NamesDiffer DEF Route
<1>2. Route(m, Mail(r, "communicator")) => m.src = r
  BY NamesDiffer DEF Route
<1>3. Route(m, Mail(r, "server")) => m.type = "Request" /\ m.dst = r
  BY NamesDiffer DEF Route
<1>4. Route(m, Mail(r, "worker")) => (m.type = "Request" /\ m.src = r) \/ (m.type = "Reply" /\ m.dst = r)
  BY NamesDiffer DEF Route
<1>5. Route(m, Mail(r, "zoo")) => m.type \in ToMain /\ m.dst = r
  BY NamesDiffer DEF Route
<1>6. Route(m, Mail(r, "controller")) => r = 0 /\ m.type \in {"Register", "Barrier"}
  BY NamesDiffer DEF Route
<1>7. Route(m, Sending) => m.type \in ToMain
  BY NamesDiffer DEF Route
<1>8. Route(m, Tasks) => m.type = "Barrier"
  BY NamesDiffer DEF Route
<1> QED
  BY <1>1, <1>2, <1>3, <1>4, <1>5, <1>6, <1>7, <1>8

-----------------------------------------------------------------------------
(* Steps that leave the main threads alone.                                  *)

Counters == <<control.ids, control.registered, control.workers, control.servers>>

LEMMA LocalKept ==
  ASSUME NEW c, InvAt(c), UNCHANGED <<main, actors, running, table, entered, left>>
  PROVE  \A r \in Ranks : MainOK(r)' /\ ActorsOK(r)' /\ ClockOK(r, c)'
BY DEF InvAt, MainOK, ActorsOK, ClockOK

LEMMA MessagesStay ==
  ASSUME NEW c, InvAt(c), OneEach(Queues'),
         control.registered = N => UNCHANGED <<control.ids, control.registered>>,
         \A q \in Names : \A m : In(Queues', q, m) =>
           \/ Fits(m, q, c)'
           \/ /\ In(Queues, q, m)
              /\ main'[Owner(m)] = main[Owner(m)] /\ left'[Owner(m)] = left[Owner(m)]
  PROVE  MessagesOK(c)'
<1>1. ASSUME NEW q \in Names, NEW m, In(Queues', q, m) PROVE Fits(m, q, c)'
  <2>1. CASE Fits(m, q, c)'
    BY <2>1
  <2>2. CASE /\ In(Queues, q, m) /\ main'[Owner(m)] = main[Owner(m)]
             /\ left'[Owner(m)] = left[Owner(m)]
    <3>1. Fits(m, q, c)
      BY <2>2, InFits
    <3>2. m.type = "Barrier" => Owner(m) = m.src
      BY DEF Owner
    <3>3. m.type = "ReplyBarrier" => Owner(m) = m.dst
      BY DEF Owner
    <3> QED
      BY <2>2, <3>1, <3>2, <3>3 DEF Fits
  <2> QED
    BY <1>1, <2>1, <2>2
<1>2. ASSUME NEW q \in Names, NEW i \in DOMAIN Queues'[q] PROVE Fits(Queues[q][i], q, c)'
  <2>1. PICK m : m = Queues'[q][i]
    OBVIOUS
  <2>2. In(Queues', q, m)
    BY <2>1 DEF In
  <2>3. Fits(m, q, c)'
    BY <1>1, <2>2
  <2> QED
    BY <2>1, <2>3 DEF Fits
<1> QED
  BY <1>2 DEF MessagesOK

\* The ids do not change, and the same ranks are registered.
LEMMA IdsStay ==
  ASSUME IdsOK, UNCHANGED <<control.ids, control.registered, control.workers, control.servers>>,
         Known' = Known,
         \A r \in Ranks : main'[r] \notin {"start", "register", "registering"} =>
           nodes'[r] = control.ids /\ control.registered = N
  PROVE  IdsOK'
<1>1. /\ control'.ids = control.ids /\ control'.registered = control.registered
      /\ control'.workers = control.workers /\ control'.servers = control.servers
  OBVIOUS
<1>2. /\ Numbered("worker", control'.workers, control'.ids, Known')
      /\ Numbered("server", control'.servers, control'.ids, Known')
  BY ONLY <1>1, IdsOK, Known' = Known DEF IdsOK
<1>3. control'.registered = Cardinality(Known')
  BY ONLY <1>1, IdsOK, Known' = Known DEF IdsOK
<1> QED
  BY <1>1, <1>2, <1>3 DEF IdsOK

\* A message goes on to the next queue, or the server answers a request.
GoesOn(m, h) == m = h \/ (h.type = "Request" /\ m = Msg("Reply", h.dst, h.src))

LEMMA MoveKeeps ==
  ASSUME NEW c, InvAt(c), NEW p \in Names, NEW q \in Names, NEW m,
         Moves(Queues, Queues', p, q, m), GoesOn(m, Head(Queues[p])), Route(m, q),
         UNCHANGED <<main, actors, running, nodes, table, entered, left>>,
         UNCHANGED <<control.ids, control.registered, control.workers, control.servers>>,
         ~failed', TypeOK'
  PROVE  InvAt(c)' /\ (AnswerExists(c) => AnswerExists(c)')
<1>1. PICK h : h = Head(Queues[p])
  OBVIOUS
<1>2. Queues \in QueueSet /\ OneEach(Queues) /\ IdsOK
  BY Typed DEF InvAt, MessagesOK
<1>3. In(Queues, p, h) /\ h \in Message
  BY <1>1, <1>2, HeadIsIn DEF Moves
<1>4. Fits(h, p, c) /\ h.src \in Ranks /\ h.dst \in Ranks
  BY <1>3, InFits, MessageIs
<1>5. m # h => /\ h.type = "Request" /\ m.type = "Reply" /\ m.src = h.dst /\ m.dst = h.src
              /\ m = Msg("Reply", h.dst, h.src)
  BY <1>1, <1>4, MsgIsMessage DEF GoesOn
<1>6. Owner(m) = Owner(h)
  BY <1>5 DEF Owner
<1>7. /\ OneEach(Queues')
      /\ \A x \in Names : \A n :
           In(Queues', x, n) <=> (In(Queues, x, n) /\ n # h) \/ (x = q /\ n = m)
  BY <1>1, <1>2, <1>6, MoveLemma
<1>8. Fits(m, q, c)'
  <2>1. CASE m = h
    BY <1>4, <2>1 DEF Fits
  <2>2. CASE m # h
    BY <1>4, <1>5, <1>6, <2>2 DEF Fits, WaitsFor, ToMain
  <2> QED
    BY <2>1, <2>2
<1>9. MessagesOK(c)'
  BY <1>7, <1>8, MessagesStay
<1>10. ASSUME NEW n, n.type # "Request", n.type # "Reply"
       PROVE  Somewhere(Queues', n) <=> Somewhere(Queues, n)
  <2>1. n = h => m = h
    BY <1>5, <1>10
  <2>2. n = m => m = h
    BY <1>5, <1>10
  <2> QED
    BY <1>3, <1>7, <2>1, <2>2 DEF Somewhere
<1>11. Known' = Known
  <2>1. \A r \in Ranks : Somewhere(Queues', Msg("Register", r, 0)) <=> Somewhere(Queues, Msg("Register", r, 0))
    BY <1>10, MsgIsMessage, RanksAre
  <2> QED
    BY <2>1 DEF Known
<1>12. IdsOK'
  <2>1. \A r \in Ranks : main'[r] \notin {"start", "register", "registering"} =>
          nodes'[r] = control.ids /\ control.registered = N
    BY <1>2 DEF IdsOK
  <2> QED
    BY <1>2, <1>11, <2>1, IdsStay
<1>13. ASSUME AnswerExists(c) PROVE AnswerExists(c)'
  <2>1. \A r \in Ranks : Somewhere(Queues', Msg("ReplyBarrier", 0, r))
                          <=> Somewhere(Queues, Msg("ReplyBarrier", 0, r))
    BY <1>10, MsgIsMessage, RanksAre
  <2> QED
    BY <1>13, <2>1 DEF AnswerExists
<1> QED
  BY <1>9, <1>12, <1>13, LocalKept DEF InvAt

-----------------------------------------------------------------------------
(* Rank 0's reply is the last of those in rank 0.                            *)

Out == Mail(0, "communicator")

LEMMA ZeroTail ==
  ASSUME NEW out \in Seq(Message), out # << >>, NEW s, ZeroIsLast(out, s)
  PROVE  ZeroIsLast(Tail(out), s)
<1>1. /\ Len(out) \in Nat \ {0} /\ DOMAIN out = 1..Len(out)
      /\ DOMAIN Tail(out) = 1..(Len(out) - 1)
      /\ \A i \in 1..(Len(out) - 1) : Tail(out)[i] = out[i + 1]
  BY EmptySeq, LenProperties, HeadTailProperties
<1>2. ASSUME NEW i \in DOMAIN Tail(out), Tail(out)[i].type \in ToMain, s = << >>
      PROVE  \E j \in DOMAIN Tail(out) : j >= i /\ ToZero(Tail(out)[j])
  <2>1. i \in Nat /\ i + 1 \in DOMAIN out /\ out[i + 1].type \in ToMain
    BY <1>1, <1>2
  <2>2. PICK k \in DOMAIN out : k >= i + 1 /\ ToZero(out[k])
    BY <1>2, <2>1 DEF ZeroIsLast
  <2>3. k - 1 \in 1..(Len(out) - 1) /\ k - 1 >= i /\ Tail(out)[k - 1] = out[k]
    BY <1>1, <1>2, <2>1, <2>2
  <2> QED
    BY <1>1, <2>2, <2>3
<1> QED
  BY <1>2 DEF ZeroIsLast

LEMMA ZeroAppend ==
  ASSUME NEW out \in Seq(Message), NEW m \in Message, m.type \notin ToMain,
         NEW s, ZeroIsLast(out, s)
  PROVE  ZeroIsLast(Append(out, m), s)
<1>1. /\ Len(out) \in Nat /\ DOMAIN out = 1..Len(out)
      /\ DOMAIN Append(out, m) = 1..(Len(out) + 1)
      /\ \A i \in 1..Len(out) : Append(out, m)[i] = out[i]
      /\ Append(out, m)[Len(out) + 1] = m
  BY LenProperties, AppendProperties
<1>2. ASSUME NEW i \in DOMAIN Append(out, m), Append(out, m)[i].type \in ToMain, s = << >>
      PROVE  \E j \in DOMAIN Append(out, m) : j >= i /\ ToZero(Append(out, m)[j])
  <2>1. i \in DOMAIN out /\ out[i].type \in ToMain
    BY <1>1, <1>2
  <2>2. PICK k \in DOMAIN out : k >= i /\ ToZero(out[k])
    BY <1>2, <2>1 DEF ZeroIsLast
  <2> QED
    BY <1>1, <2>2
<1> QED
  BY <1>2 DEF ZeroIsLast

LEMMA ZeroSend ==
  ASSUME NEW out \in Seq(Message), NEW s \in Seq(Message), s # << >>, ZeroIsLast(out, s)
  PROVE  ZeroIsLast(Append(out, Head(s)), Tail(s))
<1>1. /\ Len(s) \in Nat \ {0} /\ Head(s) = s[1] /\ s[1] \in Message /\ Tail(s) \in Seq(Message)
      /\ Len(Tail(s)) = Len(s) - 1 /\ ToZero(s[Len(s)])
      /\ \A i \in 1..(Len(s) - 1) : Tail(s)[i] = s[i + 1]
  BY EmptySeq, LenProperties, HeadTailProperties, ElementOfSeq DEF ZeroIsLast
<1>2. /\ Len(out) \in Nat /\ DOMAIN out = 1..Len(out)
      /\ DOMAIN Append(out, Head(s)) = 1..(Len(out) + 1)
      /\ Append(out, Head(s))[Len(out) + 1] = Head(s)
  BY <1>1, LenProperties, AppendProperties
<1> PICK u \in Seq(Message) : u = Tail(s)
  BY <1>1
<1>0. u = << >> <=> Len(u) = 0
  BY EmptySeq
<1>3. CASE Len(s) = 1
  <2>1. Tail(s) = << >>
    BY <1>0, <1>1, <1>3
  <2>2. ToZero(Head(s))
    BY <1>1, <1>3
  <2>3. \A i \in 1..(Len(out) + 1) : Len(out) + 1 >= i
    BY <1>2
  <2> QED
    BY <1>2, <2>1, <2>2, <2>3 DEF ZeroIsLast
<1>4. CASE Len(s) # 1
  <2>1. Len(Tail(s)) \in 1..(Len(s) - 1) /\ Tail(s) # << >>
    BY <1>0, <1>1, <1>4
  <2>2. Tail(s)[Len(Tail(s))] = s[Len(s)]
    BY <1>1, <2>1
  <2> QED
    BY <1>1, <2>1, <2>2 DEF ZeroIsLast
<1> QED
  BY <1>3, <1>4

\* The two queues, under their names.
LEMMA ZeroQueues ==
  ASSUME TypeOK
  PROVE  /\ Queues[Out] = box[0]["communicator"] /\ Queues[Sending] = control.sending
         /\ Queues[Out] \in Seq(Message) /\ Queues[Sending] \in Seq(Message) /\ Out \in Names
<1>1. Shows(Queues, box, net, control.sending, control.tasks) /\ Queues \in QueueSet
  BY Typed
<1>2. Out \in Names /\ Sending \in Names
  BY NamesAre, RanksAre DEF Out, Boxes, Actors
<1>3. Queues[Out] = box[0]["communicator"]
  BY <1>1, RanksAre DEF Out, Shows, Boxes, Actors
<1> QED
  BY <1>1, <1>2, <1>3 DEF Shows, QueueSet

Keeps(c) ==
  InvAt(c)' /\ (~DropsOnClose /\ AnswersAt(c) => AnswersAt(c)')

LEMMA MoveStep ==
  ASSUME NEW c, InvAt(c), NEW p \in Names, NEW q \in Names, NEW m \in Message,
         Moves(Queues, Queues', p, q, m), GoesOn(m, Head(Queues[p])), Route(m, q),
         p # Sending, q # Sending, q = Out => m.type \notin ToMain,
         UNCHANGED <<main, actors, running, nodes, table, entered, left>>,
         UNCHANGED <<control.ids, control.registered, control.workers, control.servers>>,
         ~failed', TypeOK'
  PROVE  Keeps(c)
<1>1. InvAt(c)' /\ (AnswerExists(c) => AnswerExists(c)')
  BY MoveKeeps
<1>2. /\ Queues[Out] = box[0]["communicator"] /\ Queues[Sending] = control.sending
      /\ Queues[Out] \in Seq(Message) /\ Out \in Names /\ Sending \in Names
  BY ZeroQueues, NamesAre DEF InvAt
<1>3. /\ Queues'[Out] = box'[0]["communicator"] /\ Queues'[Sending] = control'.sending
  <2>1. Shows(Queues', box', net', control'.sending, control'.tasks)
    BY QueuesShow DEF Queues
  <2> QED
    BY <2>1, RanksAre DEF Out, Shows, Boxes, Actors
<1>4. ASSUME ZeroIsLast(box[0]["communicator"], control.sending)
      PROVE  ZeroIsLast(box'[0]["communicator"], control'.sending)
  <2>1. Queues'[Sending] = Queues[Sending]
    BY <1>2 DEF Moves
  <2>2. CASE p = Out
    <3>1. Queues'[Out] = Tail(Queues[Out]) /\ Queues[Out] # << >>
      BY <1>2, <2>2 DEF Moves
    <3> QED
      BY <1>2, <1>3, <1>4, <2>1, <3>1, ZeroTail
  <2>3. CASE q = Out
    <3>1. Queues'[Out] = Append(Queues[Out], m)
      BY <1>2, <2>3 DEF Moves
    <3> QED
      BY <1>2, <1>3, <1>4, <2>1, <2>3, <3>1, ZeroAppend
  <2>4. CASE p # Out /\ q # Out
    <3>1. Queues'[Out] = Queues[Out]
      BY <1>2, <2>4 DEF Moves
    <3> QED
      BY <1>2, <1>3, <1>4, <2>1, <3>1
  <2> QED
    BY <2>2, <2>3, <2>4
<1> QED
  BY <1>1, <1>4 DEF Keeps, AnswersAt

-----------------------------------------------------------------------------
(* The actions that move a message on.                                       *)

LEMMA CommunicatorSendsKeeps ==
  ASSUME NEW c \in 0..(Rounds + 2), InvAt(c), NEW r \in Ranks, CommunicatorSends(r)
  PROVE  Keeps(c)
<1>1. PICK m : m = Head(box[r]["communicator"])
  OBVIOUS
<1>2. /\ "communicator" \in running[r] /\ box[r]["communicator"] # << >>
      /\ UNCHANGED <<main, actors, running, control, nodes, table, entered, left>>
  BY DEF CommunicatorSends, Running
<1>3. /\ TypeOK /\ Queues \in QueueSet /\ box \in BoxSet /\ net \in WireSet
      /\ "communicator" \in Boxes
      /\ Mail(r, "communicator") \in Names /\ Queues[Mail(r, "communicator")] = box[r]["communicator"]
      /\ Mail(r, "communicator") # Sending
  BY Typed, NamesAre, NamesDiffer DEF InvAt, Shows, Boxes, Actors
<1>4. m \in Message /\ In(Queues, Mail(r, "communicator"), m)
  BY <1>1, <1>2, <1>3, HeadIsIn
<1>5. m.src = r /\ m.dst \in Ranks
  BY <1>3, <1>4, InFits, MessageIs, RouteIs DEF Fits
<1>6. GoesOn(m, Head(Queues[Mail(r, "communicator")]))
  BY <1>1, <1>3 DEF GoesOn
<1>7. CASE m.dst # r
  <2>0. PICK u \in Ranks : u = m.dst
    BY <1>5
  <2>1. /\ net' = [net EXCEPT ![r][u] = Append(@, m)]
        /\ box' = [box EXCEPT ![r]["communicator"] = Tail(@)] /\ failed' = failed
    BY <1>1, <1>7, <2>0 DEF CommunicatorSends, Popped
  <2>2. /\ Moves(QueuesOf(box, net, control.sending, control.tasks),
                QueuesOf(box', net', control.sending, control.tasks),
                Mail(r, "communicator"), Wire(r, u), m)
        /\ box' \in BoxSet /\ (m \in Message => net' \in WireSet)
    <3>1. PICK b, w, e, n, s, t, a : /\ e = box' /\ w = net' /\ b = box /\ n = net
                                     /\ s = control.sending /\ t = control.tasks /\ a = "communicator"
      OBVIOUS
    <3>2. /\ e = [b EXCEPT ![r][a] = Tail(@)] /\ w = [n EXCEPT ![r][u] = Append(@, m)]
          /\ b[r][a] # << >> /\ b \in BoxSet /\ n \in WireSet /\ a \in Boxes
      BY ONLY <1>2, <1>3, <2>1, <3>1
    <3>3. Moves(QueuesOf(b, n, s, t), QueuesOf(e, w, s, t), Mail(r, a), Wire(r, u), m)
      BY ONLY <3>2, r \in Ranks, u \in Ranks, BoxToWire
    <3>4. e \in BoxSet
      BY ONLY <3>2, r \in Ranks, BoxPopped
    <3>5. m \in Message => w \in WireSet
      BY <3>2 DEF WireSet
    <3> QED
      BY ONLY <3>1, <3>3, <3>4, <3>5
  <2>3. Moves(Queues, Queues', Mail(r, "communicator"), Wire(r, u), m)
    BY <1>2, <2>2 DEF Queues
  <2>4. TypeOK' /\ ~failed'
    BY <1>2, <1>3, <1>4, <2>1, <2>2 DEF TypeOK, InvAt, BoxSet, WireSet
  <2>5. /\ Wire(r, u) \in Names /\ Wire(r, u) # Sending /\ Wire(r, u) # Out
        /\ Route(m, Wire(r, u))
    BY <1>5, <2>0, NamesAre, NamesDiffer DEF Route, Out
  <2> QED
    BY <1>2, <1>3, <1>4, <1>6, <2>3, <2>4, <2>5, MoveStep
<1>8. CASE m.dst = r
  <2>1. /\ box' = [[box EXCEPT ![r]["communicator"] = Tail(@)] EXCEPT ![r][Recipient(m)] = Append(@, m)]
        /\ failed' = (Recipient(m) # "zoo" /\ Recipient(m) \notin actors[r]) /\ net' = net
    BY <1>1, <1>8 DEF CommunicatorSends, Popped, SendTo
  <2>2. /\ Recipient(m) \in Boxes \ {"communicator"} /\ Route(m, Mail(r, Recipient(m)))
        /\ Recipient(m) = "zoo" \/ Recipient(m) \in actors[r]
    BY <1>2, <1>3, <1>4, <1>8, Delivery
  <2>3. PICK a : a = Recipient(m) /\ a \in Boxes /\ a # "communicator"
    BY <2>2
  <2>4. /\ Moves(QueuesOf(box, net, control.sending, control.tasks),
                QueuesOf(box', net, control.sending, control.tasks),
                Mail(r, "communicator"), Mail(r, a), m)
        /\ (m \in Message => box' \in BoxSet)
    BY ONLY <1>2, <1>3, <2>1, <2>3, r \in Ranks, BoxToBox
  <2>5. Moves(Queues, Queues', Mail(r, "communicator"), Mail(r, a), m)
    BY <1>2, <2>1, <2>4 DEF Queues
  <2>6. TypeOK' /\ ~failed'
    BY <1>2, <1>3, <1>4, <2>1, <2>2, <2>4 DEF TypeOK, InvAt, BoxSet, WireSet
  <2>7. /\ Mail(r, a) \in Names /\ Mail(r, a) # Sending /\ Mail(r, a) # Out
        /\ Route(m, Mail(r, a))
    BY <2>2, <2>3, NamesAre, NamesDiffer DEF Out
  <2> QED
    BY <1>2, <1>3, <1>4, <1>6, <2>5, <2>6, <2>7, MoveStep
<1> QED
  BY <1>7, <1>8

LEMMA CommunicatorReceivesKeeps ==
  ASSUME NEW c \in 0..(Rounds + 2), InvAt(c), NEW r \in Ranks, NEW s \in Ranks,
         CommunicatorReceives(r, s)
  PROVE  Keeps(c)
<1>1. PICK m : m = Head(net[s][r])
  OBVIOUS
<1>2. /\ "communicator" \in running[r] /\ net[s][r] # << >>
      /\ UNCHANGED <<main, actors, running, control, nodes, table, entered, left>>
  BY DEF CommunicatorReceives, Running
<1>3. /\ TypeOK /\ Queues \in QueueSet /\ box \in BoxSet /\ net \in WireSet
      /\ Wire(s, r) \in Names /\ Queues[Wire(s, r)] = net[s][r] /\ Wire(s, r) # Sending
  BY Typed, NamesAre, NamesDiffer DEF InvAt, Shows
<1>4. m \in Message /\ In(Queues, Wire(s, r), m)
  BY <1>1, <1>2, <1>3, HeadIsIn
<1>5. m.dst = r
  <2>1. Route(m, Wire(s, r))
    BY <1>3, <1>4, InFits DEF Fits
  <2> QED
    BY <2>1, RouteIs
<1>6. GoesOn(m, Head(Queues[Wire(s, r)]))
  BY <1>1, <1>3 DEF GoesOn
<1>7. /\ Recipient(m) \in Boxes \ {"communicator"} /\ Route(m, Mail(r, Recipient(m)))
      /\ Recipient(m) = "zoo" \/ Recipient(m) \in actors[r]
  BY <1>2, <1>3, <1>4, <1>5, Delivery
<1>8. PICK a : a = Recipient(m) /\ a \in Boxes /\ a # "communicator"
  BY <1>7
<1>9. /\ net' = [net EXCEPT ![s][r] = Tail(@)] /\ box' = [box EXCEPT ![r][a] = Append(@, m)]
      /\ failed' = (a # "zoo" /\ a \notin actors[r])
  BY <1>1, <1>8 DEF CommunicatorReceives, SendTo
<1>10. /\ Moves(QueuesOf(box, net, control.sending, control.tasks),
                QueuesOf(box', net', control.sending, control.tasks), Wire(s, r), Mail(r, a), m)
       /\ net' \in WireSet /\ (m \in Message => box' \in BoxSet)
  BY ONLY <1>2, <1>3, <1>8, <1>9, r \in Ranks, s \in Ranks, WireToBox
<1>11. Moves(Queues, Queues', Wire(s, r), Mail(r, a), m)
  BY <1>2, <1>10 DEF Queues
<1>12. TypeOK' /\ ~failed'
  BY <1>2, <1>3, <1>4, <1>7, <1>8, <1>9, <1>10 DEF TypeOK, InvAt, BoxSet, WireSet
<1>13. /\ Mail(r, a) \in Names /\ Mail(r, a) # Sending /\ Mail(r, a) # Out /\ Route(m, Mail(r, a))
  BY <1>7, <1>8, NamesAre, NamesDiffer DEF Out
<1> QED
  BY <1>2, <1>3, <1>4, <1>6, <1>11, <1>12, <1>13, MoveStep

LEMMA ServerAnswersKeeps ==
  ASSUME NEW c \in 0..(Rounds + 2), InvAt(c), NEW r \in Ranks, ServerAnswers(r)
  PROVE  Keeps(c)
<1>1. PICK h, m : h = Head(box[r]["server"]) /\ m = Msg("Reply", r, h.src)
  OBVIOUS
<1>2. /\ "server" \in running[r] /\ box[r]["server"] # << >>
      /\ UNCHANGED <<main, actors, running, net, control, nodes, table, entered, left>>
  BY DEF ServerAnswers, Running
<1>3. /\ TypeOK /\ Queues \in QueueSet /\ box \in BoxSet
      /\ "communicator" \in Boxes /\ "server" \in Boxes
      /\ Mail(r, "server") \in Names /\ Queues[Mail(r, "server")] = box[r]["server"]
      /\ Mail(r, "server") # Sending
      /\ Mail(r, "communicator") \in Names /\ Mail(r, "communicator") # Sending
  BY Typed, NamesAre, NamesDiffer DEF InvAt, Shows, Boxes, Actors
<1>4. h \in Message /\ In(Queues, Mail(r, "server"), h)
  BY <1>1, <1>2, <1>3, HeadIsIn
<1>5. h.type = "Request" /\ h.dst = r /\ h.src \in Ranks
  BY <1>3, <1>4, InFits, MessageIs, RouteIs DEF Fits
<1>6. m \in Message /\ m.type = "Reply" /\ m.src = r
  BY <1>1, <1>5, MsgIsMessage
<1>7. table[r] /\ main[r] \notin Early \cup {"stop", "stopped"}
  BY <1>3, <1>4, <1>5, RequestServed
<1>8. "communicator" \in actors[r]
  BY <1>7 DEF InvAt, ActorsOK, Early
<1>9. /\ box' = [[box EXCEPT ![r]["server"] = Tail(@)] EXCEPT ![r]["communicator"] = Append(@, m)]
      /\ ~failed'
  BY <1>1, <1>7, <1>8 DEF ServerAnswers, Popped, SendTo
<1>10. /\ Moves(QueuesOf(box, net, control.sending, control.tasks),
                QueuesOf(box', net, control.sending, control.tasks),
                Mail(r, "server"), Mail(r, "communicator"), m)
       /\ (m \in Message => box' \in BoxSet)
  BY ONLY <1>2, <1>3, <1>9, r \in Ranks, "server" # "communicator", BoxToBox
<1>11. Moves(Queues, Queues', Mail(r, "server"), Mail(r, "communicator"), m)
  BY <1>2, <1>10 DEF Queues
<1>12. TypeOK'
  BY <1>2, <1>3, <1>6, <1>10 DEF TypeOK, BoxSet
<1>13. GoesOn(m, Head(Queues[Mail(r, "server")])) /\ Route(m, Mail(r, "communicator"))
       /\ m.type \notin ToMain
  BY <1>1, <1>3, <1>5, <1>6 DEF GoesOn, Route, ToMain
<1> QED
  BY <1>2, <1>3, <1>6, <1>9, <1>11, <1>12, <1>13, MoveStep

LEMMA WorkerForwardsKeeps ==
  ASSUME NEW c \in 0..(Rounds + 2), InvAt(c), NEW r \in Ranks, WorkerForwards(r)
  PROVE  Keeps(c)
<1>1. PICK m : m = Head(box[r]["worker"])
  OBVIOUS
<1>2. /\ "worker" \in running[r] /\ box[r]["worker"] # << >> /\ m.type = "Request"
      /\ UNCHANGED <<main, actors, running, net, control, nodes, table, entered, left>>
  BY <1>1 DEF WorkerForwards, Running
<1>3. /\ TypeOK /\ Queues \in QueueSet /\ box \in BoxSet
      /\ "communicator" \in Boxes /\ "worker" \in Boxes
      /\ Mail(r, "worker") \in Names /\ Queues[Mail(r, "worker")] = box[r]["worker"]
      /\ Mail(r, "worker") # Sending
      /\ Mail(r, "communicator") \in Names /\ Mail(r, "communicator") # Sending
  BY Typed, NamesAre, NamesDiffer DEF InvAt, Shows, Boxes, Actors
<1>4. m \in Message /\ In(Queues, Mail(r, "worker"), m)
  BY <1>1, <1>2, <1>3, HeadIsIn
<1>5. m.src = r /\ main[r] = "requesting"
  BY <1>2, <1>3, <1>4, InFits, RouteIs DEF Fits, Owner, WaitsFor
<1>6. "communicator" \in actors[r]
  BY <1>5 DEF InvAt, ActorsOK
<1>7. /\ box' = [[box EXCEPT ![r]["worker"] = Tail(@)] EXCEPT ![r]["communicator"] = Append(@, m)]
      /\ ~failed'
  BY <1>1, <1>6 DEF WorkerForwards, Popped, SendTo
<1>8. /\ Moves(QueuesOf(box, net, control.sending, control.tasks),
               QueuesOf(box', net, control.sending, control.tasks),
               Mail(r, "worker"), Mail(r, "communicator"), m)
      /\ (m \in Message => box' \in BoxSet)
  BY ONLY <1>2, <1>3, <1>7, r \in Ranks, "worker" # "communicator", BoxToBox
<1>9. Moves(Queues, Queues', Mail(r, "worker"), Mail(r, "communicator"), m)
  BY <1>2, <1>8 DEF Queues
<1>10. TypeOK'
  BY <1>2, <1>3, <1>4, <1>8 DEF TypeOK, BoxSet
<1>11. GoesOn(m, Head(Queues[Mail(r, "worker")])) /\ Route(m, Mail(r, "communicator"))
       /\ m.type \notin ToMain
  BY <1>1, <1>2, <1>3, <1>5 DEF GoesOn, Route, ToMain
<1> QED
  BY <1>2, <1>3, <1>4, <1>7, <1>9, <1>10, <1>11, MoveStep

LEMMA ControllerSendsKeeps ==
  ASSUME NEW c \in 0..(Rounds + 2), InvAt(c), ControllerSends
  PROVE  Keeps(c)
<1>1. PICK m : m = Head(control.sending)
  OBVIOUS
<1>2. /\ "controller" \in running[0] /\ control.sending # << >>
      /\ UNCHANGED <<main, actors, running, net, nodes, table, entered, left>>
  BY DEF ControllerSends, Running
<1>3. /\ TypeOK /\ Queues \in QueueSet /\ box \in BoxSet /\ 0 \in Ranks /\ "communicator" \in Boxes
      /\ Sending \in Names /\ Queues[Sending] = control.sending /\ Out \in Names
      /\ Queues[Sending] \in Seq(Message)
  BY Typed, NamesAre, RanksAre, ZeroQueues DEF InvAt, Boxes, Actors
<1>4. m \in Message /\ In(Queues, Sending, m)
  BY <1>1, <1>2, <1>3, HeadIsIn
<1>5. m.type \in ToMain /\ m.src = 0 /\ GoesOn(m, Head(Queues[Sending])) /\ Route(m, Out)
  <2>1. Fits(m, Sending, c)
    BY <1>3, <1>4, InFits
  <2>2. m.type \in ToMain
    BY <2>1, RouteIs, RanksAre DEF Fits
  <2>3. m.src = 0
    BY <2>1, <2>2 DEF Fits
  <2> QED
    BY <1>1, <1>3, <2>2, <2>3 DEF GoesOn, Route, Out
<1>6. "communicator" \in actors[0]
  <2>1. ActorsOK(0)
    BY <1>3 DEF InvAt
  <2> QED
    BY <1>2, <2>1 DEF ActorsOK
<1>7. box' = [box EXCEPT ![0]["communicator"] = Append(@, m)] /\ ~failed'
  BY <1>1, <1>6 DEF ControllerSends, SendTo
<1>8. /\ control' = [control EXCEPT !.sending = Tail(control.sending)]
      /\ control'.sending = Tail(control.sending) /\ control'.tasks = control.tasks
      /\ UNCHANGED <<control.ids, control.registered, control.workers, control.servers>>
  BY <1>3 DEF ControllerSends, TypeOK
<1>9. /\ Moves(QueuesOf(box, net, control.sending, control.tasks),
               QueuesOf(box', net, Tail(control.sending), control.tasks),
               Sending, Mail(0, "communicator"), m)
      /\ (m \in Message => box' \in BoxSet)
  BY ONLY <1>2, <1>3, <1>7, SendingToBox
<1>10. Moves(Queues, Queues', Sending, Out, m)
  BY <1>2, <1>8, <1>9 DEF Queues, Out
<1>11. TypeOK'
  <2>1. Tail(control.sending) \in Seq(Message)
    BY <1>2, <1>3, HeadTailProperties
  <2>2. control' \in [tasks : Seq(Message), ids : Ids, registered : Nat,
                      workers : Nat, servers : Nat, sending : Seq(Message)]
    BY <1>3, <1>8, <2>1 DEF TypeOK
  <2> QED
    BY <1>2, <1>3, <1>4, <1>9, <2>2 DEF TypeOK, BoxSet
<1>12. InvAt(c)' /\ (AnswerExists(c) => AnswerExists(c)')
  BY <1>2, <1>3, <1>5, <1>7, <1>8, <1>10, <1>11, MoveKeeps
<1>13. ASSUME ZeroIsLast(box[0]["communicator"], control.sending)
       PROVE  ZeroIsLast(box'[0]["communicator"], control'.sending)
  <2>1. box'[0]["communicator"] = Append(box[0]["communicator"], m)
        /\ box[0]["communicator"] \in Seq(Message)
    BY <1>3, <1>7 DEF BoxSet
  <2> QED
    BY <1>1, <1>2, <1>3, <1>8, <1>13, <2>1, ZeroSend
<1> QED
  BY <1>12, <1>13 DEF Keeps, AnswersAt

\* A barrier that is not full yet.
LEMMA BarrierWaitsKeeps ==
  ASSUME NEW c \in 0..(Rounds + 2), InvAt(c), ControlBarrier,
         ~BarrierIsFull(Len(Append(control.tasks, Head(box[0]["controller"]))))
  PROVE  Keeps(c)
<1>1. PICK m : m = Head(box[0]["controller"])
  OBVIOUS
<1>2. /\ box[0]["controller"] # << >> /\ m.type = "Barrier"
      /\ box' = [box EXCEPT ![0]["controller"] = Tail(@)]
      /\ control' = [control EXCEPT !.tasks = Append(control.tasks, m)]
      /\ UNCHANGED <<main, actors, running, net, nodes, table, entered, left, failed>>
  BY <1>1 DEF ControlBarrier, Controls, Popped
<1>3. /\ TypeOK /\ Queues \in QueueSet /\ box \in BoxSet /\ 0 \in Ranks /\ "controller" \in Boxes
      /\ Tasks \in Names /\ Mail(0, "controller") \in Names /\ Tasks # Sending
      /\ Mail(0, "controller") # Sending /\ Tasks # Out
      /\ Queues[Mail(0, "controller")] = box[0]["controller"]
  BY Typed, NamesAre, NamesDiffer, RanksAre DEF InvAt, Shows, Boxes, Actors, Out
<1>4. m \in Message
  BY <1>1, <1>2, <1>3, HeadIsIn
<1>5. /\ control'.sending = control.sending /\ control'.tasks = Append(control.tasks, m)
      /\ UNCHANGED <<control.ids, control.registered, control.workers, control.servers>>
  BY <1>2, <1>3 DEF TypeOK
<1>6. /\ Moves(QueuesOf(box, net, control.sending, control.tasks),
               QueuesOf(box', net, control.sending, Append(control.tasks, m)),
               Mail(0, "controller"), Tasks, m)
      /\ box' \in BoxSet
  BY ONLY <1>2, <1>3, BoxToTasks
<1>7. Moves(Queues, Queues', Mail(0, "controller"), Tasks, m)
  BY <1>2, <1>5, <1>6 DEF Queues
<1>8. GoesOn(m, Head(Queues[Mail(0, "controller")])) /\ Route(m, Tasks)
  BY <1>1, <1>2, <1>3 DEF GoesOn, Route
<1>9. TypeOK' /\ ~failed'
  <2>1. control' \in [tasks : Seq(Message), ids : Ids, registered : Nat,
                      workers : Nat, servers : Nat, sending : Seq(Message)]
    <3>1. control.tasks \in Seq(Message) /\ Append(control.tasks, m) \in Seq(Message)
      BY <1>3, <1>4, AppendProperties DEF TypeOK
    <3> QED
      BY <1>2, <1>3, <3>1 DEF TypeOK
  <2> QED
    BY <1>2, <1>3, <1>6, <2>1 DEF TypeOK, InvAt, BoxSet
<1> QED
  BY <1>2, <1>3, <1>4, <1>5, <1>7, <1>8, <1>9, MoveStep

-----------------------------------------------------------------------------
(* Steps of one main thread.                                                 *)

OthersKept(r) ==
  \A x \in Ranks \ {r} :
    /\ main'[x] = main[x] /\ actors'[x] = actors[x] /\ running'[x] = running[x]
    /\ table'[x] = table[x] /\ entered'[x] = entered[x] /\ left'[x] = left[x]
    /\ nodes'[x] = nodes[x]
OthersMail(r) ==
  \A n : Owner(n) # r /\ (n.type = "Register" \/ ~DropsOnClose) =>
    (Somewhere(Queues', n) <=> Somewhere(Queues, n))

\* What has to be shown of the rank itself.
LEMMA MainStep ==
  ASSUME NEW c, InvAt(c), NEW r \in Ranks, OthersKept(r), OthersMail(r), control' = control,
         TypeOK', ~failed', MessagesOK(c)', MainOK(r)', ActorsOK(r)', ClockOK(r, c)',
         r \in Known' <=> r \in Known,
         main'[r] \notin {"start", "register", "registering"} =>
           nodes'[r] = control.ids /\ control.registered = N,
         ~(main'[r] = "inBarrier" /\ left'[r] + 1 = c),
         ZeroIsLast(box[0]["communicator"], control.sending) =>
           ZeroIsLast(box'[0]["communicator"], control'.sending)
  PROVE  Keeps(c)
<1>1. \A x \in Ranks : MainOK(x)' /\ ActorsOK(x)' /\ ClockOK(x, c)'
  <2> SUFFICES ASSUME NEW x \in Ranks, x # r PROVE MainOK(x)' /\ ActorsOK(x)' /\ ClockOK(x, c)'
    OBVIOUS
  <2>1. MainOK(x) /\ ActorsOK(x) /\ ClockOK(x, c)
    BY DEF InvAt
  <2> QED
    BY <2>1 DEF OthersKept, MainOK, ActorsOK, ClockOK
<1>2. \A x \in Ranks \ {r} : /\ Owner(Msg("Register", x, 0)) = x /\ Msg("Register", x, 0).type = "Register"
                             /\ Owner(Msg("ReplyBarrier", 0, x)) = x
  BY DEF Owner, Msg
<1>3. Known' = Known
  <2>1. \A x \in Ranks \ {r} : x \in Known' <=> x \in Known
    BY <1>2 DEF Known, OthersKept, OthersMail
  <2>2. Known' \subseteq Ranks /\ Known \subseteq Ranks
    BY DEF Known
  <2> QED
    BY <2>1, <2>2
<1>4. IdsOK'
  <2>1. \A x \in Ranks : main'[x] \notin {"start", "register", "registering"} =>
          nodes'[x] = control.ids /\ control.registered = N
    BY DEF InvAt, IdsOK, OthersKept
  <2> QED
    BY <1>3, <2>1, IdsStay DEF InvAt
<1>5. ASSUME AnswerExists(c), ~DropsOnClose PROVE AnswerExists(c)'
  BY <1>2, <1>5 DEF AnswerExists, OthersKept, OthersMail
<1> QED
  BY <1>1, <1>4, <1>5 DEF Keeps, InvAt, AnswersAt

\* Nothing happens to the messages.
LEMMA QuietMail ==
  ASSUME NEW c, InvAt(c), NEW r \in Ranks, OthersKept(r), UNCHANGED <<box, net, control>>,
         main[r] \notin Waiting
  PROVE  /\ MessagesOK(c)' /\ OthersMail(r)
         /\ ZeroIsLast(box[0]["communicator"], control.sending) =>
              ZeroIsLast(box'[0]["communicator"], control'.sending)
         /\ Somewhere(Queues', Msg("Register", r, 0)) <=> Somewhere(Queues, Msg("Register", r, 0))
<1>1. Queues' = Queues
  BY DEF Queues
<1>2. ASSUME NEW q \in Names, NEW m, In(Queues', q, m)
      PROVE  /\ In(Queues, q, m)
             /\ main'[Owner(m)] = main[Owner(m)] /\ left'[Owner(m)] = left[Owner(m)]
  <2>1. In(Queues, q, m)
    BY <1>1, <1>2
  <2>2. Owner(m) \in Ranks \ {r}
    BY <2>1, InFits, NoneOfMine
  <2> QED
    BY <2>1, <2>2 DEF OthersKept
<1>3. OneEach(Queues')
  BY <1>1 DEF InvAt, MessagesOK
<1>4. MessagesOK(c)'
  BY <1>2, <1>3, MessagesStay
<1> QED
  BY <1>1, <1>4 DEF OthersMail

\* The rank sends a message.
LEMMA PushedMail ==
  ASSUME NEW c, InvAt(c), NEW r \in Ranks, OthersKept(r), UNCHANGED <<net, control>>,
         main[r] \notin Waiting, NEW a \in Boxes, NEW m \in Message, Owner(m) = r,
         m.type \notin ToMain, box' = [box EXCEPT ![r][a] = Append(@, m)],
         Fits(m, Mail(r, a), c)'
  PROVE  /\ MessagesOK(c)' /\ OthersMail(r) /\ box' \in BoxSet
         /\ ZeroIsLast(box[0]["communicator"], control.sending) =>
              ZeroIsLast(box'[0]["communicator"], control'.sending)
         /\ \A n : Somewhere(Queues', n) <=> Somewhere(Queues, n) \/ n = m
<1>1. /\ Queues \in QueueSet /\ OneEach(Queues) /\ box \in BoxSet /\ Mail(r, a) \in Names
  BY Typed, NamesAre DEF InvAt, MessagesOK
<1>2. PICK b : b = box'
  OBVIOUS
<1>3. /\ Pushes(QueuesOf(box, net, control.sending, control.tasks),
                QueuesOf(b, net, control.sending, control.tasks), Mail(r, a), m)
      /\ m \in Message => b \in BoxSet
  BY <1>1, <1>2, BoxPushed
<1>4. Pushes(Queues, Queues', Mail(r, a), m) /\ box' \in BoxSet
  BY <1>2, <1>3 DEF Queues
<1>5. \A x \in Names : \A n : In(Queues, x, n) => Owner(n) # Owner(m)
  BY NoneOfMine
<1>6. /\ OneEach(Queues')
      /\ \A x \in Names : \A n : In(Queues', x, n) <=> In(Queues, x, n) \/ (x = Mail(r, a) /\ n = m)
  BY <1>1, <1>4, <1>5, PushLemma
<1>7. ASSUME NEW q \in Names, NEW n, In(Queues', q, n)
      PROVE  \/ Fits(n, q, c)'
             \/ /\ In(Queues, q, n)
                /\ main'[Owner(n)] = main[Owner(n)] /\ left'[Owner(n)] = left[Owner(n)]
  <2>1. CASE In(Queues, q, n)
    <3>1. Owner(n) \in Ranks \ {r}
      BY <2>1, InFits, NoneOfMine
    <3> QED
      BY <2>1, <3>1 DEF OthersKept
  <2>2. CASE q = Mail(r, a) /\ n = m
    BY <2>2
  <2> QED
    BY <1>6, <1>7, <2>1, <2>2
<1>8. MessagesOK(c)'
  BY <1>6, <1>7, MessagesStay
<1>9. \A n : Somewhere(Queues', n) <=> Somewhere(Queues, n) \/ n = m
  BY <1>1, <1>6 DEF Somewhere
<1>10. ASSUME ZeroIsLast(box[0]["communicator"], control.sending)
       PROVE  ZeroIsLast(box'[0]["communicator"], control'.sending)
  <2>1. box[0]["communicator"] \in Seq(Message)
    BY <1>1, RanksAre DEF BoxSet, Boxes, Actors
  <2>2. \/ box'[0]["communicator"] = box[0]["communicator"]
        \/ box'[0]["communicator"] = Append(box[0]["communicator"], m)
    BY <1>1, RanksAre DEF BoxSet, Boxes, Actors
  <2> QED
    BY <1>10, <2>1, <2>2, ZeroAppend
<1> QED
  BY <1>4, <1>8, <1>9, <1>10 DEF OthersMail

\* The rank takes the message that it has waited for.
LEMMA PoppedMail ==
  ASSUME NEW c, InvAt(c), NEW r \in Ranks, OthersKept(r), UNCHANGED <<net, control>>,
         NEW a \in Boxes \ {"communicator"}, box[r][a] # << >>, Owner(Head(box[r][a])) = r,
         box' = [box EXCEPT ![r][a] = Tail(@)]
  PROVE  /\ MessagesOK(c)' /\ OthersMail(r) /\ box' \in BoxSet
         /\ ZeroIsLast(box[0]["communicator"], control.sending) =>
              ZeroIsLast(box'[0]["communicator"], control'.sending)
         /\ \A n : Somewhere(Queues', n) <=> Somewhere(Queues, n) /\ n # Head(box[r][a])
         /\ Fits(Head(box[r][a]), Mail(r, a), c) /\ Head(box[r][a]) \in Message
<1>1. /\ Queues \in QueueSet /\ OneEach(Queues) /\ box \in BoxSet /\ Mail(r, a) \in Names
      /\ Queues[Mail(r, a)] = box[r][a]
  BY Typed, NamesAre DEF InvAt, MessagesOK, Shows
<1>2. PICK b, h : b = box' /\ h = Head(box[r][a])
  OBVIOUS
<1>3. /\ Pops(QueuesOf(box, net, control.sending, control.tasks),
              QueuesOf(b, net, control.sending, control.tasks), Mail(r, a))
      /\ b \in BoxSet
  BY <1>1, <1>2, BoxPopped
<1>4. Pops(Queues, Queues', Mail(r, a)) /\ box' \in BoxSet
  BY <1>2, <1>3 DEF Queues
<1>5. /\ OneEach(Queues') /\ In(Queues, Mail(r, a), h)
      /\ \A x \in Names : \A n : In(Queues', x, n) <=> In(Queues, x, n) /\ n # h
      /\ \A x \in Names : \A n : In(Queues', x, n) => Owner(n) # Owner(h)
  BY <1>1, <1>2, <1>4, PopLemma
<1>6. ASSUME NEW q \in Names, NEW n, In(Queues', q, n)
      PROVE  /\ In(Queues, q, n)
             /\ main'[Owner(n)] = main[Owner(n)] /\ left'[Owner(n)] = left[Owner(n)]
  <2>1. In(Queues, q, n) /\ Owner(n) # r
    BY <1>2, <1>5, <1>6
  <2>2. Owner(n) \in Ranks \ {r}
    BY <2>1, InFits
  <2> QED
    BY <2>1, <2>2 DEF OthersKept
<1>7. MessagesOK(c)'
  BY <1>5, <1>6, MessagesStay
<1>8. \A n : Somewhere(Queues', n) <=> Somewhere(Queues, n) /\ n # h
  BY <1>5 DEF Somewhere
<1>9. box'[0]["communicator"] = box[0]["communicator"]
  BY <1>1, RanksAre DEF BoxSet, Boxes, Actors
<1>10. Fits(h, Mail(r, a), c) /\ h \in Message
  BY <1>1, <1>5, InFits
<1> QED
  BY <1>2, <1>4, <1>7, <1>8, <1>9, <1>10 DEF OthersMail

-----------------------------------------------------------------------------
(* The actions of the main thread.                                           *)

\* What a rank's step can use.
LEMMA RankIs ==
  ASSUME NEW c \in 0..(Rounds + 2), InvAt(c), NEW r \in Ranks
  PROVE  /\ TypeOK /\ ~failed /\ MainOK(r) /\ ActorsOK(r) /\ ClockOK(r, c)
         /\ left[r] \in Nat /\ entered[r] \in Nat /\ c \in Nat /\ Rounds \in Nat \ {0}
         /\ main[r] \notin {"start", "register", "registering"} =>
              nodes[r] = control.ids /\ control.registered = N
         /\ Role[r] \subseteq Actors
<1>1. TypeOK /\ ~failed /\ MainOK(r) /\ ActorsOK(r) /\ ClockOK(r, c) /\ IdsOK
  BY DEF InvAt
<1>2. left[r] \in Nat /\ entered[r] \in Nat
  BY <1>1 DEF TypeOK
<1>3. main[r] \notin {"start", "register", "registering"} =>
        nodes[r] = control.ids /\ control.registered = N
  BY <1>1 DEF IdsOK
<1>4. Role[r] \subseteq Actors
  BY ZooAssumption DEF Actors
<1>5. c \in Nat /\ Rounds \in Nat \ {0}
  BY RanksAre
<1> QED
  BY <1>1, <1>2, <1>3, <1>4, <1>5

LEMMA StartCommunicatorKeeps ==
  ASSUME NEW c \in 0..(Rounds + 2), InvAt(c), NEW r \in Ranks, StartCommunicator(r)
  PROVE  Keeps(c)
<1> USE RankIs
<1>1. PICK started : started = {"communicator"} \cup IF r = 0 THEN {"controller"} ELSE {}
  OBVIOUS
<1>2. /\ main[r] = "start" /\ main' = [main EXCEPT ![r] = "register"]
      /\ actors' = [actors EXCEPT ![r] = started] /\ running' = [running EXCEPT ![r] = started]
      /\ UNCHANGED <<box, net, control, nodes, table, entered, left, failed>>
  BY <1>1 DEF StartCommunicator, At, GoTo
<1>3. TypeOK' /\ ~failed'
  BY <1>1, <1>2 DEF TypeOK, MainPcs, Early, Actors
<1>4. /\ main'[r] = "register" /\ actors'[r] = started /\ running'[r] = started
      /\ table'[r] = table[r] /\ entered'[r] = entered[r] /\ left'[r] = left[r] /\ OthersKept(r)
  BY <1>2 DEF TypeOK, OthersKept
<1>5. MainOK(r)' /\ ClockOK(r, c)'
  BY <1>2, <1>4 DEF MainOK, ClockOK, Early
<1>6. ActorsOK(r)'
  BY <1>1, <1>4 DEF ActorsOK, Early
<1>7. /\ MessagesOK(c)' /\ OthersMail(r)
      /\ ZeroIsLast(box[0]["communicator"], control.sending) =>
           ZeroIsLast(box'[0]["communicator"], control'.sending)
  BY <1>2, <1>4, QuietMail DEF Waiting
<1>8. r \in Known' <=> r \in Known
  BY <1>2, <1>4 DEF Known
<1> QED
  BY <1>2, <1>3, <1>4, <1>5, <1>6, <1>7, <1>8, MainStep

LEMMA StartActorKeeps ==
  ASSUME NEW c \in 0..(Rounds + 2), InvAt(c), NEW r \in Ranks, StartServer(r) \/ StartWorker(r)
  PROVE  Keeps(c)
<1> USE RankIs
<1>1. PICK a, pc, next : /\ StartActor(r, pc, a, next)
                         /\ \/ a = "server" /\ pc = "startServer" /\ next = "startWorker"
                            \/ a = "worker" /\ pc = "startWorker" /\ next = "barrier"
  BY DEF StartServer, StartWorker
<1>2. /\ main[r] = pc /\ main' = [main EXCEPT ![r] = next]
      /\ actors' = [actors EXCEPT ![r] = actors[r] \cup ({a} \cap Role[r])]
      /\ running' = [running EXCEPT ![r] = running[r] \cup ({a} \cap Role[r])]
      /\ UNCHANGED <<box, net, control, nodes, table, entered, left, failed>>
  BY <1>1 DEF StartActor, At, GoTo, TypeOK
<1>3. TypeOK' /\ ~failed'
  BY <1>1, <1>2 DEF TypeOK, MainPcs, Early, Actors
<1>4. /\ main'[r] = next /\ actors'[r] = actors[r] \cup ({a} \cap Role[r])
      /\ running'[r] = running[r] \cup ({a} \cap Role[r])
      /\ table'[r] = table[r] /\ entered'[r] = entered[r] /\ left'[r] = left[r] /\ OthersKept(r)
  BY <1>2 DEF TypeOK, OthersKept
<1>5. MainOK(r)' /\ ClockOK(r, c)'
  BY <1>1, <1>2, <1>4 DEF MainOK, ClockOK, Early
<1>6. ActorsOK(r)'
  <2>1. Role[r] \subseteq {"server", "worker"}
    BY ZooAssumption
  <2> QED
    BY <1>1, <1>2, <1>4, <2>1 DEF ActorsOK, Early
<1>7. /\ MessagesOK(c)' /\ OthersMail(r)
      /\ ZeroIsLast(box[0]["communicator"], control.sending) =>
           ZeroIsLast(box'[0]["communicator"], control'.sending)
      /\ Somewhere(Queues', Msg("Register", r, 0)) <=> Somewhere(Queues, Msg("Register", r, 0))
  BY <1>1, <1>2, <1>4, QuietMail DEF Waiting
<1>8. r \in Known' <=> r \in Known
  BY <1>1, <1>2, <1>4, <1>7 DEF Known
<1>9. nodes'[r] = control.ids /\ control.registered = N
  BY <1>1, <1>2
<1> QED
  BY <1>1, <1>2, <1>3, <1>4, <1>5, <1>6, <1>7, <1>8, <1>9, MainStep

LEMMA CreateTableKeeps ==
  ASSUME NEW c \in 0..(Rounds + 2), InvAt(c), NEW r \in Ranks, CreateTable(r) \/ EndRound(r)
  PROVE  Keeps(c)
<1> USE RankIs
<1>1. /\ main[r] \in {"create", "train"} /\ main' = [main EXCEPT ![r] = "barrier"]
      /\ table' = [table EXCEPT ![r] = TRUE]
      /\ UNCHANGED <<actors, running, box, net, control, nodes, entered, left, failed>>
  <2>1. CASE CreateTable(r)
    BY <2>1 DEF CreateTable, AfterCreate, At, GoTo
  <2>2. CASE EndRound(r)
    <3>1. table[r] = TRUE
      BY <2>2 DEF EndRound, At, MainOK, TypeOK
    <3> QED
      BY <2>2, <3>1 DEF EndRound, At, GoTo, TypeOK
  <2> QED
    BY <2>1, <2>2
<1>2. TypeOK' /\ ~failed'
  BY <1>1 DEF TypeOK, MainPcs
<1>3. /\ main'[r] = "barrier" /\ table'[r] = TRUE /\ actors'[r] = actors[r] /\ running'[r] = running[r]
      /\ entered'[r] = entered[r] /\ left'[r] = left[r] /\ OthersKept(r)
  BY <1>1 DEF TypeOK, OthersKept
<1>4. MainOK(r)' /\ ClockOK(r, c)'
  BY <1>1, <1>3 DEF MainOK, ClockOK, Early
<1>5. ActorsOK(r)'
  BY <1>1, <1>3 DEF ActorsOK, Early
<1>6. /\ MessagesOK(c)' /\ OthersMail(r)
      /\ ZeroIsLast(box[0]["communicator"], control.sending) =>
           ZeroIsLast(box'[0]["communicator"], control'.sending)
      /\ Somewhere(Queues', Msg("Register", r, 0)) <=> Somewhere(Queues, Msg("Register", r, 0))
  BY <1>1, <1>3, QuietMail DEF Waiting
<1>7. r \in Known' <=> r \in Known
  BY <1>1, <1>3, <1>6 DEF Known
<1>8. nodes'[r] = control.ids /\ control.registered = N
  BY <1>1
<1> QED
  BY <1>1, <1>2, <1>3, <1>4, <1>5, <1>6, <1>7, <1>8, MainStep

LEMMA StopActorKeeps ==
  ASSUME NEW c \in 0..(Rounds + 2), InvAt(c), NEW r \in Ranks, StopActor(r)
  PROVE  Keeps(c)
<1> USE RankIs
<1>1. PICK a : running' = [running EXCEPT ![r] = running[r] \ {a}]
  BY DEF StopActor, TypeOK
<1>2. /\ main[r] = "stop"
      /\ UNCHANGED <<main, actors, box, net, control, nodes, table, entered, left, failed>>
  BY DEF StopActor, At
<1>3. TypeOK' /\ ~failed'
  BY <1>1, <1>2 DEF TypeOK
<1>4. /\ main'[r] = "stop" /\ table'[r] = table[r] /\ actors'[r] = actors[r]
      /\ running'[r] = running[r] \ {a}
      /\ entered'[r] = entered[r] /\ left'[r] = left[r] /\ OthersKept(r)
  BY <1>1, <1>2 DEF TypeOK, OthersKept
<1>5. MainOK(r)' /\ ClockOK(r, c)'
  BY <1>2, <1>4 DEF MainOK, ClockOK
<1>6. ActorsOK(r)'
  BY <1>2, <1>4 DEF ActorsOK
<1>7. /\ MessagesOK(c)' /\ OthersMail(r)
      /\ ZeroIsLast(box[0]["communicator"], control.sending) =>
           ZeroIsLast(box'[0]["communicator"], control'.sending)
      /\ Somewhere(Queues', Msg("Register", r, 0)) <=> Somewhere(Queues, Msg("Register", r, 0))
  BY <1>2, <1>4, QuietMail DEF Waiting
<1>8. r \in Known' <=> r \in Known
  BY <1>2, <1>4, <1>7 DEF Known
<1> QED
  BY <1>2, <1>3, <1>4, <1>5, <1>6, <1>7, <1>8, MainStep

LEMMA RegisterNodeKeeps ==
  ASSUME NEW c \in 0..(Rounds + 2), InvAt(c), NEW r \in Ranks, RegisterNode(r)
  PROVE  Keeps(c)
<1> USE RankIs
<1>1. PICK m : m = Msg("Register", r, 0)
  OBVIOUS
<1>2. m \in Message /\ m.type = "Register" /\ m.src = r /\ m.dst = 0 /\ Owner(m) = r
  BY <1>1, MsgIsMessage, RanksAre DEF Owner
<1>3. /\ main[r] = "register" /\ main' = [main EXCEPT ![r] = "registering"]
      /\ box' = [box EXCEPT ![r]["communicator"] = Append(@, m)]
      /\ UNCHANGED <<actors, running, net, control, nodes, table, entered, left>>
  BY <1>1 DEF RegisterNode, At, GoTo, SendTo
<1>4. ~failed'
  BY <1>3 DEF RegisterNode, SendTo, ActorsOK
<1>5. /\ main'[r] = "registering" /\ table'[r] = table[r] /\ actors'[r] = actors[r]
      /\ running'[r] = running[r]
      /\ entered'[r] = entered[r] /\ left'[r] = left[r] /\ OthersKept(r) /\ left[r] = 0
  BY <1>3 DEF TypeOK, OthersKept, MainOK, Early
<1>6. MainOK(r)' /\ ClockOK(r, c)'
  BY <1>3, <1>5 DEF MainOK, ClockOK, Early
<1>7. ActorsOK(r)'
  BY <1>3, <1>5 DEF ActorsOK, Early
<1>8. Fits(m, Mail(r, "communicator"), c)'
  BY <1>2, <1>5 DEF Fits, Route, WaitsFor, ToMain
<1>9. /\ MessagesOK(c)' /\ OthersMail(r) /\ box' \in BoxSet
      /\ ZeroIsLast(box[0]["communicator"], control.sending) =>
           ZeroIsLast(box'[0]["communicator"], control'.sending)
      /\ \A n : Somewhere(Queues', n) <=> Somewhere(Queues, n) \/ n = m
  <2>1. PICK a \in Boxes : a = "communicator"
    BY DEF Boxes, Actors
  <2>2. /\ main[r] \notin Waiting /\ m.type \notin ToMain /\ UNCHANGED <<net, control>>
        /\ m \in Message /\ Owner(m) = r /\ OthersKept(r) /\ Fits(m, Mail(r, a), c)'
        /\ box' = [box EXCEPT ![r][a] = Append(@, m)]
    BY <1>2, <1>3, <1>5, <1>8, <2>1 DEF Waiting, ToMain
  <2> QED
    BY ONLY InvAt(c), r \in Ranks, <2>2, a \in Boxes, PushedMail
<1>10. TypeOK'
  BY <1>3, <1>9 DEF TypeOK, MainPcs, Early, BoxSet
<1>11. r \in Known' <=> r \in Known
  BY <1>1, <1>3, <1>5, <1>9 DEF Known
<1> QED
  BY <1>3, <1>4, <1>5, <1>6, <1>7, <1>9, <1>10, <1>11, MainStep

LEMMA BarrierKeeps ==
  ASSUME NEW c \in 0..(Rounds + 2), InvAt(c), NEW r \in Ranks, Barrier(r)
  PROVE  Keeps(c)
<1> USE RankIs
<1>1. PICK m : m = Msg("Barrier", r, 0)
  OBVIOUS
<1>2. m \in Message /\ m.type = "Barrier" /\ m.src = r /\ m.dst = 0 /\ Owner(m) = r
  BY <1>1, MsgIsMessage, RanksAre DEF Owner
<1>3. /\ main[r] = "barrier" /\ main' = [main EXCEPT ![r] = "inBarrier"]
      /\ box' = [box EXCEPT ![r]["communicator"] = Append(@, m)]
      /\ entered' = [entered EXCEPT ![r] = entered[r] + 1]
      /\ UNCHANGED <<actors, running, net, control, nodes, table, left>>
  BY <1>1 DEF Barrier, At, GoTo, SendTo, TypeOK
<1>4. ~failed'
  BY <1>3 DEF Barrier, SendTo, ActorsOK
<1>5. /\ main'[r] = "inBarrier" /\ table'[r] = table[r] /\ actors'[r] = actors[r]
      /\ running'[r] = running[r]
      /\ entered'[r] = entered[r] + 1 /\ left'[r] = left[r] /\ OthersKept(r) /\ left[r] = c
  BY <1>3 DEF TypeOK, OthersKept, ClockOK
<1>6. MainOK(r)' /\ ClockOK(r, c)'
  BY <1>3, <1>5 DEF MainOK, ClockOK, Early
<1>7. ActorsOK(r)'
  BY <1>3, <1>5 DEF ActorsOK, Early
<1>8. Fits(m, Mail(r, "communicator"), c)'
  BY <1>2, <1>5 DEF Fits, Route, WaitsFor, ToMain
<1>9. /\ MessagesOK(c)' /\ OthersMail(r) /\ box' \in BoxSet
      /\ ZeroIsLast(box[0]["communicator"], control.sending) =>
           ZeroIsLast(box'[0]["communicator"], control'.sending)
      /\ \A n : Somewhere(Queues', n) <=> Somewhere(Queues, n) \/ n = m
  <2>1. PICK a \in Boxes : a = "communicator"
    BY DEF Boxes, Actors
  <2>2. /\ main[r] \notin Waiting /\ m.type \notin ToMain /\ UNCHANGED <<net, control>>
        /\ m \in Message /\ Owner(m) = r /\ OthersKept(r) /\ Fits(m, Mail(r, a), c)'
        /\ box' = [box EXCEPT ![r][a] = Append(@, m)]
    BY <1>2, <1>3, <1>5, <1>8, <2>1 DEF Waiting, ToMain
  <2> QED
    BY ONLY InvAt(c), r \in Ranks, <2>2, a \in Boxes, PushedMail
<1>10. TypeOK'
  <2>1. entered' \in [Ranks -> Nat]
    <3>1. entered \in [Ranks -> Nat] /\ entered[r] + 1 \in Nat
      BY DEF TypeOK
    <3> QED
      BY ONLY <1>3, <3>1
  <2>2. main' \in [Ranks -> MainPcs]
    BY <1>3 DEF TypeOK, MainPcs
  <2> QED
    BY <1>3, <1>9, <2>1, <2>2 DEF TypeOK, BoxSet
<1>11. r \in Known' <=> r \in Known
  <2>1. Msg("Register", r, 0) # m
    BY <1>2, MsgIsMessage, RanksAre
  <2> QED
    BY <1>3, <1>5, <1>9, <2>1 DEF Known
<1>12. nodes'[r] = control.ids /\ control.registered = N
  BY <1>3
<1> QED
  BY <1>3, <1>4, <1>5, <1>6, <1>7, <1>9, <1>10, <1>11, <1>12, MainStep

LEMMA RequestKeeps ==
  ASSUME NEW c \in 0..(Rounds + 2), InvAt(c), NEW r \in Ranks, Request(r)
  PROVE  Keeps(c)
<1> USE RankIs
<1>0. PICK s \in Ranks : nodes[r][s].server # -1 /\ SendTo(box, r, "worker", Msg("Request", r, s))
  BY DEF Request
<1>1. PICK m : m = Msg("Request", r, s)
  OBVIOUS
<1>2. m \in Message /\ m.type = "Request" /\ m.src = r /\ m.dst = s /\ Owner(m) = r
  BY <1>1, MsgIsMessage, RanksAre DEF Owner
<1>3. /\ main[r] = "train" /\ main' = [main EXCEPT ![r] = "requesting"]
      /\ box' = [box EXCEPT ![r]["worker"] = Append(@, m)] /\ "worker" \in Role[r]
      /\ UNCHANGED <<actors, running, net, control, nodes, table, entered, left>>
  BY <1>0, <1>1 DEF Request, At, GoTo, SendTo, TypeOK
<1>4. ~failed'
  <2>1. "worker" \in actors[r]
    BY <1>3 DEF ActorsOK, Early
  <2> QED
    BY <1>0, <2>1 DEF SendTo
<1>5. /\ main'[r] = "requesting" /\ table'[r] = table[r] /\ actors'[r] = actors[r]
      /\ running'[r] = running[r]
      /\ entered'[r] = entered[r] /\ left'[r] = left[r] /\ OthersKept(r)
  BY <1>3 DEF TypeOK, OthersKept
<1>6. MainOK(r)' /\ ClockOK(r, c)'
  BY <1>3, <1>5 DEF MainOK, ClockOK, Early
<1>7. ActorsOK(r)'
  BY <1>3, <1>5 DEF ActorsOK, Early
<1>8. Fits(m, Mail(r, "worker"), c)'
  <2>1. nodes[r] = control.ids /\ Numbered("server", control.servers, control.ids, Known)
    BY <1>3 DEF InvAt, IdsOK
  <2>2. "server" \in Role[s]
    BY <1>0, <2>1 DEF Numbered, Has
  <2>3. Route(m, Mail(r, "worker"))
    BY <1>2 DEF Route
  <2> QED
    BY <1>2, <1>5, <2>2, <2>3 DEF Fits, WaitsFor, ToMain
<1>9. /\ MessagesOK(c)' /\ OthersMail(r) /\ box' \in BoxSet
      /\ ZeroIsLast(box[0]["communicator"], control.sending) =>
           ZeroIsLast(box'[0]["communicator"], control'.sending)
      /\ \A n : Somewhere(Queues', n) <=> Somewhere(Queues, n) \/ n = m
  <2>1. PICK a \in Boxes : a = "worker"
    BY DEF Boxes, Actors
  <2>2. /\ main[r] \notin Waiting /\ m.type \notin ToMain /\ UNCHANGED <<net, control>>
        /\ m \in Message /\ Owner(m) = r /\ OthersKept(r) /\ Fits(m, Mail(r, a), c)'
        /\ box' = [box EXCEPT ![r][a] = Append(@, m)]
    BY <1>2, <1>3, <1>5, <1>8, <2>1 DEF Waiting, ToMain
  <2> QED
    BY ONLY InvAt(c), r \in Ranks, <2>2, a \in Boxes, PushedMail
<1>10. TypeOK'
  BY <1>3, <1>9 DEF TypeOK, MainPcs, Early, BoxSet
<1>11. r \in Known' <=> r \in Known
  <2>1. Msg("Register", r, 0) # m
    BY <1>2, MsgIsMessage, RanksAre
  <2> QED
    BY <1>3, <1>5, <1>9, <2>1 DEF Known
<1>12. nodes'[r] = control.ids /\ control.registered = N
  BY <1>3
<1> QED
  BY <1>3, <1>4, <1>5, <1>6, <1>7, <1>9, <1>10, <1>11, <1>12, MainStep

\* What the main thread finds in its mailbox is what it waits for.
LEMMA ZooMail ==
  ASSUME NEW c \in 0..(Rounds + 2), InvAt(c), NEW r \in Ranks, box[r]["zoo"] # << >>,
         main[r] \in {"registering", "inBarrier"}
  PROVE  LET h == Head(box[r]["zoo"]) IN
         /\ h \in Message /\ h.dst = r /\ h.type \in ToMain /\ Owner(h) = r
         /\ h.type = IF main[r] = "registering" THEN "ReplyRegister" ELSE "ReplyBarrier"
         /\ main[r] = "registering" => h.ids = control.ids /\ control.registered = N
         /\ main[r] = "inBarrier" => left[r] + 1 = c
<1>1. PICK h : h = Head(box[r]["zoo"])
  OBVIOUS
<1>2. /\ Queues \in QueueSet /\ Mail(r, "zoo") \in Names /\ Queues[Mail(r, "zoo")] = box[r]["zoo"]
  BY Typed, NamesAre DEF InvAt, Shows, Boxes
<1>3. h \in Message /\ In(Queues, Mail(r, "zoo"), h)
  BY <1>1, <1>2, HeadIsIn
<1>4. Fits(h, Mail(r, "zoo"), c)
  BY <1>2, <1>3, InFits
<1>5. h.type \in ToMain /\ h.dst = r
  BY <1>4, RouteIs DEF Fits
<1>6. Owner(h) = r
  BY <1>5 DEF Owner, ToMain
<1>7. h.type = IF main[r] = "registering" THEN "ReplyRegister" ELSE "ReplyBarrier"
  BY <1>4, <1>5, <1>6 DEF Fits, WaitsFor, ToMain
<1>8. main[r] = "registering" => h.ids = control.ids /\ control.registered = N
  BY <1>4, <1>7 DEF Fits
<1>9. main[r] = "inBarrier" => left[r] + 1 = c
  BY <1>4, <1>5, <1>7 DEF Fits
<1> QED
  BY <1>1, <1>3, <1>5, <1>6, <1>7, <1>8, <1>9

LEMMA RegisteredKeeps ==
  ASSUME NEW c \in 0..(Rounds + 2), InvAt(c), NEW r \in Ranks, Registered(r)
  PROVE  Keeps(c)
<1> USE RankIs
<1>1. PICK m : m = Head(box[r]["zoo"])
  OBVIOUS
<1>2. /\ main[r] = "registering" /\ main' = [main EXCEPT ![r] = "startServer"]
      /\ box[r]["zoo"] # << >> /\ box' = [box EXCEPT ![r]["zoo"] = Tail(@)]
      /\ nodes' = [nodes EXCEPT ![r] = m.ids] /\ failed' = (m.type # "ReplyRegister")
      /\ UNCHANGED <<actors, running, net, control, table, entered, left>>
  BY <1>1 DEF Registered, At, GoTo, Popped
<1>3. /\ m \in Message /\ m.type = "ReplyRegister" /\ Owner(m) = r
      /\ m.ids = control.ids /\ control.registered = N /\ ~failed'
  BY <1>1, <1>2, ZooMail
<1>4. /\ main'[r] = "startServer" /\ table'[r] = table[r] /\ actors'[r] = actors[r]
      /\ running'[r] = running[r] /\ nodes'[r] = control.ids
      /\ entered'[r] = entered[r] /\ left'[r] = left[r] /\ OthersKept(r)
  BY <1>2, <1>3 DEF TypeOK, OthersKept
<1>5. MainOK(r)' /\ ClockOK(r, c)'
  BY <1>2, <1>4 DEF MainOK, ClockOK, Early
<1>6. ActorsOK(r)'
  BY <1>2, <1>4 DEF ActorsOK, Early
<1>7. /\ MessagesOK(c)' /\ OthersMail(r) /\ box' \in BoxSet
      /\ ZeroIsLast(box[0]["communicator"], control.sending) =>
           ZeroIsLast(box'[0]["communicator"], control'.sending)
      /\ \A n : Somewhere(Queues', n) <=> Somewhere(Queues, n) /\ n # m
  <2>1. PICK a \in Boxes \ {"communicator"} : a = "zoo"
    BY DEF Boxes
  <2>2. /\ UNCHANGED <<net, control>> /\ box[r][a] # << >> /\ m = Head(box[r][a])
        /\ Owner(Head(box[r][a])) = r /\ OthersKept(r) /\ box' = [box EXCEPT ![r][a] = Tail(@)]
    BY <1>1, <1>2, <1>3, <1>4, <2>1
  <2> QED
    BY ONLY InvAt(c), r \in Ranks, <2>2, a \in Boxes \ {"communicator"}, PoppedMail
<1>8. TypeOK'
  BY <1>2, <1>3, <1>7 DEF TypeOK, MainPcs, Early, BoxSet
<1>9. r \in Known' <=> r \in Known
  <2>1. Msg("Register", r, 0) # m
    BY <1>3, MsgIsMessage, RanksAre
  <2> QED
    BY <1>2, <1>4, <1>7, <2>1 DEF Known
<1> QED
  BY <1>2, <1>3, <1>4, <1>5, <1>6, <1>7, <1>8, <1>9, MainStep

LEMMA BarrierPassedKeeps ==
  ASSUME NEW c \in 0..(Rounds + 2), InvAt(c), NEW r \in Ranks, BarrierPassed(r)
  PROVE  Keeps(c)
<1> USE RankIs
<1>1. PICK m, pc : m = Head(box[r]["zoo"]) /\ pc = AfterBarrier(left[r] + 1)
  OBVIOUS
<1>2. /\ main[r] = "inBarrier" /\ main' = [main EXCEPT ![r] = pc]
      /\ box[r]["zoo"] # << >> /\ box' = [box EXCEPT ![r]["zoo"] = Tail(@)]
      /\ failed' = (m.type # "ReplyBarrier") /\ left' = [left EXCEPT ![r] = left[r] + 1]
      /\ UNCHANGED <<actors, running, net, control, nodes, table, entered>>
  BY <1>1 DEF BarrierPassed, At, GoTo, Popped, TypeOK
<1>3. m \in Message /\ m.type = "ReplyBarrier" /\ Owner(m) = r /\ left[r] + 1 = c /\ ~failed'
  BY <1>1, <1>2, ZooMail
<1>4. /\ pc \in {"create", "train", "stop"} /\ (pc = "create" => c = 1)
      /\ (pc = "train" => c \in 2..(Rounds + 1)) /\ (pc = "stop" => c = Rounds + 2)
      /\ (c # 1 => left[r] # 0)
  BY <1>1, <1>2, <1>3 DEF AfterBarrier, MainOK
<1>5. /\ main'[r] = pc /\ table'[r] = table[r] /\ actors'[r] = actors[r]
      /\ running'[r] = running[r] /\ nodes'[r] = control.ids /\ control.registered = N
      /\ entered'[r] = entered[r] /\ left'[r] = c /\ OthersKept(r)
  BY <1>2, <1>3 DEF TypeOK, OthersKept
<1>6. MainOK(r)' /\ ClockOK(r, c)'
  <2>1. entered[r] = c
    BY <1>2, <1>3 DEF ClockOK
  <2>2. pc # "create" => table[r]
    BY <1>1, <1>2, <1>3, <1>4 DEF MainOK, AfterBarrier
  <2> QED
    BY <1>2, <1>4, <1>5, <2>1, <2>2 DEF MainOK, ClockOK, Early
<1>7. ActorsOK(r)'
  BY <1>2, <1>4, <1>5 DEF ActorsOK, Early
<1>8. /\ MessagesOK(c)' /\ OthersMail(r) /\ box' \in BoxSet
      /\ ZeroIsLast(box[0]["communicator"], control.sending) =>
           ZeroIsLast(box'[0]["communicator"], control'.sending)
      /\ \A n : Somewhere(Queues', n) <=> Somewhere(Queues, n) /\ n # m
  <2>1. PICK a \in Boxes \ {"communicator"} : a = "zoo"
    BY DEF Boxes
  <2>2. /\ UNCHANGED <<net, control>> /\ box[r][a] # << >> /\ m = Head(box[r][a])
        /\ Owner(Head(box[r][a])) = r /\ OthersKept(r) /\ box' = [box EXCEPT ![r][a] = Tail(@)]
    BY <1>1, <1>2, <1>3, <1>5, <2>1
  <2> QED
    BY ONLY InvAt(c), r \in Ranks, <2>2, a \in Boxes \ {"communicator"}, PoppedMail
<1>9. TypeOK'
  BY <1>2, <1>3, <1>4, <1>8 DEF TypeOK, MainPcs, Early, BoxSet
<1>10. r \in Known' <=> r \in Known
  <2>1. Msg("Register", r, 0) # m
    BY <1>3, MsgIsMessage, RanksAre
  <2> QED
    BY <1>2, <1>4, <1>5, <1>8, <2>1 DEF Known
<1> QED
  BY <1>2, <1>3, <1>4, <1>5, <1>6, <1>7, <1>8, <1>9, <1>10, MainStep

LEMMA WorkerNotifiesKeeps ==
  ASSUME NEW c \in 0..(Rounds + 2), InvAt(c), NEW r \in Ranks, WorkerNotifies(r)
  PROVE  Keeps(c)
<1> USE RankIs
<1>1. PICK m : m = Head(box[r]["worker"])
  OBVIOUS
<1>2. /\ main' = [main EXCEPT ![r] = "barrier"] /\ m.type = "Reply"
      /\ box[r]["worker"] # << >> /\ box' = [box EXCEPT ![r]["worker"] = Tail(@)]
      /\ UNCHANGED <<actors, running, net, control, nodes, table, entered, left, failed>>
  BY <1>1 DEF WorkerNotifies, GoTo, Popped
<1>3. Owner(m) = r /\ main[r] = "requesting"
  <2>1. /\ Queues \in QueueSet /\ Mail(r, "worker") \in Names
        /\ Queues[Mail(r, "worker")] = box[r]["worker"]
    BY Typed, NamesAre DEF InvAt, Shows, Boxes, Actors
  <2>2. In(Queues, Mail(r, "worker"), m)
    BY <1>1, <1>2, <2>1, HeadIsIn
  <2>3. Fits(m, Mail(r, "worker"), c)
    BY <2>1, <2>2, InFits
  <2>4. m.dst = r
    BY <1>2, <2>3, RouteIs DEF Fits
  <2> QED
    BY <1>2, <2>3, <2>4 DEF Fits, Owner, WaitsFor
<1>4. /\ main'[r] = "barrier" /\ table'[r] = table[r] /\ actors'[r] = actors[r]
      /\ running'[r] = running[r] /\ nodes'[r] = control.ids /\ control.registered = N
      /\ entered'[r] = entered[r] /\ left'[r] = left[r] /\ OthersKept(r)
  BY <1>2, <1>3 DEF TypeOK, OthersKept
<1>5. MainOK(r)' /\ ClockOK(r, c)'
  BY <1>3, <1>4 DEF MainOK, ClockOK, Early
<1>6. ActorsOK(r)'
  BY <1>3, <1>4 DEF ActorsOK, Early
<1>7. /\ MessagesOK(c)' /\ OthersMail(r) /\ box' \in BoxSet
      /\ ZeroIsLast(box[0]["communicator"], control.sending) =>
           ZeroIsLast(box'[0]["communicator"], control'.sending)
      /\ \A n : Somewhere(Queues', n) <=> Somewhere(Queues, n) /\ n # m
  <2>1. PICK a \in Boxes \ {"communicator"} : a = "worker"
    BY DEF Boxes, Actors
  <2>2. /\ UNCHANGED <<net, control>> /\ box[r][a] # << >> /\ m = Head(box[r][a])
        /\ Owner(Head(box[r][a])) = r /\ OthersKept(r) /\ box' = [box EXCEPT ![r][a] = Tail(@)]
    BY <1>1, <1>2, <1>3, <1>4, <2>1
  <2> QED
    BY ONLY InvAt(c), r \in Ranks, <2>2, a \in Boxes \ {"communicator"}, PoppedMail
<1>8. TypeOK' /\ ~failed'
  BY <1>2, <1>7 DEF TypeOK, MainPcs, Early, BoxSet
<1>9. r \in Known' <=> r \in Known
  <2>1. Msg("Register", r, 0) # m
    BY <1>2, MsgIsMessage, RanksAre
  <2> QED
    BY <1>3, <1>4, <1>7, <2>1 DEF Known
<1> QED
  BY <1>2, <1>4, <1>5, <1>6, <1>7, <1>8, <1>9, MainStep

\* What is left of a channel is what was first in it.
LEMMA ClosedIs ==
  ASSUME NEW r \in Ranks, net \in WireSet, NEW out \in Closed(r)
  PROVE  /\ out \in [Ranks -> Seq(Message)]
         /\ \A s \in Ranks : \A i \in DOMAIN out[s] :
              i \in DOMAIN net[r][s] /\ out[s][i] = net[r][s][i]
         /\ ~DropsOnClose => out = net[r]
<1>1. CASE ~DropsOnClose
  <2>1. out = net[r]
    BY <1>1 DEF Closed
  <2> QED
    BY <2>1 DEF WireSet
<1>2. CASE DropsOnClose
  <2>1. /\ DOMAIN out = Ranks /\ out = [s \in Ranks |-> out[s]]
        /\ \A s \in Ranks : out[s] \in {SubSeq(net[r][s], 1, k) : k \in 0..Len(net[r][s])}
    BY <1>2 DEF Closed
  <2>2. ASSUME NEW s \in Ranks
        PROVE  /\ out[s] \in Seq(Message)
               /\ \A i \in DOMAIN out[s] : i \in DOMAIN net[r][s] /\ out[s][i] = net[r][s][i]
    <3>1. PICK q \in Seq(Message) : q = net[r][s]
      BY DEF WireSet
    <3>2. PICK k \in 0..Len(q) : out[s] = SubSeq(q, 1, k)
      BY <2>1, <3>1
    <3>3. Len(q) \in Nat /\ DOMAIN q = 1..Len(q)
      BY <3>1, LenProperties
    <3>4. /\ SubSeq(q, 1, k) \in Seq(Message) /\ Len(SubSeq(q, 1, k)) = k
          /\ \A i \in 1..k : SubSeq(q, 1, k)[i] = q[i]
      BY <3>2, <3>3, SubSeqProperties
    <3>5. DOMAIN SubSeq(q, 1, k) = 1..k
      BY <3>4, LenProperties
    <3> QED
      BY <3>1, <3>2, <3>3, <3>4, <3>5
  <2> QED
    BY <1>2, <2>1, <2>2
<1> QED
  BY <1>1, <1>2

LEMMA FinalizeKeeps ==
  ASSUME NEW c \in 0..(Rounds + 2), InvAt(c), NEW r \in Ranks, Finalize(r)
  PROVE  Keeps(c)
<1> USE RankIs
<1>1. PICK out \in Closed(r) : net' = [net EXCEPT ![r] = out]
  BY DEF Finalize
<1>2. /\ main[r] = "stop" /\ main' = [main EXCEPT ![r] = "stopped"] /\ running[r] = {}
      /\ actors' = [actors EXCEPT ![r] = {}]
      /\ UNCHANGED <<running, box, control, nodes, table, entered, left, failed>>
  BY DEF Finalize, At, GoTo
<1>3. /\ Queues \in QueueSet /\ OneEach(Queues) /\ net \in WireSet
      /\ Shows(Queues, box, net, control.sending, control.tasks)
  BY Typed DEF InvAt, MessagesOK
<1>4. /\ out \in [Ranks -> Seq(Message)]
      /\ \A s \in Ranks : \A i \in DOMAIN out[s] :
           i \in DOMAIN net[r][s] /\ out[s][i] = net[r][s][i]
      /\ ~DropsOnClose => out = net[r]
  BY ONLY <1>1, <1>3, r \in Ranks, ClosedIs
<1>5. /\ main'[r] = "stopped" /\ table'[r] = table[r] /\ actors'[r] = {}
      /\ running'[r] = {} /\ nodes'[r] = nodes[r]
      /\ entered'[r] = entered[r] /\ left'[r] = left[r] /\ OthersKept(r)
  BY <1>2 DEF TypeOK, OthersKept
<1>6. MainOK(r)' /\ ClockOK(r, c)'
  BY <1>2, <1>5 DEF MainOK, ClockOK, Early
<1>7. ActorsOK(r)'
  BY <1>5 DEF ActorsOK
<1>8. TypeOK' /\ ~failed'
  <2>1. net' \in [Ranks -> [Ranks -> Seq(Message)]]
    BY <1>1, <1>3, <1>4 DEF WireSet
  <2> QED
    BY <1>2, <2>1 DEF TypeOK, MainPcs
<1>9. Shows(Queues', box, net', control.sending, control.tasks)
  BY <1>2, QueuesShow DEF Queues
<1>10. ASSUME NEW q \in Names
       PROVE  /\ \A i \in DOMAIN Queues'[q] : i \in DOMAIN Queues[q] /\ Queues'[q][i] = Queues[q][i]
              /\ (\A s \in Ranks : q # Wire(r, s)) => Queues'[q] = Queues[q]
  <2>1. CASE \E s \in Ranks : q = Wire(r, s)
    <3>1. PICK s \in Ranks : q = Wire(r, s)
      BY <2>1
    <3>2. Queues'[q] = out[s] /\ Queues[q] = net[r][s]
      BY <1>1, <1>3, <1>9, <3>1 DEF Shows, WireSet
    <3> QED
      BY <1>4, <3>1, <3>2
  <2>2. CASE \A s \in Ranks : q # Wire(r, s)
    <3>1. \A x, y \in Ranks : x # r => net'[x][y] = net[x][y]
      BY <1>1, <1>3 DEF WireSet
    <3>2. Queues'[q] = Queues[q]
      BY <1>3, <1>9, <2>2, <3>1, NamesAre DEF Shows
    <3> QED
      BY <3>2
  <2> QED
    BY <2>1, <2>2
<1>11. OneEach(Queues')
  BY <1>3, <1>10 DEF OneEach
<1>12. ASSUME NEW q \in Names, NEW n, In(Queues', q, n)
       PROVE  /\ In(Queues, q, n)
              /\ main'[Owner(n)] = main[Owner(n)] /\ left'[Owner(n)] = left[Owner(n)]
  <2>1. In(Queues, q, n)
    BY <1>10, <1>12 DEF In
  <2>2. Owner(n) \in Ranks \ {r}
    BY <1>2, <2>1, InFits, NoneOfMine DEF Waiting
  <2> QED
    BY <1>5, <2>1, <2>2 DEF OthersKept
<1>13. MessagesOK(c)'
  BY <1>2, <1>11, <1>12, MessagesStay
<1>14. ASSUME NEW n, n.type = "Register" PROVE Somewhere(Queues', n) <=> Somewhere(Queues, n)
  <2>1. ASSUME NEW q \in Names, In(Queues, q, n) PROVE In(Queues', q, n)
    <3>1. Route(n, q) /\ Owner(n) # r
      BY <1>2, <2>1, InFits, NoneOfMine DEF Fits, Waiting
    <3>2. n.src # r
      BY <1>14, <3>1 DEF Owner
    <3>3. ASSUME NEW s \in Ranks, q = Wire(r, s) PROVE FALSE
      <4>1. Route(n, Wire(r, s))
        BY <3>1, <3>3
      <4> QED
        BY <3>2, <4>1, RouteIs
    <3> QED
      BY <1>10, <2>1, <3>3 DEF In
  <2> QED
    BY <1>12, <2>1 DEF Somewhere
<1>15. ~DropsOnClose => Queues' = Queues
  <2>1. ~DropsOnClose => net' = net
    BY <1>1, <1>3, <1>4 DEF WireSet
  <2> QED
    BY <1>2, <2>1 DEF Queues
<1>16. OthersMail(r)
  BY <1>14, <1>15 DEF OthersMail
<1>17. r \in Known' <=> r \in Known
  <2>1. Msg("Register", r, 0).type = "Register"
    BY DEF Msg
  <2> QED
    BY <1>2, <1>5, <1>14, <2>1 DEF Known
<1>18. nodes'[r] = control.ids /\ control.registered = N
  BY <1>2, <1>5
<1> QED
  BY <1>2, <1>5, <1>6, <1>7, <1>8, <1>13, <1>16, <1>17, <1>18, MainStep

-----------------------------------------------------------------------------
(* The controller counts the ranks.                                          *)

LEMMA RanksFinite ==
  /\ IsFiniteSet(Ranks) /\ Cardinality(Ranks) = N
  /\ \A S \in SUBSET Ranks : IsFiniteSet(S) /\ Cardinality(S) \in Nat /\ Cardinality(S) <= N
                             /\ (Cardinality(S) = N => S = Ranks)
<1>1. N - 1 \in Int /\ 0 \in Int /\ N \in Nat \ {0}
  BY RanksAre
<1>2. IsFiniteSet(Ranks) /\ Cardinality(Ranks) = N
  BY <1>1, FS_Interval DEF Ranks
<1> QED
  BY <1>2, FS_Subset, FS_CardinalityType

\* N different ranks are all of them.
LEMMA AllRanks ==
  ASSUME NEW f \in [1..N -> Ranks], \A i, j \in 1..N : f[i] = f[j] => i = j
  PROVE  \A r \in Ranks : \E i \in 1..N : f[i] = r
<1>1. f \in Injection(1..N, Ranks)
  BY DEF Injection, IsInjective
<1>2. Cardinality(1..N) = N
  BY RanksAre, FS_Interval
<1>3. f \in Surjection(1..N, Ranks)
  BY <1>1, <1>2, RanksFinite, FS_Injection
<1> QED
  BY <1>3 DEF Surjection

\* One more rank has its ids.
Gives(a, x, n, ids, new) ==
  new[x][a] = AssignId(x, a, n) /\ \A s \in Ranks \ {x} : new[s] = ids[s]
LEMMA NumberOne ==
  ASSUME NEW known \in SUBSET Ranks, NEW x \in Ranks \ known, NEW ids \in Ids, NEW new \in Ids,
         NEW a \in {"worker", "server"}, NEW n, Numbered(a, n, ids, known), Gives(a, x, n, ids, new),
         NEW k, k = n + (IF a \in Role[x] THEN 1 ELSE 0)
  PROVE  Numbered(a, k, new, known \cup {x})
<1>0. new[x][a] = AssignId(x, a, n) /\ \A s \in Ranks \ {x} : new[s] = ids[s]
  BY DEF Gives
<1>1. known \cap Has(a) \subseteq Ranks /\ x \notin known \cap Has(a)
  BY DEF Has
<1>2. IsFiniteSet(known \cap Has(a)) /\ n = Cardinality(known \cap Has(a)) /\ n \in Nat
  BY <1>1, RanksFinite DEF Numbered
<1>3. CASE a \in Role[x]
  <2>1. (known \cup {x}) \cap Has(a) = (known \cap Has(a)) \cup {x}
    BY <1>3 DEF Has
  <2>2. Cardinality((known \cup {x}) \cap Has(a)) = n + 1
    BY <1>1, <1>2, <2>1, FS_AddElement
  <2>3. {new[s][a] : s \in (known \cup {x}) \cap Has(a)} = {ids[s][a] : s \in known \cap Has(a)} \cup {n}
    <3>1. \A s \in known \cap Has(a) : new[s][a] = ids[s][a]
      BY <1>0, <1>1
    <3>2. new[x][a] = n
      BY <1>0, <1>3 DEF AssignId
    <3> QED
      BY <2>1, <3>1, <3>2
  <2>4. 0..(n - 1) \cup {n} = 0..((n + 1) - 1)
    BY <1>2
  <2>5. \A s \in Ranks \ Has(a) : new[s][a] = -1
    BY <1>0, <1>3 DEF Numbered, Has
  <2> QED
    BY <1>3, <2>2, <2>3, <2>4, <2>5 DEF Numbered
<1>4. CASE a \notin Role[x]
  <2>1. (known \cup {x}) \cap Has(a) = known \cap Has(a)
    BY <1>4 DEF Has
  <2>2. \A s \in known \cap Has(a) : new[s][a] = ids[s][a]
    BY <1>0, <1>1
  <2>3. {new[s][a] : s \in known \cap Has(a)} = {ids[s][a] : s \in known \cap Has(a)}
    BY <2>2
  <2>4. \A s \in Ranks \ Has(a) : new[s][a] = -1
    BY <1>0, <1>4 DEF Numbered, Has, AssignId
  <2>5. n + 0 = n
    BY <1>2
  <2> QED
    BY <1>4, <2>1, <2>3, <2>4, <2>5 DEF Numbered
<1> QED
  BY <1>3, <1>4

\* The replies are the only messages.
LEMMA ReleasedMail ==
  ASSUME NEW d, NEW s, s = Queues'[Sending], DOMAIN s = 1..N,
         \A i, j \in 1..N : Owner(s[i]) = Owner(s[j]) => i = j,
         \A i \in 1..N : Fits(s[i], Sending, d)',
         \A q \in Names \ {Sending} : \A n : ~In(Queues', q, n)
  PROVE  MessagesOK(d)'
<1>1. ASSUME NEW q \in Names, NEW i \in DOMAIN Queues'[q] PROVE q = Sending /\ i \in 1..N
  <2>1. q = Sending
    BY <1>1 DEF In
  <2> QED
    BY <1>1, <2>1
<1>2. OneEach(Queues')
  BY <1>1 DEF OneEach
<1>3. ASSUME NEW q \in Names, NEW i \in DOMAIN Queues'[q] PROVE Fits(Queues[q][i], q, d)'
  <2>1. q = Sending /\ i \in 1..N
    BY <1>1, <1>3
  <2>2. PICK m : m = s[i]
    OBVIOUS
  <2>3. Fits(m, Sending, d)'
    BY <2>1, <2>2
  <2> QED
    BY <2>1, <2>2, <2>3 DEF Fits
<1> QED
  BY <1>2, <1>3 DEF MessagesOK

\* What the controller does with a registration.
LEMMA ControlRegisterIs ==
  ASSUME TypeOK, ControlRegister, NEW h, h = Head(box[0]["controller"]), h.src \in Ranks
  PROVE  /\ h.type = "Register" /\ box[0]["controller"] # << >> /\ control.sending = << >>
         /\ box' = [box EXCEPT ![0]["controller"] = Tail(@)]
         /\ UNCHANGED <<main, actors, running, net, nodes, table, entered, left, failed>>
         /\ control'.ids \in Ids /\ control'.tasks = control.tasks
         /\ \A y \in Ranks \ {h.src} : control'.ids[y] = control.ids[y]
         /\ control'.ids[h.src].worker = AssignId(h.src, "worker", control.workers)
         /\ control'.ids[h.src].server = AssignId(h.src, "server", control.servers)
         /\ control'.registered = control.registered + 1
         /\ control'.workers = control.workers + (IF "worker" \in Role[h.src] THEN 1 ELSE 0)
         /\ control'.servers = control.servers + (IF "server" \in Role[h.src] THEN 1 ELSE 0)
         /\ control'.sending = IF control.registered + 1 = N
                               THEN [i \in 1..N |-> RegisterReply(N - i, control'.ids)] ELSE << >>
         /\ DOMAIN control' = DOMAIN control /\ control' = [f \in DOMAIN control |-> control'[f]]
<1>1. PICK x, new : /\ x = h.src
                    /\ new = [control.ids EXCEPT ![x] =
                                [worker |-> AssignId(x, "worker", control.workers),
                                 server |-> AssignId(x, "server", control.servers)]]
  OBVIOUS
<1>2. /\ h.type = "Register" /\ box[0]["controller"] # << >> /\ control.sending = << >>
      /\ box' = [box EXCEPT ![0]["controller"] = Tail(@)]
      /\ UNCHANGED <<main, actors, running, net, nodes, table, entered, left, failed>>
  BY DEF ControlRegister, Controls, Popped
<1>3. control' = [control EXCEPT
        !.ids = new, !.registered = control.registered + 1,
        !.workers = control.workers + (IF "worker" \in Role[x] THEN 1 ELSE 0),
        !.servers = control.servers + (IF "server" \in Role[x] THEN 1 ELSE 0),
        !.sending = IF control.registered + 1 = N
                    THEN [i \in 1..N |-> RegisterReply(N - i, new)] ELSE << >>]
  BY <1>1 DEF ControlRegister, TypeOK
<1>4. /\ control'.ids = new /\ control'.registered = control.registered + 1
      /\ control'.workers = control.workers + (IF "worker" \in Role[x] THEN 1 ELSE 0)
      /\ control'.servers = control.servers + (IF "server" \in Role[x] THEN 1 ELSE 0)
      /\ control'.sending = IF control.registered + 1 = N
                            THEN [i \in 1..N |-> RegisterReply(N - i, new)] ELSE << >>
      /\ control'.tasks = control.tasks
      /\ DOMAIN control' = DOMAIN control /\ control' = [f \in DOMAIN control |-> control'[f]]
  BY <1>3 DEF TypeOK
<1>5. /\ control.ids \in Ids /\ control.workers \in Nat /\ control.servers \in Nat /\ x \in Ranks
  BY <1>1 DEF TypeOK
<1>6. AssignId(x, "worker", control.workers) \in Int /\ AssignId(x, "server", control.servers) \in Int
  BY <1>5 DEF AssignId
<1>7. /\ new \in Ids /\ \A y \in Ranks \ {x} : new[y] = control.ids[y]
      /\ new[x].worker = AssignId(x, "worker", control.workers)
      /\ new[x].server = AssignId(x, "server", control.servers)
  BY <1>1, <1>5, <1>6 DEF Ids
<1> QED
  BY <1>1, <1>2, <1>4, <1>7

LEMMA ReplyIs ==
  ASSUME NEW y \in Ranks, NEW ids \in Ids
  PROVE  LET m == RegisterReply(y, ids) IN
         /\ m \in Message /\ m.type = "ReplyRegister" /\ m.src = 0 /\ m.dst = y /\ m.ids = ids
         /\ Owner(m) = y
BY DEF RegisterReply, Message, Owner

LEMMA ControlRegisterKeeps ==
  ASSUME NEW c \in 0..(Rounds + 2), InvAt(c), ControlRegister
  PROVE  Keeps(c)
<1>1. PICK h, x, s : h = Head(box[0]["controller"]) /\ x = h.src /\ s = control'.sending
  OBVIOUS
<1>2. /\ TypeOK /\ IdsOK /\ Queues \in QueueSet /\ OneEach(Queues) /\ box \in BoxSet
      /\ 0 \in Ranks /\ "controller" \in Boxes /\ Mail(0, "controller") \in Names
      /\ Queues[Mail(0, "controller")] = box[0]["controller"]
  BY Typed, NamesAre, RanksAre DEF InvAt, MessagesOK, Shows, Boxes, Actors
<1>3. box[0]["controller"] # << >> /\ h.type = "Register"
  BY <1>1 DEF ControlRegister, Controls
<1>4. h \in Message /\ In(Queues, Mail(0, "controller"), h)
  BY <1>1, <1>2, <1>3, HeadIsIn
<1>5. x \in Ranks /\ h.dst = 0 /\ main[x] = "registering" /\ Owner(h) = x
  BY <1>1, <1>2, <1>3, <1>4, InFits, MessageIs DEF Fits, Owner, WaitsFor
<1>6. h = Msg("Register", x, 0)
  BY <1>1, <1>3, <1>4, <1>5, MessageIs
<1>7. x \notin Known /\ Known \in SUBSET Ranks
  BY <1>2, <1>4, <1>6 DEF Known, Somewhere
<1>8. /\ control.registered = Cardinality(Known) /\ control.registered < N
      /\ control.registered \in Nat /\ N \in Nat
  BY <1>2, <1>5, <1>7, RanksFinite, RanksAre DEF IdsOK
<1>9. \A r \in Ranks : main[r] \in {"start", "register", "registering"}
  BY <1>2, <1>8 DEF IdsOK
<1>10. /\ control.sending = << >> /\ box' = [box EXCEPT ![0]["controller"] = Tail(@)]
       /\ UNCHANGED <<main, actors, running, net, nodes, table, entered, left, failed>>
       /\ control'.ids \in Ids /\ control'.tasks = control.tasks
       /\ \A y \in Ranks \ {x} : control'.ids[y] = control.ids[y]
       /\ control'.ids[x].worker = AssignId(x, "worker", control.workers)
       /\ control'.ids[x].server = AssignId(x, "server", control.servers)
       /\ control'.registered = control.registered + 1
       /\ control'.workers = control.workers + (IF "worker" \in Role[x] THEN 1 ELSE 0)
       /\ control'.servers = control.servers + (IF "server" \in Role[x] THEN 1 ELSE 0)
       /\ s = IF control.registered + 1 = N
              THEN [i \in 1..N |-> RegisterReply(N - i, control'.ids)] ELSE << >>
       /\ DOMAIN control' = DOMAIN control /\ control' = [f \in DOMAIN control |-> control'[f]]
  BY <1>1, <1>2, <1>5, ControlRegisterIs
<1>11. PICK b, P : b = box' /\ P = QueuesOf(b, net, << >>, control.tasks)
  OBVIOUS
<1>12. Pops(Queues, P, Mail(0, "controller")) /\ b \in BoxSet
  <2>1. b = [box EXCEPT ![0]["controller"] = Tail(@)]
    BY <1>10, <1>11
  <2>2. /\ Pops(QueuesOf(box, net, << >>, control.tasks),
                QueuesOf(b, net, << >>, control.tasks), Mail(0, "controller"))
        /\ b \in BoxSet
    BY ONLY <1>2, <1>3, <2>1, BoxPopped
  <2> QED
    BY <1>10, <1>11, <2>2 DEF Queues
<1>13. /\ OneEach(P)
       /\ \A y \in Names : \A n : In(P, y, n) <=> In(Queues, y, n) /\ n # h
       /\ \A y \in Names : \A n : In(P, y, n) => Owner(n) # x
  BY <1>1, <1>2, <1>5, <1>12, PopLemma
<1>14. Shows(P, b, net, << >>, control.tasks) /\ Shows(Queues', b, net, s, control.tasks)
  <2>1. Shows(P, b, net, << >>, control.tasks)
    BY ONLY <1>11, QueuesShow
  <2>2. Queues' = QueuesOf(b, net, s, control.tasks)
    BY <1>1, <1>10, <1>11 DEF Queues
  <2> QED
    BY ONLY <2>1, <2>2, QueuesShow
<1>15. P[Sending] = << >> /\ \A q \in Names \ {Sending} : Queues'[q] = P[q]
  BY <1>14, NamesAre DEF Shows
<1>16. ASSUME NEW i \in DOMAIN s
       PROVE  s[i].type = "ReplyRegister" /\ i \in 1..N /\ control.registered + 1 = N
  <2>1. CASE control.registered + 1 = N
    <3>1. i \in 1..N /\ N - i \in Ranks
      BY <1>8, <1>10, <1>16, <2>1 DEF Ranks
    <3> QED
      BY <1>10, <2>1, <3>1, ReplyIs
  <2>2. CASE control.registered + 1 # N
    BY <1>10, <1>16, <2>2
  <2> QED
    BY <2>1, <2>2
<1>17. ASSUME NEW n, n.type = "Register" PROVE Somewhere(Queues', n) <=> Somewhere(Queues, n) /\ n # h
  <2>1. Queues'[Sending] = s
    BY <1>14 DEF Shows
  <2>2. ~In(Queues', Sending, n) /\ ~In(P, Sending, n)
    BY <1>15, <1>16, <1>17, <2>1 DEF In
  <2>3. \A q \in Names : In(Queues', q, n) <=> In(P, q, n)
    BY <1>15, <2>2 DEF In
  <2> QED
    BY <1>13, <2>3 DEF Somewhere
<1>18. Known' = Known \cup {x}
  <2>1. \A y \in Ranks : Msg("Register", y, 0).type = "Register" /\ (Msg("Register", y, 0) = h <=> y = x)
    BY <1>6 DEF Msg
  <2>2. \A y \in Ranks : Somewhere(Queues', Msg("Register", y, 0))
                           <=> Somewhere(Queues, Msg("Register", y, 0)) /\ y # x
    BY <1>17, <2>1
  <2> QED
    BY <1>5, <1>10, <2>2 DEF Known
<1>19. IdsOK'
  <2>1. control'.registered = Cardinality(Known')
    BY <1>7, <1>8, <1>10, <1>18, RanksFinite, FS_AddElement
  <2>2. control.ids \in Ids /\ control.workers \in Nat /\ control.servers \in Nat
    BY <1>2 DEF TypeOK
  <2>3. Numbered("worker", control'.workers, control'.ids, Known')
    <3>1. Numbered("worker", control.workers, control.ids, Known)
      BY <1>2 DEF IdsOK
    <3>2. PICK known, ids, new, n, a : /\ known = Known /\ ids = control.ids /\ new = control'.ids
                                       /\ n = control.workers /\ a = "worker"
      OBVIOUS
    <3>3. /\ known \in SUBSET Ranks /\ x \in Ranks \ known /\ ids \in Ids /\ new \in Ids
          /\ a \in {"worker", "server"} /\ Numbered(a, n, ids, known)
          /\ Gives(a, x, n, ids, new)
      BY <1>5, <1>7, <1>10, <2>2, <3>1, <3>2 DEF Gives
    <3>4. PICK k : k = n + (IF a \in Role[x] THEN 1 ELSE 0)
      OBVIOUS
    <3>5. Numbered(a, k, new, known \cup {x})
      BY ONLY <3>3, <3>4, NumberOne
    <3> QED
      BY <1>10, <1>18, <3>2, <3>4, <3>5
  <2>4. Numbered("server", control'.servers, control'.ids, Known')
    <3>1. Numbered("server", control.servers, control.ids, Known)
      BY <1>2 DEF IdsOK
    <3>2. PICK known, ids, new, n, a : /\ known = Known /\ ids = control.ids /\ new = control'.ids
                                       /\ n = control.servers /\ a = "server"
      OBVIOUS
    <3>3. /\ known \in SUBSET Ranks /\ x \in Ranks \ known /\ ids \in Ids /\ new \in Ids
          /\ a \in {"worker", "server"} /\ Numbered(a, n, ids, known)
          /\ Gives(a, x, n, ids, new)
      BY <1>5, <1>7, <1>10, <2>2, <3>1, <3>2 DEF Gives
    <3>4. PICK k : k = n + (IF a \in Role[x] THEN 1 ELSE 0)
      OBVIOUS
    <3>5. Numbered(a, k, new, known \cup {x})
      BY ONLY <3>3, <3>4, NumberOne
    <3> QED
      BY <1>10, <1>18, <3>2, <3>4, <3>5
  <2> QED
    BY <1>9, <1>10, <2>1, <2>3, <2>4 DEF IdsOK
<1>20. TypeOK' /\ ~failed'
  <2>1. s \in Seq(Message)
    <3>1. CASE control.registered + 1 = N
      <4>1. \A i \in 1..N : RegisterReply(N - i, control'.ids) \in Message
        <5>1. \A i \in 1..N : N - i \in Ranks
          BY <1>8 DEF Ranks
        <5> QED
          BY <1>10, <5>1, ReplyIs
      <4> QED
        BY <1>8, <1>10, <3>1, <4>1
    <3>2. CASE control.registered + 1 # N
      BY <1>10, <3>2
    <3> QED
      BY <3>1, <3>2
  <2>2. control' \in [tasks : Seq(Message), ids : Ids, registered : Nat,
                      workers : Nat, servers : Nat, sending : Seq(Message)]
    <3>1. control.workers \in Nat /\ control.servers \in Nat /\ control.tasks \in Seq(Message)
      BY <1>2 DEF TypeOK
    <3>2. control'.workers \in Nat /\ control'.servers \in Nat /\ control'.registered \in Nat
      BY <1>8, <1>10, <3>1
    <3>3. DOMAIN control = {"tasks", "ids", "registered", "workers", "servers", "sending"}
      BY <1>2 DEF TypeOK
    <3> QED
      BY <1>1, <1>10, <2>1, <3>1, <3>2, <3>3
  <2> QED
    BY <1>2, <1>10, <1>11, <1>12, <2>2 DEF TypeOK, BoxSet, InvAt
<1>21. MessagesOK(c)'
  <2>1. CASE control.registered + 1 # N
    <3>1. s = << >>
      BY <1>10, <2>1
    <3>2. Queues' = P
      BY <1>1, <1>10, <1>11, <3>1 DEF Queues
    <3>3. ASSUME NEW q \in Names, NEW n, In(Queues', q, n)
          PROVE  /\ In(Queues, q, n)
                 /\ main'[Owner(n)] = main[Owner(n)] /\ left'[Owner(n)] = left[Owner(n)]
      BY <1>10, <1>13, <3>2, <3>3
    <3> QED
      BY <1>8, <1>13, <3>2, <3>3, MessagesStay
  <2>2. CASE control.registered + 1 = N
    <3>1. Known' = Ranks
      <4>1. Known' \in SUBSET Ranks /\ Cardinality(Known') = N
        BY <1>5, <1>7, <1>10, <1>18, <1>19, <2>2 DEF IdsOK
      <4> QED
        BY <4>1, RanksFinite
    <3>2. \A r \in Ranks : main[r] = "registering" /\ ~Somewhere(Queues', Msg("Register", r, 0))
      BY <1>9, <1>10, <3>1 DEF Known
    <3>3. \A i \in 1..N : /\ N - i \in Ranks /\ s[i] = RegisterReply(N - i, control'.ids)
                          /\ s[i].type = "ReplyRegister" /\ s[i].src = 0 /\ s[i].dst = N - i
                          /\ s[i].ids = control'.ids /\ Owner(s[i]) = N - i
      <4>1. \A i \in 1..N : N - i \in Ranks
        BY <1>8 DEF Ranks
      <4> QED
        BY <1>10, <2>2, <4>1, ReplyIs
    <3>4. DOMAIN s = 1..N /\ s = Queues'[Sending]
      BY <1>10, <1>14, <2>2 DEF Shows
    <3>5. \A i, j \in 1..N : Owner(s[i]) = Owner(s[j]) => i = j
      BY <1>8, <3>3
    <3>6. ASSUME NEW i \in 1..N PROVE Fits(s[i], Sending, c)'
      <4>1. PICK m : m = s[i]
        OBVIOUS
      <4>2. Route(m, Sending) /\ main'[Owner(m)] = WaitsFor(m.type)
        BY <1>10, <3>2, <3>3, <4>1 DEF Route, ToMain, WaitsFor
      <4>3. Fits(m, Sending, c)'
        BY <1>8, <1>10, <2>2, <3>3, <4>1, <4>2 DEF Fits
      <4> QED
        BY <4>1, <4>3 DEF Fits
    <3>7. ASSUME NEW q \in Names \ {Sending}, NEW n, In(Queues', q, n) PROVE FALSE
      <4>1. In(Queues, q, n)
        BY <1>13, <1>15, <3>7 DEF In
      <4>2. n \in Message /\ Fits(n, q, c) /\ Owner(n) \in Ranks
        BY <4>1, InFits
      <4>3. main[Owner(n)] = "registering" /\ n.type # "ReplyRegister"
        BY <1>8, <3>2, <4>2 DEF Fits
      <4>4. n.type = "Register"
        BY <4>2, <4>3, MessageIs DEF Fits, WaitsFor
      <4>5. n = Msg("Register", Owner(n), 0)
        BY <4>2, <4>4, MessageIs DEF Fits, Owner
      <4>6. Somewhere(Queues', n)
        BY <3>7 DEF Somewhere
      <4> QED
        BY <3>2, <4>2, <4>5, <4>6
    <3> QED
      BY <3>4, <3>5, <3>6, <3>7, ReleasedMail
  <2> QED
    BY <2>1, <2>2
<1>22. InvAt(c)'
  BY <1>10, <1>19, <1>20, <1>21, LocalKept DEF InvAt
<1>23. AnswerExists(c)'
  BY <1>9, <1>10 DEF AnswerExists
<1>24. ASSUME ZeroIsLast(box[0]["communicator"], control.sending)
       PROVE  ZeroIsLast(box'[0]["communicator"], control'.sending)
  <2>1. box'[0]["communicator"] = box[0]["communicator"]
    BY <1>2, <1>10 DEF BoxSet, Boxes, Actors
  <2>2. CASE control.registered + 1 # N
    <3>1. control'.sending = control.sending
      BY <1>1, <1>10, <2>2
    <3> QED
      BY <1>24, <2>1, <3>1
  <2>3. CASE control.registered + 1 = N
    <3>1. s \in Seq(Message) /\ DOMAIN s = 1..N
      BY <1>1, <1>10, <1>20, <2>3 DEF TypeOK
    <3>2. Len(s) = N /\ s # << >>
      BY <1>8, <3>1, LenProperties
    <3>3. s[N] = RegisterReply(0, control'.ids)
      BY <1>8, <1>10, <2>3
    <3>4. ToZero(s[Len(s)])
      <4>1. s[N].type = "ReplyRegister" /\ s[N].dst = 0
        BY <3>3 DEF RegisterReply
      <4> QED
        BY <3>2, <4>1 DEF ToZero, ToMain
    <3> QED
      BY <1>1, <3>2, <3>4 DEF ZeroIsLast
  <2> QED
    BY <2>2, <2>3
<1> QED
  BY <1>22, <1>23, <1>24 DEF Keeps, AnswersAt

\* The answers to a full barrier: one for every rank, that of rank 0 last.
OnePerRank(tasks) == \A i, j \in 1..N : tasks[i].src = tasks[j].src => i = j
AnswersEach(s, tasks) ==
  /\ s \in Seq(Message) /\ DOMAIN s = 1..N /\ Len(s) = N
  /\ \A i \in 1..N : s[i].type = "ReplyBarrier" /\ s[i].src = 0 /\ s[i].dst \in Ranks
                     /\ s[i] = Msg("ReplyBarrier", 0, s[i].dst)
  /\ \A i, j \in 1..N : s[i].dst = s[j].dst => i = j
  /\ s[N].dst = 0
  /\ \A r \in Ranks : \E i \in 1..N : tasks[i].src = r
  /\ \A r \in Ranks : \E i \in 1..N : s[i].dst = r
LEMMA AnswersAll ==
  ASSUME NEW tasks \in Seq(Message), Len(tasks) = N, OnePerRank(tasks)
  PROVE  AnswersEach(BarrierReplies(tasks), tasks)
<1>0. \A i, j \in 1..N : tasks[i].src = tasks[j].src => i = j
  BY DEF OnePerRank
<1>1. N \in Nat \ {0} /\ 0 \in Ranks /\ \A i \in 1..N : tasks[i] \in Message /\ tasks[i].src \in Ranks
  BY RanksAre, ElementOfSeq, MessageIs
<1>2. \A r \in Ranks : \E i \in 1..N : tasks[i].src = r
  <2>1. PICK f : f = [i \in 1..N |-> tasks[i].src]
    OBVIOUS
  <2>2. f \in [1..N -> Ranks] /\ \A i, j \in 1..N : f[i] = f[j] => i = j
    BY <1>0, <1>1, <2>1
  <2>3. \A r \in Ranks : \E i \in 1..N : f[i] = r
    BY ONLY <2>2, AllRanks
  <2> QED
    BY <2>1, <2>3
<1>3. PICK k \in 1..N : tasks[k].src = 0
  BY <1>1, <1>2
<1>4. DOMAIN tasks = 1..N /\ {y \in DOMAIN tasks : tasks[y].src = 0} = {k}
  <2>1. DOMAIN tasks = 1..N
    BY LenProperties
  <2> QED
    BY <1>0, <1>3, <2>1
<1>5. (CHOOSE y \in {k} : TRUE) = k
  OBVIOUS
<1>6. \A i \in 1..N : AnswerOrder(tasks)[i] = IF i < k THEN tasks[i]
                                             ELSE IF i < N THEN tasks[i + 1] ELSE tasks[k]
  BY <1>1, <1>3, <1>4, <1>5 DEF AnswerOrder
<1>7. \A i \in 1..N : AnswerOrder(tasks)[i].src \in Ranks
  BY <1>1, <1>3, <1>6
<1>8. \A i, j \in 1..N : AnswerOrder(tasks)[i].src = AnswerOrder(tasks)[j].src => i = j
  <2> SUFFICES ASSUME NEW i \in 1..N, NEW j \in 1..N,
                      AnswerOrder(tasks)[i].src = AnswerOrder(tasks)[j].src
               PROVE  i = j
    OBVIOUS
  <2>1. PICK x \in 1..N : AnswerOrder(tasks)[i] = tasks[x] /\ x = IF i < k THEN i ELSE IF i < N THEN i + 1 ELSE k
    BY <1>1, <1>3, <1>6
  <2>2. PICK y \in 1..N : AnswerOrder(tasks)[j] = tasks[y] /\ y = IF j < k THEN j ELSE IF j < N THEN j + 1 ELSE k
    BY <1>1, <1>3, <1>6
  <2>3. x = y
    BY <1>0, <2>1, <2>2
  <2> QED
    BY <1>1, <1>3, <2>1, <2>2, <2>3
<1>9. AnswerOrder(tasks)[N].src = 0
  BY <1>1, <1>3, <1>6
<1>10. PICK s : s = BarrierReplies(tasks)
  OBVIOUS
<1>11. s = [i \in 1..N |-> Msg("ReplyBarrier", 0, AnswerOrder(tasks)[i].src)]
  BY <1>10 DEF BarrierReplies
<1>12. ASSUME NEW i \in 1..N
       PROVE  /\ s[i] \in Message /\ s[i].type = "ReplyBarrier" /\ s[i].src = 0
              /\ s[i].dst = AnswerOrder(tasks)[i].src /\ s[i] = Msg("ReplyBarrier", 0, s[i].dst)
  <2>1. PICK y \in Ranks : y = AnswerOrder(tasks)[i].src
    BY <1>7
  <2>2. s[i] = Msg("ReplyBarrier", 0, y)
    BY <1>11, <2>1
  <2> QED
    BY <1>1, <2>1, <2>2, MsgIsMessage
<1>13. s \in Seq(Message) /\ DOMAIN s = 1..N /\ Len(s) = N
  <2>1. s \in [1..N -> Message]
    BY <1>11, <1>12
  <2> QED
    BY <1>1, <2>1, LenProperties
<1>14. \A r \in Ranks : \E i \in 1..N : s[i].dst = r
  <2>1. PICK f : f = [i \in 1..N |-> s[i].dst]
    OBVIOUS
  <2>2. f \in [1..N -> Ranks] /\ \A i, j \in 1..N : f[i] = f[j] => i = j
    BY <1>7, <1>8, <1>12, <2>1
  <2>3. \A r \in Ranks : \E i \in 1..N : f[i] = r
    BY ONLY <2>2, AllRanks
  <2> QED
    BY <2>1, <2>3
<1>15. \A i \in 1..N : s[i].type = "ReplyBarrier" /\ s[i].src = 0 /\ s[i].dst \in Ranks
                       /\ s[i] = Msg("ReplyBarrier", 0, s[i].dst)
  BY <1>7, <1>12
<1>16. (\A i, j \in 1..N : s[i].dst = s[j].dst => i = j) /\ s[N].dst = 0
  BY <1>1, <1>8, <1>9, <1>12
<1>17. AnswersEach(s, tasks)
  BY ONLY <1>2, <1>13, <1>14, <1>15, <1>16 DEF AnswersEach
<1> QED
  BY ONLY <1>10, <1>17

\* The barrier is full: all ranks are in it, and all are answered.
LEMMA BarrierFullKeeps ==
  ASSUME NEW c \in 0..(Rounds + 2), InvAt(c), ControlBarrier,
         BarrierIsFull(Len(Append(control.tasks, Head(box[0]["controller"]))))
  PROVE  /\ c + 1 \in 0..(Rounds + 2) /\ InvAt(c + 1)' /\ AnswersAt(c + 1)'
<1>1. PICK h, t : h = Head(box[0]["controller"]) /\ t = Append(control.tasks, h)
  OBVIOUS
<1>2. PICK s : s = BarrierReplies(t)
  OBVIOUS
<1>3. /\ TypeOK /\ IdsOK /\ Queues \in QueueSet /\ OneEach(Queues) /\ box \in BoxSet
      /\ 0 \in Ranks /\ "controller" \in Boxes /\ Mail(0, "controller") \in Names
      /\ Queues[Mail(0, "controller")] = box[0]["controller"]
      /\ Tasks \in Names /\ Queues[Tasks] = control.tasks /\ control.tasks \in Seq(Message)
      /\ N \in Nat \ {0} /\ Rounds \in Nat \ {0} /\ c \in Nat
  BY Typed, NamesAre, RanksAre DEF InvAt, MessagesOK, Shows, Boxes, Actors, MsgSeq
<1>4. /\ box[0]["controller"] # << >> /\ h.type = "Barrier" /\ control.sending = << >>
      /\ box' = [box EXCEPT ![0]["controller"] = Tail(@)]
      /\ control' = [control EXCEPT !.tasks = << >>, !.sending = s] /\ Len(t) = N
      /\ UNCHANGED <<main, actors, running, net, nodes, table, entered, left, failed>>
  BY <1>1, <1>2 DEF ControlBarrier, Controls, Popped, BarrierIsFull
<1>5. /\ control'.sending = s /\ control'.tasks = << >>
      /\ UNCHANGED <<control.ids, control.registered, control.workers, control.servers>>
  BY <1>3, <1>4 DEF TypeOK
<1>6. h \in Message /\ In(Queues, Mail(0, "controller"), h)
  BY <1>1, <1>3, <1>4, HeadIsIn
<1>7. /\ t \in Seq(Message) /\ Len(control.tasks) \in Nat /\ Len(control.tasks) + 1 = N
      /\ \A i \in 1..Len(control.tasks) : t[i] = control.tasks[i] /\ i \in DOMAIN control.tasks
      /\ t[N] = h
  BY <1>1, <1>3, <1>4, <1>6, AppendProperties, LenProperties
<1>8. ASSUME NEW i \in 1..N
      PROVE  /\ (i # N /\ In(Queues, Tasks, t[i]) /\ i \in DOMAIN Queues[Tasks] /\ t[i] = Queues[Tasks][i])
                \/ (i = N /\ t[i] = h)
  <2>1. CASE i = N
    BY <1>7, <2>1
  <2>2. CASE i # N
    <3>1. i \in 1..Len(control.tasks)
      BY <1>3, <1>7, <2>2
    <3> QED
      BY <1>3, <1>7, <2>2, <3>1 DEF In
  <2> QED
    BY <2>1, <2>2
<1>9. ASSUME NEW i \in 1..N
      PROVE  /\ t[i].type = "Barrier" /\ t[i].src \in Ranks /\ Owner(t[i]) = t[i].src
             /\ main[t[i].src] = "inBarrier" /\ left[t[i].src] = c
             /\ \E q \in {Tasks, Mail(0, "controller")} : In(Queues, q, t[i])
  <2>0. PICK m : m = t[i]
    OBVIOUS
  <2>1. PICK q \in {Tasks, Mail(0, "controller")} :
          m = t[i] /\ In(Queues, q, m) /\ (q # Tasks => m = h)
    BY <1>6, <1>8, <2>0
  <2>2. m \in Message /\ Fits(m, q, c)
    BY <1>3, <2>1, InFits
  <2>3. m.type = "Barrier"
    <3>1. CASE q = Tasks
      BY <2>2, <3>1, RouteIs, RanksAre DEF Fits
    <3>2. CASE q # Tasks
      BY <1>4, <2>1, <3>2
    <3> QED
      BY <3>1, <3>2
  <2> QED
    BY <2>1, <2>2, <2>3, MessageIs DEF Fits, Owner, WaitsFor
<1>10. \A i, j \in 1..N : t[i].src = t[j].src => i = j
  <2> SUFFICES ASSUME NEW i \in 1..N, NEW j \in 1..N, t[i].src = t[j].src PROVE i = j
    OBVIOUS
  <2>1. Owner(t[i]) = Owner(t[j])
    BY <1>9
  <2>2. Tasks # Mail(0, "controller")
    BY NamesDiffer
  <2>3. CASE i # N /\ j # N
    BY <1>3, <1>8, <2>1, <2>3 DEF OneEach
  <2>4. CASE i = N /\ j # N
    BY <1>3, <1>6, <1>8, <2>1, <2>2, <2>4, InIsOwned
  <2>5. CASE i # N /\ j = N
    BY <1>3, <1>6, <1>8, <2>1, <2>2, <2>5, InIsOwned
  <2> QED
    BY <2>3, <2>4, <2>5
<1>11. /\ s \in Seq(Message) /\ DOMAIN s = 1..N /\ Len(s) = N
       /\ \A i \in 1..N : s[i].type = "ReplyBarrier" /\ s[i].src = 0 /\ s[i].dst \in Ranks
                          /\ s[i] = Msg("ReplyBarrier", 0, s[i].dst)
       /\ \A i, j \in 1..N : s[i].dst = s[j].dst => i = j
       /\ s[N].dst = 0
       /\ \A r \in Ranks : \E i \in 1..N : t[i].src = r
       /\ \A r \in Ranks : \E i \in 1..N : s[i].dst = r
  <2>1. t \in Seq(Message) /\ Len(t) = N /\ OnePerRank(t)
    BY <1>4, <1>7, <1>10 DEF OnePerRank
  <2>2. AnswersEach(s, t)
    BY ONLY <1>2, <2>1, AnswersAll
  <2> QED
    BY <2>2 DEF AnswersEach
<1>12. \A r \in Ranks : main[r] = "inBarrier" /\ left[r] = c
  BY <1>9, <1>11
<1>13. c + 1 \in 0..(Rounds + 2)
  <2>1. MainOK(0)
    BY <1>3 DEF InvAt
  <2> QED
    BY <1>3, <1>12, <2>1 DEF MainOK
<1>14. PICK b, P : b = box' /\ P = QueuesOf(b, net, << >>, control.tasks)
  OBVIOUS
<1>15. Pops(Queues, P, Mail(0, "controller")) /\ b \in BoxSet
  <2>1. b = [box EXCEPT ![0]["controller"] = Tail(@)]
    BY <1>4, <1>14
  <2>2. /\ Pops(QueuesOf(box, net, << >>, control.tasks),
                QueuesOf(b, net, << >>, control.tasks), Mail(0, "controller"))
        /\ b \in BoxSet
    BY ONLY <1>3, <1>4, <2>1, BoxPopped
  <2> QED
    BY <1>4, <1>14, <2>2 DEF Queues
<1>16. \A y \in Names : \A n : In(P, y, n) => In(Queues, y, n) /\ n # h
  BY <1>1, <1>3, <1>15, PopLemma
<1>17. Shows(P, b, net, << >>, control.tasks) /\ Shows(Queues', b, net, s, << >>)
  <2>1. Shows(P, b, net, << >>, control.tasks)
    BY ONLY <1>14, QueuesShow
  <2>2. Queues' = QueuesOf(b, net, s, << >>)
    BY <1>4, <1>5, <1>14 DEF Queues
  <2> QED
    BY ONLY <2>1, <2>2, QueuesShow
<1>18. /\ Queues'[Sending] = s /\ Queues'[Tasks] = << >>
       /\ \A q \in Names \ {Sending, Tasks} : Queues'[q] = P[q]
  BY <1>17, NamesAre DEF Shows
\* Whatever else there was belonged to a rank whose message is among the tasks.
<1>19. ASSUME NEW q \in Names \ {Sending}, NEW n, In(Queues', q, n) PROVE FALSE
  <2>1. q # Tasks
    BY <1>18, <1>19 DEF In
  <2>2. In(Queues, q, n) /\ n # h
    BY <1>16, <1>18, <1>19, <2>1 DEF In
  <2>3. Owner(n) \in Ranks
    BY <2>2, InFits
  <2>4. PICK i \in 1..N : t[i].src = Owner(n)
    BY <1>11, <2>3
  <2>5. Owner(t[i]) = Owner(n)
    BY <1>9, <2>4
  <2>6. PICK p \in {Tasks, Mail(0, "controller")} : In(Queues, p, t[i]) /\ p \in Names
    BY <1>3, <1>9
  <2>7. p = q /\ t[i] = n
    BY <1>3, <2>2, <2>5, <2>6, InIsOwned
  <2>8. q = Mail(0, "controller") /\ i # N
    BY <1>7, <2>1, <2>2, <2>6, <2>7
  <2>9. In(Queues, Tasks, n)
    BY <1>8, <2>7, <2>8
  <2> QED
    BY <1>3, <2>1, <2>2, <2>9, InIsOwned
<1>20. ASSUME NEW i \in 1..N PROVE Fits(s[i], Sending, c + 1)'
  <2>1. PICK m : m = s[i]
    OBVIOUS
  <2>2. m.type = "ReplyBarrier" /\ m.src = 0 /\ m.dst \in Ranks /\ Owner(m) = m.dst
    BY <1>11, <2>1 DEF Owner
  <2>3. Route(m, Sending) /\ main'[Owner(m)] = WaitsFor(m.type) /\ left'[m.dst] = c
    BY <1>4, <1>12, <2>2 DEF Route, ToMain, WaitsFor
  <2>4. Fits(m, Sending, c + 1)'
    BY <2>2, <2>3 DEF Fits
  <2> QED
    BY <2>1, <2>4 DEF Fits
<1>21. MessagesOK(c + 1)'
  <2>1. \A i, j \in 1..N : Owner(s[i]) = Owner(s[j]) => i = j
    BY <1>11 DEF Owner
  <2> QED
    BY <1>11, <1>18, <1>19, <1>20, <2>1, ReleasedMail
<1>22. TypeOK' /\ ~failed'
  <2>1. control' \in [tasks : Seq(Message), ids : Ids, registered : Nat,
                      workers : Nat, servers : Nat, sending : Seq(Message)]
    BY <1>3, <1>4, <1>11 DEF TypeOK
  <2> QED
    BY <1>3, <1>4, <1>14, <1>15, <2>1 DEF TypeOK, BoxSet, InvAt
<1>23. \A r \in Ranks : MainOK(r)' /\ ActorsOK(r)' /\ ClockOK(r, c + 1)'
  <2>1. \A r \in Ranks : MainOK(r)' /\ ActorsOK(r)'
    BY <1>4, LocalKept
  <2>2. ASSUME NEW r \in Ranks PROVE ClockOK(r, c + 1)'
    <3>1. ClockOK(r, c)
      BY DEF InvAt
    <3> QED
      BY <1>3, <1>4, <1>12, <3>1 DEF ClockOK
  <2> QED
    BY <2>1, <2>2
<1>24. IdsOK'
  <2>1. \A r \in Ranks : ~Somewhere(Queues, Msg("Register", r, 0))
    <3> SUFFICES ASSUME NEW r \in Ranks, NEW q \in Names, In(Queues, q, Msg("Register", r, 0)) PROVE FALSE
      BY DEF Somewhere
    <3>1. PICK m : m = Msg("Register", r, 0) /\ m.type = "Register" /\ Owner(m) = r
      BY DEF Msg, Owner
    <3>2. Fits(m, q, c)
      BY <3>1, InFits
    <3> QED
      BY <1>12, <3>1, <3>2 DEF Fits, WaitsFor
  <2>2. \A r \in Ranks : ~Somewhere(Queues', Msg("Register", r, 0))
    <3> SUFFICES ASSUME NEW r \in Ranks, NEW q \in Names, In(Queues', q, Msg("Register", r, 0)) PROVE FALSE
      BY DEF Somewhere
    <3>1. Msg("Register", r, 0).type = "Register"
      BY DEF Msg
    <3>2. q = Sending
      BY <1>19
    <3>3. PICK i \in DOMAIN s : s[i] = Msg("Register", r, 0)
      BY <1>18, <3>2 DEF In
    <3>4. s[i].type = "ReplyBarrier"
      BY <1>11, <3>3
    <3> QED
      BY <3>1, <3>3, <3>4
  <2>3. Known' = Known
    BY <1>4, <2>1, <2>2 DEF Known
  <2>4. \A r \in Ranks : main'[r] \notin {"start", "register", "registering"} =>
          nodes'[r] = control.ids /\ control.registered = N
    BY <1>3, <1>4 DEF IdsOK
  <2> QED
    BY <1>3, <1>5, <2>3, <2>4, IdsStay
<1>25. AnswerExists(c + 1)'
  <2>1. ASSUME NEW r \in Ranks PROVE Somewhere(Queues', Msg("ReplyBarrier", 0, r))
    <3>1. PICK i \in 1..N : s[i].dst = r
      BY <1>11
    <3>2. s[i] = Msg("ReplyBarrier", 0, r) /\ i \in DOMAIN s
      BY <1>11, <3>1
    <3>3. In(Queues', Sending, Msg("ReplyBarrier", 0, r))
      BY <1>18, <3>2 DEF In
    <3> QED
      BY <3>3, NamesAre DEF Somewhere
  <2> QED
    BY <2>1 DEF AnswerExists
<1>26. ZeroIsLast(box'[0]["communicator"], control'.sending)
  <2>1. s # << >>
    BY <1>3, <1>11
  <2>2. ToZero(s[Len(s)])
    BY <1>3, <1>11 DEF ToZero, ToMain
  <2> QED
    BY <1>5, <2>1, <2>2 DEF ZeroIsLast
<1> QED
  BY <1>13, <1>21, <1>22, <1>23, <1>24, <1>25, <1>26 DEF InvAt, AnswersAt

-----------------------------------------------------------------------------
(* The invariant holds.                                                      *)

LEMMA InitHolds ==
  ASSUME Init
  PROVE  InvAt(0) /\ AnswersAt(0)
<1>1. /\ main = [r \in Ranks |-> "start"] /\ actors = [r \in Ranks |-> {}]
      /\ running = [r \in Ranks |-> {}] /\ box = [r \in Ranks |-> [a \in Boxes |-> << >>]]
      /\ net = [r \in Ranks |-> [s \in Ranks |-> << >>]]
      /\ control = [tasks |-> << >>, ids |-> Unregistered, registered |-> 0,
                    workers |-> 0, servers |-> 0, sending |-> << >>]
      /\ nodes = [r \in Ranks |-> Unregistered] /\ table = [r \in Ranks |-> FALSE]
      /\ entered = [r \in Ranks |-> 0] /\ left = [r \in Ranks |-> 0] /\ failed = FALSE
  BY DEF Init
<1>2. << >> \in Seq(Message) /\ Unregistered \in Ids
  BY DEF Unregistered, NoId, Ids
<1>3. TypeOK
  BY <1>1, <1>2 DEF TypeOK, MainPcs, Early
<1>4. \A q \in Names : Queues[q] = << >>
  <2>1. Shows(Queues, box, net, control.sending, control.tasks)
    BY <1>3, Typed
  <2>2. /\ \A r \in Ranks, a \in Boxes : box[r][a] = << >>
        /\ \A r, s \in Ranks : net[r][s] = << >>
        /\ control.sending = << >> /\ control.tasks = << >>
    BY <1>1
  <2> QED
    BY <2>1, <2>2, NamesAre DEF Shows
<1>5. MessagesOK(0)
  BY <1>4 DEF MessagesOK, OneEach
<1>6. \A r \in Ranks : MainOK(r) /\ ActorsOK(r) /\ ClockOK(r, 0)
  BY <1>1 DEF MainOK, ActorsOK, ClockOK, Early
<1>7. Known = {}
  BY <1>1 DEF Known
<1>8. ASSUME NEW a \in {"worker", "server"} PROVE Numbered(a, 0, control.ids, Known)
  <2>1. Cardinality({} \cap Has(a)) = 0
    <3>1. {} \cap Has(a) = {}
      OBVIOUS
    <3> QED
      BY <3>1, FS_EmptySet
  <2>2. {control.ids[s][a] : s \in {} \cap Has(a)} = 0..(0 - 1)
    OBVIOUS
  <2>3. \A s \in Ranks : control.ids[s][a] = -1
    BY <1>1 DEF Unregistered, NoId
  <2> QED
    BY <1>7, <2>1, <2>2, <2>3 DEF Numbered
<1>9. IdsOK
  BY <1>1, <1>7, <1>8, FS_EmptySet DEF IdsOK
<1>10. AnswersAt(0)
  BY <1>1, RanksAre DEF AnswersAt, AnswerExists, ZeroIsLast, Boxes, Actors
<1> QED
  BY <1>1, <1>3, <1>5, <1>6, <1>9, <1>10 DEF InvAt

LEMMA StutterKeeps ==
  ASSUME NEW c, InvAt(c), UNCHANGED vars
  PROVE  Keeps(c)
<1>1. UNCHANGED <<main, actors, running, box, net, control, nodes, table, entered, left, failed>>
  BY DEF vars
<1>2. Queues' = Queues
  BY <1>1 DEF Queues
<1>3. MessagesOK(c)'
  BY <1>1, <1>2 DEF InvAt, MessagesOK, Fits
<1>4. Known' = Known
  BY <1>1, <1>2 DEF Known
<1>5. IdsOK'
  BY <1>1, <1>4, IdsStay DEF InvAt, IdsOK
<1>6. TypeOK' /\ ~failed'
  BY <1>1 DEF InvAt, TypeOK
<1>7. AnswersAt(c) => AnswersAt(c)'
  BY <1>1, <1>2 DEF AnswersAt, AnswerExists
<1> QED
  BY <1>1, <1>3, <1>5, <1>6, <1>7, LocalKept DEF Keeps, InvAt

Continues(c) ==
  \E d \in 0..(Rounds + 2) : InvAt(d)' /\ (~DropsOnClose /\ AnswersAt(c) => AnswersAt(d)')

LEMMA StepContinues ==
  ASSUME NEW c \in 0..(Rounds + 2), InvAt(c), [Next]_vars
  PROVE  Continues(c)
<1>1. ASSUME Keeps(c) PROVE Continues(c)
  BY <1>1 DEF Keeps, Continues
<1>2. CASE UNCHANGED vars
  BY <1>1, <1>2, StutterKeeps
<1>3. ASSUME NEW r \in Ranks, Main(r) PROVE Continues(c)
  BY <1>1, <1>3, StartCommunicatorKeeps, RegisterNodeKeeps, RegisteredKeeps, StartActorKeeps,
     BarrierKeeps, BarrierPassedKeeps, CreateTableKeeps, RequestKeeps, StopActorKeeps, FinalizeKeeps
  DEF Main
<1>4. ASSUME NEW r \in Ranks, Communicator(r) \/ ServerAnswers(r) \/ Worker(r) PROVE Continues(c)
  BY <1>1, <1>4, CommunicatorSendsKeeps, CommunicatorReceivesKeeps, ServerAnswersKeeps,
     WorkerForwardsKeeps, WorkerNotifiesKeeps DEF Communicator, Worker
<1>5. CASE ControlRegister \/ ControllerSends
  BY <1>1, <1>5, ControlRegisterKeeps, ControllerSendsKeeps
<1>6. CASE ControlBarrier
  <2>1. CASE BarrierIsFull(Len(Append(control.tasks, Head(box[0]["controller"]))))
    <3>1. c + 1 \in 0..(Rounds + 2) /\ InvAt(c + 1)' /\ AnswersAt(c + 1)'
      BY <1>6, <2>1, BarrierFullKeeps
    <3>2. PICK d \in 0..(Rounds + 2) : d = c + 1
      BY <3>1
    <3>3. InvAt(d)' /\ AnswersAt(d)'
      BY <3>1, <3>2
    <3> QED
      BY <3>3 DEF Continues
  <2>2. CASE ~BarrierIsFull(Len(Append(control.tasks, Head(box[0]["controller"]))))
    BY <1>1, <1>6, <2>2, BarrierWaitsKeeps
  <2> QED
    BY <2>1, <2>2
<1> QED
  BY <1>2, <1>3, <1>4, <1>5, <1>6 DEF Next, Controller, AllStopped

\* The states of a job: the invariant that the theorems below rest on.
THEOREM ZooInvariant == Spec => []Inv
<1>1. Init => Inv
  <2>1. 0 \in 0..(Rounds + 2)
    BY RanksAre
  <2> QED
    BY <2>1, InitHolds DEF Inv
<1>2. Inv /\ [Next]_vars => Inv'
  <2> SUFFICES ASSUME NEW c \in 0..(Rounds + 2), InvAt(c), [Next]_vars PROVE Inv'
    BY DEF Inv
  <2>1. Continues(c)
    BY StepContinues
  <2> QED
    BY <2>1 DEF Continues, Inv
<1> QED
  BY <1>1, <1>2, PTL DEF Spec

\* The same with the answers, when closing the network drops nothing.
THEOREM ZooInvariantWithAnswers ==
  ASSUME ~DropsOnClose
  PROVE  Spec => []InvWithAnswers
<1>1. Init => InvWithAnswers
  <2>1. 0 \in 0..(Rounds + 2)
    BY RanksAre
  <2> QED
    BY <2>1, InitHolds DEF InvWithAnswers
<1>2. InvWithAnswers /\ [Next]_vars => InvWithAnswers'
  <2> SUFFICES ASSUME NEW c \in 0..(Rounds + 2), InvAt(c), AnswersAt(c), [Next]_vars
               PROVE  InvWithAnswers'
    BY DEF InvWithAnswers
  <2>1. Continues(c)
    BY StepContinues
  <2> QED
    BY <2>1 DEF Continues, InvWithAnswers
<1> QED
  BY <1>1, <1>2, PTL DEF Spec

-----------------------------------------------------------------------------
(* The properties of the runs.                                               *)

\* No CHECK of Zoo::SendTo, of the server or of the main thread fails: every
\* message finds the actor and the table it is for, and every wait the reply it
\* is for, whatever the order the messages come in.
THEOREM NoCheckEverFails == Spec => []NoCheckFails
<1>1. Inv => NoCheckFails
  BY DEF Inv, InvAt, NoCheckFails
<1> QED
  BY <1>1, ZooInvariant, PTL

\* Zoo::Barrier lets nobody out before all are in.
THEOREM BarriersHold == Spec => []BarrierHolds
<1>1. Inv => BarrierHolds
  <2> SUFFICES ASSUME NEW c \in 0..(Rounds + 2), InvAt(c), NEW r \in Ranks, NEW s \in Ranks
               PROVE  left[r] <= entered[s]
    BY DEF Inv, BarrierHolds
  <2>1. left[r] \in Nat /\ c \in Nat /\ left[r] <= c /\ entered[s] >= c
    BY ClockIs
  <2>2. entered[s] \in Nat
    BY DEF InvAt, TypeOK
  <2> QED
    BY <2>1, <2>2
<1> QED
  BY <1>1, ZooInvariant, PTL

\* The ids that RegisterNode hands to the ranks are the same everywhere, and
\* number the workers and the servers without gap.
THEOREM IdsAgreeAlways == Spec => []IdsAgree
<1>1. Inv => IdsAgree
  <2> SUFFICES ASSUME NEW c \in 0..(Rounds + 2), InvAt(c), NEW r \in Ranks,
                      main[r] \notin {"start", "register", "registering"}
               PROVE  /\ \A s \in Ranks : main[s] \notin {"start", "register", "registering"} =>
                           nodes[r] = nodes[s]
                      /\ \A a \in {"worker", "server"} :
                           /\ {nodes[r][s][a] : s \in Has(a)} = 0..(Cardinality(Has(a)) - 1)
                           /\ \A s \in Ranks \ Has(a) : nodes[r][s][a] = -1
    BY DEF Inv, IdsAgree, Has
  <2>1. IdsOK /\ nodes[r] = control.ids /\ control.registered = N
    BY DEF InvAt, IdsOK
  <2>2. \A s \in Ranks : main[s] \notin {"start", "register", "registering"} => nodes[r] = nodes[s]
    BY <2>1 DEF IdsOK
  <2>3. Known = Ranks
    <3>1. Known \in SUBSET Ranks /\ Cardinality(Known) = N
      BY <2>1 DEF IdsOK, Known
    <3> QED
      BY <3>1, RanksFinite
  <2>4. ASSUME NEW a \in {"worker", "server"}
        PROVE  /\ {nodes[r][s][a] : s \in Has(a)} = 0..(Cardinality(Has(a)) - 1)
               /\ \A s \in Ranks \ Has(a) : nodes[r][s][a] = -1
    <3>1. PICK n : Numbered(a, n, control.ids, Known)
      BY <2>1 DEF IdsOK
    <3>2. Known \cap Has(a) = Has(a)
      BY <2>3 DEF Has
    <3> QED
      BY <2>1, <3>1, <3>2 DEF Numbered
  <2> QED
    BY <2>2, <2>4
<1> QED
  BY <1>1, ZooInvariant, PTL

\* Zoo::Stop comes when nobody sends to the rank any more.
THEOREM NothingIsLost == Spec => []NothingLost
<1>1. Inv => NothingLost
  <2> SUFFICES ASSUME NEW c \in 0..(Rounds + 2), InvAt(c), NEW r \in Ranks, main[r] = "stopped",
                      NEW s \in Ranks, net[s][r] # << >>
               PROVE  FALSE
    BY DEF Inv, NothingLost
  <2>1. /\ Queues \in QueueSet /\ Wire(s, r) \in Names /\ Queues[Wire(s, r)] = net[s][r]
    BY Typed, NamesAre DEF InvAt, Shows
  <2>2. PICK m : m \in Message /\ In(Queues, Wire(s, r), m)
    BY <2>1, HeadIsIn
  <2>3. Fits(m, Wire(s, r), c) /\ main[Owner(m)] \in Waiting /\ Owner(m) \in Ranks
    BY <2>1, <2>2, InFits
  <2>4. m.dst = r
    BY <2>3, RouteIs DEF Fits
  <2>5. m.type \in {"Register", "Barrier", "Request"} /\ Owner(m) = m.src
    BY <2>2, <2>3, <2>4, MessageIs DEF Owner, Waiting
  <2>6. left[r] = c /\ left[r] = Rounds + 2
    BY ClockIs DEF InvAt, MainOK
  <2>7. MainOK(m.src) /\ Rounds \in Nat \ {0}
    BY <2>3, <2>5, RanksAre DEF InvAt
  <2>8. CASE m.type = "Register"
    <3>1. main[m.src] = "registering" /\ left[m.src] = 0
      BY <2>3, <2>5, <2>7, <2>8 DEF Fits, WaitsFor, MainOK, Early
    <3>2. left[m.src] = c
      BY <2>3, <2>5, <3>1, ClockIs
    <3> QED
      BY <2>6, <2>7, <3>1, <3>2
  <2>9. CASE m.type = "Barrier"
    <3>1. main[m.src] = "inBarrier" /\ left[m.src] = c /\ left[m.src] <= Rounds + 1
      BY <2>3, <2>5, <2>7, <2>9 DEF Fits, WaitsFor, MainOK
    <3>2. c = Rounds + 2 /\ c <= Rounds + 1
      BY <2>6, <3>1
    <3> QED
      BY <2>7, <3>2
  <2>10. CASE m.type = "Request"
    BY <2>1, <2>2, <2>4, <2>10, RequestServed
  <2> QED
    BY <2>5, <2>8, <2>9, <2>10
<1> QED
  BY <1>1, ZooInvariant, PTL

\* "My reply should be the last one": when rank 0 is back from a barrier, the
\* replies to all others have left its process.
THEOREM RepliesAreOutAlways ==
  ASSUME ~DropsOnClose
  PROVE  Spec => []RepliesAreOut
<1>1. InvWithAnswers => RepliesAreOut
  <2> SUFFICES ASSUME NEW c \in 0..(Rounds + 2), InvAt(c), AnswersAt(c),
                      NEW r \in Ranks \ {0}, left[r] < left[0]
               PROVE  \E q \in {net[0][r], box[r]["zoo"]} :
                        \E i \in DOMAIN q : q[i] = Msg("ReplyBarrier", 0, r)
    BY DEF InvWithAnswers, RepliesAreOut
  <2>1. 0 \in Ranks /\ r \in Ranks
    BY RanksAre
  <2>2. /\ left[r] \in Nat /\ left[0] \in Nat /\ c \in Nat /\ left[0] = c /\ left[r] + 1 = c
        /\ main[r] = "inBarrier" /\ left[0] # 0
    BY <2>1, ClockIs
  <2>3. PICK m, q : m = Msg("ReplyBarrier", 0, r) /\ q \in Names /\ In(Queues, q, m)
    BY <2>1, <2>2 DEF AnswersAt, AnswerExists, Somewhere
  <2>4. m.type = "ReplyBarrier" /\ m.src = 0 /\ m.dst = r /\ m.type \in ToMain
    BY <2>1, <2>3, MsgIsMessage DEF ToMain
  <2>5. Route(m, q)
    BY <2>3, InFits DEF Fits
  <2>6. /\ Shows(Queues, box, net, control.sending, control.tasks) /\ Out \in Names
        /\ Queues[Out] = box[0]["communicator"] /\ Queues[Sending] = control.sending
        /\ Queues[Out] \in Seq(Message) /\ Queues[Sending] \in Seq(Message)
    BY Typed, ZeroQueues DEF InvAt
  \* Rank 0 has had its reply.
  <2>7. ASSUME NEW p \in Names, NEW n, In(Queues, p, n), ToZero(n) PROVE FALSE
    <3>1. Fits(n, p, c)
      BY <2>7, InFits
    <3>2. n.dst = 0 /\ Owner(n) = 0 /\ n.type \in ToMain
      BY <2>7 DEF ToZero, Owner, ToMain
    <3>3. CASE n.type = "ReplyBarrier"
      BY <2>2, <3>1, <3>2, <3>3 DEF Fits
    <3>4. CASE n.type = "ReplyRegister"
      <4>1. main[0] = "registering" /\ MainOK(0)
        BY <2>1, <3>1, <3>2, <3>4 DEF Fits, WaitsFor, InvAt
      <4> QED
        BY <2>2, <4>1 DEF MainOK, Early
    <3> QED
      BY <3>2, <3>3, <3>4 DEF ToMain
  <2>8. Queues[Sending] = << >>
    <3> SUFFICES ASSUME Queues[Sending] # << >> PROVE FALSE
      OBVIOUS
    <3>1. PICK s \in Seq(Message) : s = Queues[Sending] /\ s # << >>
      BY <2>6
    <3>2. Len(s) \in DOMAIN s
      BY <3>1, EmptySeq, LenProperties
    <3>3. In(Queues, Sending, s[Len(s)])
      BY <3>1, <3>2 DEF In
    <3>4. ToZero(s[Len(s)])
      BY <2>6, <3>1 DEF AnswersAt, ZeroIsLast
    <3> QED
      BY <2>7, <3>3, <3>4, NamesAre
  <2>9. q # Sending
    BY <2>3, <2>8 DEF In
  <2>10. q # Out
    <3> SUFFICES ASSUME q = Out PROVE FALSE
      OBVIOUS
    <3>1. PICK i \in DOMAIN Queues[Out] : Queues[Out][i] = m
      BY <2>3 DEF In
    <3>2. PICK j \in DOMAIN Queues[Out] : ToZero(Queues[Out][j])
      BY <2>4, <2>6, <2>8, <3>1 DEF AnswersAt, ZeroIsLast
    <3>3. In(Queues, Out, Queues[Out][j])
      BY <3>2 DEF In
    <3> QED
      BY <2>6, <2>7, <3>2, <3>3
  <2>11. q = Mail(r, "zoo") \/ q = Wire(0, r)
    BY <2>4, <2>5, <2>9, <2>10 DEF Route, Out, ToMain
  <2>12. Queues[Mail(r, "zoo")] = box[r]["zoo"] /\ Queues[Wire(0, r)] = net[0][r]
    BY <2>1, <2>6 DEF Shows, Boxes
  <2> QED
    BY <2>3, <2>11, <2>12 DEF In
<1> QED
  BY <1>1, ZooInvariantWithAnswers, PTL
=============================================================================
