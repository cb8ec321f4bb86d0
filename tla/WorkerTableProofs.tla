------------------------- MODULE WorkerTableProofs -------------------------
(* Proofs about WorkerTable: while Load and Store are called only in a job   *)
(* of one server, the inductive invariant Inv holds for any number of        *)
(* clients, threads, servers and calls.                                      *)
EXTENDS WorkerTable, SequenceTheorems, FiniteSetTheorems, TLAPS

\* Load and Store are not called in a job of several servers.
LoadWithOne == ~LoadWithMany

-----------------------------------------------------------------------------
(* The inductive invariant.                                                  *)

CallRecord == [client : Clients, op : Op, to : (SUBSET Servers) \ {{}},
               over : SUBSET Nat]
AtServer   == [id : Ids, server : Servers]
Request    == [kind : {"request"}, id : Ids, server : {0}]
Answer     == [kind : {"reply"}, id : Ids, server : Servers]
Sender     == [at : {"send"}, id : Ids, left : (SUBSET Servers) \ {{}}, server : {0}]
Notifier   == [at : {"notify"}, id : Ids, left : {{}}, server : Servers]
Waits      == [at : {"lookup", "test", "asleep", "delete"}, id : Ids]

TypeOK ==
  /\ servers \in ServerSets
  /\ calls \in Seq(CallRecord)
  /\ waitings \in Seq([live : BOOLEAN, num : Int]) /\ Len(waitings) = Len(calls)
  /\ filled \in Seq(SUBSET AtServer) /\ Len(filled) = Len(calls)
  /\ client \in [Clients -> {Ready} \cup Waits]
  /\ mailbox \in Seq(Request \cup Answer)
  /\ thread \in [Threads -> {Free} \cup Sender \cup Notifier]
  /\ network \subseteq AtServer
  /\ data \in Nat

\* Where the request of a call, and its part for each server, can be: in the
\* mailbox, with a thread that sends, with the server, in the mailbox again, or
\* with a thread that is about to notify.
InBox     == {mailbox[i] : i \in DOMAIN mailbox}
Asked(id) == [kind |-> "request", id |-> id, server |-> 0] \in InBox
ToSend(id) ==
  {s \in Servers : \E t \in Threads :
     thread[t].at = "send" /\ thread[t].id = id /\ s \in thread[t].left}
AtServers(id) == {s \in Servers : [id |-> id, server |-> s] \in network}
Answered(id)  == {s \in Servers : [kind |-> "reply", id |-> id, server |-> s] \in InBox}
ToNotify(id)  ==
  {s \in Servers : \E t \in Threads :
     thread[t].at = "notify" /\ thread[t].id = id /\ thread[t].server = s}

NotCopied(id) == ToSend(id) \cup AtServers(id) \cup Answered(id)
Out(id)       == NotCopied(id) \cup ToNotify(id)

\* A message is in the mailbox once, no two threads handle the same one, and a
\* part of a call is in one place.
EachOnce ==
  /\ \A i, j \in DOMAIN mailbox : mailbox[i] = mailbox[j] => i = j
  /\ \A t, u \in Threads :
       /\ thread[t].at = thread[u].at /\ thread[t].id = thread[u].id
       /\ thread[t].server = thread[u].server /\ thread[t] # Free
       => t = u
  /\ \A id \in Ids :
       /\ ToSend(id) \cap (AtServers(id) \cup Answered(id) \cup ToNotify(id)) = {}
       /\ AtServers(id) \cap (Answered(id) \cup ToNotify(id)) = {}
       /\ Answered(id) \cap ToNotify(id) = {}

\* The Waiter of a call counts the parts that are out: 1 while nothing has been
\* sent, then one for each part, and none when it is deleted.
Counted(id) ==
  /\ Out(id) \subseteq calls[id].to
  /\ Asked(id) => Out(id) = {} /\ waitings[id].live /\ waitings[id].num = 1
  /\ ~Asked(id) /\ waitings[id].live => waitings[id].num = Cardinality(Out(id))
  /\ ~waitings[id].live => Out(id) = {}

\* Load and Store have a Waiter for one answer, and wait for the only server.
OneServerLoads(id) ==
  calls[id].op \in {"Load", "Store"} => calls[id].to = servers /\ Cardinality(servers) = 1

\* data_ belongs to a Get that is under way or to one that overtook it; a buffer
\* holds answers to its Get and to those it overtook; and one whose Get was not
\* overtaken holds the answers of the servers whose part has come back.
Buffered(id) ==
  calls[id].op = "Get" =>
    /\ waitings[id].live => data \in Ids /\ (data = id \/ id \in calls[data].over)
    /\ \A p \in filled[id] : p.id \in {id} \cup calls[id].over /\ p.server \in calls[p.id].to
    /\ ~Overtaken(id) /\ ~Asked(id) =>
         \A s \in calls[id].to \ NotCopied(id) : [id |-> id, server |-> s] \in filled[id]

\* A thread waits for a call of its own whose Waiter is there, and deletes it at
\* zero.
WaitsForOwn(c) ==
  client[c] # Ready =>
    /\ calls[client[c].id].client = c /\ waitings[client[c].id].live
    /\ client[c].at = "delete" => waitings[client[c].id].num = 0

Inv ==
  /\ TypeOK /\ ~failed /\ EachOnce
  /\ \A id \in Ids : Counted(id) /\ OneServerLoads(id) /\ Buffered(id)
  /\ \A c \in Clients : WaitsForOwn(c)

-----------------------------------------------------------------------------
(* The mailbox and the places of a part.                                     *)

\* Taking a message takes its only occurrence.
LEMMA TakeFromBox ==
  ASSUME NEW S, mailbox \in Seq(S), mailbox # << >>, mailbox' = Tail(mailbox),
         \A i, j \in DOMAIN mailbox : mailbox[i] = mailbox[j] => i = j
  PROVE  /\ Head(mailbox) \in InBox /\ Head(mailbox) \in S
         /\ InBox' = InBox \ {Head(mailbox)}
         /\ mailbox' \in Seq(S)
         /\ \A i, j \in DOMAIN mailbox' : mailbox'[i] = mailbox'[j] => i = j
<1>1. /\ Len(mailbox) \in Nat \ {0} /\ DOMAIN mailbox = 1..Len(mailbox)
      /\ Head(mailbox) = mailbox[1]
  BY EmptySeq, LenProperties
<1>2. /\ mailbox' \in Seq(S) /\ DOMAIN mailbox' = 1..(Len(mailbox) - 1)
      /\ \A i \in 1..(Len(mailbox) - 1) : mailbox'[i] = mailbox[i + 1]
  BY <1>1, HeadTailProperties, LenProperties
<1>3. Head(mailbox) \in S /\ Head(mailbox) \in InBox
  BY <1>1, ElementOfSeq DEF InBox
<1>4. ASSUME NEW m \in InBox' PROVE m \in InBox \ {Head(mailbox)}
  <2>1. PICK i \in 1..(Len(mailbox) - 1) : m = mailbox[i + 1]
    BY <1>2, <1>4 DEF InBox
  <2>2. i + 1 \in DOMAIN mailbox /\ i + 1 # 1 /\ 1 \in DOMAIN mailbox
    BY <1>1, <2>1
  <2> QED
    BY <1>1, <2>1, <2>2 DEF InBox
<1>5. ASSUME NEW m \in InBox, m # Head(mailbox) PROVE m \in InBox'
  <2>1. PICK i \in DOMAIN mailbox : m = mailbox[i]
    BY DEF InBox
  <2>2. i \in 2..Len(mailbox)
    BY <1>1, <1>5, <2>1
  <2>3. i - 1 \in 1..(Len(mailbox) - 1) /\ i - 1 + 1 = i
    BY <1>1, <2>2
  <2>4. mailbox'[i - 1] = m
    BY <1>2, <2>1, <2>3
  <2> QED
    BY <1>2, <2>3, <2>4 DEF InBox
<1>6. ASSUME NEW i \in DOMAIN mailbox', NEW j \in DOMAIN mailbox', mailbox'[i] = mailbox'[j]
      PROVE  i = j
  <2>1. i + 1 \in DOMAIN mailbox /\ j + 1 \in DOMAIN mailbox /\ i \in Nat /\ j \in Nat
    BY <1>1, <1>2
  <2>2. i + 1 = j + 1
    BY <1>2, <1>6, <2>1
  <2> QED
    BY <2>1, <2>2
<1> QED
  BY <1>2, <1>3, <1>4, <1>5, <1>6

\* Putting a message that is not there keeps each once.
LEMMA PutInBox ==
  ASSUME NEW S, NEW m \in S, mailbox \in Seq(S), mailbox' = Append(mailbox, m), m \notin InBox,
         \A i, j \in DOMAIN mailbox : mailbox[i] = mailbox[j] => i = j
  PROVE  /\ InBox' = InBox \cup {m}
         /\ mailbox' \in Seq(S)
         /\ \A i, j \in DOMAIN mailbox' : mailbox'[i] = mailbox'[j] => i = j
<1>1. Len(mailbox) \in Nat /\ DOMAIN mailbox = 1..Len(mailbox)
  BY LenProperties
<1>2. /\ mailbox' \in Seq(S) /\ DOMAIN mailbox' = 1..(Len(mailbox) + 1)
      /\ \A i \in 1..Len(mailbox) : mailbox'[i] = mailbox[i]
      /\ mailbox'[Len(mailbox) + 1] = m
  BY <1>1, AppendProperties, LenProperties
<1>3. \A i \in DOMAIN mailbox' : i \in DOMAIN mailbox \/ i = Len(mailbox) + 1
  BY <1>1, <1>2
<1>4. DOMAIN mailbox \subseteq DOMAIN mailbox' /\ Len(mailbox) + 1 \in DOMAIN mailbox'
  BY <1>1, <1>2
<1>5. InBox' = InBox \cup {m}
  BY <1>1, <1>2, <1>3, <1>4 DEF InBox
<1>6. \A i, j \in DOMAIN mailbox' : mailbox'[i] = mailbox'[j] => i = j
  BY <1>1, <1>2, <1>3 DEF InBox
<1> QED
  BY <1>2, <1>5, <1>6

\* The parts of a call can be counted.
LEMMA OutFinite ==
  ASSUME NEW id
  PROVE  IsFiniteSet(Out(id)) /\ Cardinality(Out(id)) \in Nat
<1>1. Out(id) \subseteq Servers
  BY DEF Out, NotCopied, ToSend, AtServers, Answered, ToNotify
<1>2. IsFiniteSet(Out(id))
  BY <1>1, FS_Subset, WorkerTableAssumption
<1> QED
  BY <1>2, FS_CardinalityType

\* Where nothing moves, every part is where it was.
LEMMA SameParts ==
  ASSUME mailbox' = mailbox, thread' = thread, network' = network
  PROVE  /\ \A id : /\ (Asked(id)' <=> Asked(id)) /\ ToSend(id)' = ToSend(id)
                    /\ AtServers(id)' = AtServers(id) /\ Answered(id)' = Answered(id)
                    /\ ToNotify(id)' = ToNotify(id)
                    /\ NotCopied(id)' = NotCopied(id) /\ Out(id)' = Out(id)
         /\ Len(calls') = Len(calls) /\ EachOnce => EachOnce'
BY DEF Asked, ToSend, AtServers, Answered, ToNotify, NotCopied, Out, InBox, EachOnce, Ids

\* Where no call is made, the types are as they were.
LEMMA SameTypes ==
  ASSUME calls' = calls
  PROVE  /\ Ids' = Ids /\ Waits' = Waits /\ AtServer' = AtServer
         /\ Request' = Request /\ Answer' = Answer /\ Sender' = Sender /\ Notifier' = Notifier
BY DEF Ids, Waits, AtServer, Request, Answer, Sender, Notifier

\* Replacing an element of a sequence.
LEMMA ReplaceOne ==
  ASSUME NEW S, NEW seq \in Seq(S), NEW i \in 1..Len(seq), NEW e \in S, NEW new,
         new = [seq EXCEPT ![i] = e]
  PROVE  /\ new \in Seq(S) /\ Len(new) = Len(seq)
         /\ new[i] = e
         /\ \A j \in 1..Len(seq) : j # i => new[j] = seq[j]
BY ExceptSeq

\* Appending an element to a sequence.
LEMMA AppendOne ==
  ASSUME NEW S, NEW seq \in Seq(S), NEW e \in S, NEW new, new = Append(seq, e)
  PROVE  /\ new \in Seq(S) /\ Len(new) = Len(seq) + 1
         /\ new[Len(seq) + 1] = e
         /\ \A j \in 1..Len(seq) : new[j] = seq[j]
BY AppendProperties, LenProperties

\* A sequence over a set is one over a larger set.
LEMMA WiderSeq ==
  ASSUME NEW S, NEW T, S \subseteq T, NEW seq \in Seq(S)
  PROVE  seq \in Seq(T)
OBVIOUS

\* Changing the count of a Waiter leaves the rest of waitings_ as it was.
LEMMA ChangeCount ==
  ASSUME TypeOK, NEW k \in Ids, NEW num \in Int, waitings' = [waitings EXCEPT ![k].num = num]
  PROVE  /\ waitings' \in Seq([live : BOOLEAN, num : Int]) /\ Len(waitings') = Len(waitings)
         /\ waitings'[k].num = num /\ (waitings'[k].live <=> waitings[k].live)
         /\ \A id \in Ids : id # k => waitings'[id] = waitings[id]
<1>1. waitings[k] \in [live : BOOLEAN, num : Int]
  BY ElementOfSeq DEF TypeOK, Ids
<1> DEFINE w == [waitings[k] EXCEPT !.num = num]
<1>2. w \in [live : BOOLEAN, num : Int] /\ w.num = num /\ (w.live <=> waitings[k].live)
  BY <1>1
<1>3. waitings' = [waitings EXCEPT ![k] = w]
  OBVIOUS
<1> HIDE DEF w
<1>4. /\ waitings \in Seq([live : BOOLEAN, num : Int])
      /\ k \in 1..Len(waitings) /\ Ids = 1..Len(waitings)
  BY DEF TypeOK, Ids
<1>5. /\ waitings' \in Seq([live : BOOLEAN, num : Int]) /\ Len(waitings') = Len(waitings)
      /\ waitings'[k] = w /\ \A id \in 1..Len(waitings) : id # k => waitings'[id] = waitings[id]
  BY <1>2, <1>3, <1>4, ReplaceOne
<1> QED
  BY <1>2, <1>4, <1>5

\* Deleting a Waiter leaves the others as they were.
LEMMA DeleteOne ==
  ASSUME TypeOK, NEW k \in Ids, waitings' = [waitings EXCEPT ![k].live = FALSE]
  PROVE  /\ waitings' \in Seq([live : BOOLEAN, num : Int]) /\ Len(waitings') = Len(waitings)
         /\ ~waitings'[k].live
         /\ \A id \in Ids : id # k => waitings'[id] = waitings[id]
<1> DEFINE W == [live : BOOLEAN, num : Int]
<1>1. waitings \in Seq(W) /\ k \in 1..Len(waitings) /\ Ids = 1..Len(waitings)
  BY DEF TypeOK, Ids
<1>2. waitings[k] \in W
  BY <1>1, ElementOfSeq
<1>3. PICK w \in W : w = [waitings[k] EXCEPT !.live = FALSE]
  BY <1>2
<1>4. ~w.live
  BY <1>2, <1>3
<1>5. waitings' = [waitings EXCEPT ![k] = w]
  BY <1>3
<1> HIDE DEF W
<1>6. /\ waitings' \in Seq(W) /\ Len(waitings') = Len(waitings) /\ waitings'[k] = w
      /\ \A id \in 1..Len(waitings) : id # k => waitings'[id] = waitings[id]
  BY ONLY <1>1, <1>5, ReplaceOne
<1> QED
  BY <1>1, <1>4, <1>6 DEF W

-----------------------------------------------------------------------------
(* Each action preserves Inv.                                                *)

LEMMA StartWaitInv ==
  ASSUME Inv, NEW c \in Clients, StartWait(c)
  PROVE  Inv'
<1> USE DEF Inv, StartWait
<1>1. TypeOK'
  BY SameTypes DEF TypeOK, Waits
<1>2. EachOnce'
  BY SameParts
<1>3. \A id \in Ids' : (Counted(id) /\ OneServerLoads(id) /\ Buffered(id))'
  BY SameParts DEF Counted, OneServerLoads, Buffered, Overtaken, Ids
<1>4. \A d \in Clients : WaitsForOwn(d)'
  BY DEF WaitsForOwn, TypeOK, Ready
<1> QED
  BY <1>1, <1>2, <1>3, <1>4

LEMMA LookupInv ==
  ASSUME Inv, NEW c \in Clients, Lookup(c)
  PROVE  Inv'
<1> USE DEF Inv, Lookup
<1>0. client[c] \in Waits /\ client[c] # Ready
  BY DEF TypeOK, Ready
<1>1. waitings[client[c].id].live
  BY <1>0 DEF WaitsForOwn
<1>2. TypeOK'
  <2>1. [client[c] EXCEPT !.at = "test"] \in Waits
    BY <1>0 DEF Waits
  <2> QED
    BY <1>1, <2>1, SameTypes DEF TypeOK
<1>3. EachOnce'
  BY <1>1, SameParts
<1>4. \A id \in Ids' : (Counted(id) /\ OneServerLoads(id) /\ Buffered(id))'
  BY <1>1, SameParts DEF Counted, OneServerLoads, Buffered, Overtaken, Ids
<1>5. ASSUME NEW d \in Clients PROVE WaitsForOwn(d)'
  <2>1. CASE d = c
    BY <1>0, <1>1, <2>1 DEF WaitsForOwn, TypeOK, Waits, Ready
  <2>2. CASE d # c
    BY <1>1, <2>2 DEF WaitsForOwn, TypeOK
  <2> QED
    BY <2>1, <2>2
<1> QED
  BY <1>1, <1>2, <1>3, <1>4, <1>5

LEMMA TestInv ==
  ASSUME Inv, NEW c \in Clients, Test(c)
  PROVE  Inv'
<1> USE DEF Inv, Test
<1>0. client[c] \in Waits /\ client[c] # Ready
  BY DEF TypeOK, Ready
<1>1. waitings[client[c].id].live /\ client[c].id \in Ids
  BY <1>0 DEF WaitsForOwn, Waits
<1>2. waitings[client[c].id].num \in Nat
  BY <1>1, OutFinite DEF Counted
<1>3. TypeOK'
  BY <1>0, SameTypes DEF TypeOK, Waits
<1>4. EachOnce'
  BY <1>1, SameParts
<1>5. \A id \in Ids' : (Counted(id) /\ OneServerLoads(id) /\ Buffered(id))'
  BY <1>1, SameParts DEF Counted, OneServerLoads, Buffered, Overtaken, Ids
<1>6. \A d \in Clients : WaitsForOwn(d)'
  BY <1>0, <1>1, <1>2 DEF WaitsForOwn, TypeOK, Waits, Ready
<1> QED
  BY <1>3, <1>4, <1>5, <1>6

LEMMA DeleteInv ==
  ASSUME Inv, NEW c \in Clients, Delete(c)
  PROVE  Inv'
<1> USE DEF Inv, Delete
<1>0. client[c] \in Waits /\ client[c] # Ready
  BY DEF TypeOK, Ready
<1>1. PICK k \in Ids : k = client[c].id
  BY <1>0 DEF Waits
<1>2. waitings[k].live /\ waitings[k].num = 0 /\ calls[k].client = c
  BY <1>0, <1>1 DEF WaitsForOwn
<1>3. ~Asked(k) /\ Out(k) = {}
  <2>1. ~Asked(k) /\ Cardinality(Out(k)) = 0
    BY <1>2 DEF Counted
  <2> QED
    BY <2>1, OutFinite, FS_EmptySet
<1>4. /\ waitings' \in Seq([live : BOOLEAN, num : Int]) /\ Len(waitings') = Len(waitings)
      /\ ~waitings'[k].live
      /\ \A id \in Ids : id # k => waitings'[id] = waitings[id]
  BY <1>1, DeleteOne
<1>5. TypeOK'
  BY <1>4, SameTypes DEF TypeOK
<1>6. EachOnce'
  BY <1>1, SameParts
<1>7. ASSUME NEW id \in Ids PROVE (Counted(id) /\ OneServerLoads(id) /\ Buffered(id))'
  <2>1. CASE id = k
    BY <1>2, <1>3, <1>4, <2>1, SameParts DEF Counted, OneServerLoads, Buffered, Overtaken, Ids
  <2>2. CASE id # k
    BY <1>4, <2>2, SameParts, ZenonT(60) DEF Counted, OneServerLoads, Buffered, Overtaken, Ids
  <2> QED
    BY <2>1, <2>2
<1>8. ASSUME NEW d \in Clients PROVE WaitsForOwn(d)'
  <2>1. CASE d = c
    BY <2>1 DEF WaitsForOwn, TypeOK
  <2>2. CASE d # c
    <3>1. client'[d] = client[d]
      BY <2>2 DEF TypeOK
    <3>2. ASSUME client[d] # Ready PROVE client[d].id \in Ids /\ client[d].id # k
      BY <1>2, <2>2, <3>2 DEF WaitsForOwn, TypeOK, Waits
    <3> QED
      BY <1>4, <3>1, <3>2 DEF WaitsForOwn
  <2> QED
    BY <2>1, <2>2
<1> QED
  BY <1>5, <1>6, <1>7, <1>8 DEF Ids

\* A thread that takes a request from the mailbox has all its parts to send.
LEMMA TakeRequest ==
  ASSUME Inv, NEW t \in Threads, Pop(t, "request"), NEW k, k = Head(mailbox).id,
         NEW left \in (SUBSET Servers) \ {{}}, UNCHANGED <<calls, network>>,
         thread' = [thread EXCEPT ![t] = [at |-> "send", id |-> k, left |-> left, server |-> 0]]
  PROVE  /\ k \in Ids /\ Asked(k)
         /\ mailbox' \in Seq(Request \cup Answer)
         /\ thread' \in [Threads -> {Free} \cup Sender \cup Notifier]
         /\ \A id : /\ Asked(id)' <=> (Asked(id) /\ id # k)
                    /\ id # k => ToSend(id)' = ToSend(id)
                    /\ AtServers(id)' = AtServers(id) /\ Answered(id)' = Answered(id)
                    /\ ToNotify(id)' = ToNotify(id)
         /\ ToSend(k)' = left
         /\ EachOnce'
<1> USE DEF Inv, Pop
<1>1. /\ Head(mailbox) \in InBox /\ Head(mailbox) \in Request \cup Answer
      /\ InBox' = InBox \ {Head(mailbox)}
      /\ mailbox' \in Seq(Request \cup Answer)
      /\ \A i, j \in DOMAIN mailbox' : mailbox'[i] = mailbox'[j] => i = j
  BY TakeFromBox DEF TypeOK, EachOnce
<1>2. Head(mailbox) = [kind |-> "request", id |-> k, server |-> 0] /\ k \in Ids
  BY <1>1 DEF Request, Answer
<1>3. Asked(k) /\ Out(k) = {}
  BY <1>1, <1>2 DEF Asked, Counted
<1>4. \A id : (Asked(id)' <=> (Asked(id) /\ id # k)) /\ Answered(id)' = Answered(id)
  BY <1>1, <1>2 DEF Asked, Answered
<1>5. thread' \in [Threads -> {Free} \cup Sender \cup Notifier]
  BY <1>2 DEF TypeOK, Sender
<1>6. \A u \in Threads : u # t => thread'[u] = thread[u]
  BY DEF TypeOK
<1>7. /\ thread'[t].at = "send" /\ thread'[t].id = k /\ thread'[t].left = left
      /\ thread'[t].server = 0 /\ thread[t].at = "pop"
  BY DEF TypeOK, Free
<1>8. ASSUME NEW u \in Threads, thread[u].at = "send" PROVE thread[u].id # k
  <2>1. thread[u] \in Sender
    BY <1>8 DEF TypeOK, Free, Notifier
  <2>2. PICK s \in Servers : s \in thread[u].left
    BY <2>1 DEF Sender
  <2> QED
    BY <1>3, <1>8, <2>2 DEF Out, NotCopied, ToSend
<1>9. \A id : (id # k => ToSend(id)' = ToSend(id)) /\ ToNotify(id)' = ToNotify(id)
  BY <1>6, <1>7 DEF ToSend, ToNotify
<1>10. ToSend(k)' = left
  <2>1. \A s \in Servers : s \in ToSend(k)' <=> s \in left
    BY <1>6, <1>7, <1>8 DEF ToSend
  <2> QED
    BY <2>1 DEF ToSend
<1>11. \A id : AtServers(id)' = AtServers(id)
  BY DEF AtServers
<1>12. EachOnce'
  <2>1. ASSUME NEW u \in Threads, NEW v \in Threads,
               thread'[u].at = thread'[v].at, thread'[u].id = thread'[v].id,
               thread'[u].server = thread'[v].server, thread'[u] # Free
        PROVE  u = v
    <3>1. CASE u # t /\ v # t
      BY <1>6, <2>1, <3>1 DEF EachOnce
    <3>2. CASE u = t \/ v = t
      BY <1>6, <1>7, <1>8, <2>1, <3>2
    <3> QED
      BY <3>1, <3>2
  <2>2. ASSUME NEW id \in Ids
        PROVE  /\ ToSend(id)' \cap (AtServers(id)' \cup Answered(id)' \cup ToNotify(id)') = {}
               /\ AtServers(id)' \cap (Answered(id)' \cup ToNotify(id)') = {}
               /\ Answered(id)' \cap ToNotify(id)' = {}
    <3>1. CASE id = k
      BY <1>3, <1>4, <1>9, <1>11, <3>1 DEF Out, NotCopied, EachOnce
    <3>2. CASE id # k
      BY <1>4, <1>9, <1>11, <3>2 DEF EachOnce
    <3> QED
      BY <3>1, <3>2
  <2> QED
    BY <1>1, <2>1, <2>2 DEF EachOnce, Ids
<1> QED
  BY <1>1, <1>2, <1>3, <1>4, <1>5, <1>9, <1>10, <1>11, <1>12

LEMMA PopGetAddInv ==
  ASSUME Inv, NEW t \in Threads, PopGetAdd(t)
  PROVE  Inv'
<1> USE DEF Inv, PopGetAdd
<1>1. PICK k : k = Head(mailbox).id
  OBVIOUS
<1>2. k \in Ids /\ Asked(k)
  <2>1. /\ Head(mailbox) \in InBox /\ Head(mailbox) \in Request \cup Answer
    BY TakeFromBox DEF TypeOK, EachOnce, Pop
  <2> QED
    BY <1>1, <2>1 DEF Asked, Pop, Request, Answer
<1>3. waitings[k].live /\ Out(k) = {}
  BY <1>2 DEF Counted
<1>4. calls[k] \in CallRecord
  BY <1>2, ElementOfSeq DEF TypeOK, Ids
<1>5. PICK to \in (SUBSET Servers) \ {{}} : to = calls[k].to
  BY <1>4 DEF CallRecord
<1>6. PICK n \in Int : n = Cardinality(to)
  BY FS_Subset, FS_CardinalityType, WorkerTableAssumption
<1>7. /\ waitings' = [waitings EXCEPT ![k].num = n]
      /\ thread' = [thread EXCEPT ![t] = [at |-> "send", id |-> k, left |-> to, server |-> 0]]
      /\ UNCHANGED <<servers, calls, client, network, data, filled, failed>>
      /\ Pop(t, "request") /\ TypeOK
  BY <1>1, <1>3, <1>5, <1>6 DEF ResetWaiter
<1>8. /\ waitings' \in Seq([live : BOOLEAN, num : Int]) /\ Len(waitings') = Len(waitings)
      /\ waitings'[k].num = n /\ (waitings'[k].live <=> waitings[k].live)
      /\ \A id \in Ids : id # k => waitings'[id] = waitings[id]
  BY ONLY <1>2, <1>7, ChangeCount
<1>9. /\ mailbox' \in Seq(Request \cup Answer)
      /\ thread' \in [Threads -> {Free} \cup Sender \cup Notifier]
      /\ \A id : /\ Asked(id)' <=> (Asked(id) /\ id # k)
                 /\ id # k => ToSend(id)' = ToSend(id)
                 /\ AtServers(id)' = AtServers(id) /\ Answered(id)' = Answered(id)
                 /\ ToNotify(id)' = ToNotify(id)
      /\ ToSend(k)' = to
      /\ EachOnce'
  BY ONLY Inv, <1>1, <1>7, TakeRequest
<1>10. TypeOK'
  BY <1>7, <1>8, <1>9, SameTypes DEF TypeOK
<1>11. ASSUME NEW id \in Ids PROVE (Counted(id) /\ OneServerLoads(id) /\ Buffered(id))'
  <2>1. CASE id = k
    <3>1. Out(k)' = to /\ NotCopied(k)' = to
      BY <1>3, <1>9 DEF Out, NotCopied
    <3>2. waitings'[k].live => waitings[k].live
      BY <1>3 DEF Counted
    <3>3. Counted(k)' /\ OneServerLoads(k)'
      BY <1>2, <1>3, <1>5, <1>6, <1>7, <1>8, <1>9, <3>1 DEF Counted, OneServerLoads
    <3>4. Buffered(k)'
      <4>1. calls[k].to \ NotCopied(k)' = {}
        BY <1>5, <3>1
      <4> QED
        BY <1>2, <1>7, <1>9, <4>1, <3>2 DEF Buffered, Overtaken, Ids
    <3> QED
      BY <2>1, <3>3, <3>4
  <2>2. CASE id # k
    <3>1. Out(id)' = Out(id) /\ NotCopied(id)' = NotCopied(id) /\ waitings'[id] = waitings[id]
      BY <1>8, <1>9, <2>2 DEF Out, NotCopied
    <3> QED
      BY <1>9, <2>2, <3>1, ZenonT(60) DEF Counted, OneServerLoads, Buffered, Overtaken, Ids
  <2> QED
    BY <2>1, <2>2
<1>12. ASSUME NEW c \in Clients PROVE WaitsForOwn(c)'
  <2>1. client[c] # Ready => client[c].id \in Ids
    BY DEF TypeOK, Waits
  <2>2. waitings[k].num = 1
    BY <1>2 DEF Counted
  <2>3. client' = client /\ calls' = calls
    BY <1>7
  <2>4. client[c] # Ready /\ client[c].id = k => client[c].at # "delete"
    BY <2>2 DEF WaitsForOwn
  <2>5. client[c] # Ready =>
          /\ waitings'[client[c].id].live
          /\ client[c].at = "delete" => waitings'[client[c].id].num = 0
    BY ONLY Inv, <1>8, <2>1, <2>4 DEF Inv, WaitsForOwn
  <2> QED
    BY ONLY Inv, <2>3, <2>5 DEF Inv, WaitsForOwn
<1> QED
  BY <1>7, <1>10, <1>9, <1>11, <1>12 DEF Ids

LEMMA PopLoadStoreInv ==
  ASSUME Inv, NEW t \in Threads, PopLoadStore(t)
  PROVE  Inv'
<1> USE DEF Inv, PopLoadStore
<1>1. PICK k : k = Head(mailbox).id
  OBVIOUS
<1>2. PICK to \in (SUBSET Servers) \ {{}} : to = servers
  BY WorkerTableAssumption DEF TypeOK
<1>3. thread' = [thread EXCEPT ![t] = [at |-> "send", id |-> k, left |-> to, server |-> 0]]
  BY <1>1, <1>2
<1>4. /\ k \in Ids /\ Asked(k)
      /\ mailbox' \in Seq(Request \cup Answer)
      /\ thread' \in [Threads -> {Free} \cup Sender \cup Notifier]
      /\ \A id : /\ Asked(id)' <=> (Asked(id) /\ id # k)
                 /\ id # k => ToSend(id)' = ToSend(id)
                 /\ AtServers(id)' = AtServers(id) /\ Answered(id)' = Answered(id)
                 /\ ToNotify(id)' = ToNotify(id)
      /\ ToSend(k)' = to
      /\ EachOnce'
  BY <1>1, <1>3, TakeRequest
<1>5. TypeOK'
  BY <1>4, SameTypes DEF TypeOK
<1>6. waitings[k].live /\ waitings[k].num = 1 /\ Out(k) = {}
  BY <1>4 DEF Counted
<1>7. calls[k].op \in {"Load", "Store"} /\ calls[k].to = to /\ Cardinality(to) = 1
  BY <1>1, <1>2, <1>4 DEF OneServerLoads
<1>8. ASSUME NEW id \in Ids PROVE (Counted(id) /\ OneServerLoads(id) /\ Buffered(id))'
  <2>1. CASE id = k
    <3>1. Out(k)' = to
      BY <1>4, <1>6 DEF Out, NotCopied
    <3> QED
      BY <1>2, <1>4, <1>6, <1>7, <2>1, <3>1 DEF Counted, OneServerLoads, Buffered, Overtaken, Ids
  <2>2. CASE id # k
    <3>1. Out(id)' = Out(id) /\ NotCopied(id)' = NotCopied(id)
      BY <1>4, <2>2 DEF Out, NotCopied
    <3> QED
      BY <1>4, <2>2, <3>1 DEF Counted, OneServerLoads, Buffered, Overtaken, Ids
  <2> QED
    BY <2>1, <2>2
<1> QED
  BY <1>4, <1>5, <1>8 DEF Ids, WaitsForOwn

LEMMA SendInv ==
  ASSUME Inv, NEW t \in Threads, Send(t)
  PROVE  Inv'
<1> USE DEF Inv, Send
<1>1. thread[t] \in Sender
  BY DEF TypeOK, Free, Notifier
<1>2. PICK k \in Ids, left \in SUBSET Servers :
        thread[t] = [at |-> "send", id |-> k, left |-> left, server |-> 0]
  BY <1>1 DEF Sender
<1>3. PICK s \in left :
        /\ network' = network \cup {[id |-> k, server |-> s]}
        /\ thread' = [thread EXCEPT ![t] =
             IF left = {s} THEN Free
             ELSE [at |-> "send", id |-> k, left |-> left \ {s}, server |-> 0]]
  <2>1. PICK s \in thread[t].left :
          /\ network' = network \cup {[id |-> thread[t].id, server |-> s]}
          /\ thread' = [thread EXCEPT ![t] =
               IF thread[t].left = {s} THEN Free
               ELSE [thread[t] EXCEPT !.left = thread[t].left \ {s}]]
    OBVIOUS
  <2>2. /\ thread[t].left = left /\ thread[t].id = k
        /\ [thread[t] EXCEPT !.left = thread[t].left \ {s}]
             = [at |-> "send", id |-> k, left |-> left \ {s}, server |-> 0]
    BY <1>2
  <2> QED
    BY <2>1, <2>2
<1>5. \A u \in Threads : u # t => thread'[u] = thread[u]
  BY <1>3 DEF TypeOK
<1>6. /\ left = {s} => thread'[t] = Free
      /\ left # {s} => thread'[t] = [at |-> "send", id |-> k, left |-> left \ {s}, server |-> 0]
  BY <1>3 DEF TypeOK
<1>7. ASSUME NEW u \in Threads, u # t, thread[u].at = "send" PROVE thread[u].id # k
  <2>1. thread[u] \in Sender
    BY <1>7 DEF TypeOK, Free, Notifier
  <2> QED
    BY <1>2, <1>7, <2>1 DEF EachOnce, Sender, Free
<1>4. ToSend(k) = left
  <2>1. \A x \in Servers : x \in ToSend(k) <=> x \in left
    BY <1>2, <1>7 DEF ToSend
  <2> QED
    BY <2>1 DEF ToSend
<1>8. \A id : ToNotify(id)' = ToNotify(id) /\ (id # k => ToSend(id)' = ToSend(id))
  BY <1>2, <1>5, <1>6 DEF ToNotify, ToSend, Free
<1>9. ToSend(k)' = ToSend(k) \ {s}
  <2>1. ASSUME NEW x \in Servers PROVE x \in ToSend(k)' <=> x \in left /\ x # s
    <3>1. CASE left = {s}
      BY <1>5, <1>6, <1>7, <3>1 DEF ToSend, Free
    <3>2. CASE left # {s}
      BY <1>5, <1>6, <1>7, <3>2 DEF ToSend
    <3> QED
      BY <3>1, <3>2
  <2> QED
    BY <1>4, <2>1 DEF ToSend
<1>10. /\ AtServers(k)' = AtServers(k) \cup {s}
       /\ \A id : id # k => AtServers(id)' = AtServers(id)
  BY <1>3 DEF AtServers
<1>11. \A id : (Asked(id)' <=> Asked(id)) /\ Answered(id)' = Answered(id)
  BY DEF Asked, Answered, InBox
<1>12. \A id : NotCopied(id)' = NotCopied(id) /\ Out(id)' = Out(id)
  <2>1. NotCopied(k)' = NotCopied(k)
    BY <1>3, <1>4, <1>9, <1>10, <1>11 DEF NotCopied
  <2>2. \A id : id # k => NotCopied(id)' = NotCopied(id)
    BY <1>8, <1>10, <1>11 DEF NotCopied
  <2> QED
    BY <1>8, <2>1, <2>2 DEF Out
<1>13. TypeOK'
  <2>1. thread' \in [Threads -> {Free} \cup Sender \cup Notifier]
    <3>1. left # {s} => [at |-> "send", id |-> k, left |-> left \ {s}, server |-> 0] \in Sender
      BY DEF Sender
    <3> QED
      BY <1>3, <3>1 DEF TypeOK
  <2>2. network' \subseteq AtServer
    BY <1>3 DEF TypeOK, AtServer
  <2> QED
    BY <2>1, <2>2, SameTypes DEF TypeOK
<1>14. EachOnce'
  <2>1. ASSUME NEW u \in Threads, NEW v \in Threads,
               thread'[u].at = thread'[v].at, thread'[u].id = thread'[v].id,
               thread'[u].server = thread'[v].server, thread'[u] # Free
        PROVE  u = v
    <3>1. CASE u # t /\ v # t
      BY <1>5, <2>1, <3>1 DEF EachOnce
    <3>2. CASE u = t
      BY <1>5, <1>6, <1>7, <2>1, <3>2
    <3>3. CASE v = t /\ u # t
      <4>1. thread'[u] = thread[u] /\ thread[u].at # "pop"
        BY <1>5, <2>1, <3>3 DEF TypeOK, Sender, Notifier
      <4> QED
        BY <1>6, <1>7, <2>1, <3>3, <4>1 DEF Free
    <3> QED
      BY <3>1, <3>2, <3>3
  <2>2. ASSUME NEW id \in Ids
        PROVE  /\ ToSend(id)' \cap (AtServers(id)' \cup Answered(id)' \cup ToNotify(id)') = {}
               /\ AtServers(id)' \cap (Answered(id)' \cup ToNotify(id)') = {}
               /\ Answered(id)' \cap ToNotify(id)' = {}
    <3>1. CASE id = k
      BY <1>3, <1>4, <1>8, <1>9, <1>10, <1>11, <3>1 DEF EachOnce
    <3>2. CASE id # k
      BY <1>8, <1>10, <1>11, <3>2 DEF EachOnce
    <3> QED
      BY <3>1, <3>2
  <2> QED
    BY <2>1, <2>2 DEF EachOnce, Ids
<1>15. \A id \in Ids : (Counted(id) /\ OneServerLoads(id) /\ Buffered(id))'
  BY <1>11, <1>12 DEF Counted, OneServerLoads, Buffered, Overtaken, Ids
<1> QED
  BY <1>13, <1>14, <1>15 DEF Ids, WaitsForOwn

LEMMA ReplyInv ==
  ASSUME Inv, Reply
  PROVE  Inv'
<1> USE DEF Inv, Reply
<1>1. PICK k \in Ids, s \in Servers :
        /\ [id |-> k, server |-> s] \in network
        /\ network' = network \ {[id |-> k, server |-> s]}
        /\ mailbox' = Append(mailbox, [kind |-> "reply", id |-> k, server |-> s])
  BY DEF TypeOK, AtServer
<1>2. s \in AtServers(k) /\ s \notin Answered(k)
  BY <1>1 DEF AtServers, EachOnce
<1>3. PICK m \in Request \cup Answer : m = [kind |-> "reply", id |-> k, server |-> s]
  BY DEF Answer
<1>4. m \notin InBox /\ mailbox' = Append(mailbox, m) /\ mailbox \in Seq(Request \cup Answer)
  BY <1>1, <1>2, <1>3 DEF Answered, TypeOK
<1>5. \A i, j \in DOMAIN mailbox : mailbox[i] = mailbox[j] => i = j
  BY DEF EachOnce
<1>6. /\ InBox' = InBox \cup {m} /\ mailbox' \in Seq(Request \cup Answer)
      /\ \A i, j \in DOMAIN mailbox' : mailbox'[i] = mailbox'[j] => i = j
  BY ONLY <1>4, <1>5, PutInBox
<1>7. \A id : (Asked(id)' <=> Asked(id)) /\ (id # k => Answered(id)' = Answered(id))
  BY <1>3, <1>6 DEF Asked, Answered
<1>8. Answered(k)' = Answered(k) \cup {s}
  BY <1>3, <1>6 DEF Answered
<1>9. AtServers(k)' = AtServers(k) \ {s} /\ \A id : id # k => AtServers(id)' = AtServers(id)
  BY <1>1 DEF AtServers
<1>10. \A id : ToSend(id)' = ToSend(id) /\ ToNotify(id)' = ToNotify(id)
  BY DEF ToSend, ToNotify
<1>11. \A id : NotCopied(id)' = NotCopied(id) /\ Out(id)' = Out(id)
  <2>1. NotCopied(k)' = NotCopied(k)
    BY <1>2, <1>8, <1>9, <1>10 DEF NotCopied
  <2>2. \A id : id # k => NotCopied(id)' = NotCopied(id)
    BY <1>7, <1>9, <1>10 DEF NotCopied
  <2> QED
    BY <1>10, <2>1, <2>2 DEF Out
<1>12. TypeOK'
  BY <1>1, <1>6, SameTypes DEF TypeOK
<1>13. EachOnce'
  <2>1. ASSUME NEW id \in Ids
        PROVE  /\ ToSend(id)' \cap (AtServers(id)' \cup Answered(id)' \cup ToNotify(id)') = {}
               /\ AtServers(id)' \cap (Answered(id)' \cup ToNotify(id)') = {}
               /\ Answered(id)' \cap ToNotify(id)' = {}
    <3>1. CASE id = k
      BY <1>2, <1>8, <1>9, <1>10, <3>1 DEF EachOnce
    <3>2. CASE id # k
      BY <1>7, <1>9, <1>10, <3>2 DEF EachOnce
    <3> QED
      BY <3>1, <3>2
  <2> QED
    BY <1>6, <2>1 DEF EachOnce, Ids
<1>14. \A id \in Ids : (Counted(id) /\ OneServerLoads(id) /\ Buffered(id))'
  BY <1>7, <1>11 DEF Counted, OneServerLoads, Buffered, Overtaken, Ids
<1> QED
  BY <1>12, <1>13, <1>14 DEF Ids, WaitsForOwn

LEMMA PopReplyInv ==
  ASSUME Inv, NEW t \in Threads, PopReply(t)
  PROVE  Inv'
<1> USE DEF Inv, PopReply
<1>1. /\ Head(mailbox) \in InBox /\ Head(mailbox) \in Request \cup Answer
      /\ InBox' = InBox \ {Head(mailbox)}
      /\ mailbox' \in Seq(Request \cup Answer)
      /\ \A i, j \in DOMAIN mailbox' : mailbox'[i] = mailbox'[j] => i = j
  BY TakeFromBox DEF TypeOK, EachOnce, Pop
<1>2. PICK k \in Ids, s \in Servers : Head(mailbox) = [kind |-> "reply", id |-> k, server |-> s]
  BY <1>1 DEF Pop, Request, Answer
<1>3. /\ thread' = [thread EXCEPT ![t] =
           [at |-> "notify", id |-> k, left |-> {}, server |-> s]]
      /\ calls[k].op = "Get" =>
           filled' = [filled EXCEPT ![data] = filled[data] \cup {[id |-> k, server |-> s]}]
      /\ calls[k].op # "Get" => filled' = filled
  <2>1. PICK m : m = Head(mailbox)
    OBVIOUS
  <2>2. m.id = k /\ m.server = s
    BY <1>2, <2>1
  <2>3. /\ thread' = [thread EXCEPT ![t] =
             [at |-> "notify", id |-> m.id, left |-> {}, server |-> m.server]]
        /\ filled' = IF calls[m.id].op = "Get"
                     THEN [filled EXCEPT ![data] =
                             filled[data] \cup {[id |-> m.id, server |-> m.server]}]
                     ELSE filled
    BY <2>1 DEF CopyReply
  <2> QED
    BY <2>2, <2>3
<1>4. s \in Answered(k) /\ s \in Out(k) /\ s \notin ToNotify(k)
      /\ s \notin ToSend(k) /\ s \notin AtServers(k)
  BY <1>1, <1>2 DEF Answered, Out, NotCopied, EachOnce
<1>5. waitings[k].live /\ ~Asked(k) /\ s \in calls[k].to
  BY <1>4 DEF Counted
<1>6. \A u \in Threads : u # t => thread'[u] = thread[u]
  BY <1>3 DEF TypeOK
<1>7. /\ thread'[t].at = "notify" /\ thread'[t].id = k /\ thread'[t].left = {}
      /\ thread'[t].server = s /\ thread[t].at = "pop"
  BY <1>3 DEF TypeOK, Free, Pop
<1>8. \A id : (Asked(id)' <=> Asked(id)) /\ (id # k => Answered(id)' = Answered(id))
  BY <1>1, <1>2 DEF Asked, Answered
<1>9. Answered(k)' = Answered(k) \ {s}
  BY <1>1, <1>2 DEF Answered
<1>10. \A id : /\ ToSend(id)' = ToSend(id) /\ AtServers(id)' = AtServers(id)
               /\ id # k => ToNotify(id)' = ToNotify(id)
  BY <1>6, <1>7 DEF ToSend, ToNotify, AtServers
<1>11. ToNotify(k)' = ToNotify(k) \cup {s}
  <2>1. \A x \in Servers : x \in ToNotify(k)' <=> x \in ToNotify(k) \/ x = s
    BY <1>6, <1>7 DEF ToNotify
  <2> QED
    BY <2>1 DEF ToNotify
<1>12. /\ NotCopied(k)' = NotCopied(k) \ {s} /\ Out(k)' = Out(k)
       /\ \A id : id # k => NotCopied(id)' = NotCopied(id) /\ Out(id)' = Out(id)
  <2>1. NotCopied(k)' = NotCopied(k) \ {s}
    BY <1>4, <1>9, <1>10 DEF NotCopied
  <2>2. Out(k)' = Out(k)
    BY <1>4, <1>11, <2>1 DEF Out
  <2> QED
    BY <1>8, <1>10, <2>1, <2>2 DEF NotCopied, Out
<1>13. /\ filled' \in Seq(SUBSET AtServer) /\ Len(filled') = Len(filled)
       /\ calls[k].op = "Get" =>
            /\ data \in Ids /\ (data = k \/ k \in calls[data].over)
            /\ filled'[data] = filled[data] \cup {[id |-> k, server |-> s]}
       /\ \A id \in Ids : calls[k].op # "Get" \/ id # data => filled'[id] = filled[id]
  <2>1. CASE calls[k].op = "Get"
    <3>1. data \in Ids /\ (data = k \/ k \in calls[data].over)
      BY <1>5, <2>1 DEF Buffered
    <3>2. filled \in Seq(SUBSET AtServer) /\ data \in 1..Len(filled) /\ Ids = 1..Len(filled)
      BY <3>1 DEF TypeOK, Ids
    <3>3. filled[data] \in SUBSET AtServer
      BY <3>2, ElementOfSeq
    <3>4. PICK new \in SUBSET AtServer : new = filled[data] \cup {[id |-> k, server |-> s]}
      <4>1. [id |-> k, server |-> s] \in AtServer
        BY DEF AtServer
      <4>2. filled[data] \cup {[id |-> k, server |-> s]} \in SUBSET AtServer
        BY <3>3, <4>1
      <4> QED
        BY <4>2
    <3>5. filled' = [filled EXCEPT ![data] = new]
      BY <1>3, <2>1, <3>4
    <3>6. /\ filled' \in Seq(SUBSET AtServer) /\ Len(filled') = Len(filled)
          /\ filled'[data] = new
          /\ \A id \in 1..Len(filled) : id # data => filled'[id] = filled[id]
      BY ONLY <3>2, <3>5, ReplaceOne
    <3> QED
      BY <2>1, <3>1, <3>2, <3>4, <3>6
  <2>2. CASE calls[k].op # "Get"
    BY <1>3, <2>2 DEF TypeOK
  <2> QED
    BY <2>1, <2>2
<1>14. TypeOK'
  <2>1. [at |-> "notify", id |-> k, left |-> {}, server |-> s] \in Notifier
    BY DEF Notifier
  <2>2. thread' \in [Threads -> {Free} \cup Sender \cup Notifier]
    BY <1>3, <2>1 DEF TypeOK
  <2> QED
    BY <1>1, <1>13, <2>2, SameTypes DEF TypeOK
<1>15. EachOnce'
  <2>1. ASSUME NEW u \in Threads, u # t, thread[u].at = "notify", thread[u].id = k
        PROVE  thread[u].server # s
    BY <1>4, <2>1 DEF ToNotify
  <2>2. ASSUME NEW u \in Threads, NEW v \in Threads,
               thread'[u].at = thread'[v].at, thread'[u].id = thread'[v].id,
               thread'[u].server = thread'[v].server, thread'[u] # Free
        PROVE  u = v
    <3>1. CASE u # t /\ v # t
      BY <1>6, <2>2, <3>1 DEF EachOnce
    <3>2. CASE u = t \/ v = t
      BY <1>6, <1>7, <2>1, <2>2, <3>2
    <3> QED
      BY <3>1, <3>2
  <2>3. ASSUME NEW id \in Ids
        PROVE  /\ ToSend(id)' \cap (AtServers(id)' \cup Answered(id)' \cup ToNotify(id)') = {}
               /\ AtServers(id)' \cap (Answered(id)' \cup ToNotify(id)') = {}
               /\ Answered(id)' \cap ToNotify(id)' = {}
    <3>1. CASE id = k
      BY <1>4, <1>9, <1>10, <1>11, <3>1 DEF EachOnce
    <3>2. CASE id # k
      BY <1>8, <1>10, <3>2 DEF EachOnce
    <3> QED
      BY <3>1, <3>2
  <2> QED
    BY <1>1, <2>2, <2>3 DEF EachOnce, Ids
<1>16. ASSUME NEW id \in Ids PROVE (Counted(id) /\ OneServerLoads(id) /\ Buffered(id))'
  <2>1. Counted(id)' /\ OneServerLoads(id)'
    BY <1>5, <1>8, <1>12 DEF Counted, OneServerLoads
  <2>2. ASSUME calls[id].op = "Get" PROVE Buffered(id)'
    <3>1. /\ waitings[id].live => data \in Ids /\ (data = id \/ id \in calls[data].over)
          /\ \A p \in filled[id] : p.id \in {id} \cup calls[id].over /\ p.server \in calls[p.id].to
          /\ ~Overtaken(id) /\ ~Asked(id) =>
               \A x \in calls[id].to \ NotCopied(id) : [id |-> id, server |-> x] \in filled[id]
      BY <2>2 DEF Buffered
    <3>a. PICK new : new = [id |-> k, server |-> s]
      OBVIOUS
    <3>2. new = [id |-> k, server |-> s] /\ new.id = k /\ new.server = s
      BY <3>a
    <3>3. \A p \in filled'[id] :
            p \in filled[id] \/ (p = new /\ calls[k].op = "Get" /\ id = data)
      BY <1>13, <3>2
    <3>4. \A p \in filled'[id] : p.id \in {id} \cup calls[id].over /\ p.server \in calls[p.id].to
      BY <1>5, <1>13, <3>1, <3>2, <3>3
    <3>5. filled[id] \subseteq filled'[id]
      BY <1>13
    <3>6. ASSUME ~Overtaken(id), ~Asked(id), NEW x \in calls[id].to \ NotCopied(id)'
          PROVE  [id |-> id, server |-> x] \in filled'[id]
      <4>1. CASE x \notin NotCopied(id)
        BY <3>1, <3>5, <3>6, <4>1
      <4>2. CASE x \in NotCopied(id)
        <5>1. id = k /\ x = s
          BY <1>12, <3>6, <4>2
        <5>2. data = k
          BY <1>13, <2>2, <3>6, <5>1 DEF Overtaken
        <5> QED
          BY <1>13, <2>2, <5>1, <5>2
      <4> QED
        BY <4>1, <4>2
    <3>7. (Overtaken(id)' <=> Overtaken(id)) /\ (Asked(id)' <=> Asked(id)) /\ Ids' = Ids
      BY <1>8 DEF Overtaken, Ids
    <3> QED
      BY <3>1, <3>4, <3>6, <3>7 DEF Buffered
  <2>3. calls[id].op # "Get" => Buffered(id)'
    BY DEF Buffered
  <2> QED
    BY <2>1, <2>2, <2>3
<1> QED
  BY <1>14, <1>15, <1>16 DEF Ids, WaitsForOwn

LEMMA NotifyInv ==
  ASSUME Inv, NEW t \in Threads, Notify(t)
  PROVE  Inv'
<1> USE DEF Inv, Notify
<1>1. thread[t] \in Notifier
  BY DEF TypeOK, Free, Sender
<1>2. PICK k \in Ids, s \in Servers :
        thread[t] = [at |-> "notify", id |-> k, left |-> {}, server |-> s]
  BY <1>1 DEF Notifier
<1>3. s \in ToNotify(k) /\ s \in Out(k)
  BY <1>2 DEF ToNotify, Out
<1>4. waitings[k].live /\ ~Asked(k) /\ waitings[k].num = Cardinality(Out(k))
  BY <1>3 DEF Counted
<1>5. PICK n \in Int : n = waitings[k].num - 1
  BY <1>4, OutFinite
<1>6. /\ waitings' = [waitings EXCEPT ![k].num = n]
      /\ client' = Wake(k) /\ thread' = [thread EXCEPT ![t] = Free] /\ UNCHANGED failed
      /\ TypeOK
  BY <1>2, <1>4, <1>5
<1>7. /\ waitings' \in Seq([live : BOOLEAN, num : Int]) /\ Len(waitings') = Len(waitings)
      /\ waitings'[k].num = n /\ (waitings'[k].live <=> waitings[k].live)
      /\ \A id \in Ids : id # k => waitings'[id] = waitings[id]
  BY ONLY <1>6, ChangeCount
<1>8. thread'[t] = Free /\ \A u \in Threads : u # t => thread'[u] = thread[u]
  BY <1>6 DEF TypeOK
<1>9. ASSUME NEW u \in Threads, u # t, thread[u].at = "notify", thread[u].id = k
      PROVE  thread[u].server # s
  BY <1>2, <1>9 DEF EachOnce, Free
<1>10. \A id : /\ Asked(id)' <=> Asked(id)
               /\ ToSend(id)' = ToSend(id) /\ AtServers(id)' = AtServers(id)
               /\ Answered(id)' = Answered(id) /\ (id # k => ToNotify(id)' = ToNotify(id))
  BY <1>2, <1>8 DEF Asked, ToSend, AtServers, Answered, ToNotify, InBox, Free
<1>11. ToNotify(k)' = ToNotify(k) \ {s}
  <2>1. \A x \in Servers : x \in ToNotify(k)' <=> x \in ToNotify(k) /\ x # s
    BY <1>2, <1>8, <1>9 DEF ToNotify, Free
  <2> QED
    BY <2>1 DEF ToNotify
<1>12. /\ \A id : NotCopied(id)' = NotCopied(id)
       /\ \A id : id # k => Out(id)' = Out(id)
       /\ Out(k)' = Out(k) \ {s}
  <2>1. s \notin NotCopied(k)
    BY <1>3 DEF NotCopied, EachOnce
  <2> QED
    BY <1>10, <1>11, <2>1 DEF NotCopied, Out
<1>13. Cardinality(Out(k)') = n /\ n \in Nat
  <2>1. IsFiniteSet(Out(k)) /\ Cardinality(Out(k)) \in Nat
    BY OutFinite
  <2>2. Cardinality(Out(k) \ {s}) = Cardinality(Out(k)) - 1
    BY <1>3, <2>1, FS_RemoveElement
  <2>3. Cardinality(Out(k) \ {s}) \in Nat
    BY <2>1, FS_RemoveElement, FS_CardinalityType
  <2> QED
    BY <1>4, <1>5, <1>12, <2>2, <2>3
<1>14. ASSUME NEW c \in Clients
       PROVE  /\ client'[c] \in {Ready} \cup Waits
              /\ client[c] = Ready => client'[c] = Ready
              /\ client[c] # Ready => client'[c].id = client[c].id
              /\ client'[c].at = "delete" => client'[c] = client[c]
  BY <1>2, <1>6 DEF Wake, TypeOK, Waits, Ready
<1>15. TypeOK'
  <2>1. client' \in [Clients -> {Ready} \cup Waits]
    BY <1>6, <1>14 DEF Wake
  <2>2. thread' \in [Threads -> {Free} \cup Sender \cup Notifier]
    BY <1>6 DEF TypeOK
  <2> QED
    BY <1>7, <2>1, <2>2, SameTypes DEF TypeOK
<1>16. EachOnce'
  <2>1. ASSUME NEW u \in Threads, NEW v \in Threads,
               thread'[u].at = thread'[v].at, thread'[u].id = thread'[v].id,
               thread'[u].server = thread'[v].server, thread'[u] # Free
        PROVE  u = v
    <3>1. u # t
      BY <1>8, <2>1
    <3>2. thread[u].at # "pop"
      BY <1>8, <2>1, <3>1 DEF TypeOK, Sender, Notifier
    <3>3. v # t
      BY <1>8, <2>1, <3>1, <3>2 DEF Free
    <3> QED
      BY <1>8, <2>1, <3>1, <3>3 DEF EachOnce
  <2> QED
    BY <1>10, <1>11, <2>1 DEF EachOnce, Ids
<1>17. ASSUME NEW id \in Ids PROVE (Counted(id) /\ OneServerLoads(id) /\ Buffered(id))'
  <2>1. CASE id = k
    <3>1. Counted(k)'
      BY <1>4, <1>7, <1>10, <1>12, <1>13 DEF Counted
    <3>2. OneServerLoads(k)' /\ Buffered(k)'
      BY <1>7, <1>10, <1>12 DEF OneServerLoads, Buffered, Overtaken, Ids
    <3> QED
      BY <2>1, <3>1, <3>2
  <2>2. CASE id # k
    <3>1. waitings'[id] = waitings[id] /\ Out(id)' = Out(id) /\ NotCopied(id)' = NotCopied(id)
      BY <1>7, <1>12, <2>2
    <3>2. Asked(id)' <=> Asked(id)
      BY <1>10
    <3> QED
      BY <3>1, <3>2 DEF Counted, OneServerLoads, Buffered, Overtaken, Ids
  <2> QED
    BY <2>1, <2>2
<1>18. ASSUME NEW c \in Clients PROVE WaitsForOwn(c)'
  <2>1. CASE client[c] = Ready
    BY <1>14, <2>1 DEF WaitsForOwn
  <2>2. CASE client[c] # Ready
    <3>1. client[c].id \in Ids /\ client'[c].id = client[c].id
      BY <1>14, <2>2 DEF TypeOK, Waits
    <3>2. CASE client[c].id = k
      <4>1. client'[c].at # "delete"
        BY <1>4, <1>5, <1>13, <1>14, <2>2, <3>2 DEF WaitsForOwn
      <4> QED
        BY <1>4, <1>7, <2>2, <3>1, <3>2, <4>1 DEF WaitsForOwn
    <3>3. CASE client[c].id # k
      BY <1>7, <1>14, <2>2, <3>1, <3>3 DEF WaitsForOwn
    <3> QED
      BY <3>2, <3>3
  <2> QED
    BY <2>1, <2>2
<1> QED
  BY <1>6, <1>15, <1>16, <1>17, <1>18 DEF Ids

LEMMA CallInv ==
  ASSUME LoadWithOne, Inv, NEW c \in Clients, NEW op \in Ops, NEW to, NEW at,
         \/ op \in {"Get", "Add"} /\ to \in Targets
         \/ op \in {"Load", "Store"} /\ to = servers,
         at \in {"lookup", "ready"}, Call(c, op, to, at)
  PROVE  Inv'
<1> USE DEF Inv
<1>1. PICK k \in Nat : k = Len(calls) + 1
  BY LenProperties DEF TypeOK
<1>0. PICK over \in SUBSET Nat :
        over = (IF op = "Get" THEN GetsUnderWay ELSE {}) /\ over \subseteq Ids
  <2>1. GetsUnderWay \subseteq Ids
    BY DEF GetsUnderWay
  <2>2. Ids \subseteq Nat
    BY LenProperties DEF Ids, TypeOK
  <2>3. /\ (IF op = "Get" THEN GetsUnderWay ELSE {}) \in SUBSET Nat
        /\ (IF op = "Get" THEN GetsUnderWay ELSE {}) \subseteq Ids
    BY <2>1, <2>2
  <2> QED
    BY <2>3, Zenon
<1>2. /\ calls'    = Append(calls, [client |-> c, op |-> op, to |-> to, over |-> over])
      /\ waitings' = Append(waitings, [live |-> TRUE, num |-> 1])
      /\ filled'   = Append(filled, {})
      /\ mailbox'  = Append(mailbox, [kind |-> "request", id |-> k, server |-> 0])
      /\ data'     = IF op = "Get" THEN k ELSE data
      /\ client'   = [client EXCEPT ![c] = IF at = "ready" THEN Ready ELSE [at |-> at, id |-> k]]
      /\ UNCHANGED <<servers, thread, network, failed>>
      /\ op \in {"Load", "Store"} => Cardinality(servers) = 1
      /\ client[c] = Ready
  <2>1. calls' = Append(calls, [client |-> c, op |-> op, to |-> to,
                                over |-> IF op = "Get" THEN GetsUnderWay ELSE {}])
    BY DEF Call
  <2>2. calls' = Append(calls, [client |-> c, op |-> op, to |-> to, over |-> over])
    BY <1>0, <2>1, Zenon
  <2> QED
    BY <1>1, <2>2 DEF Call, LoadWithOne
<1>3. PICK call \in CallRecord :
        call = [client |-> c, op |-> op, to |-> to, over |-> over]
  <2>1. to \in (SUBSET Servers) \ {{}} /\ op \in Op
    BY WorkerTableAssumption DEF TypeOK
  <2> QED
    BY <2>1 DEF CallRecord
<1>4. /\ calls' \in Seq(CallRecord) /\ Len(calls') = k
      /\ calls'[k] = call /\ \A id \in Ids : calls'[id] = calls[id]
  <2>1. calls \in Seq(CallRecord) /\ calls' = Append(calls, call)
    BY <1>2, <1>3 DEF TypeOK
  <2> QED
    BY ONLY <1>1, <2>1, AppendOne DEF Ids
<1>5. /\ waitings' \in Seq([live : BOOLEAN, num : Int]) /\ Len(waitings') = k
      /\ waitings'[k].live /\ waitings'[k].num = 1
      /\ \A id \in Ids : waitings'[id] = waitings[id]
  <2> DEFINE W == [live : BOOLEAN, num : Int]
  <2>1. PICK w \in W : w = [live |-> TRUE, num |-> 1]
    <3>1. 1 \in Int
      OBVIOUS
    <3>2. [live |-> TRUE, num |-> 1] \in [live : BOOLEAN, num : Int]
      BY <3>1, Zenon
    <3> QED
      BY <3>2
  <2>2. w.live /\ w.num = 1
    BY <2>1
  <2>3. waitings \in Seq(W) /\ waitings' = Append(waitings, w) /\ Len(waitings) = Len(calls)
    BY <1>2, <2>1 DEF TypeOK
  <2> HIDE DEF W
  <2>4. /\ waitings' \in Seq(W) /\ Len(waitings') = k /\ waitings'[k] = w
        /\ \A id \in Ids : waitings'[id] = waitings[id]
    BY ONLY <1>1, <2>3, AppendOne DEF Ids
  <2> QED
    BY <2>2, <2>4 DEF W
<1>6. /\ filled' \in Seq(SUBSET AtServer) /\ Len(filled') = k
      /\ filled'[k] = {} /\ \A id \in Ids : filled'[id] = filled[id]
  <2>1. PICK e \in SUBSET AtServer : e = {}
    OBVIOUS
  <2>2. filled \in Seq(SUBSET AtServer) /\ filled' = Append(filled, e) /\ Len(filled) = Len(calls)
    BY <1>2, <2>1 DEF TypeOK
  <2>3. /\ filled' \in Seq(SUBSET AtServer) /\ Len(filled') = k /\ filled'[k] = e
        /\ \A id \in Ids : filled'[id] = filled[id]
    BY ONLY <1>1, <2>2, AppendOne DEF Ids
  <2> QED
    BY <2>1, <2>3
<1>7. Ids' = Ids \cup {k} /\ k \notin Ids
  BY <1>1, <1>4, LenProperties DEF TypeOK, Ids
<1>8. /\ Waits \subseteq Waits' /\ AtServer \subseteq AtServer' /\ Request \subseteq Request'
      /\ Answer \subseteq Answer' /\ Sender \subseteq Sender' /\ Notifier \subseteq Notifier'
  BY <1>7 DEF Waits, AtServer, Request, Answer, Sender, Notifier
<1>9. PICK m \in Request' : m = [kind |-> "request", id |-> k, server |-> 0]
  BY <1>7 DEF Request
<1>10. \A x \in InBox : x \in Request \cup Answer
  BY ElementOfSeq, LenProperties DEF InBox, TypeOK
<1>11. m \notin InBox /\ \A s : [kind |-> "reply", id |-> k, server |-> s] \notin InBox
  BY <1>7, <1>9, <1>10 DEF Request, Answer
<1>12. /\ InBox' = InBox \cup {m} /\ mailbox' \in Seq(Request' \cup Answer')
       /\ \A i, j \in DOMAIN mailbox' : mailbox'[i] = mailbox'[j] => i = j
  <2>1. mailbox \in Seq(Request \cup Answer) /\ mailbox' = Append(mailbox, m)
    BY <1>2, <1>9 DEF TypeOK
  <2>2. mailbox \in Seq(Request' \cup Answer')
    BY ONLY <1>8, <2>1, WiderSeq
  <2>3. \A i, j \in DOMAIN mailbox : mailbox[i] = mailbox[j] => i = j
    BY DEF EachOnce
  <2>4. m \in Request' \cup Answer'
    OBVIOUS
  <2> QED
    BY ONLY <1>11, <2>1, <2>2, <2>3, <2>4, PutInBox
<1>13. \A id : /\ Asked(id)' <=> (Asked(id) \/ id = k)
               /\ Answered(id)' = Answered(id)
  BY <1>9, <1>12 DEF Asked, Answered
<1>14. \A id : /\ ToSend(id)' = ToSend(id) /\ AtServers(id)' = AtServers(id)
               /\ ToNotify(id)' = ToNotify(id)
  BY <1>2 DEF ToSend, AtServers, ToNotify
<1>15. \A id : NotCopied(id)' = NotCopied(id) /\ Out(id)' = Out(id)
  BY <1>13, <1>14 DEF NotCopied, Out
<1>16. ToSend(k) = {} /\ AtServers(k) = {} /\ Answered(k) = {} /\ ToNotify(k) = {}
  <2>1. ToSend(k) = {} /\ ToNotify(k) = {}
    BY <1>7 DEF ToSend, ToNotify, TypeOK, Sender, Notifier, Free
  <2>2. AtServers(k) = {}
    BY <1>7 DEF AtServers, TypeOK, AtServer
  <2>3. Answered(k) = {}
    BY <1>11 DEF Answered
  <2> QED
    BY <2>1, <2>2, <2>3
<1>17. TypeOK'
  <2>1. client' \in [Clients -> {Ready} \cup Waits']
    <3>1. at # "ready" => [at |-> at, id |-> k] \in Waits'
      BY <1>7 DEF Waits
    <3> QED
      BY <1>2, <1>8, <3>1 DEF TypeOK
  <2>2. filled' \in Seq(SUBSET AtServer')
    BY <1>6, <1>8, WiderSeq
  <2>3. thread' \in [Threads -> {Free} \cup Sender' \cup Notifier']
    BY <1>2, <1>8 DEF TypeOK
  <2>4. network' \subseteq AtServer' /\ data' \in Nat /\ servers' \in ServerSets
    BY <1>1, <1>2, <1>8 DEF TypeOK
  <2> QED
    BY <1>4, <1>5, <1>6, <1>12, <2>1, <2>2, <2>3, <2>4 DEF TypeOK
<1>18. EachOnce'
  <2>1. ASSUME NEW id \in Ids'
        PROVE  /\ ToSend(id)' \cap (AtServers(id)' \cup Answered(id)' \cup ToNotify(id)') = {}
               /\ AtServers(id)' \cap (Answered(id)' \cup ToNotify(id)') = {}
               /\ Answered(id)' \cap ToNotify(id)' = {}
    BY <1>7, <1>13, <1>14, <1>16 DEF EachOnce
  <2> QED
    BY <1>2, <1>12, <2>1 DEF EachOnce
<1>19. ASSUME NEW id \in Ids' PROVE (Counted(id) /\ OneServerLoads(id) /\ Buffered(id))'
  <2>1. CASE id = k
    <3>1. Out(k) = {}
      BY <1>16 DEF Out, NotCopied
    <3>2. call.op = op /\ call.to = to /\ call.over = over
      BY <1>3
    <3>3. Counted(k)'
      BY <1>4, <1>5, <1>13, <1>15, <3>1 DEF Counted
    <3>4. OneServerLoads(k)'
      BY <1>2, <1>4, <3>2 DEF OneServerLoads
    <3>5. Buffered(k)'
      <4>1. op = "Get" => data' = k
        BY <1>2
      <4>2. calls'[k].op = op /\ filled'[k] = {} /\ Asked(k)' /\ k \in Ids'
        BY <1>4, <1>6, <1>7, <1>13, <3>2
      <4> QED
        BY <4>1, <4>2 DEF Buffered
    <3> QED
      BY <2>1, <3>3, <3>4, <3>5
  <2>2. CASE id \in Ids
    <3>1. /\ id # k /\ calls'[id] = calls[id] /\ waitings'[id] = waitings[id]
          /\ filled'[id] = filled[id] /\ servers' = servers
          /\ Out(id)' = Out(id) /\ NotCopied(id)' = NotCopied(id)
      BY <1>2, <1>4, <1>5, <1>6, <1>7, <1>15, <2>2
    <3>2. Asked(id)' <=> Asked(id)
      BY <1>13, <3>1
    <3>3. Counted(id)' /\ OneServerLoads(id)'
      BY <2>2, <3>1, <3>2 DEF Counted, OneServerLoads
    <3>4. ASSUME calls[id].op = "Get", waitings[id].live
          PROVE  data' \in Ids' /\ (data' = id \/ id \in calls'[data'].over)
      <4>1. CASE op = "Get"
        <5>1. id \in over /\ data' = k
          BY <1>0, <1>2, <2>2, <3>4, <4>1 DEF GetsUnderWay
        <5>2. calls'[k].over = over
          BY <1>3, <1>4
        <5> QED
          BY <1>7, <5>1, <5>2
      <4>2. CASE op # "Get"
        <5>1. data' = data /\ data \in Ids /\ (data = id \/ id \in calls[data].over)
          BY <1>2, <2>2, <3>4, <4>2 DEF Buffered
        <5> QED
          BY <1>4, <1>7, <5>1
      <4> QED
        BY <4>1, <4>2
    <3>5. \A p \in filled[id] : p.id \in Ids
      <4>1. filled[id] \in SUBSET AtServer
        BY <2>2, ElementOfSeq DEF TypeOK, Ids
      <4> QED
        BY <4>1 DEF AtServer
    <3>6. Overtaken(id) => Overtaken(id)'
      BY <1>4, <1>7 DEF Overtaken
    <3>7. Buffered(id)'
      BY <1>4, <2>2, <3>1, <3>2, <3>4, <3>5, <3>6 DEF Buffered
    <3> QED
      BY <3>3, <3>7
  <2> QED
    BY <1>7, <2>1, <2>2
<1>20. ASSUME NEW d \in Clients PROVE WaitsForOwn(d)'
  <2>1. CASE d = c
    <3>1. client'[c] = Ready \/ (client'[c] = [at |-> "lookup", id |-> k])
      BY <1>2 DEF TypeOK
    <3>2. CASE client'[c] = Ready
      BY <2>1, <3>2 DEF WaitsForOwn
    <3>3. CASE client'[c] = [at |-> "lookup", id |-> k]
      BY <1>3, <1>4, <1>5, <2>1, <3>3 DEF WaitsForOwn
    <3> QED
      BY <3>1, <3>2, <3>3
  <2>2. CASE d # c
    <3>1. client'[d] = client[d]
      BY <1>2, <2>2 DEF TypeOK
    <3>2. client[d] # Ready => client[d].id \in Ids
      BY DEF TypeOK, Waits
    <3> QED
      BY <1>4, <1>5, <3>1, <3>2 DEF WaitsForOwn
  <2> QED
    BY <2>1, <2>2
<1> QED
  BY <1>2, <1>17, <1>18, <1>19, <1>20

-----------------------------------------------------------------------------
(* The invariant and what follows from it.                                   *)

LEMMA InitInv ==
  ASSUME Init
  PROVE  Inv
<1> USE DEF Init
<1>1. Len(calls) = 0 /\ Ids = {}
  BY DEF Ids
<1>2. TypeOK
  BY <1>1, EmptySeq DEF TypeOK
<1>3. EachOnce
  BY <1>1 DEF EachOnce, Free
<1>4. \A c \in Clients : WaitsForOwn(c)
  BY DEF WaitsForOwn
<1> QED
  BY <1>1, <1>2, <1>3, <1>4 DEF Inv

LEMMA NextInv ==
  ASSUME LoadWithOne, Inv, [Next]_vars
  PROVE  Inv'
<1>1. CASE UNCHANGED vars
  <2> USE <1>1 DEF vars, Inv
  <2>1. TypeOK'
    BY SameTypes DEF TypeOK
  <2>2. EachOnce'
    BY SameParts
  <2>3. \A id \in Ids : (Counted(id) /\ OneServerLoads(id) /\ Buffered(id))'
    BY SameParts DEF Counted, OneServerLoads, Buffered, Overtaken, Ids
  <2>4. \A c \in Clients : WaitsForOwn(c)'
    BY DEF WaitsForOwn
  <2> QED
    BY <2>1, <2>2, <2>3, <2>4 DEF Ids
<1>2. ASSUME NEW c \in Clients, CallBlocking(c) \/ CallAsync(c) PROVE Inv'
  <2>1. PICK op \in Ops, to \in SUBSET Servers, at \in {"lookup", "ready"} :
          /\ \/ op \in {"Get", "Add"} /\ to \in Targets
             \/ op \in {"Load", "Store"} /\ to = servers
          /\ Call(c, op, to, at)
    <3>1. servers \in SUBSET Servers /\ Targets \subseteq SUBSET Servers
      BY WorkerTableAssumption DEF Inv, TypeOK
    <3> QED
      BY <1>2, <3>1 DEF CallBlocking, CallAsync
  <2> QED
    BY <2>1, CallInv
<1>3. ASSUME NEW c \in Clients, StartWait(c) \/ Waiting(c) PROVE Inv'
  BY <1>3, StartWaitInv, LookupInv, TestInv, DeleteInv DEF Waiting
<1>4. ASSUME NEW t \in Threads, Handle(t) PROVE Inv'
  BY <1>4, PopGetAddInv, PopLoadStoreInv, SendInv, PopReplyInv, NotifyInv DEF Handle
<1> QED
  BY <1>1, <1>2, <1>3, <1>4, ReplyInv DEF Next, Quiet

\* The inductive invariant holds in every reachable state.
THEOREM WorkerTableInvariant ==
  ASSUME LoadWithOne
  PROVE  Spec => []Inv
<1>1. Init => Inv
  BY InitInv
<1>2. Inv /\ [Next]_vars => Inv'
  BY NextInv
<1> QED
  BY <1>1, <1>2, PTL DEF Spec

\* The CHECKs of Wait, Reset and Notify never fail (table_interface.cc:121, 135,
\* 142) when Load and Store have one server to wait for.
THEOREM WaiterIsAlwaysThere ==
  ASSUME LoadWithOne
  PROVE  Spec => []WaiterIsThere
<1>1. Inv => WaiterIsThere
  BY DEF Inv, WaiterIsThere
<1> QED
  BY <1>1, WorkerTableInvariant, PTL

\* When WorkerTable::Wait has deleted the Waiter of a call, no request, reply or
\* thread of the worker still belongs to the call.
THEOREM WaitReturnsLast ==
  ASSUME LoadWithOne
  PROVE  Spec => []ReturnsLast
<1>1. Inv => ReturnsLast
  <2>1. SUFFICES ASSUME Inv, NEW id \in Ids, ~waitings[id].live, Pending(id) PROVE FALSE
    BY DEF ReturnsLast
  <2>2. ~Asked(id) /\ Out(id) = {}
    BY <2>1 DEF Inv, Counted
  <2>3. ASSUME NEW i \in DOMAIN mailbox PROVE mailbox[i].id # id
    <3>1. mailbox[i] \in Request \cup Answer /\ mailbox[i] \in InBox
      BY <2>1, ElementOfSeq, LenProperties DEF Inv, TypeOK, InBox
    <3> QED
      BY <2>2, <3>1 DEF Request, Answer, Asked, Answered, Out, NotCopied
  <2>4. ASSUME NEW t \in Threads, thread[t].id = id PROVE FALSE
    <3>1. thread[t] \in Sender \cup Notifier
      BY <2>1, <2>4 DEF Inv, TypeOK, Free, Ids
    <3> QED
      BY <2>2, <2>4, <3>1 DEF Sender, Notifier, ToSend, ToNotify, Out, NotCopied
  <2>5. ASSUME NEW r \in network PROVE r.id # id
    BY <2>1, <2>2 DEF Inv, TypeOK, AtServer, AtServers, Out, NotCopied
  <2> QED
    BY <2>1, <2>3, <2>4, <2>5 DEF Pending
<1> QED
  BY <1>1, WorkerTableInvariant, PTL

\* A Get that has returned, and that no other Get overtook, has in its buffer the
\* answer of every server it involves; besides these a buffer has only answers to
\* the Gets it overtook (ArrayWorker::ProcessReplyGet).
THEOREM GetsFillTheirBuffers ==
  ASSUME LoadWithOne
  PROVE  Spec => []GetFillsBuffer
<1>1. Inv => GetFillsBuffer
  <2> SUFFICES ASSUME Inv, NEW id \in Ids, calls[id].op = "Get"
               PROVE  /\ \A p \in filled[id] :
                           p.id \in {id} \cup calls[id].over /\ p.server \in calls[p.id].to
                      /\ ~waitings[id].live /\ ~Overtaken(id) =>
                           \A s \in calls[id].to : [id |-> id, server |-> s] \in filled[id]
    BY DEF GetFillsBuffer
  <2>1. ~waitings[id].live => ~Asked(id) /\ NotCopied(id) = {}
    BY DEF Inv, Counted, Out
  <2> QED
    BY <2>1 DEF Inv, Buffered
<1> QED
  BY <1>1, WorkerTableInvariant, PTL
=============================================================================
