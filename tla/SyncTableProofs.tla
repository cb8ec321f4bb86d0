-------------------------- MODULE SyncTableProofs --------------------------
(* Proofs about SyncTable, for workers that make the same calls.             *)
EXTENDS SyncTable, SyncServerProofs, WellFoundedInduction

\* All workers run the same program: they make the same calls, which involve
\* the same servers.
EqualPrograms ==
  \A p \in Plans : \A v, w \in Workers : p[1][v] = p[1][w] /\ Len(p[1][w]) < MaxInt

Common == Prog(CHOOSE w \in Workers : TRUE)
Size   == Len(Common)

\* The program as server s sees it.
At(s) == [k \in 1..Size |-> IF s \in Common[k].to THEN Common[k].op ELSE "none"]

\* Server s has not answered the last call of worker w yet.
Pending(s, w) ==
  issued[w] \in 1..Size /\ s \in Common[issued[w]].to /\ issued[w] \notin server[s].answered[w]

\* How many calls of each worker server s is done with.
Done(s) ==
  [w \in Workers |-> IF Pending(s, w) THEN issued[w] - 1
                     ELSE IF issued[w] <= Size THEN issued[w] ELSE Size]

TypeOK ==
  /\ plan \in Plans /\ issued \in [Workers -> Nat]
  /\ transit \in [Servers -> SUBSET Message]
  /\ server \in [Servers -> Server]
  /\ finishing \in [Servers -> SUBSET Workers]

\* A call of w is in a cache of server s.
Cached(s, w) == InCache(server[s].addCache, w) \/ InCache(server[s].getCache, w)

\* What is on its way to a server is the last call of its worker, or its leave;
\* what is in a cache is no longer on its way.
TransitOK(s) ==
  \A m \in transit[s] :
    \/ m.k = issued[m.src] /\ Pending(s, m.src) /\ ~Cached(s, m.src)
    \/ m.k = 0 /\ issued[m.src] = Size + 1

SafeAt(s) ==
  /\ ServerOK(server[s], At(s), Done(s), Size)
  /\ TransitOK(s)
  /\ \A w \in Workers : Cached(s, w) => Pending(s, w)
  /\ \A w \in finishing[s] : issued[w] = Size + 1

Inv ==
  /\ TypeOK
  /\ \A w \in Workers : issued[w] <= Size + 1
  /\ \A s \in Servers : SafeAt(s)

-----------------------------------------------------------------------------
(* The common program.                                                       *)

\* The common program, and how each server sees it.
LEMMA CommonIs ==
  ASSUME EqualPrograms, plan \in Plans
  PROVE  /\ \A w \in Workers : Prog(w) = Common
         /\ Size \in Nat /\ Size < MaxInt /\ DOMAIN Common = 1..Size
         /\ \A k \in 1..Size : Common[k].op \in Op /\ Common[k].to \subseteq Servers
         /\ \A s \in Servers :
              /\ Program(At(s), Size)
              /\ \A k \in 1..Size :
                   At(s)[k] = IF s \in Common[k].to THEN Common[k].op ELSE "none"
<1> DEFINE x == CHOOSE w \in Workers : TRUE
           C == [op : Op, to : (SUBSET Servers) \ {{}}]
<1>1. x \in Workers
  BY WorkersAssumption
<1>2. /\ \A v, w \in Workers : plan[1][v] = plan[1][w] /\ Len(plan[1][w]) < MaxInt
      /\ plan[1] \in [Workers -> Seq(C)]
  BY PlansAssumption DEF EqualPrograms
<1>3. Common = plan[1][x]
  BY DEF Common, Prog
<1> HIDE DEF x
<1>4. /\ \A w \in Workers : Prog(w) = Common
      /\ Common \in Seq(C) /\ Size < MaxInt
  BY <1>1, <1>2, <1>3 DEF Prog, Size
<1> HIDE DEF C
<1>5. Size \in Nat /\ DOMAIN Common = 1..Size /\ \A k \in 1..Size : Common[k] \in C
  <2>1. \A c \in Seq(C) : Len(c) \in Nat /\ DOMAIN c = 1..Len(c) /\ \A k \in 1..Len(c) : c[k] \in C
    OBVIOUS
  <2> QED
    BY <1>4, <2>1 DEF Size
<1>6. \A k \in 1..Size : Common[k].op \in Op /\ Common[k].to \subseteq Servers
  BY <1>5 DEF C
<1>7. ASSUME NEW s \in Servers
      PROVE  /\ Program(At(s), Size)
             /\ \A k \in 1..Size :
                  At(s)[k] = IF s \in Common[k].to THEN Common[k].op ELSE "none"
  <2>1. At(s) \in [1..Size -> Op \cup {"none"}]
    BY <1>6 DEF At
  <2> QED
    BY <1>4, <1>5, <2>1 DEF Program, At
<1> QED
  BY <1>4, <1>5, <1>6, <1>7

\* The program does not change.
LEMMA SamePlan ==
  ASSUME plan' = plan
  PROVE  Common' = Common /\ Size' = Size /\ \A s : At(s)' = At(s)
BY DEF Common, Prog, Size, At

\* Where a worker is, as a server sees it.
LEMMA DoneIs ==
  ASSUME EqualPrograms, plan \in Plans, issued \in [Workers -> Nat],
         NEW s, NEW w \in Workers, issued[w] <= Size + 1
  PROVE  /\ Pending(s, w) => Done(s)[w] = issued[w] - 1 /\ issued[w] \in 1..Size
         /\ ~Pending(s, w) /\ issued[w] <= Size => Done(s)[w] = issued[w]
         /\ issued[w] = Size + 1 => Done(s)[w] = Size /\ ~Pending(s, w)
<1>1. Size \in Nat /\ issued[w] \in Nat
  BY CommonIs
<1> QED
  BY <1>1 DEF Done, Pending

\* A server where nothing happens.
LEMMA NothingHappens ==
  ASSUME NEW s \in Servers, SafeAt(s), plan' = plan, issued' = issued,
         server'[s] = server[s], transit'[s] = transit[s], finishing'[s] = finishing[s]
  PROVE  SafeAt(s)'
<1>1. Common' = Common /\ Size' = Size /\ At(s)' = At(s)
  BY SamePlan
<1>2. \A w : Pending(s, w)' <=> Pending(s, w)
  BY <1>1 DEF Pending
<1>3. Done(s)' = Done(s)
  BY <1>1, <1>2 DEF Done
<1>4. \A w : Cached(s, w)' <=> Cached(s, w)
  BY DEF Cached
<1> QED
  BY <1>1, <1>2, <1>3, <1>4 DEF SafeAt, TransitOK

\* A server puts a call of w aside, or marks w as gone.
LEMMA CallPutAside ==
  ASSUME NEW s \in Servers, SafeAt(s), TypeOK, plan' = plan, issued' = issued, NEW w \in Workers,
         Waits(server[s], server'[s], w, At(s), Done(s), Size),
         Pending(s, w) \/ (Cached(s, w)' => Cached(s, w)),
         transit'[s] \subseteq transit[s], \A m \in transit'[s] : m.src = w => m.k = 0,
         \A v \in finishing'[s] : issued[v] = Size + 1
  PROVE  SafeAt(s)'
<1>1. Common' = Common /\ Size' = Size /\ At(s)' = At(s)
  BY SamePlan
<1>2. ServerOK(server'[s], At(s), Done(s), Size) /\ server'[s].answered = server[s].answered
  BY DEF Waits
<1>3. \A v : Pending(s, v)' <=> Pending(s, v)
  BY <1>1, <1>2 DEF Pending
<1>4. Done(s)' = Done(s)
  BY <1>1, <1>3 DEF Done
<1>5. \A v : v # w => (Cached(s, v)' <=> Cached(s, v))
  BY DEF Cached, Waits, Untouched
<1>6. TransitOK(s)'
  <2> SUFFICES ASSUME NEW m \in transit'[s]
               PROVE  \/ m.k = issued[m.src] /\ Pending(s, m.src) /\ ~Cached(s, m.src)'
                      \/ m.k = 0 /\ issued[m.src] = Size + 1
    BY <1>1, <1>3 DEF TransitOK
  <2>1. m \in transit[s] /\ (m.src = w => m.k = 0)
    OBVIOUS
  <2>2. Pending(s, m.src) => issued[m.src] # 0
    BY DEF Pending
  <2> QED
    BY <1>5, <2>1, <2>2 DEF SafeAt, TransitOK
<1>7. ASSUME NEW v \in Workers, Cached(s, v)' PROVE Pending(s, v)
  BY <1>5, <1>7 DEF SafeAt
<1> QED
  BY <1>1, <1>2, <1>3, <1>4, <1>6, <1>7 DEF SafeAt

\* A server answers a call that it has received or held.
LEMMA CallAnswered ==
  ASSUME EqualPrograms, NEW s \in Servers, SafeAt(s), TypeOK, plan' = plan, issued' = issued,
         NEW m, m.src \in Workers, issued[m.src] <= Size + 1, Pending(s, m.src),
         m.k = issued[m.src],
         Serves(server[s], server'[s], m, At(s), Done(s), Size),
         transit'[s] \subseteq transit[s], \A n \in transit'[s] : n.src = m.src => n.k = 0,
         finishing'[s] = finishing[s]
  PROVE  SafeAt(s)'
<1> DEFINE w == m.src
<1>1. Common' = Common /\ Size' = Size /\ At(s)' = At(s)
  BY SamePlan
<1>2. PICK e : OneMore(e, Done(s), w) /\ ServerOK(server'[s], At(s), e, Size)
  BY DEF Serves
<1>3. /\ server[s].answered \in [Workers -> SUBSET Nat]
      /\ server'[s].answered = [server[s].answered EXCEPT ![w] = @ \cup {m.k}]
  BY DEF Serves, TypeOK, Server
<1>4. ~Pending(s, w)'
  BY <1>1, <1>3 DEF Pending
<1>5. \A v \in Workers : v # w => (Pending(s, v)' <=> Pending(s, v))
  BY <1>1, <1>3 DEF Pending
<1>6. /\ issued[w] \in 1..Size /\ Size \in Nat /\ Done(s)[w] = issued[w] - 1
  BY CommonIs, DoneIs DEF TypeOK
<1>7. Done(s)'[w] = issued[w] /\ \A v \in Workers : v # w => Done(s)'[v] = Done(s)[v]
  BY <1>1, <1>4, <1>5, <1>6 DEF Done
<1>8. Done(s)' = e
  <2>1. /\ e = [Done(s) EXCEPT ![w] = Done(s)[w] + 1]
    BY <1>2 DEF OneMore
  <2>2. Done(s) = [v \in Workers |-> Done(s)[v]] /\ Done(s)' = [v \in Workers |-> Done(s)'[v]]
    BY DEF Done
  <2>3. issued[w] - 1 + 1 = issued[w]
    BY <1>6
  <2> QED
    BY <1>6, <1>7, <2>1, <2>2, <2>3
<1>9. /\ ~Cached(s, w)' /\ \A v : v # w => (Cached(s, v)' <=> Cached(s, v))
  BY DEF Cached, Serves, Untouched
<1>10. TransitOK(s)'
  <2> SUFFICES ASSUME NEW n \in transit'[s]
               PROVE  \/ n.k = issued[n.src] /\ Pending(s, n.src)' /\ ~Cached(s, n.src)'
                      \/ n.k = 0 /\ issued[n.src] = Size + 1
    BY <1>1 DEF TransitOK
  <2>1. n \in transit[s] /\ (n.src = w => n.k = 0) /\ n.src \in Workers
    BY DEF TypeOK, Message
  <2>2. Pending(s, n.src) => issued[n.src] # 0
    BY DEF Pending
  <2> QED
    BY <1>5, <1>9, <2>1, <2>2 DEF SafeAt, TransitOK
<1>11. ASSUME NEW v \in Workers, Cached(s, v)' PROVE Pending(s, v)'
  BY <1>5, <1>9, <1>11 DEF SafeAt
<1>12. ServerOK(server'[s], At(s), Done(s)', Size)
  BY <1>2, <1>8
<1> QED
  BY <1>1, <1>10, <1>11, <1>12 DEF SafeAt

-----------------------------------------------------------------------------
(* The actions.                                                              *)

\* Initially nothing has been called.
LEMMA InitInv ==
  ASSUME EqualPrograms, Init
  PROVE  Inv
<1>1. plan \in Plans
  BY DEF Init
<1>2. Size \in Nat /\ \A s \in Servers : Program(At(s), Size)
  BY <1>1, CommonIs
<1>3. \A w \in Workers : issued[w] = 0
  BY DEF Init
<1>4. ASSUME NEW s \in Servers PROVE SafeAt(s)
  <2>1. \A w \in Workers : ~Pending(s, w)
    BY <1>3 DEF Pending
  <2>2. Done(s) = [w \in Workers |-> 0]
    BY <1>2, <1>3, <2>1 DEF Done
  <2>3. server[s] = InitServer /\ transit[s] = {} /\ finishing[s] = {}
    BY DEF Init
  <2>4. ServerOK(server[s], At(s), Done(s), Size)
    BY <1>2, <2>2, <2>3, NewServer
  <2>5. \A w : ~Cached(s, w)
    BY <2>3 DEF Cached, InCache, InitServer
  <2> QED
    BY <2>3, <2>4, <2>5 DEF SafeAt, TransitOK
<1>5. TypeOK
  <2>1. ASSUME NEW s \in Servers PROVE server[s] \in Server
    BY <1>4, <2>1 DEF SafeAt, ServerOK
  <2> QED
    BY <1>1, <2>1 DEF TypeOK, Init
<1> QED
  BY <1>2, <1>3, <1>4, <1>5 DEF Inv

\* A worker whose call is back is not waited for by any server.
LEMMA NotPending ==
  ASSUME EqualPrograms, Inv, NEW w \in Workers, AllBack(w), issued[w] <= Size
  PROVE  \A s \in Servers : /\ ~Pending(s, w) /\ ~Cached(s, w) /\ Done(s)[w] = issued[w]
                            /\ \A m \in transit[s] : m.src # w
<1>1. plan \in Plans /\ issued \in [Workers -> Nat] /\ issued[w] \in Nat
  BY DEF Inv, TypeOK
<1>2. Prog(w) = Common /\ Size \in Nat
  BY <1>1, CommonIs
<1> SUFFICES ASSUME NEW s \in Servers
             PROVE  /\ ~Pending(s, w) /\ ~Cached(s, w) /\ Done(s)[w] = issued[w]
                    /\ \A m \in transit[s] : m.src # w
  OBVIOUS
<1>3. ~Pending(s, w)
  BY <1>1, <1>2 DEF Pending, AllBack, Answered
<1>4. SafeAt(s)
  BY DEF Inv
<1>5. ~Cached(s, w)
  BY <1>3, <1>4 DEF SafeAt
<1>6. Done(s)[w] = issued[w]
  BY <1>1, <1>2, <1>3, DoneIs
<1>7. \A m \in transit[s] : m.src # w
  BY <1>1, <1>2, <1>3, <1>4 DEF SafeAt, TransitOK
<1> QED
  BY <1>3, <1>5, <1>6, <1>7

\* A call changes the position of its worker at the servers it passes by.
LEMMA IssueInv ==
  ASSUME EqualPrograms, Inv, NEW w \in Workers, Issue(w)
  PROVE  Inv'
<1> DEFINE k == issued[w] + 1
<1>1. /\ TypeOK /\ plan \in Plans /\ issued \in [Workers -> Nat] /\ issued[w] \in Nat
      /\ \A v \in Workers : issued[v] <= Size + 1
  BY DEF Inv, TypeOK
<1>2. /\ Prog(w) = Common /\ Size \in Nat /\ \A s \in Servers : Program(At(s), Size)
      /\ \A s \in Servers : \A j \in 1..Size :
           At(s)[j] = IF s \in Common[j].to THEN Common[j].op ELSE "none"
  BY <1>1, CommonIs
<1>3. /\ issued[w] < Size /\ AllBack(w) /\ issued' = [issued EXCEPT ![w] = k]
      /\ transit' = [s \in Servers |->
           IF s \in Common[k].to THEN transit[s] \cup {[src |-> w, k |-> k]} ELSE transit[s]]
      /\ plan' = plan /\ server' = server /\ finishing' = finishing
  BY <1>2 DEF Issue, Size
<1>4. Common' = Common /\ Size' = Size /\ \A s : At(s)' = At(s)
  BY <1>3, SamePlan
<1>5. k \in 1..Size /\ k \in Nat /\ issued'[w] = k /\ \A v \in Workers : v # w => issued'[v] = issued[v]
  BY <1>1, <1>2, <1>3
<1>6. \A s \in Servers : /\ ~Pending(s, w) /\ ~Cached(s, w) /\ Done(s)[w] = issued[w]
                         /\ \A m \in transit[s] : m.src # w
  BY <1>1, <1>2, <1>3, NotPending
<1>7. ASSUME NEW s \in Servers PROVE SafeAt(s)'
  <2>1. SafeAt(s)
    BY DEF Inv
  <2>2. \A v \in Workers : v # w => (Pending(s, v)' <=> Pending(s, v))
    BY <1>3, <1>4, <1>5 DEF Pending
  <2>3. \A v \in Workers : v # w => Done(s)'[v] = Done(s)[v]
    BY <1>4, <1>5, <2>2 DEF Done
  <2>4. \A v : Cached(s, v)' <=> Cached(s, v)
    BY <1>3 DEF Cached
  <2>5. k \notin server[s].answered[w]
    <3>1. Books(server[s].answered, server[s].params, At(s), Done(s))
      BY <2>1 DEF SafeAt, ServerOK
    <3>2. server[s].answered[w] \subseteq 1..issued[w]
      BY <1>6, <3>1 DEF Books
    <3> QED
      BY <1>1, <3>2
  <2>6. Pending(s, w)' <=> s \in Common[k].to
    BY <1>3, <1>4, <1>5, <2>5 DEF Pending
  <2>7. \A v \in Workers : Cached(s, v)' => Pending(s, v)'
    BY <1>6, <2>1, <2>2, <2>4 DEF SafeAt
  <2>8. \A v \in finishing'[s] : issued'[v] = Size + 1
    <3>1. finishing[s] \subseteq Workers
      BY <1>1 DEF TypeOK
    <3> QED
      BY <1>1, <1>2, <1>3, <1>5, <2>1, <3>1 DEF SafeAt
  <2>9. TransitOK(s)'
    <3> SUFFICES ASSUME NEW m \in transit'[s]
                 PROVE  \/ m.k = issued'[m.src] /\ Pending(s, m.src)' /\ ~Cached(s, m.src)
                        \/ m.k = 0 /\ issued'[m.src] = Size + 1
      BY <1>4, <2>4 DEF TransitOK
    <3>1. CASE m \in transit[s]
      <4>1. m.src \in Workers /\ m.src # w
        BY <1>1, <1>6, <3>1 DEF TypeOK, Message
      <4> QED
        BY <1>5, <2>1, <2>2, <3>1, <4>1 DEF SafeAt, TransitOK
    <3>2. CASE m \notin transit[s]
      <4>1. m = [src |-> w, k |-> k] /\ s \in Common[k].to
        BY <1>3, <3>2
      <4>2. m.src = w /\ m.k = k
        BY <4>1
      <4> QED
        BY <1>5, <1>6, <2>6, <4>1, <4>2
    <3> QED
      BY <3>1, <3>2
  <2>10. ServerOK(server[s], At(s), Done(s)', Size)
    <3>1. Done(s) = [v \in Workers |-> Done(s)[v]] /\ Done(s)' = [v \in Workers |-> Done(s)'[v]]
      BY DEF Done
    <3>2. CASE s \in Common[k].to
      <4>1. Done(s)'[w] = Done(s)[w]
        BY <1>1, <1>4, <1>5, <1>6, <2>6, <3>2 DEF Done
      <4>2. Done(s)' = Done(s)
        BY <2>3, <3>1, <4>1
      <4> QED
        BY <2>1, <4>2 DEF SafeAt
    <3>3. CASE s \notin Common[k].to
      <4>1. Done(s)'[w] = k
        BY <1>2, <1>4, <1>5, <2>6, <3>3 DEF Done
      <4>2. Done(s)' = [Done(s) EXCEPT ![w] = Done(s)[w] + 1]
        BY <1>6, <2>3, <3>1, <4>1
      <4>3. OneMore(Done(s)', Done(s), w)
        BY <4>2 DEF OneMore
      <4>4. Done(s)[w] < Size /\ At(s)[Done(s)[w] + 1] = "none"
        BY <1>2, <1>3, <1>5, <1>6, <3>3
      <4> QED
        BY <1>2, <2>1, <4>3, <4>4, CallPassesBy DEF SafeAt
    <3> QED
      BY <3>2, <3>3
  <2> QED
    BY <1>3, <1>4, <2>7, <2>8, <2>9, <2>10 DEF SafeAt
<1>8. TypeOK'
  <2>1. issued' \in [Workers -> Nat]
    BY <1>1, <1>3, <1>5
  <2>2. [src |-> w, k |-> k] \in Message
    BY <1>5 DEF Message
  <2>3. transit' \in [Servers -> SUBSET Message]
    BY <1>1, <1>3, <2>2 DEF TypeOK
  <2> QED
    BY <1>1, <1>3, <2>1, <2>3 DEF TypeOK
<1>9. \A v \in Workers : issued'[v] <= Size' + 1
  BY <1>1, <1>2, <1>4, <1>5
<1> QED
  BY <1>7, <1>8, <1>9 DEF Inv

\* A worker that leaves has been answered everywhere.
LEMMA SendFinishInv ==
  ASSUME EqualPrograms, Inv, NEW w \in Workers, SendFinish(w)
  PROVE  Inv'
<1>1. /\ TypeOK /\ plan \in Plans /\ issued \in [Workers -> Nat] /\ issued[w] \in Nat
      /\ \A v \in Workers : issued[v] <= Size + 1
  BY DEF Inv, TypeOK
<1>2. Prog(w) = Common /\ Size \in Nat
  BY <1>1, CommonIs
<1>3. /\ issued[w] = Size /\ AllBack(w) /\ issued' = [issued EXCEPT ![w] = Size + 1]
      /\ transit' = [s \in Servers |-> transit[s] \cup {[src |-> w, k |-> 0]}]
      /\ plan' = plan /\ server' = server /\ finishing' = finishing
  BY <1>2 DEF SendFinish, Size
<1>4. Common' = Common /\ Size' = Size /\ \A s : At(s)' = At(s)
  BY <1>3, SamePlan
<1>5. issued'[w] = Size + 1 /\ \A v \in Workers : v # w => issued'[v] = issued[v]
  BY <1>1, <1>3
<1>6. \A s \in Servers : /\ ~Pending(s, w) /\ ~Cached(s, w) /\ Done(s)[w] = issued[w]
                         /\ \A m \in transit[s] : m.src # w
  BY <1>1, <1>2, <1>3, NotPending
<1>7. ASSUME NEW s \in Servers PROVE SafeAt(s)'
  <2>1. SafeAt(s)
    BY DEF Inv
  <2>2. \A v \in Workers : v # w => (Pending(s, v)' <=> Pending(s, v))
    BY <1>3, <1>4, <1>5 DEF Pending
  <2>3. ~Pending(s, w)'
    BY <1>2, <1>4, <1>5 DEF Pending
  <2>4. \A v : Cached(s, v)' <=> Cached(s, v)
    BY <1>3 DEF Cached
  <2>5. Done(s)' = Done(s)
    <3>1. \A v \in Workers : v # w => Done(s)'[v] = Done(s)[v]
      BY <1>4, <1>5, <2>2 DEF Done
    <3>2. Done(s)'[w] = Done(s)[w]
      BY <1>2, <1>3, <1>4, <1>5, <1>6, <2>3 DEF Done
    <3>3. Done(s) = [v \in Workers |-> Done(s)[v]] /\ Done(s)' = [v \in Workers |-> Done(s)'[v]]
      BY DEF Done
    <3> QED
      BY <3>1, <3>2, <3>3
  <2>6. \A v \in Workers : Cached(s, v)' => Pending(s, v)'
    BY <1>6, <2>1, <2>2, <2>4 DEF SafeAt
  <2>7. \A v \in finishing'[s] : issued'[v] = Size + 1
    <3>1. finishing[s] \subseteq Workers
      BY <1>1 DEF TypeOK
    <3> QED
      BY <1>3, <1>5, <2>1, <3>1 DEF SafeAt
  <2>8. TransitOK(s)'
    <3> SUFFICES ASSUME NEW m \in transit'[s]
                 PROVE  \/ m.k = issued'[m.src] /\ Pending(s, m.src)' /\ ~Cached(s, m.src)
                        \/ m.k = 0 /\ issued'[m.src] = Size + 1
      BY <1>4, <2>4 DEF TransitOK
    <3>1. CASE m \in transit[s]
      <4>1. m.src \in Workers /\ m.src # w
        BY <1>1, <1>6, <3>1 DEF TypeOK, Message
      <4> QED
        BY <1>5, <2>1, <2>2, <3>1, <4>1 DEF SafeAt, TransitOK
    <3>2. CASE m \notin transit[s]
      <4>1. m = [src |-> w, k |-> 0]
        BY <1>3, <3>2
      <4>2. m.src = w /\ m.k = 0
        BY <4>1
      <4> QED
        BY <1>5, <4>2
    <3> QED
      BY <3>1, <3>2
  <2> QED
    BY <1>3, <1>4, <2>1, <2>5, <2>6, <2>7, <2>8 DEF SafeAt
<1>8. TypeOK'
  <2>1. issued' \in [Workers -> Nat]
    BY <1>1, <1>2, <1>3
  <2>2. [src |-> w, k |-> 0] \in Message
    BY DEF Message
  <2>3. transit' \in [Servers -> SUBSET Message]
    BY <1>1, <1>3, <2>2 DEF TypeOK
  <2> QED
    BY <1>1, <1>3, <2>1, <2>3 DEF TypeOK
<1>9. \A v \in Workers : issued'[v] <= Size' + 1
  BY <1>1, <1>2, <1>4, <1>5
<1> QED
  BY <1>7, <1>8, <1>9 DEF Inv

\* A step of one server keeps the invariant if it keeps that server sound.
LEMMA OneServer ==
  ASSUME EqualPrograms, Inv, NEW s \in Servers, plan' = plan, issued' = issued, NEW t,
         server' = [server EXCEPT ![s] = t], SafeAt(s)',
         transit' \in [Servers -> SUBSET Message], finishing' \in [Servers -> SUBSET Workers],
         \A r \in Servers : r # s => transit'[r] = transit[r] /\ finishing'[r] = finishing[r]
  PROVE  Inv'
<1>1. TypeOK /\ \A v \in Workers : issued[v] <= Size + 1
  BY DEF Inv
<1>2. Size' = Size
  BY SamePlan
<1>3. server'[s] \in Server
  BY DEF SafeAt, ServerOK
<1>4. \A r \in Servers : r # s => server'[r] = server[r]
  BY <1>1 DEF TypeOK
<1>5. ASSUME NEW r \in Servers PROVE SafeAt(r)'
  <2>1. CASE r = s
    BY <2>1
  <2>2. CASE r # s
    <3>1. SafeAt(r)
      BY DEF Inv
    <3> QED
      BY <1>4, <2>2, <3>1, NothingHappens
  <2> QED
    BY <2>1, <2>2
<1>6. server' \in [Servers -> Server]
  BY <1>1, <1>3 DEF TypeOK
<1>7. TypeOK'
  BY <1>1, <1>6 DEF TypeOK
<1> QED
  BY <1>1, <1>2, <1>5, <1>7 DEF Inv

\* A server takes a call, or the leave of a worker.
LEMMA ReceiveInv ==
  ASSUME EqualPrograms, Inv, NEW s \in Servers, NEW m \in transit[s], Receive(s, m)
  PROVE  Inv'
<1> DEFINE w == m.src
<1>1. /\ TypeOK /\ plan \in Plans /\ issued \in [Workers -> Nat] /\ SafeAt(s)
      /\ m \in Message /\ w \in Workers /\ issued[w] <= Size + 1
  BY DEF Inv, TypeOK, Message
<1>2. /\ Prog(w) = Common /\ Size \in Nat /\ Program(At(s), Size)
      /\ \A k \in 1..Size : At(s)[k] = IF s \in Common[k].to THEN Common[k].op ELSE "none"
  BY <1>1, CommonIs
<1>3. /\ server[s].draining = "no" /\ plan' = plan /\ issued' = issued
      /\ transit' = [transit EXCEPT ![s] = @ \ {m}]
  BY DEF Receive, Ready
<1>4. /\ transit' \in [Servers -> SUBSET Message] /\ transit'[s] = transit[s] \ {m}
      /\ \A r \in Servers : r # s => transit'[r] = transit[r]
  BY <1>1, <1>3 DEF TypeOK
<1>5. \A n \in transit'[s] : n.src = w => n.k = 0
  <2> SUFFICES ASSUME NEW n \in transit'[s], n.src = w, n.k # 0 PROVE FALSE
    OBVIOUS
  <2>1. n \in transit[s] /\ n # m /\ n \in Message
    BY <1>1, <1>4 DEF TypeOK
  <2>2. n.k = issued[w] /\ Pending(s, w)
    BY <1>1, <2>1 DEF SafeAt, TransitOK
  <2>3. issued[w] # Size + 1
    BY <1>2, <2>2 DEF Pending
  <2>4. m.k = issued[w]
    BY <1>1, <2>3 DEF SafeAt, TransitOK
  <2>5. m = [src |-> m.src, k |-> m.k] /\ n = [src |-> n.src, k |-> n.k]
    BY <1>1, <2>1 DEF Message
  <2> QED
    BY <2>1, <2>2, <2>4, <2>5
<1>6. ServerOK(server[s], At(s), Done(s), Size) /\ \A v \in finishing[s] : issued[v] = Size + 1
  BY <1>1 DEF SafeAt
<1>7. CASE m.k > 0
  <2>1. m.k = issued[w] /\ Pending(s, w) /\ ~Cached(s, w)
    BY <1>1, <1>7 DEF SafeAt, TransitOK
  <2>2. /\ Done(s)[w] = issued[w] - 1 /\ issued[w] \in 1..Size /\ s \in Common[issued[w]].to
    BY <1>1, <2>1, DoneIs DEF Pending
  <2>3. Due(m, Common[m.k].op, At(s), Done(s), Size)
    BY <1>1, <1>2, <2>1, <2>2 DEF Due
  <2>4. ~InCache(server[s].addCache, w) /\ ~InCache(server[s].getCache, w)
    BY <2>1 DEF Cached
  <2>5. /\ finishing' = finishing
        /\ \/ Common[m.k].op = "Add" /\ server' = [server EXCEPT ![s] = ProcessAdd(@, m)]
           \/ Common[m.k].op = "Get" /\ server' = [server EXCEPT ![s] = ProcessGet(@, m)]
    BY <1>2, <1>7 DEF Receive
  <2>6. \/ Waits(server[s], server'[s], w, At(s), Done(s), Size)
        \/ Serves(server[s], server'[s], m, At(s), Done(s), Size)
    <3>1. CASE Common[m.k].op = "Add" /\ server' = [server EXCEPT ![s] = ProcessAdd(@, m)]
      <4>1. server'[s] = ProcessAdd(server[s], m)
        BY <1>1, <3>1 DEF TypeOK
      <4>2. \/ Waits(server[s], ProcessAdd(server[s], m), w, At(s), Done(s), Size)
            \/ Serves(server[s], ProcessAdd(server[s], m), m, At(s), Done(s), Size)
        BY <1>2, <1>3, <1>6, <2>3, <2>4, <3>1, AddArrives
      <4> QED
        BY <4>1, <4>2
    <3>2. CASE Common[m.k].op = "Get" /\ server' = [server EXCEPT ![s] = ProcessGet(@, m)]
      <4>1. server'[s] = ProcessGet(server[s], m)
        BY <1>1, <3>2 DEF TypeOK
      <4>2. \/ Waits(server[s], ProcessGet(server[s], m), w, At(s), Done(s), Size)
            \/ Serves(server[s], ProcessGet(server[s], m), m, At(s), Done(s), Size)
        BY <1>2, <1>3, <1>6, <2>3, <2>4, <3>2, GetArrives
      <4> QED
        BY <4>1, <4>2
    <3> QED
      BY <2>5, <3>1, <3>2
  <2>7. SafeAt(s)'
    <3>1. transit'[s] \subseteq transit[s] /\ finishing'[s] = finishing[s]
      BY <1>4, <2>5
    <3>2. CASE Waits(server[s], server'[s], w, At(s), Done(s), Size)
      BY <1>1, <1>3, <1>5, <1>6, <2>1, <3>1, <3>2, CallPutAside
    <3>3. CASE Serves(server[s], server'[s], m, At(s), Done(s), Size)
      BY <1>1, <1>3, <1>5, <2>1, <3>1, <3>3, CallAnswered
    <3> QED
      BY <2>6, <3>2, <3>3
  <2>8. finishing' \in [Servers -> SUBSET Workers]
    BY <1>1, <2>5 DEF TypeOK
  <2>9. PICK t : server' = [server EXCEPT ![s] = t]
    BY <2>5
  <2> QED
    BY <1>3, <1>4, <2>5, <2>7, <2>8, <2>9, OneServer
<1>8. CASE ~(m.k > 0)
  <2>1. m.k = 0
    BY <1>1, <1>8 DEF Message
  <2>2. issued[w] = Size + 1
    BY <1>1, <2>1 DEF SafeAt, TransitOK, Pending
  <2>3. Done(s)[w] = Size
    BY <1>1, <2>2, DoneIs
  <2>4. /\ server' = [server EXCEPT ![s] = FinishAdds(@, w)]
        /\ finishing' = [finishing EXCEPT ![s] = {w}]
    BY <1>8 DEF Receive
  <2>5. server'[s] = FinishAdds(server[s], w) /\ finishing'[s] = {w}
    BY <1>1, <2>4 DEF TypeOK
  <2>6. /\ Waits(server[s], FinishAdds(server[s], w), w, At(s), Done(s), Size)
        /\ SameCaches(server[s], FinishAdds(server[s], w))
    BY <1>1, <1>2, <1>3, <1>6, <2>3, Leaves
  <2>7. Waits(server[s], server'[s], w, At(s), Done(s), Size) /\ (Cached(s, w)' => Cached(s, w))
    BY <2>5, <2>6 DEF SameCaches, Cached
  <2>8. transit'[s] \subseteq transit[s]
    BY <1>4
  <2>9. SafeAt(s)'
    BY <1>1, <1>3, <1>5, <2>2, <2>5, <2>7, <2>8, CallPutAside
  <2>10. /\ finishing' \in [Servers -> SUBSET Workers]
         /\ \A r \in Servers : r # s => finishing'[r] = finishing[r]
    BY <1>1, <2>4 DEF TypeOK
  <2> QED
    BY <1>3, <1>4, <2>4, <2>9, <2>10, OneServer
<1> QED
  BY <1>7, <1>8

\* The second half of a leave.
LEMMA FinishRestInv ==
  ASSUME EqualPrograms, Inv, NEW s \in Servers, FinishRest(s)
  PROVE  Inv'
<1>1. TypeOK /\ plan \in Plans /\ issued \in [Workers -> Nat] /\ SafeAt(s)
  BY DEF Inv, TypeOK
<1>2. PICK w \in finishing[s] : server' = [server EXCEPT ![s] = FinishGets(@, w)]
  BY DEF FinishRest
<1>3. /\ server[s].draining = "no" /\ plan' = plan /\ issued' = issued /\ transit' = transit
      /\ finishing' = [finishing EXCEPT ![s] = {}]
  BY DEF FinishRest, Ready
<1>4. w \in Workers /\ issued[w] = Size + 1
  BY <1>1 DEF TypeOK, SafeAt
<1>5. issued[w] <= Size + 1 /\ Program(At(s), Size) /\ Size \in Nat
  BY <1>1, <1>4, CommonIs
<1>6. Done(s)[w] = Size /\ ~Pending(s, w)
  BY <1>1, <1>4, <1>5, DoneIs
<1>7. ServerOK(server[s], At(s), Done(s), Size)
  BY <1>1 DEF SafeAt
<1>8. server'[s] = FinishGets(server[s], w) /\ finishing'[s] = {}
  BY <1>1, <1>2, <1>3 DEF TypeOK
<1>9. /\ Waits(server[s], FinishGets(server[s], w), w, At(s), Done(s), Size)
      /\ SameCaches(server[s], FinishGets(server[s], w))
  BY <1>3, <1>4, <1>5, <1>6, <1>7, Leaves
<1>10. Waits(server[s], server'[s], w, At(s), Done(s), Size) /\ (Cached(s, w)' => Cached(s, w))
  BY <1>8, <1>9 DEF SameCaches, Cached
<1>11. \A m \in transit'[s] : m.src = w => m.k = 0
  BY <1>1, <1>3, <1>6 DEF SafeAt, TransitOK
<1>12. SafeAt(s)'
  BY <1>1, <1>3, <1>4, <1>8, <1>10, <1>11, CallPutAside
<1>13. /\ transit' \in [Servers -> SUBSET Message] /\ finishing' \in [Servers -> SUBSET Workers]
       /\ \A r \in Servers : r # s => transit'[r] = transit[r] /\ finishing'[r] = finishing[r]
  BY <1>1, <1>3 DEF TypeOK
<1> QED
  BY <1>2, <1>3, <1>12, <1>13, OneServer

\* A round of a draining loop.
LEMMA DrainInv ==
  ASSUME EqualPrograms, Inv, NEW s \in Servers, Drain(s)
  PROVE  Inv'
<1>1. /\ TypeOK /\ plan \in Plans /\ issued \in [Workers -> Nat] /\ SafeAt(s)
      /\ \A w \in Workers : issued[w] <= Size + 1
  BY DEF Inv, TypeOK
<1>2. /\ plan' = plan /\ issued' = issued /\ transit' = transit /\ finishing' = finishing
  BY DEF Drain
<1>3. Program(At(s), Size) /\ Size \in Nat
  BY <1>1, CommonIs
<1>4. ServerOK(server[s], At(s), Done(s), Size)
  BY <1>1 DEF SafeAt
<1>5. PICK t : server' = [server EXCEPT ![s] = t]
  BY DEF Drain
<1>6. PICK m : /\ m \in Message /\ Cached(s, m.src) /\ m.k = Done(s)[m.src] + 1
               /\ Serves(server[s], server'[s], m, At(s), Done(s), Size)
  <2>1. CASE server[s].draining = "gets" /\ server' = [server EXCEPT ![s] = DrainGet(@)]
    <3> DEFINE m == Head(server[s].getCache)
    <3>1. server'[s] = DrainGet(server[s])
      BY <1>1, <2>1 DEF TypeOK
    <3>2. /\ Due(m, "Get", At(s), Done(s), Size) /\ InCache(server[s].getCache, m.src)
          /\ Serves(server[s], DrainGet(server[s]), m, At(s), Done(s), Size)
      BY <1>3, <1>4, <2>1, GetDrained
    <3> HIDE DEF m
    <3> QED
      BY <3>1, <3>2 DEF Due, Cached
  <2>2. CASE server[s].draining = "adds" /\ server' = [server EXCEPT ![s] = DrainAdd(@)]
    <3> DEFINE m == Head(server[s].addCache)
    <3>1. server'[s] = DrainAdd(server[s])
      BY <1>1, <2>2 DEF TypeOK
    <3>2. /\ Due(m, "Add", At(s), Done(s), Size) /\ InCache(server[s].addCache, m.src)
          /\ Serves(server[s], DrainAdd(server[s]), m, At(s), Done(s), Size)
      BY <1>3, <1>4, <2>2, AddDrained
    <3> HIDE DEF m
    <3> QED
      BY <3>1, <3>2 DEF Due, Cached
  <2> QED
    BY <2>1, <2>2 DEF Drain
<1>7. m.src \in Workers /\ Pending(s, m.src)
  BY <1>1, <1>6 DEF SafeAt, Message
<1>8. m.k = issued[m.src]
  <2>1. Done(s)[m.src] = issued[m.src] - 1 /\ issued[m.src] \in Nat
    BY <1>1, <1>7, DoneIs
  <2> QED
    BY <1>6, <2>1
<1>9. \A n \in transit'[s] : n.src = m.src => n.k = 0
  BY <1>1, <1>2, <1>6 DEF SafeAt, TransitOK
<1>10. SafeAt(s)'
  BY <1>1, <1>2, <1>6, <1>7, <1>8, <1>9, CallAnswered
<1>11. transit' \in [Servers -> SUBSET Message] /\ finishing' \in [Servers -> SUBSET Workers]
  BY <1>1, <1>2 DEF TypeOK
<1> QED
  BY <1>2, <1>5, <1>10, <1>11, OneServer

\* The invariant is inductive.
LEMMA NextInv ==
  ASSUME EqualPrograms, Inv, [Next]_vars
  PROVE  Inv'
<1>1. ASSUME NEW w \in Workers, Work(w) PROVE Inv'
  BY <1>1, IssueInv, SendFinishInv DEF Work
<1>2. ASSUME NEW s \in Servers, Handle(s) PROVE Inv'
  BY <1>2, ReceiveInv, FinishRestInv, DrainInv DEF Handle
<1>3. ASSUME UNCHANGED vars PROVE Inv'
  <2>1. /\ plan' = plan /\ issued' = issued /\ transit' = transit /\ server' = server
        /\ finishing' = finishing
    BY <1>3 DEF vars
  <2>2. Size' = Size
    BY <2>1, SamePlan
  <2>3. \A s \in Servers : SafeAt(s)'
    BY <2>1, NothingHappens DEF Inv
  <2> QED
    BY <2>1, <2>2, <2>3 DEF Inv, TypeOK
<1> QED
  BY <1>1, <1>2, <1>3 DEF Next, AllFinished

\* With workers that run a common program, every server counts on its clocks
\* what it has answered, and holds back the calls it must.
THEOREM SyncTableInvariant ==
  ASSUME EqualPrograms
  PROVE  Spec => []Inv
<1>1. Init => Inv
  BY InitInv
<1>2. Inv /\ [Next]_vars => Inv'
  BY NextInv
<1> QED
  BY <1>1, <1>2, PTL DEF Spec

-----------------------------------------------------------------------------
(* What the invariant says.                                                  *)

\* No CHECK of a handler fails on any server (sync_scheduler.cc:42-98).
THEOREM TableChecksHold ==
  ASSUME EqualPrograms
  PROVE  Spec => []ChecksHold
<1>1. Inv => ChecksHold
  BY DEF Inv, SafeAt, ServerOK, ChecksHold
<1> QED
  BY <1>1, SyncTableInvariant, PTL

\* The replies, in terms of the calls of the program.
LEMMA InvAfterAllUpdates ==
  ASSUME EqualPrograms, Inv
  PROVE  AfterAllUpdates
<1>1. plan \in Plans /\ server \in [Servers -> Server]
  BY DEF Inv, TypeOK
<1> SUFFICES ASSUME NEW s \in Servers, NEW a \in server[s].replies, NEW w \in Workers
             PROVE  LET j == Cardinality(AddsBefore(a.src, a.k, s))
                        all == Cardinality(AddsBefore(w, Len(Prog(w)), s))
                    IN  a.params[w] = IF j <= all THEN j ELSE all
  BY DEF AfterAllUpdates
<1>2. /\ \A v \in Workers : Prog(v) = Common
      /\ Size \in Nat /\ \A k \in 1..Size : Common[k].op \in Op
      /\ \A k \in 1..Size : At(s)[k] = IF s \in Common[k].to THEN Common[k].op ELSE "none"
  BY <1>1, CommonIs
<1>3. a.src \in Workers
  BY <1>1 DEF Server, Reply
<1>4. Replied(server[s].replies, At(s), Size)
  BY DEF Inv, SafeAt, ServerOK
<1>5. /\ a.k \in 1..Size /\ a.params = [v \in Workers |-> Number(At(s), "Add", a.k)]
  BY <1>4 DEF Replied
<1>6. ASSUME NEW v \in Workers, NEW k \in 0..Size
      PROVE  Cardinality(AddsBefore(v, k, s)) = Number(At(s), "Add", k)
  <2>1. \A j \in 1..k : j \in 1..Size
    BY <1>2
  <2>2. AddsBefore(v, k, s) = {j \in 1..k : Common[j].op = "Add" /\ s \in Common[j].to}
    BY <1>2 DEF AddsBefore
  <2>3. {j \in 1..k : Common[j].op = "Add" /\ s \in Common[j].to} = {j \in 1..k : At(s)[j] = "Add"}
    BY <1>2, <2>1
  <2> QED
    BY <2>2, <2>3 DEF Number
<1>7. /\ Cardinality(AddsBefore(a.src, a.k, s)) = Number(At(s), "Add", a.k)
      /\ Cardinality(AddsBefore(w, Len(Prog(w)), s)) = Number(At(s), "Add", Size)
  <2>1. Len(Prog(w)) = Size
    BY <1>2 DEF Size
  <2>2. a.k \in 0..Size /\ Size \in 0..Size
    BY <1>2, <1>5
  <2> QED
    BY <1>3, <1>6, <2>1, <2>2
<1>8. Number(At(s), "Add", a.k) <= Number(At(s), "Add", Size)
  BY <1>2, <1>5, NumberMonotone
<1> QED
  BY <1>5, <1>7, <1>8

\* On every server a Get returns the parameters after the Adds before it, of
\* every worker (sync_scheduler.cc:18-20, 78-101).
THEOREM TableAfterAllUpdates ==
  ASSUME EqualPrograms
  PROVE  Spec => []AfterAllUpdates
BY SyncTableInvariant, InvAfterAllUpdates, PTL

\* Of some workers, one has made the fewest calls.
LEMMA Slowest ==
  ASSUME issued \in [Workers -> Nat], NEW H, H \subseteq Workers, H # {}
  PROVE  \E w \in H : \A v \in H : issued[w] <= issued[v]
<1> DEFINE R == {ss \in Nat \X Nat : ss[1] < ss[2]}
           S == {issued[w] : w \in H}
<1>1. IsWellFoundedOn(R, Nat)
  BY NatLessThanWellFounded DEF OpToRel
<1>2. S \subseteq Nat /\ S # {}
  OBVIOUS
<1> HIDE DEF R, S
<1>3. PICK n \in S : \A y \in S : ~(<<y, n>> \in R)
  BY <1>1, <1>2, WFMin
<1>4. PICK w \in H : n = issued[w]
  BY <1>3 DEF S
<1>5. ASSUME NEW v \in H PROVE issued[w] <= issued[v]
  <2>1. issued[v] \in S /\ issued[v] \in Nat /\ issued[w] \in Nat
    BY DEF S
  <2>2. issued[v] < issued[w] => <<issued[v], issued[w]>> \in R
    BY <2>1 DEF R
  <2> QED
    BY <1>3, <1>4, <2>1, <2>2
<1> QED
  BY <1>5

\* A call that a cache holds waits for a worker that is behind at that server.
LEMMA HeldBack ==
  ASSUME NEW s \in Server, NEW P, NEW L, Program(P, L), NEW d, ServerOK(s, P, d, L),
         s.draining = "no", NEW w \in Workers, InCache(s.addCache, w) \/ InCache(s.getCache, w)
  PROVE  \E v \in Workers : \E j \in 1..L : d[v] < j /\ j <= d[w] /\ P[j] \in Op
<1>1. Sched("Add", s.add, s.get, s.addCache, s.getCache, P, d, L, "no")
  BY DrainedIs DEF ServerOK
<1>2. Sched("Get", s.get, s.add, s.getCache, s.addCache, P, d, L, "no")
  BY <1>1, OtherIs, SchedSwap
<1>3. ASSUME NEW op \in Op, NEW own, NEW other, NEW cache, NEW rest,
             Sched(op, own, other, cache, rest, P, d, L, "no"), InCache(cache, w)
      PROVE  \E v \in Workers : \E j \in 1..L : d[v] < j /\ j <= d[w] /\ P[j] \in Op
  <2> DEFINE o == Other(op)
  <2>1. /\ d \in [Workers -> 0..L] /\ OnePhase(P, d)
        /\ Half(op, own, other, cache, P, d, L, "no") /\ Half(o, other, own, rest, P, d, L, "no")
    BY <1>3 DEF Sched
  <2>2. o \in Op /\ op # "no" /\ o # "no"
    BY OtherIs
  <2>3. /\ Holds(cache, op, P, d, L) /\ Counts(other, o, P, d, L)
        /\ \A i \in 1..Len(cache) : other.global < other.local[cache[i].src]
    BY <2>1, <2>2 DEF Half
  <2>4. PICK i \in 1..Len(cache) : cache[i].src = w
    BY <1>3 DEF InCache
  <2>5. d[w] < L /\ other.global < other.local[w]
    BY <2>1, <2>3, <2>4, CachedIs
  <2>6. PICK v \in Workers : other.global = other.local[v]
    BY <2>3 DEF Counts, GlobalIsMin
  <2> HIDE DEF o
  <2>7. /\ L \in Nat /\ MaxInt \in Nat /\ L < MaxInt /\ d[v] \in Nat /\ d[w] \in Nat
        /\ other.local[w] = Number(P, o, d[w]) /\ Number(P, o, d[w]) <= L
        /\ Number(P, o, d[w]) \in Nat /\ other.local[v] \in Nat
        /\ (other.local[v] # MaxInt => other.local[v] = Number(P, o, d[v]))
    BY <2>1, <2>3, <2>5, Running
  <2>8. Number(P, o, d[v]) < Number(P, o, d[w])
    BY <2>5, <2>6, <2>7
  <2>9. d[v] < d[w]
    BY <2>1, <2>2, <2>7, <2>8, AheadByKind
  <2>10. PICK j \in (d[v] + 1)..d[w] : P[j] = o
    <3> SUFFICES ASSUME \A j \in (d[v] + 1)..d[w] : P[j] # o PROVE FALSE
      OBVIOUS
    <3>1. Number(P, o, d[v]) = Number(P, o, d[w])
      BY <2>7, <2>9, NumberSame
    <3> QED
      BY <2>7, <2>8, <3>1
  <2>11. j \in 1..L /\ d[v] < j /\ j <= d[w]
    BY <2>5, <2>7, <2>10
  <2> QED
    BY <2>2, <2>10, <2>11
<1>4. CASE InCache(s.addCache, w)
  BY <1>1, <1>3, <1>4, OtherIs
<1>5. CASE InCache(s.getCache, w)
  BY <1>2, <1>3, <1>5, OtherIs
<1> QED
  BY <1>4, <1>5

\* Of the workers held back, take the one with the fewest calls: the worker it
\* waits for has made fewer, so no cache holds it.
LEMMA InvSomeoneFree ==
  ASSUME EqualPrograms, Inv
  PROVE  SomeoneFree
<1>1. /\ plan \in Plans /\ server \in [Servers -> Server] /\ issued \in [Workers -> Nat]
      /\ \A w \in Workers : issued[w] <= Size + 1
      /\ \A s \in Servers : SafeAt(s)
  BY DEF Inv, TypeOK
<1>2. /\ \A v \in Workers : Prog(v) = Common
      /\ Size \in Nat /\ DOMAIN Common = 1..Size /\ \A k \in 1..Size : Common[k].op \in Op
      /\ \A s \in Servers :
           /\ Program(At(s), Size)
           /\ \A k \in 1..Size : At(s)[k] = IF s \in Common[k].to THEN Common[k].op ELSE "none"
  BY <1>1, CommonIs
<1>3. \A w : Held(w) <=> \E s \in Servers : Cached(s, w)
  <2>1. \A s \in Servers : server[s].addCache \in Seq(Message) /\ server[s].getCache \in Seq(Message)
    BY <1>1 DEF Server
  <2>2. \A c \in Seq(Message) : DOMAIN c = 1..Len(c)
    OBVIOUS
  <2> QED
    BY <2>1, <2>2 DEF Held, Cached, InCache
<1> SUFFICES ASSUME \A s \in Servers : Ready(s), \E w \in Workers : Held(w)
             PROVE  \E w \in Workers : ~Held(w) /\ ~Gone(w)
  BY DEF SomeoneFree
<1>4. PICK w \in {x \in Workers : Held(x)} : \A v \in {x \in Workers : Held(x)} : issued[w] <= issued[v]
  BY <1>1, Slowest
<1>5. PICK s \in Servers : Cached(s, w)
  BY <1>3, <1>4
<1>6. Pending(s, w) /\ ServerOK(server[s], At(s), Done(s), Size)
  BY <1>1, <1>4, <1>5 DEF SafeAt
<1>7. server[s] \in Server /\ server[s].draining = "no"
  BY <1>1 DEF Ready
<1>8. PICK v \in Workers : \E j \in 1..Size : /\ Done(s)[v] < j /\ j <= Done(s)[w]
                                              /\ At(s)[j] \in Op
  BY <1>2, <1>4, <1>5, <1>6, <1>7, HeldBack DEF Cached
<1>9. PICK j \in 1..Size : Done(s)[v] < j /\ j <= Done(s)[w] /\ At(s)[j] \in Op
  BY <1>8
<1>10. Done(s)[w] = issued[w] - 1 /\ issued[w] \in 1..Size
  BY <1>1, <1>4, <1>6, DoneIs
<1>11. /\ issued[v] \in Nat /\ issued[v] <= Size + 1
       /\ Pending(s, v) => Done(s)[v] = issued[v] - 1
       /\ ~Pending(s, v) /\ issued[v] <= Size => Done(s)[v] = issued[v]
       /\ issued[v] = Size + 1 => Done(s)[v] = Size
  BY <1>1, DoneIs
<1>12. issued[v] < issued[w]
  BY <1>2, <1>9, <1>10, <1>11
<1>13. ~Held(v)
  BY <1>1, <1>4, <1>12
<1>14. j \notin server[s].answered[v]
  <2>1. server[s].answered[v] = {i \in 1..Done(s)[v] : At(s)[i] \in Op}
    BY <1>6 DEF ServerOK, Books
  <2>2. Done(s)[v] \in Int
    BY <1>2, <1>11
  <2> QED
    BY <1>9, <2>1, <2>2
<1>15. s \in Common[j].to
  BY <1>2, <1>9, OtherIs
<1>16. ~Finished(v)
  BY <1>2, <1>14, <1>15 DEF Finished, Answered
<1> QED
  BY <1>13, <1>16 DEF Gone

\* As long as a server holds a call in a cache, some worker has a call or its
\* leave to be handled that no cache holds (sync_scheduler.cc:38-101).
THEOREM TableSomeoneFree ==
  ASSUME EqualPrograms
  PROVE  Spec => []SomeoneFree
BY SyncTableInvariant, InvSomeoneFree, PTL
=============================================================================
