------------------------ MODULE SyncSchedulerProofs ------------------------
(* Proofs about SyncScheduler, with the inductive invariant for workers that *)
(* make blocking calls and all run the same program, and the abstract        *)
(* specification it implements.                                              *)
EXTENDS SyncScheduler, SyncServerProofs

SameProgram == \A v, w \in Workers : Prog[v] = Prog[w]

\* The thread that drains a cache has something left to drain. This makes the
\* type invariant inductive, whatever the programs and the kind of call.
TypeInv ==
  /\ TypeOK
  /\ Idle \/ server.failed \/ (server.draining = "gets" /\ server.getCache # << >>)
                           \/ (server.draining = "adds" /\ server.addCache # << >>)

\* How many requests of w the two clocks account for.
Granted(add, get, w) == add.local[w] + get.local[w]
Done(w) == Granted(server.add, server.get, w)

\* The clocks count a prefix of the program, and two workers are within one
\* phase of each other.
ClocksOK(add, get) ==
  /\ add \in Clock /\ get \in Clock
  /\ GlobalIsMin(add) /\ GlobalIsMin(get)
  /\ \A w \in Workers :
       /\ Granted(add, get, w) <= Len(Prog[w])
       /\ add.local[w] = Count("Add", w, Granted(add, get, w))
       /\ get.local[w] = Count("Get", w, Granted(add, get, w))
  /\ \A v, w \in Workers :
       \A i, j \in (Granted(add, get, v) + 1)..Granted(add, get, w) :
         Prog[w][i] = Prog[w][j]

\* The table and the replies agree with the clocks.
AnswersOK ==
  \A w \in Workers :
    /\ server.answered[w] = 1..Done(w)
    /\ server.params[w] = server.add.local[w]

\* A worker has at most one request under way, its next one.
RequestsOK ==
  \A w \in Workers :
    /\ Done(w) <= issued[w] /\ issued[w] <= Done(w) + 1
    /\ issued[w] <= Len(Prog[w])
    /\ transit[w] \subseteq {Done(w) + 1}
    /\ transit[w] # {} => issued[w] = Done(w) + 1

\* A cache holds next requests of the right kind, one per worker, and none of
\* them is still on its way.
CacheOK(cache, op) ==
  /\ \A i \in 1..Len(cache) : \A w \in Workers :
       cache[i].src = w =>
         /\ cache[i].k = Done(w) + 1
         /\ issued[w] = Done(w) + 1
         /\ transit[w] = {}
         /\ Prog[w][Done(w) + 1] = op
  /\ \A i, j \in 1..Len(cache) : cache[i].src = cache[j].src => i = j

WaitedOK ==
  \A w \in Workers :
    server.waited[w] = IF InCache(server.addCache, w) THEN 1 ELSE 0

\* Outside the loop that drains it, a cache holds requests of workers that are
\* ahead on the other clock only.
CachedAreAhead ==
  /\ server.draining # "adds" =>
       \A i \in 1..Len(server.addCache) :
         server.get.global < server.get.local[server.addCache[i].src]
  /\ server.draining # "gets" =>
       \A i \in 1..Len(server.getCache) :
         server.add.global < server.add.local[server.getCache[i].src]

\* A draining loop runs when everybody is level on one clock, and a worker that
\* has nothing cached is among the slowest on the other: the loop cannot
\* complete that clock's round.
LoopOK(level, moving, cache, other) ==
  /\ cache # << >> /\ other = << >>
  /\ \A w \in Workers : level.local[w] = level.global
  /\ \E u \in Workers :
       ~InCache(cache, u) /\ \A v \in Workers : moving.local[u] <= moving.local[v]
DrainingOK ==
  /\ server.draining = "gets" =>
       LoopOK(server.add, server.get, server.getCache, server.addCache)
  /\ server.draining = "adds" =>
       LoopOK(server.get, server.add, server.addCache, server.getCache)

RepliesOK ==
  \A a \in server.replies :
    /\ a.k \in 1..Len(Prog[a.src]) /\ Prog[a.src][a.k] = "Get"
    /\ a.params = [w \in Workers |-> Count("Add", a.src, a.k)]

IInv ==
  /\ TypeOK
  /\ ~server.failed
  /\ ClocksOK(server.add, server.get)
  /\ AnswersOK
  /\ RequestsOK
  /\ CacheOK(server.addCache, "Add") /\ CacheOK(server.getCache, "Get")
  /\ WaitedOK
  /\ CachedAreAhead
  /\ DrainingOK
  /\ RepliesOK

\* The scheduler implements bulk-synchronous training: the requests it answers
\* and the parameters it returns are those BulkSync grants, and it grants every
\* request in the end (the fairness of BulkSync!Spec).
Bulk == INSTANCE BulkSync WITH answered <- server.answered, replies <- server.replies
BulkSpec == Bulk!Spec

-----------------------------------------------------------------------------
(* Counting the requests of one kind in a prefix of the program.             *)

\* Count is a natural number.
LEMMA CountType ==
  ASSUME NEW op, NEW w, NEW k \in Nat
  PROVE  /\ Count(op, w, k) \in Nat
         /\ IsFiniteSet({j \in 1..k : Prog[w][j] = op})
<1> DEFINE S == {j \in 1..k : Prog[w][j] = op}
<1>1. IsFiniteSet(1..k)
  BY FS_Interval
<1>2. IsFiniteSet(S)
  BY <1>1, FS_Subset
<1>3. Cardinality(S) \in Nat
  BY <1>2, FS_CardinalityType
<1> QED
  BY <1>2, <1>3 DEF Count

\* No request is counted in the empty prefix.
LEMMA CountZero == ASSUME NEW op, NEW w PROVE Count(op, w, 0) = 0
<1>1. {j \in 1..0 : Prog[w][j] = op} = {}
  OBVIOUS
<1> QED
  BY <1>1, FS_EmptySet DEF Count

\* One more request adds one to the count of its kind and nothing to the other.
LEMMA CountStep ==
  ASSUME NEW op, NEW w, NEW k \in Nat
  PROVE  Count(op, w, k + 1) =
           IF Prog[w][k + 1] = op THEN Count(op, w, k) + 1 ELSE Count(op, w, k)
<1> DEFINE S(n) == {j \in 1..n : Prog[w][j] = op}
<1>1. CASE Prog[w][k + 1] = op
  <2>1. S(k + 1) = S(k) \cup {k + 1}
    BY <1>1
  <2>2. (k + 1) \notin S(k)
    OBVIOUS
  <2>3. IsFiniteSet(S(k))
    BY CountType
  <2>4. Cardinality(S(k) \cup {k + 1}) = Cardinality(S(k)) + 1
    BY <2>2, <2>3, FS_AddElement
  <2> QED
    BY <1>1, <2>1, <2>4 DEF Count
<1>2. CASE Prog[w][k + 1] # op
  <2>1. S(k + 1) = S(k)
    BY <1>2
  <2> QED
    BY <1>2, <2>1 DEF Count
<1> QED
  BY <1>1, <1>2

\* A longer prefix counts at least as much.
LEMMA CountMonotone ==
  ASSUME NEW op, NEW w, NEW j \in Nat, NEW k \in Nat, j <= k
  PROVE  Count(op, w, j) <= Count(op, w, k)
<1> DEFINE S(n) == {i \in 1..n : Prog[w][i] = op}
<1>1. S(j) \subseteq S(k)
  OBVIOUS
<1>2. IsFiniteSet(S(k))
  BY CountType
<1> HIDE DEF S
<1>3. Cardinality(S(j)) <= Cardinality(S(k))
  BY <1>1, <1>2, FS_Subset
<1> QED
  BY <1>3 DEF Count, S

\* It counts strictly more if the first request of the difference is counted.
LEMMA CountStrict ==
  ASSUME NEW op, NEW w, NEW j \in Nat, NEW k \in Nat, j < k, Prog[w][j + 1] = op
  PROVE  Count(op, w, j) < Count(op, w, k)
<1>1. Count(op, w, j + 1) = Count(op, w, j) + 1
  BY CountStep
<1>2. Count(op, w, j + 1) <= Count(op, w, k)
  BY CountMonotone, j + 1 <= k, j + 1 \in Nat
<1>3. Count(op, w, j) \in Nat /\ Count(op, w, k) \in Nat
  BY CountType
<1> QED
  BY <1>1, <1>2, <1>3

\* It counts the same if nothing in the difference is counted.
LEMMA CountSame ==
  ASSUME NEW op, NEW w, NEW j \in Nat, NEW k \in Nat, j <= k,
         \A i \in (j + 1)..k : Prog[w][i] # op
  PROVE  Count(op, w, j) = Count(op, w, k)
<1>1. {i \in 1..j : Prog[w][i] = op} = {i \in 1..k : Prog[w][i] = op}
  OBVIOUS
<1> QED
  BY <1>1 DEF Count
-----------------------------------------------------------------------------
(* The vector clock.                                                         *)

\* Update returns true exactly when it brings all local clocks level and the
\* global clock with them.
LEMMA UpdateLevel ==
  ASSUME NEW c \in Clock, GlobalIsMin(c), NEW w \in Workers,
         \A v \in Workers : Update(c, w).local[v] # MaxInt
  PROVE  UpdateReturns(c, w)
           <=> \A v \in Workers : Update(c, w).local[v] = Update(c, w).global
<1> DEFINE t == Tick(c, w)
           u == Update(c, w)
<1>1. t \in Clock /\ t.local = [c.local EXCEPT ![w] = @ + 1] /\ t.global = c.global
  BY DEF Tick, Clock
<1>2. u \in Clock /\ u.local = t.local /\ GlobalIsMin(u)
  BY <1>1, UpdateClock
<1>3. ASSUME UpdateReturns(c, w)
      PROVE  \A v \in Workers : u.local[v] = u.global
  <2>1. GlobalIsLargest(u)
    BY <1>3 DEF UpdateReturns
  <2>2. \A v \in Workers : u.local[v] <= u.global
    BY <1>2, <2>1 DEF GlobalIsLargest, Clock
  <2> QED
    BY <1>2, <2>2 DEF GlobalIsMin, Clock
<1>4. ASSUME \A v \in Workers : u.local[v] = u.global
      PROVE  UpdateReturns(c, w)
  <2>1. GlobalIsLargest(u)
    BY <1>2, <1>4 DEF GlobalIsLargest, Clock
  <2>2. c.global <= c.local[w]
    BY DEF GlobalIsMin
  <2>3. c.global < t.local[w]
    BY <1>1, <2>2 DEF Clock
  <2>4. \A v \in Workers : c.global < t.local[v]
    BY <1>2, <1>4, <2>3
  <2>5. GlobalIsBehind(t)
    BY <1>1, <2>4 DEF GlobalIsBehind, Clock
  <2> QED
    BY <2>1, <2>5 DEF UpdateReturns
<1> QED
  BY <1>3, <1>4

-----------------------------------------------------------------------------
(* What ClocksOK says of two workers.                                        *)

\* The number of granted requests is a position in the program.
LEMMA GrantedType ==
  ASSUME NEW add, NEW get, ClocksOK(add, get), NEW w \in Workers
  PROVE  /\ Granted(add, get, w) \in Nat /\ Granted(add, get, w) < MaxInt
         /\ add.local[w] \in Nat /\ get.local[w] \in Nat
         /\ Len(Prog[w]) \in Nat
         /\ \A i \in 1..Len(Prog[w]) : Prog[w][i] \in Op
<1>1. Prog[w] \in Seq(Op) /\ Len(Prog[w]) \in Nat /\ Len(Prog[w]) < MaxInt
  BY ProgAssumption
<1> QED
  BY <1>1 DEF ClocksOK, Clock, Granted, MaxInt

\* If w was granted more requests of one kind than v, it is ahead of v by
\* requests of that kind only, and the next request of v is one of them.
LEMMA Ahead ==
  ASSUME SameProgram, NEW add, NEW get, ClocksOK(add, get),
         NEW v \in Workers, NEW w \in Workers, NEW op \in Op,
         Count(op, v, Granted(add, get, v)) < Count(op, w, Granted(add, get, w))
  PROVE  /\ Granted(add, get, v) < Granted(add, get, w)
         /\ \A i \in (Granted(add, get, v) + 1)..Granted(add, get, w) : Prog[w][i] = op
         /\ Prog[v][Granted(add, get, v) + 1] = op
<1> DEFINE g(x) == Granted(add, get, x)
<1>1. g(v) \in Nat /\ g(w) \in Nat
  BY GrantedType
<1>2. Prog[v] = Prog[w]
  BY DEF SameProgram
<1>3. Count(op, v, g(v)) = Count(op, w, g(v))
  BY <1>2 DEF Count
<1>4. \A k \in Nat : Count(op, w, k) \in Nat
  BY CountType
<1> HIDE DEF g
<1>5. g(v) < g(w)
  BY <1>1, <1>3, <1>4, CountMonotone DEF g
<1>6. PICK i \in (g(v) + 1)..g(w) : Prog[w][i] = op
  BY <1>1, <1>3, <1>4, <1>5, CountSame, SMTT(30) DEF g
<1>7. \A j \in (g(v) + 1)..g(w) : Prog[w][j] = op
  BY <1>6 DEF ClocksOK, g
<1> QED
  BY <1>1, <1>2, <1>5, <1>7 DEF g

\* If w is ahead of v, it was granted more requests of the kind v is to make
\* next, and as many of the other kind.
LEMMA Behind ==
  ASSUME SameProgram, NEW add, NEW get, ClocksOK(add, get),
         NEW v \in Workers, NEW w \in Workers, NEW op \in Op,
         Granted(add, get, v) < Granted(add, get, w),
         Prog[v][Granted(add, get, v) + 1] = op
  PROVE  /\ Count(op, v, Granted(add, get, v)) < Count(op, w, Granted(add, get, w))
         /\ \A o \in Op : o # op =>
              Count(o, v, Granted(add, get, v)) = Count(o, w, Granted(add, get, w))
<1> DEFINE g(x) == Granted(add, get, x)
<1>1. g(v) \in Nat /\ g(w) \in Nat
  BY GrantedType
<1>2. Prog[v] = Prog[w]
  BY DEF SameProgram
<1>3. \A o : Count(o, v, g(v)) = Count(o, w, g(v))
  BY <1>2 DEF Count
<1>4. \A j \in (g(v) + 1)..g(w) : Prog[w][j] = op
  <2> SUFFICES ASSUME NEW j \in (g(v) + 1)..g(w) PROVE Prog[w][j] = op
    OBVIOUS
  <2>1. (g(v) + 1) \in (g(v) + 1)..g(w)
    BY <1>1
  <2> QED
    BY <1>2, <2>1 DEF ClocksOK
<1> HIDE DEF g
<1>5. Count(op, w, g(v)) < Count(op, w, g(w))
  BY <1>1, <1>2, CountStrict DEF g
<1>6. ASSUME NEW o \in Op, o # op PROVE Count(o, w, g(v)) = Count(o, w, g(w))
  BY <1>1, <1>4, <1>6, CountSame DEF g
<1> QED
  BY <1>3, <1>5, <1>6 DEF g

\* Granting w its next request keeps the workers within one phase, if all of
\* them were granted as many requests of the other kind as w.
LEMMA PhaseStep ==
  ASSUME SameProgram, NEW add, NEW get, ClocksOK(add, get),
         NEW w \in Workers, NEW op \in Op,
         Granted(add, get, w) < Len(Prog[w]),
         Prog[w][Granted(add, get, w) + 1] = op,
         \A v \in Workers : \A o \in Op : o # op =>
           Count(o, v, Granted(add, get, v)) = Count(o, w, Granted(add, get, w)),
         NEW h, \A v \in Workers :
           h[v] = IF v = w THEN Granted(add, get, v) + 1 ELSE Granted(add, get, v)
  PROVE  \A v, x \in Workers : \A i, j \in (h[v] + 1)..h[x] : Prog[x][i] = Prog[x][j]
<1> DEFINE g(x) == Granted(add, get, x)
<1>1. \A x \in Workers : g(x) \in Nat
  BY GrantedType
<1> SUFFICES ASSUME NEW v \in Workers, NEW x \in Workers,
                    NEW i \in (h[v] + 1)..h[x], NEW j \in (h[v] + 1)..h[x]
             PROVE  Prog[x][i] = Prog[x][j]
  OBVIOUS
<1>2. CASE x # w \/ v = w
  <2>1. (i \in (g(v) + 1)..g(x) /\ j \in (g(v) + 1)..g(x)) \/ (x = w /\ v = w)
    BY <1>1, <1>2
  <2>2. CASE x = w /\ v = w
    BY <1>1, <2>2
  <2> QED
    BY <2>1, <2>2 DEF ClocksOK
<1>3. CASE x = w /\ v # w
  <2>1. i \in (g(v) + 1)..(g(w) + 1) /\ j \in (g(v) + 1)..(g(w) + 1)
    BY <1>1, <1>3
  <2>2. \A n \in (g(v) + 1)..(g(w) + 1) : Prog[w][n] = op
    <3> SUFFICES ASSUME NEW n \in (g(v) + 1)..(g(w) + 1), n # g(w) + 1
                 PROVE  Prog[w][n] = op
      OBVIOUS
    <3>1. n \in (g(v) + 1)..g(w) /\ (g(v) + 1) \in (g(v) + 1)..g(w) /\ g(v) < g(w)
      BY <1>1
    <3>2. Prog[w][g(v) + 1] = Prog[w][n]
      BY <3>1 DEF ClocksOK
    <3>3. Prog[v] = Prog[w]
      BY DEF SameProgram
    <3>4. Prog[v][g(v) + 1] \in Op
      BY <1>1, <3>1, <3>3, GrantedType
    <3>5. Prog[v][g(v) + 1] = op
      <4> SUFFICES ASSUME Prog[v][g(v) + 1] # op PROVE FALSE
        OBVIOUS
      <4> DEFINE o == Prog[v][g(v) + 1]
      <4>1. Count(o, v, g(v)) < Count(o, w, g(w))
        BY <3>1, <3>4, Behind
      <4>2. Count(o, v, g(v)) = Count(o, w, g(w))
        BY <3>4
      <4>3. Count(o, w, g(w)) \in Nat
        BY <1>1, CountType
      <4> QED
        BY <4>1, <4>2, <4>3
    <3> QED
      BY <3>2, <3>3, <3>5
  <2> QED
    BY <1>3, <2>1, <2>2
<1> QED
  BY <1>2, <1>3

\* When w is level on Adds with everybody and its next request is a Get, all
\* workers have made the same number of Adds.
LEMMA LevelForGet ==
  ASSUME SameProgram, NEW add, NEW get, ClocksOK(add, get), NEW w \in Workers,
         Prog[w][Granted(add, get, w) + 1] = "Get", add.local[w] <= add.global
  PROVE  \A v \in Workers : add.local[v] = add.local[w] /\ add.local[v] = add.global
<1> SUFFICES ASSUME NEW v \in Workers
             PROVE  add.local[v] = add.local[w] /\ add.local[v] = add.global
  OBVIOUS
<1>1. add.local[v] \in Nat /\ add.local[w] \in Nat /\ add.global \in Nat
  BY DEF ClocksOK, Clock
<1>2. add.global <= add.local[v] /\ add.global <= add.local[w]
  BY DEF ClocksOK, GlobalIsMin
<1>3. ~(add.local[w] < add.local[v])
  <2> SUFFICES ASSUME add.local[w] < add.local[v] PROVE FALSE
    OBVIOUS
  <2>1. Prog[w][Granted(add, get, w) + 1] = "Add"
    BY Ahead DEF ClocksOK, Op
  <2> QED
    BY <2>1
<1> QED
  BY <1>1, <1>2, <1>3

\* The same for an Add and the Get clock.
LEMMA LevelForAdd ==
  ASSUME SameProgram, NEW add, NEW get, ClocksOK(add, get), NEW w \in Workers,
         Prog[w][Granted(add, get, w) + 1] = "Add", get.local[w] <= get.global
  PROVE  \A v \in Workers : get.local[v] = get.local[w] /\ get.local[v] = get.global
<1> SUFFICES ASSUME NEW v \in Workers
             PROVE  get.local[v] = get.local[w] /\ get.local[v] = get.global
  OBVIOUS
<1>1. get.local[v] \in Nat /\ get.local[w] \in Nat /\ get.global \in Nat
  BY DEF ClocksOK, Clock
<1>2. get.global <= get.local[v] /\ get.global <= get.local[w]
  BY DEF ClocksOK, GlobalIsMin
<1>3. ~(get.local[w] < get.local[v])
  <2> SUFFICES ASSUME get.local[w] < get.local[v] PROVE FALSE
    OBVIOUS
  <2>1. Prog[w][Granted(add, get, w) + 1] = "Get"
    BY Ahead, SMTT(30) DEF ClocksOK, Op
  <2> QED
    BY <2>1
<1> QED
  BY <1>1, <1>2, <1>3

\* Granting a Get whose worker is level on Adds keeps the clocks in order.
LEMMA GrantGetKeepsClocks ==
  ASSUME SameProgram, NEW add, NEW get, ClocksOK(add, get), NEW w \in Workers,
         Granted(add, get, w) < Len(Prog[w]),
         Prog[w][Granted(add, get, w) + 1] = "Get", add.local[w] <= add.global
  PROVE  /\ ClocksOK(add, Update(get, w))
         /\ \A v \in Workers : Granted(add, Update(get, w), v) =
              IF v = w THEN Granted(add, get, v) + 1 ELSE Granted(add, get, v)
<1> DEFINE g(v) == Granted(add, get, v)
           n(v) == Granted(add, Update(get, w), v)
           u    == Update(get, w)
<1>1. /\ u \in Clock /\ u.local = [get.local EXCEPT ![w] = @ + 1]
      /\ GlobalIsMin(u)
  BY UpdateClock DEF ClocksOK
<1>2. \A v \in Workers : g(v) \in Nat /\ add.local[v] \in Nat /\ get.local[v] \in Nat
  BY GrantedType
<1>3. get.local \in [Workers -> Nat]
  BY DEF ClocksOK, Clock
<1>4. \A v \in Workers : n(v) = IF v = w THEN g(v) + 1 ELSE g(v)
  BY <1>1, <1>2, <1>3, SMTT(30) DEF Granted
<1>5. \A v \in Workers : \A o \in Op : o # "Get" => Count(o, v, g(v)) = Count(o, w, g(w))
  BY LevelForGet DEF ClocksOK, Op
<1>6. \A v, x \in Workers : \A i, j \in (n(v) + 1)..n(x) : Prog[x][i] = Prog[x][j]
  <2> DEFINE h == [v \in Workers |-> n(v)]
  <2>1. \A v \in Workers : h[v] = n(v)
    OBVIOUS
  <2>2. \A v \in Workers : h[v] = IF v = w THEN g(v) + 1 ELSE g(v)
    BY <1>4, <2>1
  <2> HIDE DEF h, n
  <2>3. \A v, x \in Workers : \A i, j \in (h[v] + 1)..h[x] : Prog[x][i] = Prog[x][j]
    BY <1>5, <2>2, PhaseStep DEF Op
  <2> QED
    BY <2>1, <2>3
<1>7. ASSUME NEW v \in Workers
      PROVE  /\ n(v) <= Len(Prog[v])
             /\ add.local[v] = Count("Add", v, n(v))
             /\ u.local[v] = Count("Get", v, n(v))
  <2>1. /\ g(v) <= Len(Prog[v]) /\ add.local[v] = Count("Add", v, g(v))
        /\ get.local[v] = Count("Get", v, g(v))
    BY DEF ClocksOK
  <2>2. CASE v # w
    BY <1>1, <1>3, <1>4, <2>1, <2>2
  <2>3. CASE v = w
    <3>1. n(w) = g(w) + 1 /\ u.local[w] = get.local[w] + 1
      BY <1>1, <1>3, <1>4
    <3>2. Count("Get", w, g(w) + 1) = Count("Get", w, g(w)) + 1
      BY <1>2, CountStep
    <3>3. Count("Add", w, g(w) + 1) = Count("Add", w, g(w))
      BY <1>2, CountStep
    <3>4. g(w) + 1 <= Len(Prog[w])
      BY <1>2, GrantedType
    <3> QED
      BY <2>1, <2>3, <3>1, <3>2, <3>3, <3>4
  <2> QED
    BY <2>2, <2>3
<1> QED
  BY <1>1, <1>4, <1>6, <1>7 DEF ClocksOK

\* Granting an Add whose worker is level on Gets keeps the clocks in order.
LEMMA GrantAddKeepsClocks ==
  ASSUME SameProgram, NEW add, NEW get, ClocksOK(add, get), NEW w \in Workers,
         Granted(add, get, w) < Len(Prog[w]),
         Prog[w][Granted(add, get, w) + 1] = "Add", get.local[w] <= get.global
  PROVE  /\ ClocksOK(Update(add, w), get)
         /\ \A v \in Workers : Granted(Update(add, w), get, v) =
              IF v = w THEN Granted(add, get, v) + 1 ELSE Granted(add, get, v)
<1> DEFINE g(v) == Granted(add, get, v)
           n(v) == Granted(Update(add, w), get, v)
           u    == Update(add, w)
<1>1. /\ u \in Clock /\ u.local = [add.local EXCEPT ![w] = @ + 1]
      /\ GlobalIsMin(u)
  BY UpdateClock DEF ClocksOK
<1>2. \A v \in Workers : g(v) \in Nat /\ add.local[v] \in Nat /\ get.local[v] \in Nat
  BY GrantedType
<1>3. add.local \in [Workers -> Nat]
  BY DEF ClocksOK, Clock
<1>4. \A v \in Workers : n(v) = IF v = w THEN g(v) + 1 ELSE g(v)
  <2>1. \A v \in Workers :
          u.local[v] = IF v = w THEN add.local[v] + 1 ELSE add.local[v]
    BY <1>1, <1>3
  <2> QED
    BY <1>2, <2>1, SMTT(30) DEF Granted
<1>5. \A v \in Workers : \A o \in Op : o # "Add" => Count(o, v, g(v)) = Count(o, w, g(w))
  BY LevelForAdd DEF ClocksOK, Op
<1>6. \A v, x \in Workers : \A i, j \in (n(v) + 1)..n(x) : Prog[x][i] = Prog[x][j]
  <2> DEFINE h == [v \in Workers |-> n(v)]
  <2>1. \A v \in Workers : h[v] = n(v)
    OBVIOUS
  <2>2. \A v \in Workers : h[v] = IF v = w THEN g(v) + 1 ELSE g(v)
    BY <1>4, <2>1
  <2> HIDE DEF h, n
  <2>3. \A v, x \in Workers : \A i, j \in (h[v] + 1)..h[x] : Prog[x][i] = Prog[x][j]
    BY <1>5, <2>2, PhaseStep DEF Op
  <2> QED
    BY <2>1, <2>3
<1>7. ASSUME NEW v \in Workers
      PROVE  /\ n(v) <= Len(Prog[v])
             /\ u.local[v] = Count("Add", v, n(v))
             /\ get.local[v] = Count("Get", v, n(v))
  <2>1. /\ g(v) <= Len(Prog[v]) /\ add.local[v] = Count("Add", v, g(v))
        /\ get.local[v] = Count("Get", v, g(v))
    BY DEF ClocksOK
  <2>2. CASE v # w
    BY <1>1, <1>3, <1>4, <2>1, <2>2
  <2>3. CASE v = w
    <3>1. n(w) = g(w) + 1 /\ u.local[w] = add.local[w] + 1
      BY <1>1, <1>3, <1>4
    <3>2. Count("Add", w, g(w) + 1) = Count("Add", w, g(w)) + 1
      BY <1>2, CountStep
    <3>3. Count("Get", w, g(w) + 1) = Count("Get", w, g(w))
      BY <1>2, CountStep
    <3>4. g(w) + 1 <= Len(Prog[w])
      BY <1>2, GrantedType
    <3> QED
      BY <2>1, <2>3, <3>1, <3>2, <3>3, <3>4
  <2> QED
    BY <2>2, <2>3
<1> QED
  BY <1>1, <1>4, <1>6, <1>7 DEF ClocksOK

-----------------------------------------------------------------------------
(* Type correctness, for all programs and all kinds of call.                 *)

\* What the type invariant asks of the server.
ServerTyped(s) ==
  /\ s \in Server
  /\ \/ s.draining = "no" \/ s.failed
     \/ s.draining = "gets" /\ s.getCache # << >>
     \/ s.draining = "adds" /\ s.addCache # << >>

\* The decision to drain is made on a non-empty cache, or the server fails.
LEMMA StartType ==
  ASSUME NEW t \in Server
  PROVE  /\ ServerTyped(StartDrainingGets(t)) /\ ServerTyped(StartDrainingAdds(t))
         /\ ServerTyped([t EXCEPT !.failed = TRUE])
BY DEF Server, ServerTyped, StartDrainingGets, StartDrainingAdds

\* The handlers keep the server well typed.
LEMMA HandlerType ==
  ASSUME NEW s \in Server, s.draining = "no", NEW m \in Message
  PROVE  ServerTyped(ProcessAdd(s, m)) /\ ServerTyped(ProcessGet(s, m))
<1>1. ServerTyped(CacheAdd(s, m)) /\ ServerTyped(CacheGet(s, m))
  BY CacheAddFields, CacheGetFields DEF ServerTyped
<1>2. ServerTyped(ApplyAdd(s, m)) /\ ServerTyped(ServeGet(s, m))
  BY ApplyAddFields, ServeGetFields DEF ServerTyped
<1>3. ApplyAdd(s, m) \in Server /\ ServeGet(s, m) \in Server
  BY ApplyAddFields, ServeGetFields
<1>4. ServerTyped(ProcessAdd(s, m))
  BY <1>1, <1>2, <1>3, StartType DEF ProcessAdd
<1>5. ServerTyped(ProcessGet(s, m))
  BY <1>1, <1>2, <1>3, StartType DEF ProcessGet
<1> QED
  BY <1>4, <1>5

\* So do the rounds of the draining loops.
LEMMA DrainType ==
  ASSUME NEW s \in Server
  PROVE  /\ s.getCache # << >> => ServerTyped(DrainGet(s))
         /\ s.addCache # << >> => ServerTyped(DrainAdd(s))
<1>1. ASSUME s.getCache # << >> PROVE ServerTyped(DrainGet(s))
  <2> DEFINE m == Head(s.getCache)
             t == ServeGet([s EXCEPT !.getCache = Tail(@)], m)
  <2>1. t \in Server
    BY <1>1, PopFields, ServeGetFields
  <2> HIDE DEF t
  <2> QED
    BY <2>1, StartType DEF DrainGet, t
<1>2. ASSUME s.addCache # << >> PROVE ServerTyped(DrainAdd(s))
  <2> DEFINE m == Head(s.addCache)
             t == ApplyAdd([s EXCEPT !.addCache = Tail(@)], m)
             n == [t EXCEPT !.waited[m.src] = @ - 1]
  <2>1. t \in Server /\ m.src \in Workers
    BY <1>2, PopFields, ApplyAddFields DEF Message
  <2> HIDE DEF t, m
  <2>2. [t.waited EXCEPT ![m.src] = @ - 1] \in [Workers -> Int]
    BY <2>1 DEF Server
  <2>3. n \in Server
    BY <2>1, <2>2 DEF Server
  <2> HIDE DEF n
  <2> QED
    BY <2>1, <2>3, StartType DEF DrainAdd, t, m, n
<1> QED
  BY <1>1, <1>2

\* The scheduler is well typed and never takes a request out of an empty cache,
\* whatever the workers' programs and the mix of blocking and asynchronous
\* calls (sync_scheduler.cc: every TryPop succeeds).
THEOREM TypeInvariant == Spec => []TypeInv
<1>1. Init => TypeInv
  <2> SUFFICES ASSUME Init PROVE TypeInv
    OBVIOUS
  <2>1. InitServer \in Server
    BY DEF InitServer, Server, New, Clock
  <2> QED
    BY <2>1 DEF Init, TypeInv, TypeOK, Idle, InitServer
<1>2. TypeInv /\ [Next]_vars => TypeInv'
  <2> SUFFICES ASSUME TypeInv, [Next]_vars PROVE TypeInv'
    OBVIOUS
  <2>1. ASSUME NEW w \in Workers, Issue(w) PROVE TypeInv'
    BY <2>1 DEF TypeInv, TypeOK, Issue, Idle
  <2>2. ASSUME NEW w \in Workers, NEW k \in transit[w], ReceiveAdd(w, k)
        PROVE  TypeInv'
    <3>1. [src |-> w, k |-> k] \in Message /\ transit' \in [Workers -> SUBSET Nat]
      BY <2>2 DEF TypeInv, TypeOK, Message, ReceiveAdd
    <3>2. ServerTyped(server')
      BY <2>2, <3>1, HandlerType DEF TypeInv, TypeOK, Idle, ReceiveAdd
    <3> QED
      BY <2>2, <3>1, <3>2 DEF TypeInv, TypeOK, ServerTyped, Idle, ReceiveAdd
  <2>3. ASSUME NEW w \in Workers, NEW k \in transit[w], ReceiveGet(w, k)
        PROVE  TypeInv'
    <3>1. [src |-> w, k |-> k] \in Message /\ transit' \in [Workers -> SUBSET Nat]
      BY <2>3 DEF TypeInv, TypeOK, Message, ReceiveGet
    <3>2. ServerTyped(server')
      BY <2>3, <3>1, HandlerType DEF TypeInv, TypeOK, Idle, ReceiveGet
    <3> QED
      BY <2>3, <3>1, <3>2 DEF TypeInv, TypeOK, ServerTyped, Idle, ReceiveGet
  <2>4. CASE DrainNextGet
    <3>1. ServerTyped(server')
      BY <2>4, DrainType DEF TypeInv, TypeOK, Idle, DrainNextGet
    <3> QED
      BY <2>4, <3>1 DEF TypeInv, TypeOK, ServerTyped, Idle, DrainNextGet
  <2>5. CASE DrainNextAdd
    <3>1. ServerTyped(server')
      BY <2>5, DrainType DEF TypeInv, TypeOK, Idle, DrainNextAdd
    <3> QED
      BY <2>5, <3>1 DEF TypeInv, TypeOK, ServerTyped, Idle, DrainNextAdd
  <2>6. CASE UNCHANGED vars
    BY <2>6 DEF TypeInv, TypeOK, Idle, vars
  <2> QED
    BY <2>1, <2>2, <2>3, <2>4, <2>5, <2>6 DEF Next, Receive, Drain, AllFinished
<1> QED
  BY <1>1, <1>2, PTL DEF Spec

\* Type correctness as the runs check it.
THEOREM TypeCorrect == Spec => []TypeOK
<1>1. TypeInv => TypeOK
  BY DEF TypeInv
<1> QED
  BY <1>1, TypeInvariant, PTL

-----------------------------------------------------------------------------
(* The inductive invariant, for blocking calls and a common program.         *)

\* One more answer extends the answered prefix.
LEMMA NextAnswer == ASSUME NEW d \in Nat PROVE (1..d) \cup {d + 1} = 1..(d + 1)
OBVIOUS

\* Granting a Get to w: the clocks, the table, the replies and the requests
\* under way stay consistent. The case of a Get served on arrival and the case
\* of one taken from the cache both use it.
LEMMA GrantGetStep ==
  ASSUME SameProgram, IInv, NEW w \in Workers,
         Prog[w][Done(w) + 1] = "Get", issued[w] = Done(w) + 1,
         server.add.local[w] <= server.add.global,
         server'.add = server.add, server'.get = Update(server.get, w),
         server'.params = server.params,
         server'.answered = [server.answered EXCEPT ![w] = @ \cup {Done(w) + 1}],
         server'.replies = server.replies \cup
           {[src |-> w, k |-> Done(w) + 1, params |-> server.params]},
         issued' = issued, transit'[w] = {},
         \A v \in Workers : v # w => transit'[v] = transit[v]
  PROVE  /\ ClocksOK(server.add, server.get)'
         /\ AnswersOK' /\ RequestsOK' /\ RepliesOK'
         /\ \A v \in Workers : Done(v)' = IF v = w THEN Done(v) + 1 ELSE Done(v)
<1>1. ClocksOK(server.add, server.get)
  BY DEF IInv
<1>2. \A v \in Workers : Done(v) \in Nat
  BY <1>1, GrantedType DEF Done
<1>3. Len(Prog[w]) \in Nat /\ Done(w) < Len(Prog[w])
  BY <1>1, <1>2, GrantedType DEF IInv, RequestsOK
<1>4. /\ ClocksOK(server.add, Update(server.get, w))
      /\ \A v \in Workers : Granted(server.add, Update(server.get, w), v) =
           IF v = w THEN Done(v) + 1 ELSE Done(v)
  BY <1>1, <1>3, GrantGetKeepsClocks DEF Done
<1>5. ClocksOK(server.add, server.get)'
  BY <1>4
<1>6. \A v \in Workers : Done(v)' = IF v = w THEN Done(v) + 1 ELSE Done(v)
  BY <1>4 DEF Done
<1>7. AnswersOK'
  <2> SUFFICES ASSUME NEW v \in Workers
               PROVE  /\ server'.answered[v] = 1..Done(v)'
                      /\ server'.params[v] = server'.add.local[v]
    BY DEF AnswersOK
  <2>1. server.answered[v] = 1..Done(v) /\ server.params[v] = server.add.local[v]
    BY DEF IInv, AnswersOK
  <2>2. server.answered \in [Workers -> SUBSET Nat]
    BY DEF IInv, TypeOK, Server
  <2>3. CASE v # w
    BY <1>6, <2>1, <2>2, <2>3
  <2>4. CASE v = w
    <3>1. server'.answered[v] = (1..Done(w)) \cup {Done(w) + 1}
      BY <2>1, <2>2, <2>4
    <3>2. server'.answered[v] = 1..(Done(w) + 1)
      BY <1>2, <3>1, NextAnswer
    <3> QED
      BY <1>6, <2>1, <2>4, <3>2
  <2> QED
    BY <2>3, <2>4
<1>8. RequestsOK'
  <2> SUFFICES ASSUME NEW v \in Workers
               PROVE  /\ Done(v)' <= issued[v] /\ issued[v] <= Done(v)' + 1
                      /\ issued[v] <= Len(Prog[v])
                      /\ transit'[v] \subseteq {Done(v)' + 1}
                      /\ transit'[v] # {} => issued[v] = Done(v)' + 1
    BY DEF RequestsOK
  <2>1. /\ Done(v) <= issued[v] /\ issued[v] <= Done(v) + 1
        /\ issued[v] <= Len(Prog[v]) /\ transit[v] \subseteq {Done(v) + 1}
        /\ transit[v] # {} => issued[v] = Done(v) + 1
    BY DEF IInv, RequestsOK
  <2> QED
    BY <1>2, <1>6, <2>1
<1>9. RepliesOK'
  <2>1. server.params = [x \in Workers |-> Count("Add", w, Done(w) + 1)]
    <3>1. Count("Add", w, Done(w) + 1) = Count("Add", w, Done(w))
      BY <1>2, CountStep
    <3>2. Count("Add", w, Done(w)) = server.add.local[w]
      BY <1>1 DEF ClocksOK, Done
    <3>3. \A x \in Workers : server.add.local[x] = server.add.local[w]
      BY <1>1, LevelForGet DEF Done
    <3>4. \A x \in Workers : server.params[x] = server.add.local[x]
      BY DEF IInv, AnswersOK
    <3>5. server.params \in [Workers -> Nat]
      BY DEF IInv, TypeOK, Server
    <3> QED
      BY <3>1, <3>2, <3>3, <3>4, <3>5
  <2>2. (Done(w) + 1) \in 1..Len(Prog[w])
    BY <1>2, <1>3
  <2> DEFINE r == [src |-> w, k |-> Done(w) + 1, params |-> server.params]
  <2>3. r.src = w /\ r.k = Done(w) + 1 /\ r.params = server.params
    OBVIOUS
  <2> HIDE DEF r
  <2>4. \A a \in server.replies \cup {r} :
          /\ a.k \in 1..Len(Prog[a.src]) /\ Prog[a.src][a.k] = "Get"
          /\ a.params = [x \in Workers |-> Count("Add", a.src, a.k)]
    <3>1. \A a \in server.replies :
            /\ a.k \in 1..Len(Prog[a.src]) /\ Prog[a.src][a.k] = "Get"
            /\ a.params = [x \in Workers |-> Count("Add", a.src, a.k)]
      BY DEF IInv, RepliesOK
    <3>2. /\ r.k \in 1..Len(Prog[r.src]) /\ Prog[r.src][r.k] = "Get"
          /\ r.params = [x \in Workers |-> Count("Add", r.src, r.k)]
      BY <2>1, <2>2, <2>3
    <3> QED
      BY <3>1, <3>2
  <2> QED
    BY <2>4 DEF RepliesOK, r
<1> QED
  BY <1>5, <1>6, <1>7, <1>8, <1>9

\* The same for an Add, which returns nothing but changes the table.
LEMMA GrantAddStep ==
  ASSUME SameProgram, IInv, NEW w \in Workers,
         Prog[w][Done(w) + 1] = "Add", issued[w] = Done(w) + 1,
         server.get.local[w] <= server.get.global,
         server'.get = server.get, server'.add = Update(server.add, w),
         server'.params = [server.params EXCEPT ![w] = @ + 1],
         server'.answered = [server.answered EXCEPT ![w] = @ \cup {Done(w) + 1}],
         server'.replies = server.replies,
         issued' = issued, transit'[w] = {},
         \A v \in Workers : v # w => transit'[v] = transit[v]
  PROVE  /\ ClocksOK(server.add, server.get)'
         /\ AnswersOK' /\ RequestsOK' /\ RepliesOK'
         /\ \A v \in Workers : Done(v)' = IF v = w THEN Done(v) + 1 ELSE Done(v)
<1>1. ClocksOK(server.add, server.get)
  BY DEF IInv
<1>2. \A v \in Workers : Done(v) \in Nat
  BY <1>1, GrantedType DEF Done
<1>3. Len(Prog[w]) \in Nat /\ Done(w) < Len(Prog[w])
  BY <1>1, <1>2, GrantedType DEF IInv, RequestsOK
<1>4. /\ ClocksOK(Update(server.add, w), server.get)
      /\ \A v \in Workers : Granted(Update(server.add, w), server.get, v) =
           IF v = w THEN Done(v) + 1 ELSE Done(v)
  BY <1>1, <1>3, GrantAddKeepsClocks DEF Done
<1>5. ClocksOK(server.add, server.get)'
  BY <1>4
<1>6. \A v \in Workers : Done(v)' = IF v = w THEN Done(v) + 1 ELSE Done(v)
  BY <1>4 DEF Done
<1>7. AnswersOK'
  <2> SUFFICES ASSUME NEW v \in Workers
               PROVE  /\ server'.answered[v] = 1..Done(v)'
                      /\ server'.params[v] = server'.add.local[v]
    BY DEF AnswersOK
  <2>1. server.answered[v] = 1..Done(v) /\ server.params[v] = server.add.local[v]
    BY DEF IInv, AnswersOK
  <2>2. /\ server.answered \in [Workers -> SUBSET Nat]
        /\ server.params \in [Workers -> Nat] /\ server.add.local \in [Workers -> Nat]
    BY DEF IInv, TypeOK, Server, Clock
  <2>3. server'.add.local = [server.add.local EXCEPT ![w] = @ + 1]
    <3>1. server.add \in Clock /\ GlobalIsMin(server.add)
      BY <1>1 DEF ClocksOK
    <3>2. Update(server.add, w).local = [server.add.local EXCEPT ![w] = @ + 1]
      BY <3>1, UpdateClock
    <3> QED
      BY <3>2
  <2>4. CASE v # w
    BY <1>6, <2>1, <2>2, <2>3, <2>4
  <2>5. CASE v = w
    <3>1. server'.answered[v] = (1..Done(w)) \cup {Done(w) + 1}
      BY <2>1, <2>2, <2>5
    <3>2. server'.answered[v] = 1..(Done(w) + 1)
      BY <1>2, <3>1, NextAnswer
    <3>3. server'.params[v] = server'.add.local[v]
      BY <2>1, <2>2, <2>3, <2>5
    <3> QED
      BY <1>6, <2>5, <3>2, <3>3
  <2> QED
    BY <2>4, <2>5
<1>8. RequestsOK'
  <2> SUFFICES ASSUME NEW v \in Workers
               PROVE  /\ Done(v)' <= issued[v] /\ issued[v] <= Done(v)' + 1
                      /\ issued[v] <= Len(Prog[v])
                      /\ transit'[v] \subseteq {Done(v)' + 1}
                      /\ transit'[v] # {} => issued[v] = Done(v)' + 1
    BY DEF RequestsOK
  <2>1. /\ Done(v) <= issued[v] /\ issued[v] <= Done(v) + 1
        /\ issued[v] <= Len(Prog[v]) /\ transit[v] \subseteq {Done(v) + 1}
        /\ transit[v] # {} => issued[v] = Done(v) + 1
    BY DEF IInv, RequestsOK
  <2> QED
    BY <1>2, <1>6, <2>1
<1>9. RepliesOK'
  BY DEF IInv, RepliesOK
<1> QED
  BY <1>5, <1>6, <1>7, <1>8, <1>9

\* A request on its way to the server is its worker's next one, and nothing of
\* that worker is cached.
LEMMA Arriving ==
  ASSUME IInv, NEW w \in Workers, NEW k \in transit[w]
  PROVE  /\ k = Done(w) + 1 /\ issued[w] = Done(w) + 1 /\ Done(w) \in Nat
         /\ [src |-> w, k |-> k] \in Message
         /\ ~InCache(server.addCache, w) /\ ~InCache(server.getCache, w)
         /\ server.waited[w] = 0
<1>1. k = Done(w) + 1 /\ issued[w] = Done(w) + 1
  BY DEF IInv, RequestsOK
<1>2. Done(w) \in Nat
  BY GrantedType DEF IInv, Done
<1>3. ~InCache(server.addCache, w) /\ ~InCache(server.getCache, w)
  BY DEF IInv, CacheOK, InCache
<1>4. server.waited[w] = 0
  BY <1>3 DEF IInv, WaitedOK
<1> QED
  BY <1>1, <1>2, <1>3, <1>4 DEF Message

\* The requests in the caches are those of workers.
LEMMA CachedSources ==
  ASSUME IInv
  PROVE  /\ server.addCache \in Seq(Message) /\ server.getCache \in Seq(Message)
         /\ \A i \in 1..Len(server.addCache) : server.addCache[i].src \in Workers
         /\ \A i \in 1..Len(server.getCache) : server.getCache[i].src \in Workers
<1>1. server.addCache \in Seq(Message) /\ server.getCache \in Seq(Message)
  BY DEF IInv, TypeOK, Server
<1>2. \A c \in Seq(Message) : \A i \in 1..Len(c) : c[i] \in Message
  OBVIOUS
<1>3. \A m \in Message : m.src \in Workers
  BY DEF Message
<1> QED
  BY <1>1, <1>2, <1>3

\* A cached request is its worker's next one, and the only one of that worker.
LEMMA CachedRequest ==
  ASSUME NEW c, NEW op, CacheOK(c, op), NEW i \in 1..Len(c), NEW w \in Workers,
         c[i].src = w
  PROVE  /\ c[i].k = Done(w) + 1 /\ issued[w] = Done(w) + 1 /\ transit[w] = {}
         /\ Prog[w][Done(w) + 1] = op
         /\ \A j \in 1..Len(c) : c[j].src = w => j = i
  BY Zenon DEF CacheOK

\* A cache from which nothing of w is missing survives a grant to w.
LEMMA OtherCacheKept ==
  ASSUME IInv, NEW w \in Workers, issued' = issued,
         \A v \in Workers : v # w => transit'[v] = transit[v],
         \A v \in Workers : v # w => Done(v)' = Done(v)
  PROVE  /\ server'.addCache = server.addCache /\ ~InCache(server.addCache, w)
              => CacheOK(server.addCache, "Add")'
         /\ server'.getCache = server.getCache /\ ~InCache(server.getCache, w)
              => CacheOK(server.getCache, "Get")'
<1>1. ASSUME server'.addCache = server.addCache, ~InCache(server.addCache, w)
      PROVE  CacheOK(server.addCache, "Add")'
  <2>1. CacheOK(server.addCache, "Add")
    BY DEF IInv
  <2>2. ASSUME NEW i \in 1..Len(server'.addCache), NEW v \in Workers,
               server'.addCache[i].src = v
        PROVE  /\ server'.addCache[i].k = Done(v)' + 1 /\ issued'[v] = Done(v)' + 1
               /\ transit'[v] = {} /\ Prog[v][Done(v)' + 1] = "Add"
    <3>1. v # w
      BY <1>1, <2>2 DEF InCache
    <3>2. /\ server.addCache[i].k = Done(v) + 1 /\ issued[v] = Done(v) + 1
          /\ transit[v] = {} /\ Prog[v][Done(v) + 1] = "Add"
      BY <1>1, <2>1, <2>2 DEF CacheOK
    <3> QED
      BY <1>1, <3>1, <3>2
  <2>3. \A i, j \in 1..Len(server'.addCache) :
          server'.addCache[i].src = server'.addCache[j].src => i = j
    BY <1>1, <2>1 DEF CacheOK
  <2> QED
    BY <2>2, <2>3 DEF CacheOK
<1>2. ASSUME server'.getCache = server.getCache, ~InCache(server.getCache, w)
      PROVE  CacheOK(server.getCache, "Get")'
  <2>1. CacheOK(server.getCache, "Get")
    BY DEF IInv
  <2>2. ASSUME NEW i \in 1..Len(server'.getCache), NEW v \in Workers,
               server'.getCache[i].src = v
        PROVE  /\ server'.getCache[i].k = Done(v)' + 1 /\ issued'[v] = Done(v)' + 1
               /\ transit'[v] = {} /\ Prog[v][Done(v)' + 1] = "Get"
    <3>1. v # w
      BY <1>2, <2>2 DEF InCache
    <3>2. /\ server.getCache[i].k = Done(v) + 1 /\ issued[v] = Done(v) + 1
          /\ transit[v] = {} /\ Prog[v][Done(v) + 1] = "Get"
      BY <1>2, <2>1, <2>2 DEF CacheOK
    <3> QED
      BY <1>2, <3>1, <3>2
  <2>3. \A i, j \in 1..Len(server'.getCache) :
          server'.getCache[i].src = server'.getCache[j].src => i = j
    BY <1>2, <2>1 DEF CacheOK
  <2> QED
    BY <2>2, <2>3 DEF CacheOK
<1> QED
  BY <1>1, <1>2

\* After a grant of a Get that does not bring the Get clock level, the cached
\* Adds are still those of workers ahead on it.
LEMMA AddsStayAhead ==
  ASSUME SameProgram, IInv, NEW w \in Workers, ~InCache(server.addCache, w),
         server'.add = server.add, server'.get = Update(server.get, w),
         server'.addCache = server.addCache,
         ClocksOK(server.add, server.get)',
         \A v \in Workers : v # w => Done(v)' = Done(v),
         ~UpdateReturns(server.get, w),
         NEW i \in 1..Len(server.addCache), server.draining = "no"
  PROVE  server'.get.global < server'.get.local[server'.addCache[i].src]
<1> DEFINE v == server.addCache[i].src
           u == Update(server.get, w)
<1>1. server.get \in Clock /\ GlobalIsMin(server.get)
  BY DEF IInv, ClocksOK
<1>2. /\ u \in Clock /\ u.local = [server.get.local EXCEPT ![w] = @ + 1]
      /\ u.global \in {server.get.global, server.get.global + 1} /\ GlobalIsMin(u)
  BY <1>1, UpdateClock
<1>3. v \in Workers /\ v # w
  BY CachedSources DEF InCache
<1>4. server.get.global < server.get.local[v]
  BY DEF IInv, CachedAreAhead
<1>5. u.local[v] = server.get.local[v]
  BY <1>1, <1>2, <1>3 DEF Clock
<1>6. \A x \in Workers : u.local[x] # MaxInt
  <2> SUFFICES ASSUME NEW x \in Workers PROVE u.local[x] # MaxInt
    OBVIOUS
  <2>1. /\ Granted(server.add, server.get, x)' \in Nat
        /\ Granted(server.add, server.get, x)' < MaxInt
        /\ server'.add.local[x] \in Nat /\ server'.get.local[x] \in Nat
    BY GrantedType
  <2> QED
    BY <2>1 DEF Granted, MaxInt
<1>7. PICK x \in Workers : u.local[x] # u.global
  BY <1>1, <1>6, UpdateLevel
<1>8. SUFFICES ASSUME ~(u.global < u.local[v]) PROVE FALSE
  OBVIOUS
<1>9. u.local[v] = u.global /\ u.local[v] < u.local[x]
  BY <1>2, <1>3, <1>7, <1>8 DEF GlobalIsMin, Clock
<1>10. Prog[v][Done(v)' + 1] = "Get"
  <2>1. /\ u.local[v] = Count("Get", v, Done(v)') /\ u.local[x] = Count("Get", x, Done(x)')
    BY <1>3 DEF ClocksOK, Done
  <2>2. Count("Get", v, Done(v)') < Count("Get", x, Done(x)')
    BY <1>9, <2>1
  <2> QED
    BY <1>3, <2>2, Ahead DEF Done, Op
<1>11. Prog[v][Done(v) + 1] = "Add"
  BY <1>3 DEF IInv, CacheOK
<1> QED
  BY <1>3, <1>10, <1>11

\* After a grant of an Add that does not bring the Add clock level, the cached
\* Gets are still those of workers ahead on it.
LEMMA GetsStayAhead ==
  ASSUME SameProgram, IInv, NEW w \in Workers, ~InCache(server.getCache, w),
         server'.get = server.get, server'.add = Update(server.add, w),
         server'.getCache = server.getCache,
         ClocksOK(server.add, server.get)',
         \A v \in Workers : v # w => Done(v)' = Done(v),
         ~UpdateReturns(server.add, w),
         NEW i \in 1..Len(server.getCache), server.draining = "no"
  PROVE  server'.add.global < server'.add.local[server'.getCache[i].src]
<1> DEFINE v == server.getCache[i].src
           u == Update(server.add, w)
<1>1. server.add \in Clock /\ GlobalIsMin(server.add)
  BY DEF IInv, ClocksOK
<1>2. /\ u \in Clock /\ u.local = [server.add.local EXCEPT ![w] = @ + 1]
      /\ u.global \in {server.add.global, server.add.global + 1} /\ GlobalIsMin(u)
  BY <1>1, UpdateClock
<1>3. v \in Workers /\ v # w
  BY CachedSources DEF InCache
<1>4. server.add.global < server.add.local[v]
  BY DEF IInv, CachedAreAhead
<1>5. u.local[v] = server.add.local[v]
  BY <1>1, <1>2, <1>3 DEF Clock
<1>6. \A x \in Workers : u.local[x] # MaxInt
  <2> SUFFICES ASSUME NEW x \in Workers PROVE u.local[x] # MaxInt
    OBVIOUS
  <2>1. /\ Granted(server.add, server.get, x)' \in Nat
        /\ Granted(server.add, server.get, x)' < MaxInt
        /\ server'.add.local[x] \in Nat /\ server'.get.local[x] \in Nat
    BY GrantedType
  <2> QED
    BY <2>1 DEF Granted, MaxInt
<1>7. PICK x \in Workers : u.local[x] # u.global
  BY <1>1, <1>6, UpdateLevel
<1>8. SUFFICES ASSUME ~(u.global < u.local[v]) PROVE FALSE
  OBVIOUS
<1>9. u.local[v] = u.global /\ u.local[v] < u.local[x]
  BY <1>2, <1>3, <1>7, <1>8 DEF GlobalIsMin, Clock
<1>10. Prog[v][Done(v)' + 1] = "Add"
  <2>1. /\ u.local[v] = Count("Add", v, Done(v)') /\ u.local[x] = Count("Add", x, Done(x)')
    BY <1>3 DEF ClocksOK, Done
  <2>2. Count("Add", v, Done(v)') < Count("Add", x, Done(x)')
    BY <1>9, <2>1
  <2> QED
    BY <1>3, <2>2, Ahead DEF Done, Op
<1>11. Prog[v][Done(v) + 1] = "Get"
  BY <1>3 DEF IInv, CacheOK
<1> QED
  BY <1>3, <1>10, <1>11

\* A Get arrives.
LEMMA ReceiveGetInv ==
  ASSUME SameProgram, IInv, NEW w \in Workers, NEW k \in transit[w], ReceiveGet(w, k)
  PROVE  IInv'
<1> DEFINE m == [src |-> w, k |-> k]
<1>1. /\ k = Done(w) + 1 /\ issued[w] = Done(w) + 1 /\ Done(w) \in Nat /\ m \in Message
      /\ ~InCache(server.addCache, w) /\ ~InCache(server.getCache, w)
      /\ server.waited[w] = 0
  BY Arriving
<1>2. /\ Prog[w][Done(w) + 1] = "Get" /\ server.draining = "no" /\ ~server.failed
      /\ issued' = issued /\ server' = ProcessGet(server, m) /\ server \in Server
  BY <1>1 DEF ReceiveGet, Idle, IInv, TypeOK
<1>3. /\ transit' \in [Workers -> SUBSET Nat] /\ transit'[w] = {}
      /\ \A v \in Workers : v # w => transit'[v] = transit[v]
  <2>1. transit[w] \subseteq {k}
    BY <1>1 DEF IInv, RequestsOK
  <2> QED
    BY <2>1 DEF ReceiveGet, IInv, TypeOK
<1>4. TypeOK'
  BY <1>1, <1>2, <1>3, HandlerType DEF ServerTyped, IInv, TypeOK
<1>5. ClocksOK(server.add, server.get) /\ server.get \in Clock /\ GlobalIsMin(server.get)
  BY DEF IInv, ClocksOK
<1> HIDE DEF m
<1>m. m.src = w /\ m.k = k
  BY DEF m
<1>6. CASE GetMustWait(server, w)
  <2>1. server' = CacheGet(server, m)
    BY <1>2, <1>6, <1>m DEF ProcessGet
  <2>2. /\ server'.getCache = Append(server.getCache, m)
        /\ server'.addCache = server.addCache /\ server'.waited = server.waited
        /\ server'.add = server.add /\ server'.get = server.get
        /\ server'.params = server.params /\ server'.draining = "no"
        /\ server'.failed = server.failed /\ server'.answered = server.answered
        /\ server'.replies = server.replies
    BY <1>1, <1>2, <2>1, CacheGetFields
  <2>3. \A v \in Workers : Done(v)' = Done(v)
    BY <2>2 DEF Done
  <2>4. RequestsOK'
    BY <1>1, <1>2, <1>3, <2>3 DEF IInv, RequestsOK
  <2>5. CacheOK(server.addCache, "Add")'
    BY <1>1, <1>2, <1>3, <2>2, <2>3, OtherCacheKept
  <2>6. CacheOK(server.getCache, "Get")'
    <3>1. CacheOK(server.getCache, "Get")
      BY DEF IInv
    <3>2. \A i \in 1..Len(server.getCache) : 
            server.getCache[i].src \in Workers /\ server.getCache[i].src # w
      BY <1>1, CachedSources DEF InCache
    <3>3. /\ Len(server.getCache) \in Nat
          /\ Len(server'.getCache) = Len(server.getCache) + 1
          /\ \A i \in 1..Len(server.getCache) : server'.getCache[i] = server.getCache[i]
          /\ server'.getCache[Len(server.getCache) + 1] = m
      BY <1>1, <2>2, CachedSources, AppendCache
    <3>4. \A i \in 1..Len(server'.getCache) :
            i \in 1..Len(server.getCache) \/ i = Len(server.getCache) + 1
      BY <3>3
    <3>5. ASSUME NEW i \in 1..Len(server'.getCache), NEW v \in Workers,
                 server'.getCache[i].src = v
          PROVE  /\ server'.getCache[i].k = Done(v)' + 1 /\ issued'[v] = Done(v)' + 1
                 /\ transit'[v] = {} /\ Prog[v][Done(v)' + 1] = "Get"
      <4>1. CASE i = Len(server.getCache) + 1
        BY <1>1, <1>2, <1>3, <1>m, <2>3, <3>3, <3>5, <4>1
      <4>2. CASE i \in 1..Len(server.getCache)
        <5>1. server.getCache[i].src = v /\ v # w
          BY <3>2, <3>3, <3>5, <4>2
        <5>2. /\ server.getCache[i].k = Done(v) + 1 /\ issued[v] = Done(v) + 1
              /\ transit[v] = {} /\ Prog[v][Done(v) + 1] = "Get"
          BY <3>1, <4>2, <5>1 DEF CacheOK
        <5> QED
          BY <1>2, <1>3, <2>3, <3>3, <4>2, <5>1, <5>2
      <4> QED
        BY <3>4, <4>1, <4>2
    <3>6. ASSUME NEW i \in 1..Len(server'.getCache), NEW j \in 1..Len(server'.getCache),
                 server'.getCache[i].src = server'.getCache[j].src
          PROVE  i = j
      <4>1. \A x, y \in 1..Len(server.getCache) :
              server.getCache[x].src = server.getCache[y].src => x = y
        BY <3>1 DEF CacheOK
      <4> QED
        BY <1>m, <3>2, <3>3, <3>4, <3>6, <4>1
    <3> QED
      BY <3>5, <3>6 DEF CacheOK
  <2>7. WaitedOK'
    BY <2>2 DEF IInv, WaitedOK, InCache
  <2>8. CachedAreAhead'
    <3>1. server.add.global < server.add.local[w]
      BY <1>1, <1>5, <1>6 DEF GetMustWait, ClocksOK, Clock
    <3>2. /\ Len(server.getCache) \in Nat
          /\ Len(server'.getCache) = Len(server.getCache) + 1
          /\ \A i \in 1..Len(server.getCache) : server'.getCache[i] = server.getCache[i]
          /\ server'.getCache[Len(server.getCache) + 1] = m
      BY <1>1, <2>2, CachedSources, AppendCache
    <3>3. \A i \in 1..Len(server'.getCache) :
            i \in 1..Len(server.getCache) \/ i = Len(server.getCache) + 1
      BY <3>2
    <3> QED
      BY <1>2, <1>m, <2>2, <3>1, <3>2, <3>3 DEF IInv, CachedAreAhead
  <2>9. DrainingOK'
    BY <2>2 DEF DrainingOK
  <2>10. AnswersOK' /\ RepliesOK' /\ ~server'.failed /\ ClocksOK(server.add, server.get)'
    BY <1>2, <1>5, <2>2, <2>3 DEF IInv, AnswersOK, RepliesOK
  <2> QED
    BY <1>4, <2>4, <2>5, <2>6, <2>7, <2>8, <2>9, <2>10 DEF IInv
<1>7. CASE ~GetMustWait(server, w)
  <2> DEFINE t == ServeGet(server, m)
             r == UpdateReturns(server.get, w)
  <2>1. server' = IF r THEN StartDrainingAdds(t) ELSE t
    BY <1>2, <1>7, <1>m DEF ProcessGet
  <2>2. /\ t \in Server /\ t.get = Update(server.get, w) /\ t.add = server.add
        /\ t.params = server.params /\ t.waited = server.waited
        /\ t.answered = [server.answered EXCEPT ![w] = @ \cup {Done(w) + 1}]
        /\ t.draining = "no" /\ ~t.failed
        /\ t.addCache = server.addCache /\ t.getCache = server.getCache
        /\ t.replies = server.replies \cup
             {[src |-> w, k |-> Done(w) + 1, params |-> server.params]}
    BY <1>1, <1>2, <1>m, ServeGetFields
  <2> HIDE DEF t
  <2>3. /\ server'.get = Update(server.get, w) /\ server'.add = server.add
        /\ server'.params = server.params /\ server'.waited = server.waited
        /\ server'.answered = [server.answered EXCEPT ![w] = @ \cup {Done(w) + 1}]
        /\ ~server'.failed
        /\ server'.addCache = server.addCache /\ server'.getCache = server.getCache
        /\ server'.replies = server.replies \cup
             {[src |-> w, k |-> Done(w) + 1, params |-> server.params]}
        /\ server'.draining = IF r /\ server.addCache # << >> THEN "adds" ELSE "no"
    <3> DEFINE d == StartDrainingAdds(t)
    <3>1. /\ d.add = t.add /\ d.get = t.get /\ d.waited = t.waited
          /\ d.addCache = t.addCache /\ d.getCache = t.getCache
          /\ d.failed = t.failed /\ d.params = t.params
          /\ d.answered = t.answered /\ d.replies = t.replies
      BY <2>2, StartFields
    <3>2. d.draining = IF t.addCache = << >> THEN "no" ELSE "adds"
      BY <2>2, StartPlace
    <3> HIDE DEF d, r
    <3>3. CASE r
      <4>1. server' = d
        BY <2>1, <3>3 DEF d
      <4> QED
        BY <2>2, <3>1, <3>2, <3>3, <4>1
    <3>4. CASE ~r
      <4>1. server' = t
        BY <2>1, <3>4
      <4> QED
        BY <2>2, <3>4, <4>1
    <3> QED
      BY <3>3, <3>4
  <2>4. server.add.local[w] <= server.add.global
    BY <1>5, <1>7 DEF GetMustWait, ClocksOK, Clock
  <2>5. /\ ClocksOK(server.add, server.get)'
        /\ AnswersOK' /\ RequestsOK' /\ RepliesOK'
        /\ \A v \in Workers : Done(v)' = IF v = w THEN Done(v) + 1 ELSE Done(v)
    BY <1>1, <1>2, <1>3, <2>3, <2>4, GrantGetStep
  <2>6. CacheOK(server.addCache, "Add")' /\ CacheOK(server.getCache, "Get")'
    BY <1>1, <1>2, <1>3, <2>3, <2>5, OtherCacheKept
  <2>7. WaitedOK'
    BY <2>3 DEF IInv, WaitedOK, InCache
  <2>8. \A v \in Workers : server.add.local[v] = server.add.global
    BY <1>2, <1>5, <2>4, LevelForGet DEF Done
  <2>9. CachedAreAhead'
    <3>1. ASSUME server'.draining # "adds", NEW i \in 1..Len(server'.addCache)
          PROVE  server'.get.global < server'.get.local[server'.addCache[i].src]
      <4>1. server.addCache # << >>
        BY <2>3, <3>1
      <4>2. ~r
        BY <2>3, <3>1, <4>1
      <4> QED
        BY <1>1, <1>2, <2>3, <2>5, <3>1, <4>2, AddsStayAhead
    <3>2. ASSUME server'.draining # "gets", NEW i \in 1..Len(server'.getCache)
          PROVE  server'.add.global < server'.add.local[server'.getCache[i].src]
      BY <1>2, <2>3, <3>2 DEF IInv, CachedAreAhead
    <3> QED
      BY <3>1, <3>2 DEF CachedAreAhead
  <2>10. DrainingOK'
    <3> SUFFICES ASSUME r, server.addCache # << >>, server'.draining = "adds"
                 PROVE  LoopOK(server.get, server.add, server.addCache, server.getCache)'
      BY <2>3 DEF DrainingOK
    <3>1. server.getCache = << >>
      <4> SUFFICES ASSUME server.getCache # << >> PROVE FALSE
        OBVIOUS
      <4>1. 1 \in 1..Len(server.getCache)
        BY CachedSources, TailCache
      <4>2. server.getCache[1].src \in Workers
        BY <4>1, CachedSources
      <4>3. server.add.global < server.add.local[server.getCache[1].src]
        BY <1>2, <4>1 DEF IInv, CachedAreAhead
      <4> QED
        BY <1>5, <2>8, <4>2, <4>3 DEF ClocksOK, Clock
    <3>2. \A x \in Workers : server'.get.local[x] # MaxInt
      <4> SUFFICES ASSUME NEW x \in Workers PROVE server'.get.local[x] # MaxInt
        OBVIOUS
      <4>1. /\ Granted(server.add, server.get, x)' \in Nat
            /\ Granted(server.add, server.get, x)' < MaxInt
            /\ server'.add.local[x] \in Nat /\ server'.get.local[x] \in Nat
        BY <2>5, GrantedType
      <4> QED
        BY <4>1 DEF Granted, MaxInt
    <3>3. \A x \in Workers : server'.get.local[x] = server'.get.global
      BY <1>5, <2>3, <3>2, UpdateLevel
    <3>4. ~InCache(server'.addCache, w)
      BY <1>1, <2>3
    <3>5. \A v \in Workers : server'.add.local[w] <= server'.add.local[v]
      BY <1>5, <2>3, <2>8 DEF ClocksOK, Clock
    <3> QED
      BY <2>3, <3>1, <3>3, <3>4, <3>5 DEF LoopOK, InCache
  <2> QED
    BY <1>4, <2>3, <2>5, <2>6, <2>7, <2>9, <2>10 DEF IInv
<1> QED
  BY <1>6, <1>7

\* An Add arrives.
LEMMA ReceiveAddInv ==
  ASSUME SameProgram, IInv, NEW w \in Workers, NEW k \in transit[w], ReceiveAdd(w, k)
  PROVE  IInv'
<1> DEFINE m == [src |-> w, k |-> k]
<1>1. /\ k = Done(w) + 1 /\ issued[w] = Done(w) + 1 /\ Done(w) \in Nat /\ m \in Message
      /\ ~InCache(server.getCache, w) /\ ~InCache(server.addCache, w)
      /\ server.waited[w] = 0
  BY Arriving
<1>2. /\ Prog[w][Done(w) + 1] = "Add" /\ server.draining = "no" /\ ~server.failed
      /\ issued' = issued /\ server' = ProcessAdd(server, m) /\ server \in Server
  BY <1>1 DEF ReceiveAdd, Idle, IInv, TypeOK
<1>3. /\ transit' \in [Workers -> SUBSET Nat] /\ transit'[w] = {}
      /\ \A v \in Workers : v # w => transit'[v] = transit[v]
  <2>1. transit[w] \subseteq {k}
    BY <1>1 DEF IInv, RequestsOK
  <2> QED
    BY <2>1 DEF ReceiveAdd, IInv, TypeOK
<1>4. TypeOK'
  BY <1>1, <1>2, <1>3, HandlerType DEF ServerTyped, IInv, TypeOK
<1>5. ClocksOK(server.add, server.get) /\ server.add \in Clock /\ GlobalIsMin(server.add)
  BY DEF IInv, ClocksOK
<1> HIDE DEF m
<1>m. m.src = w /\ m.k = k
  BY DEF m
<1>6. CASE AddMustWait(server, w)
  <2>1. server' = CacheAdd(server, m)
    BY <1>2, <1>6, <1>m DEF ProcessAdd
  <2>2. /\ server'.addCache = Append(server.addCache, m)
        /\ server'.getCache = server.getCache
        /\ server'.waited = [server.waited EXCEPT ![w] = @ + 1]
        /\ server'.get = server.get /\ server'.add = server.add
        /\ server'.params = server.params /\ server'.draining = "no"
        /\ server'.failed = server.failed /\ server'.answered = server.answered
        /\ server'.replies = server.replies
    BY <1>1, <1>2, <1>m, <2>1, CacheAddFields
  <2>3. \A v \in Workers : Done(v)' = Done(v)
    BY <2>2 DEF Done
  <2>4. RequestsOK'
    BY <1>1, <1>2, <1>3, <2>3 DEF IInv, RequestsOK
  <2>5. CacheOK(server.getCache, "Get")'
    BY <1>1, <1>2, <1>3, <2>2, <2>3, OtherCacheKept
  <2>6. CacheOK(server.addCache, "Add")'
    <3>1. CacheOK(server.addCache, "Add")
      BY DEF IInv
    <3>2. \A i \in 1..Len(server.addCache) : 
            server.addCache[i].src \in Workers /\ server.addCache[i].src # w
      BY <1>1, CachedSources DEF InCache
    <3>3. /\ Len(server.addCache) \in Nat
          /\ Len(server'.addCache) = Len(server.addCache) + 1
          /\ \A i \in 1..Len(server.addCache) : server'.addCache[i] = server.addCache[i]
          /\ server'.addCache[Len(server.addCache) + 1] = m
      BY <1>1, <2>2, CachedSources, AppendCache
    <3>4. \A i \in 1..Len(server'.addCache) :
            i \in 1..Len(server.addCache) \/ i = Len(server.addCache) + 1
      BY <3>3
    <3>5. ASSUME NEW i \in 1..Len(server'.addCache), NEW v \in Workers,
                 server'.addCache[i].src = v
          PROVE  /\ server'.addCache[i].k = Done(v)' + 1 /\ issued'[v] = Done(v)' + 1
                 /\ transit'[v] = {} /\ Prog[v][Done(v)' + 1] = "Add"
      <4>1. CASE i = Len(server.addCache) + 1
        BY <1>1, <1>2, <1>3, <1>m, <2>3, <3>3, <3>5, <4>1
      <4>2. CASE i \in 1..Len(server.addCache)
        <5>1. server.addCache[i].src = v /\ v # w
          BY <3>2, <3>3, <3>5, <4>2
        <5>2. /\ server.addCache[i].k = Done(v) + 1 /\ issued[v] = Done(v) + 1
              /\ transit[v] = {} /\ Prog[v][Done(v) + 1] = "Add"
          BY <3>1, <4>2, <5>1 DEF CacheOK
        <5> QED
          BY <1>2, <1>3, <2>3, <3>3, <4>2, <5>1, <5>2
      <4> QED
        BY <3>4, <4>1, <4>2
    <3>6. ASSUME NEW i \in 1..Len(server'.addCache), NEW j \in 1..Len(server'.addCache),
                 server'.addCache[i].src = server'.addCache[j].src
          PROVE  i = j
      <4>1. \A x, y \in 1..Len(server.addCache) :
              server.addCache[x].src = server.addCache[y].src => x = y
        BY <3>1 DEF CacheOK
      <4> QED
        BY <1>m, <3>2, <3>3, <3>4, <3>6, <4>1
    <3> QED
      BY <3>5, <3>6 DEF CacheOK
  <2>7. WaitedOK'
    <3>1. /\ Len(server.addCache) \in Nat
          /\ Len(server'.addCache) = Len(server.addCache) + 1
          /\ \A i \in 1..Len(server.addCache) : server'.addCache[i] = server.addCache[i]
          /\ server'.addCache[Len(server.addCache) + 1] = m
      BY <1>1, <2>2, CachedSources, AppendCache
    <3>2. \A i \in 1..Len(server'.addCache) :
            i \in 1..Len(server.addCache) \/ i = Len(server.addCache) + 1
      BY <3>1
    <3>3. /\ 1..Len(server.addCache) \subseteq 1..Len(server'.addCache)
          /\ Len(server.addCache) + 1 \in 1..Len(server'.addCache)
      BY <3>1
    <3>4. InCache(server'.addCache, w)
      BY <1>m, <3>1, <3>3 DEF InCache
    <3>5. \A v \in Workers : v # w =>
            (InCache(server'.addCache, v) <=> InCache(server.addCache, v))
      BY <1>m, <3>1, <3>2, <3>3 DEF InCache
    <3>6. server.waited \in [Workers -> Int]
      BY DEF IInv, TypeOK, Server
    <3>7. ASSUME NEW v \in Workers
          PROVE  server'.waited[v] = IF InCache(server'.addCache, v) THEN 1 ELSE 0
      <4>1. server.waited[v] = IF InCache(server.addCache, v) THEN 1 ELSE 0
        BY DEF IInv, WaitedOK
      <4> QED
        BY <1>1, <2>2, <3>4, <3>5, <3>6, <4>1
    <3> QED
      BY <3>7 DEF WaitedOK, InCache
  <2>8. CachedAreAhead'
    <3>1. server.get.global < server.get.local[w]
      BY <1>1, <1>5, <1>6 DEF AddMustWait, ClocksOK, Clock
    <3>2. /\ Len(server.addCache) \in Nat
          /\ Len(server'.addCache) = Len(server.addCache) + 1
          /\ \A i \in 1..Len(server.addCache) : server'.addCache[i] = server.addCache[i]
          /\ server'.addCache[Len(server.addCache) + 1] = m
      BY <1>1, <2>2, CachedSources, AppendCache
    <3>3. \A i \in 1..Len(server'.addCache) :
            i \in 1..Len(server.addCache) \/ i = Len(server.addCache) + 1
      BY <3>2
    <3> QED
      BY <1>2, <1>m, <2>2, <3>1, <3>2, <3>3 DEF IInv, CachedAreAhead
  <2>9. DrainingOK'
    BY <2>2 DEF DrainingOK
  <2>10. AnswersOK' /\ RepliesOK' /\ ~server'.failed /\ ClocksOK(server.add, server.get)'
    BY <1>2, <1>5, <2>2, <2>3 DEF IInv, AnswersOK, RepliesOK
  <2> QED
    BY <1>4, <2>4, <2>5, <2>6, <2>7, <2>8, <2>9, <2>10 DEF IInv
<1>7. CASE ~AddMustWait(server, w)
  <2> DEFINE t == ApplyAdd(server, m)
             r == UpdateReturns(server.add, w)
  <2>l. \A v \in Workers : server.get.local[v] = server.get.global
    <3>1. server.get.local[w] <= server.get.global
      BY <1>5, <1>7 DEF AddMustWait, ClocksOK, Clock
    <3> QED
      BY <1>2, <1>5, <3>1, LevelForAdd DEF Done
  <2>e. server.addCache = << >>
    <3> SUFFICES ASSUME server.addCache # << >> PROVE FALSE
      OBVIOUS
    <3>1. 1 \in 1..Len(server.addCache)
      BY CachedSources, TailCache
    <3>2. server.addCache[1].src \in Workers
      BY <3>1, CachedSources
    <3>3. server.get.global < server.get.local[server.addCache[1].src]
      BY <1>2, <3>1 DEF IInv, CachedAreAhead
    <3> QED
      BY <1>5, <2>l, <3>2, <3>3 DEF ClocksOK, Clock
  <2>1. server' = IF r THEN StartDrainingGets(t) ELSE t
    BY <1>2, <1>7, <1>m, <2>e DEF ProcessAdd
  <2>2. /\ t \in Server /\ t.add = Update(server.add, w) /\ t.get = server.get
        /\ t.params = [server.params EXCEPT ![w] = @ + 1] /\ t.waited = server.waited
        /\ t.answered = [server.answered EXCEPT ![w] = @ \cup {Done(w) + 1}]
        /\ t.draining = "no" /\ ~t.failed
        /\ t.getCache = server.getCache /\ t.addCache = server.addCache
        /\ t.replies = server.replies
    BY <1>1, <1>2, <1>m, ApplyAddFields
  <2> HIDE DEF t
  <2>3. /\ server'.add = Update(server.add, w) /\ server'.get = server.get
        /\ server'.params = [server.params EXCEPT ![w] = @ + 1]
        /\ server'.waited = server.waited
        /\ server'.answered = [server.answered EXCEPT ![w] = @ \cup {Done(w) + 1}]
        /\ ~server'.failed
        /\ server'.getCache = server.getCache /\ server'.addCache = server.addCache
        /\ server'.replies = server.replies
        /\ server'.draining = IF r /\ server.getCache # << >> THEN "gets" ELSE "no"
    <3> DEFINE d == StartDrainingGets(t)
    <3>1. /\ d.add = t.add /\ d.get = t.get /\ d.waited = t.waited
          /\ d.addCache = t.addCache /\ d.getCache = t.getCache
          /\ d.failed = t.failed /\ d.params = t.params
          /\ d.answered = t.answered /\ d.replies = t.replies
      BY <2>2, StartFields
    <3>2. d.draining = IF t.getCache = << >> THEN "no" ELSE "gets"
      BY <2>2, StartPlace
    <3> HIDE DEF d, r
    <3>3. CASE r
      <4>1. server' = d
        BY <2>1, <3>3 DEF d
      <4> QED
        BY <2>2, <3>1, <3>2, <3>3, <4>1
    <3>4. CASE ~r
      <4>1. server' = t
        BY <2>1, <3>4
      <4> QED
        BY <2>2, <3>4, <4>1
    <3> QED
      BY <3>3, <3>4
  <2>4. server.get.local[w] <= server.get.global
    BY <1>5, <1>7 DEF AddMustWait, ClocksOK, Clock
  <2>5. /\ ClocksOK(server.add, server.get)'
        /\ AnswersOK' /\ RequestsOK' /\ RepliesOK'
        /\ \A v \in Workers : Done(v)' = IF v = w THEN Done(v) + 1 ELSE Done(v)
    BY <1>1, <1>2, <1>3, <2>3, <2>4, GrantAddStep
  <2>6. CacheOK(server.getCache, "Get")' /\ CacheOK(server.addCache, "Add")'
    BY <1>1, <1>2, <1>3, <2>3, <2>5, OtherCacheKept
  <2>7. WaitedOK'
    BY <2>3 DEF IInv, WaitedOK, InCache
  <2>8. \A v \in Workers : server.get.local[v] = server.get.global
    BY <1>2, <1>5, <2>4, LevelForAdd DEF Done
  <2>9. CachedAreAhead'
    <3>1. ASSUME server'.draining # "gets", NEW i \in 1..Len(server'.getCache)
          PROVE  server'.add.global < server'.add.local[server'.getCache[i].src]
      <4>1. server.getCache # << >>
        BY <2>3, <3>1
      <4>2. ~r
        BY <2>3, <3>1, <4>1
      <4> QED
        BY <1>1, <1>2, <2>3, <2>5, <3>1, <4>2, GetsStayAhead
    <3>2. ASSUME server'.draining # "adds", NEW i \in 1..Len(server'.addCache)
          PROVE  server'.get.global < server'.get.local[server'.addCache[i].src]
      BY <1>2, <2>3, <3>2 DEF IInv, CachedAreAhead
    <3> QED
      BY <3>1, <3>2 DEF CachedAreAhead
  <2>10. DrainingOK'
    <3> SUFFICES ASSUME r, server.getCache # << >>, server'.draining = "gets"
                 PROVE  LoopOK(server.add, server.get, server.getCache, server.addCache)'
      BY <2>3 DEF DrainingOK
    <3>1. server.addCache = << >>
      BY <2>e
    <3>2. \A x \in Workers : server'.add.local[x] # MaxInt
      <4> SUFFICES ASSUME NEW x \in Workers PROVE server'.add.local[x] # MaxInt
        OBVIOUS
      <4>1. /\ Granted(server.add, server.get, x)' \in Nat
            /\ Granted(server.add, server.get, x)' < MaxInt
            /\ server'.get.local[x] \in Nat /\ server'.add.local[x] \in Nat
        BY <2>5, GrantedType
      <4> QED
        BY <4>1 DEF Granted, MaxInt
    <3>3. \A x \in Workers : server'.add.local[x] = server'.add.global
      BY <1>5, <2>3, <3>2, UpdateLevel
    <3>4. ~InCache(server'.getCache, w)
      BY <1>1, <2>3
    <3>5. \A v \in Workers : server'.get.local[w] <= server'.get.local[v]
      BY <1>5, <2>3, <2>8 DEF ClocksOK, Clock
    <3> QED
      BY <2>3, <3>1, <3>3, <3>4, <3>5 DEF LoopOK, InCache
  <2> QED
    BY <1>4, <2>3, <2>5, <2>6, <2>7, <2>9, <2>10 DEF IInv
<1> QED
  BY <1>6, <1>7

\* A round of the loop over the cached Gets.
LEMMA DrainGetInv ==
  ASSUME SameProgram, IInv, DrainNextGet
  PROVE  IInv'
<1> DEFINE c == server.getCache
           m == Head(c)
           w == m.src
           s == [server EXCEPT !.getCache = Tail(@)]
           t == ServeGet(s, m)
<1>1. /\ server.draining = "gets" /\ ~server.failed /\ server' = DrainGet(server)
      /\ issued' = issued /\ transit' = transit /\ server \in Server
  BY DEF DrainNextGet, IInv, TypeOK
<1>2. /\ c # << >> /\ server.addCache = << >>
      /\ \A v \in Workers : server.add.local[v] = server.add.global
      /\ \E u \in Workers :
           ~InCache(c, u) /\ \A v \in Workers : server.get.local[u] <= server.get.local[v]
  BY <1>1 DEF IInv, DrainingOK, LoopOK
<1>3. m \in Message /\ s \in Server
  BY <1>1, <1>2, PopFields
<1>4. /\ Tail(c) \in Seq(Message) /\ Len(c) \in Nat /\ m = c[1] /\ 1 \in 1..Len(c)
      /\ \A i \in 1..Len(Tail(c)) : (i + 1) \in 1..Len(c) /\ Tail(c)[i] = c[i + 1]
      /\ \A i \in 1..Len(c) : i # 1 => (i - 1) \in 1..Len(Tail(c)) /\ Tail(c)[i - 1] = c[i]
      /\ Len(Tail(c)) \in Nat
  BY <1>2, CachedSources, TailCache
<1>5. CacheOK(c, "Get") /\ CacheOK(server.addCache, "Add")
  BY DEF IInv
<1>6. w \in Workers /\ InCache(c, w) /\ m.src = w /\ c[1].src = w /\ c[1] = m
  BY <1>3, <1>4 DEF Message, InCache
<1> HIDE DEF m, w, s
<1>7. /\ m.k = Done(w) + 1 /\ issued[w] = Done(w) + 1 /\ transit[w] = {}
      /\ Prog[w][Done(w) + 1] = "Get"
  <2> HIDE DEF c, t
  <2>1. \A i \in 1..Len(c) : c[i].src = w =>
          /\ c[i].k = Done(w) + 1 /\ issued[w] = Done(w) + 1 /\ transit[w] = {}
          /\ Prog[w][Done(w) + 1] = "Get"
    BY <1>5, <1>6, Zenon DEF CacheOK
  <2>2. 1 \in 1..Len(c) /\ c[1].src = w /\ c[1] = m
    BY <1>4, <1>6
  <2> QED
    BY <2>1, <2>2
<1>8. \A i \in 1..Len(Tail(c)) : Tail(c)[i].src # w
  <2> SUFFICES ASSUME NEW i \in 1..Len(Tail(c)), Tail(c)[i].src = w PROVE FALSE
    OBVIOUS
  <2>1. (i + 1) \in 1..Len(c) /\ c[i + 1].src = c[1].src /\ i \in Nat /\ i > 0
    BY <1>4, <1>6
  <2>2. i + 1 = 1
    <3> HIDE DEF c
    <3> QED
      BY <1>4, <1>5, <1>6, <2>1, CachedRequest
  <2> QED
    BY <2>1, <2>2
<1>9. ClocksOK(server.add, server.get) /\ server.get \in Clock /\ GlobalIsMin(server.get)
  BY DEF IInv, ClocksOK
<1>10. PICK u \in Workers :
         ~InCache(c, u) /\ \A v \in Workers : server.get.local[u] <= server.get.local[v]
  BY <1>2
<1>11. u # w
  BY <1>6, <1>10
<1>12. /\ s.add = server.add /\ s.get = server.get /\ s.params = server.params
       /\ s.waited = server.waited /\ s.answered = server.answered
       /\ s.failed = server.failed /\ s.replies = server.replies
       /\ s.addCache = server.addCache /\ s.getCache = Tail(c)
  BY <1>1 DEF Server, s
<1> HIDE DEF c
<1>13. /\ t \in Server /\ t.get = Update(server.get, w) /\ t.add = server.add
       /\ t.params = server.params /\ t.waited = server.waited
       /\ t.answered = [server.answered EXCEPT ![w] = @ \cup {Done(w) + 1}]
       /\ ~t.failed /\ t.addCache = << >> /\ t.getCache = Tail(c)
       /\ t.replies = server.replies \cup
            {[src |-> w, k |-> Done(w) + 1, params |-> server.params]}
  <2>1. /\ t \in Server
        /\ t.get = Update(s.get, m.src) /\ t.add = s.add /\ t.params = s.params
        /\ t.answered = [s.answered EXCEPT ![m.src] = @ \cup {m.k}]
        /\ t.waited = s.waited /\ t.failed = s.failed
        /\ t.addCache = s.addCache /\ t.getCache = s.getCache
        /\ t.replies = s.replies \cup {[src |-> m.src, k |-> m.k, params |-> s.params]}
    BY <1>3, ServeGetFields
  <2> HIDE DEF t
  <2> QED
    BY <1>1, <1>2, <1>6, <1>7, <1>12, <2>1
<1>14. Update(server.get, w).local = [server.get.local EXCEPT ![w] = @ + 1]
  BY <1>6, <1>9, UpdateClock
<1>15. /\ Update(server.get, w).local[u] = server.get.local[u]
       /\ Update(server.get, w).local[w] = server.get.local[w] + 1
       /\ server.get.local[u] \in Nat /\ server.get.local[w] \in Nat
       /\ server.get.local[u] <= server.get.local[w]
  BY <1>6, <1>9, <1>10, <1>11, <1>14 DEF Clock
<1>16. server.add.local[w] <= server.add.global
  BY <1>2, <1>6, <1>9 DEF ClocksOK, Clock
<1>17. \A x \in Workers : Update(server.get, w).local[x] # MaxInt
  <2> SUFFICES ASSUME NEW x \in Workers PROVE Update(server.get, w).local[x] # MaxInt
    OBVIOUS
  <2>1. /\ Len(Prog[w]) \in Nat /\ Done(w) \in Nat
    BY <1>6, <1>9, GrantedType DEF Done
  <2>2. Done(w) < Len(Prog[w])
    BY <1>6, <1>7, <2>1 DEF IInv, RequestsOK
  <2>3. ClocksOK(server.add, Update(server.get, w))
    BY <1>6, <1>7, <1>9, <1>16, <2>2, GrantGetKeepsClocks DEF Done
  <2>4. /\ Granted(server.add, Update(server.get, w), x) < MaxInt
        /\ server.add.local[x] \in Nat /\ Update(server.get, w).local[x] \in Nat
    BY <2>3, GrantedType
  <2> QED
    BY <2>4 DEF Granted, MaxInt
<1>18. ~UpdateReturns(server.get, w)
  BY <1>6, <1>9, <1>10, <1>15, <1>17, UpdateLevel
<1>19. server' = StartDrainingGets(t)
  BY <1>1, <1>18 DEF DrainGet, c, m, w, s
<1> HIDE DEF t
<1>20. /\ server'.get = Update(server.get, w) /\ server'.add = server.add
       /\ server'.params = server.params /\ server'.waited = server.waited
       /\ server'.answered = [server.answered EXCEPT ![w] = @ \cup {Done(w) + 1}]
       /\ ~server'.failed /\ server'.addCache = << >> /\ server'.getCache = Tail(c)
       /\ server'.replies = server.replies \cup
            {[src |-> w, k |-> Done(w) + 1, params |-> server.params]}
       /\ server'.draining = IF Tail(c) = << >> THEN "no" ELSE "gets"
       /\ server' \in Server
  BY <1>13, <1>19, StartFields, StartPlace
<1>21. /\ ClocksOK(server.add, server.get)'
       /\ AnswersOK' /\ RequestsOK' /\ RepliesOK'
       /\ \A v \in Workers : Done(v)' = IF v = w THEN Done(v) + 1 ELSE Done(v)
  BY <1>1, <1>6, <1>7, <1>16, <1>20, GrantGetStep
<1>22. TypeOK'
  BY <1>1, <1>20 DEF IInv, TypeOK
<1>23. CacheOK(server.addCache, "Add")'
  BY <1>20 DEF CacheOK
<1>24. CacheOK(server.getCache, "Get")'
  <2>1. ASSUME NEW i \in 1..Len(server'.getCache), NEW v \in Workers,
               server'.getCache[i].src = v
        PROVE  /\ server'.getCache[i].k = Done(v)' + 1 /\ issued'[v] = Done(v)' + 1
               /\ transit'[v] = {} /\ Prog[v][Done(v)' + 1] = "Get"
    <3>1. v # w
      BY <1>8, <1>20, <2>1
    <3>2. (i + 1) \in 1..Len(c) /\ server'.getCache[i] = c[i + 1]
      BY <1>4, <1>20, <2>1
    <3>3. /\ c[i + 1].k = Done(v) + 1 /\ issued[v] = Done(v) + 1
          /\ transit[v] = {} /\ Prog[v][Done(v) + 1] = "Get"
      BY <1>5, <2>1, <3>2 DEF CacheOK
    <3> QED
      BY <1>1, <1>21, <3>1, <3>2, <3>3
  <2>2. ASSUME NEW i \in 1..Len(server'.getCache), NEW j \in 1..Len(server'.getCache),
               server'.getCache[i].src = server'.getCache[j].src
        PROVE  i = j
    <3>1. /\ (i + 1) \in 1..Len(c) /\ (j + 1) \in 1..Len(c)
          /\ c[i + 1].src = c[j + 1].src /\ i \in Nat /\ j \in Nat
      BY <1>4, <1>20, <2>2
    <3>2. i + 1 = j + 1
      BY <1>5, <3>1 DEF CacheOK
    <3> QED
      BY <3>1, <3>2
  <2> QED
    BY <2>1, <2>2 DEF CacheOK
<1>25. WaitedOK'
  BY <1>2, <1>20 DEF IInv, WaitedOK, InCache
<1>26. CachedAreAhead'
  <2>1. 1..Len(server'.addCache) = {}
    BY <1>20
  <2>2. server'.draining # "gets" => 1..Len(server'.getCache) = {}
    BY <1>20
  <2> QED
    BY <2>1, <2>2 DEF CachedAreAhead
<1>27. DrainingOK'
  <2>1. ~InCache(server'.getCache, u)
    BY <1>4, <1>10, <1>20 DEF InCache
  <2>2. \A v \in Workers : server'.get.local[u] <= server'.get.local[v]
    <3> SUFFICES ASSUME NEW v \in Workers
                 PROVE  server'.get.local[u] <= server'.get.local[v]
      OBVIOUS
    <3>1. server'.get.local[v] = server.get.local[v] \/ v = w
      BY <1>9, <1>14, <1>20 DEF Clock
    <3> QED
      BY <1>10, <1>15, <1>20, <3>1
  <2> QED
    BY <1>2, <1>20, <2>1, <2>2 DEF DrainingOK, LoopOK, InCache
<1> QED
  BY <1>20, <1>21, <1>22, <1>23, <1>24, <1>25, <1>26, <1>27 DEF IInv

\* A round of the loop over the cached Adds.
LEMMA DrainAddInv ==
  ASSUME SameProgram, IInv, DrainNextAdd
  PROVE  IInv'
<1> DEFINE c == server.addCache
           m == Head(c)
           w == m.src
           s == [server EXCEPT !.addCache = Tail(@)]
           t == ApplyAdd(s, m)
           n == [t EXCEPT !.waited[m.src] = @ - 1]
<1>1. /\ server.draining = "adds" /\ ~server.failed /\ server' = DrainAdd(server)
      /\ issued' = issued /\ transit' = transit /\ server \in Server
  BY DEF DrainNextAdd, IInv, TypeOK
<1>2. /\ c # << >> /\ server.getCache = << >>
      /\ \A v \in Workers : server.get.local[v] = server.get.global
      /\ \E u \in Workers :
           ~InCache(c, u) /\ \A v \in Workers : server.add.local[u] <= server.add.local[v]
  BY <1>1 DEF IInv, DrainingOK, LoopOK
<1>3. m \in Message /\ s \in Server
  BY <1>1, <1>2, PopFields
<1>4. /\ Tail(c) \in Seq(Message) /\ Len(c) \in Nat /\ m = c[1] /\ 1 \in 1..Len(c)
      /\ \A i \in 1..Len(Tail(c)) : (i + 1) \in 1..Len(c) /\ Tail(c)[i] = c[i + 1]
      /\ \A i \in 1..Len(c) : i # 1 => (i - 1) \in 1..Len(Tail(c)) /\ Tail(c)[i - 1] = c[i]
      /\ Len(Tail(c)) \in Nat
  BY <1>2, CachedSources, TailCache
<1>5. CacheOK(c, "Add") /\ CacheOK(server.getCache, "Get")
  BY DEF IInv
<1>6. w \in Workers /\ InCache(c, w) /\ m.src = w /\ c[1].src = w /\ c[1] = m
  BY <1>3, <1>4 DEF Message, InCache
<1> HIDE DEF m, w, s
<1>7. /\ m.k = Done(w) + 1 /\ issued[w] = Done(w) + 1 /\ transit[w] = {}
      /\ Prog[w][Done(w) + 1] = "Add"
  <2> HIDE DEF c, t
  <2>1. \A i \in 1..Len(c) : c[i].src = w =>
          /\ c[i].k = Done(w) + 1 /\ issued[w] = Done(w) + 1 /\ transit[w] = {}
          /\ Prog[w][Done(w) + 1] = "Add"
    BY <1>5, <1>6, Zenon DEF CacheOK
  <2>2. 1 \in 1..Len(c) /\ c[1].src = w /\ c[1] = m
    BY <1>4, <1>6
  <2> QED
    BY <2>1, <2>2
<1>8. \A i \in 1..Len(Tail(c)) : Tail(c)[i].src # w
  <2> SUFFICES ASSUME NEW i \in 1..Len(Tail(c)), Tail(c)[i].src = w PROVE FALSE
    OBVIOUS
  <2>1. (i + 1) \in 1..Len(c) /\ c[i + 1].src = c[1].src /\ i \in Nat /\ i > 0
    BY <1>4, <1>6
  <2>2. i + 1 = 1
    <3> HIDE DEF c
    <3> QED
      BY <1>4, <1>5, <1>6, <2>1, CachedRequest
  <2> QED
    BY <2>1, <2>2
<1>9. ClocksOK(server.add, server.get) /\ server.add \in Clock /\ GlobalIsMin(server.add)
  BY DEF IInv, ClocksOK
<1>10. PICK u \in Workers :
         ~InCache(c, u) /\ \A v \in Workers : server.add.local[u] <= server.add.local[v]
  BY <1>2
<1>11. u # w
  BY <1>6, <1>10
<1>12. /\ s.get = server.get /\ s.add = server.add /\ s.params = server.params
       /\ s.waited = server.waited /\ s.answered = server.answered
       /\ s.failed = server.failed /\ s.replies = server.replies
       /\ s.getCache = server.getCache /\ s.addCache = Tail(c)
  BY <1>1 DEF Server, s
<1> HIDE DEF c
<1>13. /\ t \in Server /\ t.add = Update(server.add, w) /\ t.get = server.get
       /\ t.params = [server.params EXCEPT ![w] = @ + 1] /\ t.waited = server.waited
       /\ t.answered = [server.answered EXCEPT ![w] = @ \cup {Done(w) + 1}]
       /\ ~t.failed /\ t.getCache = << >> /\ t.addCache = Tail(c)
       /\ t.replies = server.replies
  <2>1. /\ t \in Server
        /\ t.add = Update(s.add, m.src) /\ t.get = s.get /\ t.params = [s.params EXCEPT ![m.src] = @ + 1]
        /\ t.answered = [s.answered EXCEPT ![m.src] = @ \cup {m.k}]
        /\ t.waited = s.waited /\ t.failed = s.failed
        /\ t.getCache = s.getCache /\ t.addCache = s.addCache
        /\ t.replies = s.replies
    BY <1>3, ApplyAddFields
  <2> HIDE DEF t
  <2> QED
    BY <1>1, <1>2, <1>6, <1>7, <1>12, <2>1
<1>14. Update(server.add, w).local = [server.add.local EXCEPT ![w] = @ + 1]
  BY <1>6, <1>9, UpdateClock
<1>15. /\ Update(server.add, w).local[u] = server.add.local[u]
       /\ Update(server.add, w).local[w] = server.add.local[w] + 1
       /\ server.add.local[u] \in Nat /\ server.add.local[w] \in Nat
       /\ server.add.local[u] <= server.add.local[w]
  BY <1>6, <1>9, <1>10, <1>11, <1>14 DEF Clock
<1>16. server.get.local[w] <= server.get.global
  BY <1>2, <1>6, <1>9 DEF ClocksOK, Clock
<1>17. \A x \in Workers : Update(server.add, w).local[x] # MaxInt
  <2> SUFFICES ASSUME NEW x \in Workers PROVE Update(server.add, w).local[x] # MaxInt
    OBVIOUS
  <2>1. /\ Len(Prog[w]) \in Nat /\ Done(w) \in Nat
    BY <1>6, <1>9, GrantedType DEF Done
  <2>2. Done(w) < Len(Prog[w])
    BY <1>6, <1>7, <2>1 DEF IInv, RequestsOK
  <2>3. ClocksOK(Update(server.add, w), server.get)
    BY <1>6, <1>7, <1>9, <1>16, <2>2, GrantAddKeepsClocks DEF Done
  <2>4. /\ Granted(Update(server.add, w), server.get, x) < MaxInt
        /\ server.get.local[x] \in Nat /\ Update(server.add, w).local[x] \in Nat
    BY <2>3, GrantedType
  <2> QED
    BY <2>4 DEF Granted, MaxInt
<1>18. ~UpdateReturns(server.add, w)
  BY <1>6, <1>9, <1>10, <1>15, <1>17, UpdateLevel
<1>19. server' = StartDrainingAdds(n)
  BY <1>1, <1>18 DEF DrainAdd, c, m, w, s
<1> HIDE DEF t
<1>n. /\ n \in Server /\ n.add = t.add /\ n.get = t.get /\ n.params = t.params
      /\ n.waited = [server.waited EXCEPT ![w] = @ - 1]
      /\ n.answered = t.answered /\ n.failed = t.failed /\ n.replies = t.replies
      /\ n.addCache = t.addCache /\ n.getCache = t.getCache
  <2>1. [t.waited EXCEPT ![w] = @ - 1] \in [Workers -> Int]
    BY <1>6, <1>13 DEF Server
  <2>2. n \in Server
    BY <1>6, <1>13, <2>1 DEF Server
  <2> QED
    BY <1>6, <1>13, <2>2 DEF Server
<1> HIDE DEF n
<1>20. /\ server'.add = Update(server.add, w) /\ server'.get = server.get
       /\ server'.params = [server.params EXCEPT ![w] = @ + 1]
       /\ server'.waited = [server.waited EXCEPT ![w] = @ - 1]
       /\ server'.answered = [server.answered EXCEPT ![w] = @ \cup {Done(w) + 1}]
       /\ ~server'.failed /\ server'.getCache = << >> /\ server'.addCache = Tail(c)
       /\ server'.replies = server.replies
       /\ server'.draining = IF Tail(c) = << >> THEN "no" ELSE "adds"
       /\ server' \in Server
  <2>1. /\ server'.add = n.add /\ server'.get = n.get /\ server'.params = n.params
        /\ server'.waited = n.waited /\ server'.answered = n.answered
        /\ server'.failed = n.failed /\ server'.replies = n.replies
        /\ server'.addCache = n.addCache /\ server'.getCache = n.getCache
    BY <1>19, <1>n, StartFields
  <2>2. /\ server'.draining = IF n.addCache = << >> THEN "no" ELSE "adds"
        /\ server' \in Server
    BY <1>19, <1>n, StartPlace
  <2> QED
    BY <1>13, <1>n, <2>1, <2>2
<1>21. /\ ClocksOK(server.add, server.get)'
       /\ AnswersOK' /\ RequestsOK' /\ RepliesOK'
       /\ \A v \in Workers : Done(v)' = IF v = w THEN Done(v) + 1 ELSE Done(v)
  BY <1>1, <1>6, <1>7, <1>16, <1>20, GrantAddStep
<1>22. TypeOK'
  BY <1>1, <1>20 DEF IInv, TypeOK
<1>23. CacheOK(server.getCache, "Get")'
  BY <1>20 DEF CacheOK
<1>24. CacheOK(server.addCache, "Add")'
  <2>1. ASSUME NEW i \in 1..Len(server'.addCache), NEW v \in Workers,
               server'.addCache[i].src = v
        PROVE  /\ server'.addCache[i].k = Done(v)' + 1 /\ issued'[v] = Done(v)' + 1
               /\ transit'[v] = {} /\ Prog[v][Done(v)' + 1] = "Add"
    <3>1. v # w
      BY <1>8, <1>20, <2>1
    <3>2. (i + 1) \in 1..Len(c) /\ server'.addCache[i] = c[i + 1]
      BY <1>4, <1>20, <2>1
    <3>3. /\ c[i + 1].k = Done(v) + 1 /\ issued[v] = Done(v) + 1
          /\ transit[v] = {} /\ Prog[v][Done(v) + 1] = "Add"
      BY <1>5, <2>1, <3>2 DEF CacheOK
    <3> QED
      BY <1>1, <1>21, <3>1, <3>2, <3>3
  <2>2. ASSUME NEW i \in 1..Len(server'.addCache), NEW j \in 1..Len(server'.addCache),
               server'.addCache[i].src = server'.addCache[j].src
        PROVE  i = j
    <3>1. /\ (i + 1) \in 1..Len(c) /\ (j + 1) \in 1..Len(c)
          /\ c[i + 1].src = c[j + 1].src /\ i \in Nat /\ j \in Nat
      BY <1>4, <1>20, <2>2
    <3>2. i + 1 = j + 1
      BY <1>5, <3>1 DEF CacheOK
    <3> QED
      BY <3>1, <3>2
  <2> QED
    BY <2>1, <2>2 DEF CacheOK
<1>25. WaitedOK'
  <2>1. ~InCache(server'.addCache, w)
    BY <1>8, <1>20 DEF InCache
  <2>2. ASSUME NEW v \in Workers, v # w
        PROVE  InCache(server'.addCache, v) <=> InCache(c, v)
    <3>1. ASSUME InCache(server'.addCache, v) PROVE InCache(c, v)
      BY <1>4, <1>20, <3>1 DEF InCache
    <3>2. ASSUME NEW i \in 1..Len(c), c[i].src = v PROVE InCache(server'.addCache, v)
      <4>1. i # 1
        BY <1>6, <2>2, <3>2
      <4>2. (i - 1) \in 1..Len(Tail(c)) /\ Tail(c)[i - 1].src = v
        BY <1>4, <3>2, <4>1
      <4> QED
        BY <1>20, <4>2 DEF InCache
    <3> QED
      BY <3>1, <3>2 DEF InCache
  <2>3. server.waited \in [Workers -> Int]
    BY DEF IInv, TypeOK, Server
  <2>4. ASSUME NEW v \in Workers
        PROVE  server'.waited[v] = IF InCache(server'.addCache, v) THEN 1 ELSE 0
    <3>1. server.waited[v] = IF InCache(c, v) THEN 1 ELSE 0
      BY DEF IInv, WaitedOK, c
    <3> QED
      BY <1>6, <1>20, <2>1, <2>2, <2>3, <3>1
  <2> QED
    BY <2>4 DEF WaitedOK, InCache
<1>26. CachedAreAhead'
  <2>1. 1..Len(server'.getCache) = {}
    BY <1>20
  <2>2. server'.draining # "adds" => 1..Len(server'.addCache) = {}
    BY <1>20
  <2> QED
    BY <2>1, <2>2 DEF CachedAreAhead
<1>27. DrainingOK'
  <2>1. ~InCache(server'.addCache, u)
    BY <1>4, <1>10, <1>20 DEF InCache
  <2>2. \A v \in Workers : server'.add.local[u] <= server'.add.local[v]
    <3> SUFFICES ASSUME NEW v \in Workers
                 PROVE  server'.add.local[u] <= server'.add.local[v]
      OBVIOUS
    <3>1. server'.add.local[v] = server.add.local[v] \/ v = w
      BY <1>9, <1>14, <1>20 DEF Clock
    <3> QED
      BY <1>10, <1>15, <1>20, <3>1
  <2> QED
    BY <1>2, <1>20, <2>1, <2>2 DEF DrainingOK, LoopOK, InCache
<1> QED
  BY <1>20, <1>21, <1>22, <1>23, <1>24, <1>25, <1>26, <1>27 DEF IInv

\* A worker makes its next request.
LEMMA IssueInv ==
  ASSUME Blocking = Op, IInv, NEW w \in Workers, Issue(w)
  PROVE  IInv'
<1>1. /\ issued[w] < Len(Prog[w]) /\ server' = server
      /\ issued' = [issued EXCEPT ![w] = @ + 1]
      /\ transit' = [transit EXCEPT ![w] = @ \cup {issued[w] + 1}]
      /\ issued \in [Workers -> Nat] /\ transit \in [Workers -> SUBSET Nat]
  BY DEF Issue, IInv, TypeOK
<1>2. ClocksOK(server.add, server.get) /\ Done(w) \in Nat /\ Len(Prog[w]) \in Nat
  BY GrantedType DEF IInv, Done
<1>3. /\ Done(w) <= issued[w] /\ issued[w] <= Done(w) + 1
      /\ transit[w] \subseteq {Done(w) + 1}
      /\ transit[w] # {} => issued[w] = Done(w) + 1
  BY DEF IInv, RequestsOK
<1>4. issued[w] = Done(w)
  <2>1. CASE issued[w] = 0
    BY <1>1, <1>2, <1>3, <2>1
  <2>2. CASE issued[w] # 0
    <3>1. issued[w] > 0 /\ issued[w] \in 1..Len(Prog[w])
      BY <1>1, <1>2, <2>2
    <3>2. Prog[w][issued[w]] \in Blocking
      BY <1>2, <3>1, GrantedType
    <3>3. issued[w] \in server.answered[w]
      BY <3>1, <3>2 DEF Issue
    <3>4. server.answered[w] = 1..Done(w)
      BY DEF IInv, AnswersOK
    <3> QED
      BY <1>1, <1>2, <1>3, <3>3, <3>4
  <2> QED
    BY <2>1, <2>2
<1>5. /\ transit'[w] = {Done(w) + 1} /\ issued'[w] = Done(w) + 1
      /\ \A v \in Workers : v # w => transit'[v] = transit[v] /\ issued'[v] = issued[v]
  BY <1>1, <1>2, <1>3, <1>4
<1>6. \A v \in Workers : Done(v)' = Done(v)
  BY <1>1 DEF Done
<1>7. TypeOK'
  BY <1>1 DEF IInv, TypeOK
<1>8. RequestsOK'
  <2> SUFFICES ASSUME NEW v \in Workers
               PROVE  /\ Done(v) <= issued'[v] /\ issued'[v] <= Done(v) + 1
                      /\ issued'[v] <= Len(Prog[v])
                      /\ transit'[v] \subseteq {Done(v) + 1}
                      /\ transit'[v] # {} => issued'[v] = Done(v) + 1
    BY <1>6 DEF RequestsOK
  <2>1. CASE v = w
    BY <1>1, <1>2, <1>4, <1>5, <2>1
  <2>2. CASE v # w
    BY <1>5, <2>2 DEF IInv, RequestsOK
  <2> QED
    BY <2>1, <2>2
<1>9. ASSUME NEW op, NEW v \in Workers, issued[v] = Done(v) + 1,
             transit[v] = {}, Prog[v][Done(v) + 1] = op
      PROVE  /\ issued'[v] = Done(v)' + 1 /\ transit'[v] = {}
             /\ Prog[v][Done(v)' + 1] = op
  <2>1. v # w
    BY <1>2, <1>4, <1>9
  <2> QED
    BY <1>5, <1>6, <1>9, <2>1
<1>10. CacheOK(server.addCache, "Add")'
  <2>1. CacheOK(server.addCache, "Add")
    BY DEF IInv
  <2>2. ASSUME NEW i \in 1..Len(server'.addCache), NEW v \in Workers,
               server'.addCache[i].src = v
        PROVE  /\ server'.addCache[i].k = Done(v)' + 1 /\ issued'[v] = Done(v)' + 1
               /\ transit'[v] = {} /\ Prog[v][Done(v)' + 1] = "Add"
    <3>1. /\ server.addCache[i].k = Done(v) + 1 /\ issued[v] = Done(v) + 1
          /\ transit[v] = {} /\ Prog[v][Done(v) + 1] = "Add"
      BY <1>1, <2>1, <2>2 DEF CacheOK
    <3> QED
      BY <1>1, <1>6, <1>9, <3>1
  <2> QED
    BY <1>1, <2>1, <2>2 DEF CacheOK
<1>11. CacheOK(server.getCache, "Get")'
  <2>1. CacheOK(server.getCache, "Get")
    BY DEF IInv
  <2>2. ASSUME NEW i \in 1..Len(server'.getCache), NEW v \in Workers,
               server'.getCache[i].src = v
        PROVE  /\ server'.getCache[i].k = Done(v)' + 1 /\ issued'[v] = Done(v)' + 1
               /\ transit'[v] = {} /\ Prog[v][Done(v)' + 1] = "Get"
    <3>1. /\ server.getCache[i].k = Done(v) + 1 /\ issued[v] = Done(v) + 1
          /\ transit[v] = {} /\ Prog[v][Done(v) + 1] = "Get"
      BY <1>1, <2>1, <2>2 DEF CacheOK
    <3> QED
      BY <1>1, <1>6, <1>9, <3>1
  <2> QED
    BY <1>1, <2>1, <2>2 DEF CacheOK
<1>12. /\ AnswersOK' /\ WaitedOK' /\ CachedAreAhead' /\ DrainingOK' /\ RepliesOK'
       /\ ~server'.failed /\ ClocksOK(server.add, server.get)'
  BY <1>1, <1>6 DEF IInv, AnswersOK, WaitedOK, CachedAreAhead, DrainingOK, RepliesOK
<1> QED
  BY <1>7, <1>8, <1>10, <1>11, <1>12 DEF IInv

\* Initially everything is level and empty.
LEMMA InitInv == Init => IInv
<1> SUFFICES ASSUME Init PROVE IInv
  OBVIOUS
<1>1. server = InitServer
  BY DEF Init
<1>2. /\ server.add = New(Workers) /\ server.get = New(Workers)
      /\ server.waited = [w \in Workers |-> 0] /\ server.params = [w \in Workers |-> 0]
      /\ server.answered = [w \in Workers |-> {}] /\ server.replies = {}
      /\ server.addCache = << >> /\ server.getCache = << >>
      /\ server.draining = "no" /\ ~server.failed
  BY <1>1 DEF InitServer
<1>3. TypeOK
  <2>1. InitServer \in Server
    BY DEF InitServer, Server, New, Clock
  <2> QED
    BY <2>1 DEF Init, TypeOK
<1>4. /\ New(Workers) \in Clock /\ New(Workers).global = 0
      /\ \A w \in Workers : New(Workers).local[w] = 0
  BY DEF New, Clock
<1>5. GlobalIsMin(New(Workers))
  BY <1>4, WorkersAssumption DEF GlobalIsMin
<1>6. \A w \in Workers : Done(w) = 0 /\ Granted(server.add, server.get, w) = 0
  BY <1>2, <1>4 DEF Done, Granted
<1>7. \A w \in Workers : Len(Prog[w]) \in Nat
  BY ProgAssumption
<1>8. ClocksOK(server.add, server.get)
  BY <1>2, <1>4, <1>5, <1>6, <1>7, CountZero DEF ClocksOK
<1>9. AnswersOK /\ RepliesOK
  BY <1>2, <1>4, <1>6 DEF AnswersOK, RepliesOK
<1>10. RequestsOK
  BY <1>6, <1>7 DEF Init, RequestsOK
<1>11. 1..Len(server.addCache) = {} /\ 1..Len(server.getCache) = {}
  BY <1>2
<1>12. CacheOK(server.addCache, "Add") /\ CacheOK(server.getCache, "Get") /\ CachedAreAhead
  BY <1>11 DEF CacheOK, CachedAreAhead
<1>13. WaitedOK /\ DrainingOK
  BY <1>2, <1>11 DEF WaitedOK, InCache, DrainingOK
<1> QED
  BY <1>2, <1>3, <1>8, <1>9, <1>10, <1>12, <1>13 DEF IInv

\* The inductive invariant holds: with blocking calls and a common program, the
\* clocks stay within one phase of each other, the caches hold only requests of
\* workers that are ahead, and no CHECK of sync_scheduler.cc fails.
THEOREM Inductive ==
  ASSUME SameProgram, Blocking = Op PROVE Spec => []IInv
<1>1. Init => IInv
  BY InitInv
<1>2. IInv /\ [Next]_vars => IInv'
  <2> SUFFICES ASSUME IInv, [Next]_vars PROVE IInv'
    OBVIOUS
  <2>1. ASSUME NEW w \in Workers, Issue(w) PROVE IInv'
    BY <2>1, IssueInv
  <2>2. ASSUME NEW w \in Workers, Receive(w) PROVE IInv'
    BY <2>2, ReceiveAddInv, ReceiveGetInv DEF Receive
  <2>3. CASE Drain
    BY <2>3, DrainGetInv, DrainAddInv DEF Drain
  <2>4. CASE UNCHANGED vars
    <3>1. issued' = issued /\ transit' = transit /\ server' = server
      BY <2>4 DEF vars
    <3>2. TypeOK' /\ ~server'.failed /\ ClocksOK(server.add, server.get)'
      BY <3>1 DEF IInv, TypeOK
    <3>3. AnswersOK' /\ RequestsOK' /\ RepliesOK'
      BY <3>1 DEF IInv, AnswersOK, RequestsOK, RepliesOK, Done
    <3>4. CacheOK(server.addCache, "Add")' /\ CacheOK(server.getCache, "Get")'
      BY <3>1 DEF IInv, CacheOK, Done
    <3>5. WaitedOK' /\ CachedAreAhead' /\ DrainingOK'
      BY <3>1 DEF IInv, WaitedOK, CachedAreAhead, DrainingOK
    <3> QED
      BY <3>2, <3>3, <3>4, <3>5 DEF IInv
  <2> QED
    BY <2>1, <2>2, <2>3, <2>4 DEF Next, AllFinished
<1> QED
  BY <1>1, <1>2, PTL DEF Spec

-----------------------------------------------------------------------------
(* What the invariant gives the workers.                                     *)

\* Two Gets with the same ordinal are at the same place in the program.
LEMMA GetOrdinal ==
  ASSUME NEW w, NEW j \in Nat \ {0}, NEW k \in Nat \ {0},
         Prog[w][j] = "Get", Prog[w][k] = "Get",
         Count("Get", w, j) = Count("Get", w, k)
  PROVE  j = k
<1>1. ASSUME NEW a \in Nat \ {0}, NEW b \in Nat \ {0}, Prog[w][b] = "Get", a < b
      PROVE  Count("Get", w, a) < Count("Get", w, b)
  <2>1. b - 1 \in Nat /\ a \in Nat /\ a <= b - 1 /\ (b - 1) + 1 = b
    BY <1>1
  <2>2. Count("Get", w, a) <= Count("Get", w, b - 1)
    BY <2>1, CountMonotone
  <2>3. Count("Get", w, b) = Count("Get", w, b - 1) + 1
    BY <1>1, <2>1, CountStep
  <2>4. Count("Get", w, a) \in Nat /\ Count("Get", w, b - 1) \in Nat
    BY <2>1, CountType
  <2> QED
    BY <2>2, <2>3, <2>4
<1>2. Count("Get", w, j) \in Nat
  BY CountType
<1> QED
  BY <1>1, <1>2

\* Every property of the scheduler that is an invariant follows from IInv.
LEMMA InvariantGives ==
  ASSUME SameProgram, IInv
  PROVE  ChecksHold /\ SameParameters /\ AfterAllUpdates /\ OnePhaseApart /\ NoMutualWait
<1>1. ClocksOK(server.add, server.get)
  BY DEF IInv
<1>2. \A w \in Workers : server.answered[w] = 1..Done(w) /\ Done(w) \in Nat
  BY <1>1, GrantedType DEF IInv, AnswersOK, Done
<1>3. ChecksHold
  BY DEF IInv, ChecksHold
<1>4. \A a \in server.replies : a.src \in Workers /\ a.k \in Nat \ {0}
  BY <1>1, GrantedType DEF IInv, RepliesOK, TypeOK, Server, Reply
<1>5. AfterAllUpdates
  BY DEF IInv, RepliesOK, AfterAllUpdates
<1>6. SameParameters
  <2> SUFFICES ASSUME NEW a \in server.replies, NEW b \in server.replies,
                      Count("Get", a.src, a.k) = Count("Get", b.src, b.k)
               PROVE  a.params = b.params
    BY DEF SameParameters
  <2>1. Prog[a.src] = Prog[b.src]
    BY <1>4 DEF SameProgram
  <2>2. /\ Prog[a.src][a.k] = "Get" /\ Prog[b.src][b.k] = "Get"
        /\ a.params = [w \in Workers |-> Count("Add", a.src, a.k)]
        /\ b.params = [w \in Workers |-> Count("Add", b.src, b.k)]
    BY DEF IInv, RepliesOK
  <2>3. \A op, k : Count(op, a.src, k) = Count(op, b.src, k)
    BY <2>1 DEF Count
  <2>4. a.k = b.k
    BY <1>4, <2>1, <2>2, <2>3, GetOrdinal
  <2> QED
    BY <2>2, <2>3, <2>4
<1>7. OnePhaseApart
  <2> SUFFICES ASSUME NEW v \in Workers, NEW w \in Workers,
                      NEW i \in server.answered[w] \ server.answered[v],
                      NEW j \in server.answered[w] \ server.answered[v]
               PROVE  Prog[w][i] = Prog[w][j]
    BY DEF OnePhaseApart
  <2>1. i \in (Done(v) + 1)..Done(w) /\ j \in (Done(v) + 1)..Done(w)
    BY <1>2
  <2> QED
    BY <1>1, <2>1 DEF ClocksOK, Done
<1>8. NoMutualWait
  <2> SUFFICES ASSUME Idle, NEW w \in Workers, Cached(w)
               PROVE  \E v \in Workers : 
                        /\ server.answered[v] \subseteq server.answered[w]
                        /\ server.answered[v] # server.answered[w]
    BY DEF NoMutualWait
  <2>1. DOMAIN server.addCache = 1..Len(server.addCache)
        /\ DOMAIN server.getCache = 1..Len(server.getCache)
    BY CachedSources
  <2>2. \E v \in Workers : Done(v) < Done(w)
    <3>1. CASE \E i \in 1..Len(server.addCache) : server.addCache[i].src = w
      <4>1. server.get.global < server.get.local[w]
        BY <3>1 DEF IInv, CachedAreAhead, Idle
      <4>2. PICK v \in Workers : server.get.global = server.get.local[v]
        BY <1>1 DEF ClocksOK, GlobalIsMin
      <4>3. Count("Get", v, Done(v)) < Count("Get", w, Done(w))
        BY <1>1, <4>1, <4>2 DEF ClocksOK, Done
      <4> QED
        BY <1>1, <4>3, Ahead DEF Op, Done
    <3>2. CASE \E i \in 1..Len(server.getCache) : server.getCache[i].src = w
      <4>1. server.add.global < server.add.local[w]
        BY <3>2 DEF IInv, CachedAreAhead, Idle
      <4>2. PICK v \in Workers : server.add.global = server.add.local[v]
        BY <1>1 DEF ClocksOK, GlobalIsMin
      <4>3. Count("Add", v, Done(v)) < Count("Add", w, Done(w))
        BY <1>1, <4>1, <4>2 DEF ClocksOK, Done
      <4> QED
        BY <1>1, <4>3, Ahead DEF Op, Done
    <3> QED
      BY <2>1, <3>1, <3>2 DEF Cached
  <2>3. PICK v \in Workers : Done(v) < Done(w)
    BY <2>2
  <2>4. (1..Done(v)) \subseteq (1..Done(w)) /\ Done(w) \in 1..Done(w)
        /\ Done(w) \notin 1..Done(v)
    BY <1>2, <2>3
  <2> QED
    BY <1>2, <2>4
<1> QED
  BY <1>3, <1>5, <1>6, <1>7, <1>8

\* The promise of sync_scheduler.cc:14-20, for any number of workers and any
\* program they share, when every request is a blocking call: the i-th Gets of
\* all workers return the same parameters,
THEOREM PromiseSameParameters ==
  ASSUME SameProgram, Blocking = Op PROVE Spec => []SameParameters
<1>1. IInv => SameParameters
  BY InvariantGives
<1> QED
  BY <1>1, Inductive, PTL

\* and they are the parameters after exactly the Adds the worker made before.
THEOREM PromiseAfterAllUpdates ==
  ASSUME SameProgram, Blocking = Op PROVE Spec => []AfterAllUpdates
<1>1. IInv => AfterAllUpdates
  BY InvariantGives
<1> QED
  BY <1>1, Inductive, PTL

\* No CHECK in the scheduler's handlers can fail.
THEOREM NoCheckFails ==
  ASSUME SameProgram, Blocking = Op PROVE Spec => []ChecksHold
<1>1. IInv => ChecksHold
  BY InvariantGives
<1> QED
  BY <1>1, Inductive, PTL

\* Workers never wait for each other in a cycle: the slowest is never cached.
THEOREM NobodyWaitsInACycle ==
  ASSUME SameProgram, Blocking = Op PROVE Spec => []NoMutualWait
<1>1. IInv => NoMutualWait
  BY InvariantGives
<1> QED
  BY <1>1, Inductive, PTL

\* Workers are never more than one phase apart.
THEOREM WithinOnePhase ==
  ASSUME SameProgram, Blocking = Op PROVE Spec => []OnePhaseApart
<1>1. IInv => OnePhaseApart
  BY InvariantGives
<1> QED
  BY <1>1, Inductive, PTL

-----------------------------------------------------------------------------
(* Refinement: SyncScheduler implements BulkSync.                            *)

\* What one worker was answered and another was not is an interval.
LEMMA AnsweredSince ==
  ASSUME NEW a \in Nat, NEW b \in Nat, NEW i \in (1..b) \ (1..a)
  PROVE  i \in (a + 1)..b
OBVIOUS

\* A step that answers w's next request is a Grant of BulkSync.
LEMMA AnswerIsGrant ==
  ASSUME SameProgram, IInv, IInv', NEW w \in Workers, issued[w] = Done(w) + 1,
         server'.answered = [server.answered EXCEPT ![w] = @ \cup {Done(w) + 1}],
         \/ Prog[w][Done(w) + 1] = "Add" /\ server'.replies = server.replies
         \/ /\ Prog[w][Done(w) + 1] = "Get"
            /\ server'.replies = server.replies \cup
                 {[src |-> w, k |-> Done(w) + 1, params |-> server.params]}
  PROVE  Bulk!Next
<1> DEFINE k == Done(w) + 1
<1>1. \A v \in Workers : server.answered[v] = 1..Done(v) /\ Done(v) \in Nat
  BY GrantedType DEF IInv, AnswersOK, Done
<1>2. Len(Prog[w]) \in Nat /\ k \in 1..Len(Prog[w]) /\ k - 1 = Done(w)
  BY <1>1, GrantedType DEF IInv, RequestsOK
<1>3. server.answered \in [Workers -> SUBSET Nat]
  BY DEF IInv, TypeOK, Server
<1>4. OnePhaseApart'
  <2>1. \A v \in Workers : server'.answered[v] = 1..Done(v)'
    BY DEF IInv, AnswersOK
  <2>2. ClocksOK(server.add, server.get)'
    BY DEF IInv
  <2>3. \A v \in Workers : Done(v)' \in Nat
    BY <2>2, GrantedType DEF Done
  <2> SUFFICES ASSUME NEW v \in Workers, NEW x \in Workers,
                      NEW i \in server'.answered[x] \ server'.answered[v],
                      NEW j \in server'.answered[x] \ server'.answered[v]
               PROVE  Prog[x][i] = Prog[x][j]
    BY DEF OnePhaseApart
  <2>4. i \in (Done(v)' + 1)..Done(x)' /\ j \in (Done(v)' + 1)..Done(x)'
    <3>1. /\ server'.answered[v] = 1..Done(v)' /\ server'.answered[x] = 1..Done(x)'
          /\ Done(v)' \in Nat /\ Done(x)' \in Nat
      BY <2>1, <2>3
    <3> QED
      BY <3>1, AnsweredSince
  <2> QED
    BY <2>2, <2>4 DEF ClocksOK, Done
<1>5. ASSUME NEW v \in Workers, NEW j \in 1..k, j \notin server.answered[v]
      PROVE  Prog[w][j] = Prog[w][k]
  <2>1. CASE v = w
    BY <1>1, <1>5, <2>1
  <2>2. CASE v # w
    <3>1. server'.answered[v] = server.answered[v]
      BY <1>3, <2>2
    <3>2. server'.answered[w] = (1..Done(w)) \cup {k}
      BY <1>1, <1>3
    <3>3. j \in server'.answered[w] \ server'.answered[v]
          /\ k \in server'.answered[w] \ server'.answered[v]
      BY <1>1, <1>5, <3>1, <3>2
    <3> QED
      BY <1>4, <3>3 DEF OnePhaseApart
  <2> QED
    BY <2>1, <2>2
<1>6. Bulk!PhaseReached(w, k)
  BY <1>5 DEF Bulk!PhaseReached
<1>7. Bulk!GrantAdd(w, k) \/ Bulk!GrantGet(w, k)
  <2>1. CASE Prog[w][k] = "Add" /\ server'.replies = server.replies
    BY <2>1 DEF Bulk!GrantAdd
  <2>2. CASE /\ Prog[w][k] = "Get"
             /\ server'.replies = server.replies \cup
                  {[src |-> w, k |-> k, params |-> server.params]}
    <3> DEFINE r == [src |-> w, k |-> k, params |-> server.params]
    <3>1. r.src = w /\ r.k = k /\ r.params = server.params /\ r \in server'.replies
      BY <2>2
    <3> HIDE DEF r
    <3>2. r.params = [v \in Workers |-> Count("Add", r.src, r.k)]
      BY <3>1 DEF IInv, RepliesOK
    <3>3. Count("Add", w, k) = Bulk!AddsBefore(w, k)
      BY DEF Bulk!AddsBefore, Count, Bulk!Cardinality, Cardinality
    <3>4. server.params = [v \in Workers |-> Bulk!AddsBefore(w, k)]
      BY <3>1, <3>2, <3>3
    <3> QED
      BY <2>2, <3>4 DEF Bulk!GrantGet
  <2> QED
    BY <2>1, <2>2
<1>8. server.answered[w] = 1..(k - 1)
  BY <1>1, <1>2
<1>9. server'.answered = [server.answered EXCEPT ![w] = @ \cup {k}]
  OBVIOUS
<1> HIDE DEF k
<1>10. Bulk!Grant(w)
  BY <1>2, <1>6, <1>7, <1>8, <1>9 DEF Bulk!Grant
<1> QED
  BY <1>10 DEF Bulk!Next

\* What a handler does to the answers: nothing, or it answers the request.
LEMMA HandlerAnswers ==
  ASSUME NEW s \in Server, NEW m \in Message
  PROVE  /\ LET t == ProcessAdd(s, m) IN
              /\ t.replies = s.replies
              /\ \/ t.answered = s.answered
                 \/ t.answered = [s.answered EXCEPT ![m.src] = @ \cup {m.k}]
         /\ LET t == ProcessGet(s, m) IN
              \/ t.answered = s.answered /\ t.replies = s.replies
              \/ /\ t.answered = [s.answered EXCEPT ![m.src] = @ \cup {m.k}]
                 /\ t.replies =
                      s.replies \cup {[src |-> m.src, k |-> m.k, params |-> s.params]}
<1>1. LET t == CacheAdd(s, m) IN t.answered = s.answered /\ t.replies = s.replies
  BY CacheAddFields
<1>2. LET t == CacheGet(s, m) IN t.answered = s.answered /\ t.replies = s.replies
  BY CacheGetFields
<1>3. LET t == ApplyAdd(s, m) IN
        /\ t \in Server
        /\ t.answered = [s.answered EXCEPT ![m.src] = @ \cup {m.k}]
        /\ t.replies = s.replies
  BY ApplyAddFields
<1>4. LET t == ServeGet(s, m) IN
        /\ t \in Server
        /\ t.answered = [s.answered EXCEPT ![m.src] = @ \cup {m.k}]
        /\ t.replies = s.replies \cup {[src |-> m.src, k |-> m.k, params |-> s.params]}
  BY ServeGetFields
<1>5. \A t \in Server : LET u == [t EXCEPT !.failed = TRUE] IN
        u.answered = t.answered /\ u.replies = t.replies
  BY DEF Server
<1>6. \A t \in Server : LET u == StartDrainingGets(t) IN
        u.answered = t.answered /\ u.replies = t.replies
  BY StartFields
<1>7. \A t \in Server : LET u == StartDrainingAdds(t) IN
        u.answered = t.answered /\ u.replies = t.replies
  BY StartFields
<1>8. LET t == ProcessAdd(s, m) IN
        /\ t.replies = s.replies
        /\ \/ t.answered = s.answered
           \/ t.answered = [s.answered EXCEPT ![m.src] = @ \cup {m.k}]
  BY <1>1, <1>3, <1>5, <1>6 DEF ProcessAdd
<1>9. LET t == ProcessGet(s, m) IN
        \/ t.answered = s.answered /\ t.replies = s.replies
        \/ /\ t.answered = [s.answered EXCEPT ![m.src] = @ \cup {m.k}]
           /\ t.replies =
                s.replies \cup {[src |-> m.src, k |-> m.k, params |-> s.params]}
  BY <1>2, <1>4, <1>7 DEF ProcessGet
<1> QED
  BY <1>8, <1>9

\* A step of the scheduler is a step of BulkSync or changes nothing it sees.
LEMMA StepRefines ==
  ASSUME SameProgram, Blocking = Op, IInv, IInv', [Next]_vars
  PROVE  [Bulk!Next]_(Bulk!vars)
<1> SUFFICES Bulk!Next \/ (server'.answered = server.answered
                           /\ server'.replies = server.replies)
  BY DEF Bulk!vars
<1>1. server \in Server
  BY DEF IInv, TypeOK
<1>2. ASSUME NEW w \in Workers, NEW k \in transit[w], ReceiveAdd(w, k)
      PROVE  \/ Bulk!Next
             \/ server'.answered = server.answered /\ server'.replies = server.replies
  <2> DEFINE m == [src |-> w, k |-> k]
  <2>1. /\ k = Done(w) + 1 /\ issued[w] = Done(w) + 1 /\ m \in Message
        /\ m.src = w /\ m.k = k
    BY Arriving
  <2>2. server' = ProcessAdd(server, m) /\ Prog[w][k] = "Add"
    BY <1>2 DEF ReceiveAdd
  <2> HIDE DEF m
  <2>3. /\ server'.replies = server.replies
        /\ \/ server'.answered = server.answered
           \/ server'.answered = [server.answered EXCEPT ![w] = @ \cup {Done(w) + 1}]
    BY <1>1, <2>1, <2>2, HandlerAnswers
  <2> QED
    BY <2>1, <2>2, <2>3, AnswerIsGrant
<1>3. ASSUME NEW w \in Workers, NEW k \in transit[w], ReceiveGet(w, k)
      PROVE  \/ Bulk!Next
             \/ server'.answered = server.answered /\ server'.replies = server.replies
  <2> DEFINE m == [src |-> w, k |-> k]
  <2>1. /\ k = Done(w) + 1 /\ issued[w] = Done(w) + 1 /\ m \in Message
        /\ m.src = w /\ m.k = k
    BY Arriving
  <2>2. server' = ProcessGet(server, m) /\ Prog[w][k] = "Get"
    BY <1>3 DEF ReceiveGet
  <2> HIDE DEF m
  <2>3. \/ server'.answered = server.answered /\ server'.replies = server.replies
        \/ /\ server'.answered = [server.answered EXCEPT ![w] = @ \cup {Done(w) + 1}]
           /\ server'.replies = server.replies \cup
                {[src |-> w, k |-> Done(w) + 1, params |-> server.params]}
    BY <1>1, <2>1, <2>2, HandlerAnswers
  <2> QED
    BY <2>1, <2>2, <2>3, AnswerIsGrant
<1>4. CASE DrainNextGet
  <2> DEFINE c == server.getCache
             m == Head(c)
             s == [server EXCEPT !.getCache = Tail(@)]
             t == ServeGet(s, m)
  <2>1. server.draining = "gets" /\ server' = DrainGet(server)
    BY <1>4 DEF DrainNextGet
  <2>2. c # << >>
    BY <2>1 DEF IInv, DrainingOK, LoopOK
  <2>3. m \in Message /\ s \in Server /\ m = c[1] /\ 1 \in 1..Len(c)
    BY <1>1, <2>2, PopFields, CachedSources, TailCache
  <2>4. s.answered = server.answered /\ s.replies = server.replies /\ s.params = server.params
    BY <1>1 DEF Server
  <2>5. CacheOK(c, "Get")
    BY DEF IInv
  <2> HIDE DEF m, c, s
  <2>6. m.src \in Workers /\ c[1].src = m.src
    BY <2>3 DEF Message
  <2>7. m.k = Done(m.src) + 1 /\ issued[m.src] = Done(m.src) + 1
        /\ Prog[m.src][Done(m.src) + 1] = "Get"
    BY <2>3, <2>5, <2>6 DEF CacheOK
  <2>8. /\ t \in Server /\ t.answered = [s.answered EXCEPT ![m.src] = @ \cup {m.k}]
        /\ t.replies = s.replies \cup {[src |-> m.src, k |-> m.k, params |-> s.params]}
    BY <2>3, ServeGetFields
  <2> HIDE DEF t
  <2>9. server' \in {StartDrainingGets(t), [t EXCEPT !.failed = TRUE]}
    BY <2>1 DEF DrainGet, c, m, s, t
  <2>10. server'.answered = t.answered /\ server'.replies = t.replies
    <3>1. LET u == [t EXCEPT !.failed = TRUE] IN
            u.answered = t.answered /\ u.replies = t.replies
      BY <2>8 DEF Server
    <3>2. LET u == StartDrainingGets(t) IN
            u.answered = t.answered /\ u.replies = t.replies
      BY <2>8, StartFields
    <3> QED
      BY <2>9, <3>1, <3>2
  <2> QED
    BY <2>4, <2>6, <2>7, <2>8, <2>10, AnswerIsGrant
<1>5. CASE DrainNextAdd
  <2> DEFINE c == server.addCache
             m == Head(c)
             s == [server EXCEPT !.addCache = Tail(@)]
             t == ApplyAdd(s, m)
             n == [t EXCEPT !.waited[m.src] = @ - 1]
  <2>1. server.draining = "adds" /\ server' = DrainAdd(server)
    BY <1>5 DEF DrainNextAdd
  <2>2. c # << >>
    BY <2>1 DEF IInv, DrainingOK, LoopOK
  <2>3. m \in Message /\ s \in Server /\ m = c[1] /\ 1 \in 1..Len(c)
    BY <1>1, <2>2, PopFields, CachedSources, TailCache
  <2>4. s.answered = server.answered /\ s.replies = server.replies
    BY <1>1 DEF Server
  <2>5. CacheOK(c, "Add")
    BY DEF IInv
  <2> HIDE DEF m, c, s
  <2>6. m.src \in Workers /\ c[1].src = m.src
    BY <2>3 DEF Message
  <2>7. m.k = Done(m.src) + 1 /\ issued[m.src] = Done(m.src) + 1
        /\ Prog[m.src][Done(m.src) + 1] = "Add"
    BY <2>3, <2>5, <2>6 DEF CacheOK
  <2>8. /\ t \in Server /\ t.answered = [s.answered EXCEPT ![m.src] = @ \cup {m.k}]
        /\ t.replies = s.replies
    BY <2>3, ApplyAddFields
  <2> HIDE DEF t
  <2>9. server' \in {StartDrainingAdds(n), [t EXCEPT !.failed = TRUE]}
    BY <2>1 DEF DrainAdd, c, m, s, t
  <2>10. n \in Server /\ n.answered = t.answered /\ n.replies = t.replies
    <3>1. [t.waited EXCEPT ![m.src] = @ - 1] \in [Workers -> Int]
      BY <2>6, <2>8 DEF Server
    <3> QED
      BY <2>8, <3>1 DEF Server
  <2> HIDE DEF n
  <2>11. server'.answered = t.answered /\ server'.replies = t.replies
    <3>1. LET u == [t EXCEPT !.failed = TRUE] IN
            u.answered = t.answered /\ u.replies = t.replies
      BY <2>8 DEF Server
    <3>2. LET u == StartDrainingAdds(n) IN
            u.answered = n.answered /\ u.replies = n.replies
      BY <2>10, StartFields
    <3> QED
      BY <2>9, <2>10, <3>1, <3>2
  <2> QED
    BY <2>4, <2>6, <2>7, <2>8, <2>11, AnswerIsGrant
<1>6. CASE (\E w \in Workers : Issue(w)) \/ UNCHANGED vars
  BY <1>6 DEF Issue, vars
<1> QED
  BY <1>2, <1>3, <1>4, <1>5, <1>6 DEF Next, Receive, Drain, AllFinished

\* The synchronous scheduler implements bulk-synchronous training: every
\* behaviour of it is, to its workers, one in which requests are granted phase
\* by phase and a Get returns what its place in the program determines.
THEOREM ImplementsBulkSync ==
  ASSUME SameProgram, Blocking = Op PROVE Spec => Bulk!SafetySpec
<1>1. Init => Bulk!Init
  BY DEF Init, Bulk!Init, InitServer
<1>2. IInv /\ IInv' /\ [Next]_vars => [Bulk!Next]_(Bulk!vars)
  BY StepRefines
<1> QED
  BY <1>1, <1>2, Inductive, PTL DEF Spec, Bulk!SafetySpec
=============================================================================
