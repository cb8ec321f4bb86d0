------------------------- MODULE SyncServerProofs -------------------------
(* What the handlers of one SyncScheduler do, for workers that run a common  *)
(* program with blocking calls. The scheduler may be that of one server of   *)
(* several, so that some calls of the program pass it by, and workers that   *)
(* are through may have left by FinishTrain.                                 *)
EXTENDS SyncServer, FiniteSetTheorems, TLAPS

-----------------------------------------------------------------------------
(* The vector clock and the fields of the server.                            *)

\* A global clock is the minimum of the local clocks.
GlobalIsMin(c) ==
  /\ \A w \in Workers : c.global <= c.local[w]
  /\ \E w \in Workers : c.global = c.local[w]

\* A request of w is in the cache.
InCache(cache, w) == \E i \in 1..Len(cache) : cache[i].src = w

\* Update counts one request of w, and keeps the global clock the minimum.
LEMMA UpdateClock ==
  ASSUME NEW c \in Clock, GlobalIsMin(c), NEW w \in Workers
  PROVE  /\ Update(c, w) \in Clock
         /\ Update(c, w).local = [c.local EXCEPT ![w] = @ + 1]
         /\ Update(c, w).global \in {c.global, c.global + 1}
         /\ GlobalIsMin(Update(c, w))
<1> DEFINE t == Tick(c, w)
           u == Update(c, w)
<1>1. t \in Clock /\ t.local = [c.local EXCEPT ![w] = @ + 1] /\ t.global = c.global
  BY DEF Tick, Clock
<1>2. CASE GlobalIsBehind(t)
  <2>1. u = [t EXCEPT !.global = @ + 1]
    BY <1>2 DEF Update
  <2>2. u \in Clock /\ u.local = t.local /\ u.global = c.global + 1
    BY <1>1, <2>1 DEF Clock
  <2>3. \A v \in Workers : c.global < t.local[v]
    BY <1>1, <1>2 DEF GlobalIsBehind, Clock
  <2>4. \A v \in Workers : u.global <= u.local[v]
    BY <1>1, <2>2, <2>3 DEF Clock
  <2>5. PICK v \in Workers : c.global = c.local[v]
    BY DEF GlobalIsMin
  <2>6. v = w
    BY <1>1, <2>3, <2>5 DEF Clock
  <2>7. u.global = u.local[w]
    BY <1>1, <2>2, <2>5, <2>6 DEF Clock
  <2> QED
    BY <1>1, <2>2, <2>4, <2>7 DEF GlobalIsMin
<1>3. CASE ~GlobalIsBehind(t)
  <2>1. u = t
    BY <1>3 DEF Update
  <2>2. PICK v \in Workers : ~(c.global < t.local[v])
    BY <1>1, <1>3 DEF GlobalIsBehind, Clock
  <2>3. \A x \in Workers : t.global <= t.local[x]
    BY <1>1 DEF GlobalIsMin, Clock
  <2>4. t.global = t.local[v]
    BY <1>1, <2>2, <2>3 DEF Clock
  <2> QED
    BY <1>1, <2>1, <2>3, <2>4 DEF GlobalIsMin
<1> QED
  BY <1>2, <1>3

\* Update keeps a clock a clock.
LEMMA UpdateType ==
  ASSUME NEW c \in Clock, NEW w \in Workers PROVE Update(c, w) \in Clock
<1>1. Tick(c, w) \in Clock
  BY DEF Clock, Tick
<1>2. \A t \in Clock : [t EXCEPT !.global = @ + 1] \in Clock
  BY DEF Clock
<1> QED
  BY <1>1, <1>2 DEF Update

\* Scheduler::ProcessAdd and its clock update, field by field.
LEMMA ApplyAddFields ==
  ASSUME NEW s \in Server, NEW m \in Message
  PROVE  LET t == ApplyAdd(s, m) IN
         /\ t \in Server
         /\ t.add = Update(s.add, m.src) /\ t.get = s.get
         /\ t.params = [s.params EXCEPT ![m.src] = @ + 1]
         /\ t.answered = [s.answered EXCEPT ![m.src] = @ \cup {m.k}]
         /\ t.waited = s.waited /\ t.draining = s.draining /\ t.failed = s.failed
         /\ t.addCache = s.addCache /\ t.getCache = s.getCache
         /\ t.replies = s.replies
<1>1. m.src \in Workers /\ m.k \in Nat /\ Update(s.add, m.src) \in Clock
  BY UpdateType DEF Server, Message
<1>2. [s.params EXCEPT ![m.src] = @ + 1] \in [Workers -> Nat]
  BY <1>1 DEF Server
<1>3. [s.answered EXCEPT ![m.src] = @ \cup {m.k}] \in [Workers -> SUBSET Nat]
  BY <1>1 DEF Server
<1>4. ApplyAdd(s, m) \in Server
  BY <1>1, <1>2, <1>3 DEF Server, ApplyAdd
<1> QED
  BY <1>4 DEF Server, ApplyAdd

\* Scheduler::ProcessGet and its clock update, field by field.
LEMMA ServeGetFields ==
  ASSUME NEW s \in Server, NEW m \in Message
  PROVE  LET t == ServeGet(s, m) IN
         /\ t \in Server
         /\ t.get = Update(s.get, m.src) /\ t.add = s.add
         /\ t.params = s.params
         /\ t.answered = [s.answered EXCEPT ![m.src] = @ \cup {m.k}]
         /\ t.waited = s.waited /\ t.draining = s.draining /\ t.failed = s.failed
         /\ t.addCache = s.addCache /\ t.getCache = s.getCache
         /\ t.replies =
              s.replies \cup {[src |-> m.src, k |-> m.k, params |-> s.params]}
<1>1. m.src \in Workers /\ m.k \in Nat /\ Update(s.get, m.src) \in Clock
  BY UpdateType DEF Server, Message
<1>2. s.replies \cup {[src |-> m.src, k |-> m.k, params |-> s.params]} \in SUBSET Reply
  BY <1>1 DEF Server, Reply
<1>3. [s.answered EXCEPT ![m.src] = @ \cup {m.k}] \in [Workers -> SUBSET Nat]
  BY <1>1 DEF Server
<1>4. ServeGet(s, m) \in Server
  BY <1>1, <1>2, <1>3 DEF Server, ServeGet
<1> QED
  BY <1>4 DEF Server, ServeGet

\* Putting a request in a cache, field by field.
LEMMA CacheAddFields ==
  ASSUME NEW s \in Server, NEW m \in Message
  PROVE  LET t == CacheAdd(s, m) IN
         /\ t \in Server
         /\ t.addCache = Append(s.addCache, m) /\ t.getCache = s.getCache
         /\ t.waited = [s.waited EXCEPT ![m.src] = @ + 1]
         /\ t.add = s.add /\ t.get = s.get /\ t.params = s.params
         /\ t.draining = s.draining /\ t.failed = s.failed
         /\ t.answered = s.answered /\ t.replies = s.replies
<1>1. Append(s.addCache, m) \in Seq(Message)
  BY DEF Server
<1>2. [s.waited EXCEPT ![m.src] = @ + 1] \in [Workers -> Int]
  BY DEF Server, Message
<1>3. CacheAdd(s, m) \in Server
  BY <1>1, <1>2 DEF Server, CacheAdd
<1> QED
  BY <1>3 DEF Server, CacheAdd

\* The same for a cached Get: only the cache of Gets changes.
LEMMA CacheGetFields ==
  ASSUME NEW s \in Server, NEW m \in Message
  PROVE  LET t == CacheGet(s, m) IN
         /\ t \in Server
         /\ t.getCache = Append(s.getCache, m) /\ t.addCache = s.addCache
         /\ t.waited = s.waited
         /\ t.add = s.add /\ t.get = s.get /\ t.params = s.params
         /\ t.draining = s.draining /\ t.failed = s.failed
         /\ t.answered = s.answered /\ t.replies = s.replies
<1>1. Append(s.getCache, m) \in Seq(Message)
  BY DEF Server
<1>2. [s.waited EXCEPT ![m.src] = @ + 1] \in [Workers -> Int]
  BY DEF Server, Message
<1>3. CacheGet(s, m) \in Server
  BY <1>1, <1>2 DEF Server, CacheGet
<1> QED
  BY <1>3 DEF Server, CacheGet

\* Taking the oldest request out of a cache.
LEMMA PopFields ==
  ASSUME NEW s \in Server
  PROVE  /\ s.getCache # << >> =>
              Head(s.getCache) \in Message /\ [s EXCEPT !.getCache = Tail(@)] \in Server
         /\ s.addCache # << >> =>
              Head(s.addCache) \in Message /\ [s EXCEPT !.addCache = Tail(@)] \in Server
<1>1. s.getCache \in Seq(Message) /\ s.addCache \in Seq(Message)
  BY DEF Server
<1>2. \A c \in Seq(Message) : c # << >> => Head(c) \in Message /\ Tail(c) \in Seq(Message)
  OBVIOUS
<1> QED
  BY <1>1, <1>2 DEF Server

\* What Append and Tail do to the requests in a cache.
LEMMA AppendCache ==
  ASSUME NEW c \in Seq(Message), NEW m \in Message
  PROVE  /\ Append(c, m) \in Seq(Message) /\ Len(c) \in Nat
         /\ Len(Append(c, m)) = Len(c) + 1
         /\ \A i \in 1..Len(c) : Append(c, m)[i] = c[i]
         /\ Append(c, m)[Len(c) + 1] = m
OBVIOUS

\* What taking the head off a cache leaves behind.
LEMMA TailCache ==
  ASSUME NEW c \in Seq(Message), c # << >>
  PROVE  /\ Tail(c) \in Seq(Message) /\ Len(c) \in Nat
         /\ Head(c) = c[1] /\ 1 \in 1..Len(c)
         /\ Len(Tail(c)) = Len(c) - 1
         /\ \A i \in 1..Len(Tail(c)) : (i + 1) \in 1..Len(c) /\ Tail(c)[i] = c[i + 1]
         /\ \A i \in 1..Len(c) : i # 1 => (i - 1) \in 1..Len(Tail(c)) /\ Tail(c)[i - 1] = c[i]
OBVIOUS

\* A handler that grants a request either leaves the thread idle or starts a
\* loop, and touches nothing else.
LEMMA StartFields ==
  ASSUME NEW t \in Server
  PROVE  \A u \in {StartDrainingGets(t), StartDrainingAdds(t)} :
           /\ u.add = t.add /\ u.get = t.get /\ u.waited = t.waited
           /\ u.addCache = t.addCache /\ u.getCache = t.getCache
           /\ u.failed = t.failed /\ u.params = t.params
           /\ u.answered = t.answered /\ u.replies = t.replies
<1>1. LET u == StartDrainingGets(t) IN
           /\ u.add = t.add /\ u.get = t.get /\ u.waited = t.waited
           /\ u.addCache = t.addCache /\ u.getCache = t.getCache
           /\ u.failed = t.failed /\ u.params = t.params
           /\ u.answered = t.answered /\ u.replies = t.replies
  BY DEF Server, StartDrainingGets
<1>2. LET u == StartDrainingAdds(t) IN
           /\ u.add = t.add /\ u.get = t.get /\ u.waited = t.waited
           /\ u.addCache = t.addCache /\ u.getCache = t.getCache
           /\ u.failed = t.failed /\ u.params = t.params
           /\ u.answered = t.answered /\ u.replies = t.replies
  BY DEF Server, StartDrainingAdds
<1> QED
  BY <1>1, <1>2

\* A draining loop is entered exactly when its cache holds something.
LEMMA StartPlace ==
  ASSUME NEW t \in Server
  PROVE  /\ StartDrainingGets(t).draining = IF t.getCache = << >> THEN "no" ELSE "gets"
         /\ StartDrainingAdds(t).draining = IF t.addCache = << >> THEN "no" ELSE "adds"
         /\ StartDrainingGets(t) \in Server /\ StartDrainingAdds(t) \in Server
BY DEF Server, StartDrainingGets, StartDrainingAdds

-----------------------------------------------------------------------------
(* The program as the server sees it: P[k] is the kind of the k-th call, or  *)
(* "none" if that call goes to other servers only. d[w] is how many calls of *)
(* worker w the server is done with, those that pass it by included.         *)

Program(P, L) == L \in Nat /\ L < MaxInt /\ P \in [1..L -> Op \cup {"none"}]
Other(op) == IF op = "Get" THEN "Add" ELSE "Get"

\* How many of the first k calls are of this kind.
Number(P, op, k) == Cardinality({j \in 1..k : P[j] = op})

\* A clock counts the calls of one kind; the clock of a worker that is through
\* may have been stopped by FinishTrain.
Counts(c, op, P, d, L) ==
  /\ c \in Clock /\ GlobalIsMin(c)
  /\ \A w \in Workers : \/ c.local[w] = Number(P, op, d[w])
                        \/ c.local[w] = MaxInt /\ d[w] = L

\* Of two workers, the one ahead is ahead by calls of one kind only.
OnePhase(P, d) ==
  \A v, w \in Workers : \A i, j \in (d[v] + 1)..d[w] :
    P[i] \in Op /\ P[j] \in Op => P[i] = P[j]

\* Everybody who has not left has reached the global clock.
Level(c) == \A w \in Workers : c.local[w] \in {c.global, MaxInt}

\* A cache holds the next calls of workers, all of one kind.
Holds(cache, op, P, d, L) ==
  /\ cache \in Seq(Message)
  /\ \A i \in 1..Len(cache) : /\ cache[i].k = d[cache[i].src] + 1
                              /\ cache[i].k <= L /\ P[cache[i].k] = op
  /\ \A i, j \in 1..Len(cache) : cache[i].src = cache[j].src => i = j

\* Outside the loop that drains it, a cache holds calls of workers ahead on the
\* other clock. In the loop everybody is level on the other clock, and somebody
\* who has nothing cached is among the slowest: so the loop completes no round.
Half(op, own, other, cache, P, d, L, place) ==
  /\ Counts(own, op, P, d, L) /\ Holds(cache, op, P, d, L)
  /\ place # op =>
       \A i \in 1..Len(cache) : other.global < other.local[cache[i].src]
  /\ place = op =>
       /\ cache # << >> /\ Level(other)
       /\ \E u \in Workers : ~InCache(cache, u) /\ own.local[u] = own.global

\* The clocks and the caches, of one kind and of the other; place is the kind
\* that is being drained.
Sched(op, own, other, cache, rest, P, d, L, place) ==
  /\ d \in [Workers -> 0..L] /\ OnePhase(P, d)
  /\ Half(op, own, other, cache, P, d, L, place)
  /\ Half(Other(op), other, own, rest, P, d, L, place)
  /\ place = op => rest = << >>
  /\ place = Other(op) => cache = << >>
  /\ place \in Op \cup {"no"}

Drained(s) == IF s.draining = "gets" THEN "Get"
              ELSE IF s.draining = "adds" THEN "Add" ELSE "no"

\* What has been answered and absorbed by the table, which Adds are counted as
\* waiting, and what every Get was answered: the Adds before it, of everybody.
Books(answered, params, P, d) ==
  \A w \in Workers : /\ answered[w] = {j \in 1..d[w] : P[j] \in Op}
                     /\ params[w] = Number(P, "Add", d[w])
Waiting(waited, cache) ==
  \A w \in Workers : waited[w] = IF InCache(cache, w) THEN 1 ELSE 0
Replied(replies, P, L) ==
  \A a \in replies : /\ a.k \in 1..L /\ P[a.k] = "Get"
                     /\ a.params = [w \in Workers |-> Number(P, "Add", a.k)]

ServerOK(s, P, d, L) ==
  /\ s \in Server /\ ~s.failed
  /\ Sched("Add", s.add, s.get, s.addCache, s.getCache, P, d, L, Drained(s))
  /\ Books(s.answered, s.params, P, d)
  /\ Waiting(s.waited, s.addCache)
  /\ Replied(s.replies, P, L)

-----------------------------------------------------------------------------
(* Counting the calls of one kind.                                           *)

\* The two kinds of call.
LEMMA OtherIs ==
  /\ \A op \in Op : Other(op) \in Op /\ Other(op) # op /\ Other(Other(op)) = op
  /\ \A op, o \in Op : o # op <=> o = Other(op)
  /\ "none" \notin Op /\ "no" \notin Op /\ "Add" \in Op /\ "Get" \in Op
  /\ Other("Add") = "Get" /\ Other("Get") = "Add"
BY DEF Op, Other

\* Number is a natural number.
LEMMA NumberType ==
  ASSUME NEW P, NEW op, NEW k \in Nat
  PROVE  /\ Number(P, op, k) \in Nat /\ Number(P, op, k) <= k
         /\ IsFiniteSet({j \in 1..k : P[j] = op})
<1> DEFINE S == {j \in 1..k : P[j] = op}
<1>1. IsFiniteSet(1..k) /\ Cardinality(1..k) = k
  BY FS_Interval
<1>2. IsFiniteSet(S) /\ Cardinality(S) <= k
  BY <1>1, FS_Subset
<1>3. Cardinality(S) \in Nat
  BY <1>2, FS_CardinalityType
<1> QED
  BY <1>2, <1>3 DEF Number

\* One more call counts if it is of the kind.
LEMMA NumberStep ==
  ASSUME NEW P, NEW op, NEW k \in Nat
  PROVE  Number(P, op, k + 1) =
           IF P[k + 1] = op THEN Number(P, op, k) + 1 ELSE Number(P, op, k)
<1> DEFINE S(n) == {j \in 1..n : P[j] = op}
<1>1. CASE P[k + 1] = op
  <2>1. S(k + 1) = S(k) \cup {k + 1}
    BY <1>1
  <2>2. (k + 1) \notin S(k)
    OBVIOUS
  <2>3. IsFiniteSet(S(k))
    BY NumberType
  <2>4. Cardinality(S(k) \cup {k + 1}) = Cardinality(S(k)) + 1
    BY <2>2, <2>3, FS_AddElement
  <2> QED
    BY <1>1, <2>1, <2>4 DEF Number
<1>2. CASE P[k + 1] # op
  <2>1. S(k + 1) = S(k)
    BY <1>2
  <2> QED
    BY <1>2, <2>1 DEF Number
<1> QED
  BY <1>1, <1>2

\* A longer prefix has no fewer calls of a kind.
LEMMA NumberMonotone ==
  ASSUME NEW P, NEW op, NEW j \in Nat, NEW k \in Nat, j <= k
  PROVE  Number(P, op, j) <= Number(P, op, k)
<1> DEFINE S(n) == {i \in 1..n : P[i] = op}
<1>1. S(j) \subseteq S(k)
  OBVIOUS
<1>2. IsFiniteSet(S(k))
  BY NumberType
<1> HIDE DEF S
<1>3. Cardinality(S(j)) <= Cardinality(S(k))
  BY <1>1, <1>2, FS_Subset
<1> QED
  BY <1>3 DEF Number, S

\* Between two positions there are more calls of a kind, or none of it.
LEMMA NumberGrows ==
  ASSUME NEW P, NEW op, NEW j \in Nat, NEW k \in Nat, NEW i \in (j + 1)..k, P[i] = op
  PROVE  Number(P, op, j) < Number(P, op, k)
<1>1. /\ i - 1 \in Nat /\ i \in Nat /\ (i - 1) + 1 = i /\ j <= i - 1 /\ i <= k
  OBVIOUS
<1>2. Number(P, op, (i - 1) + 1) = Number(P, op, i - 1) + 1
  BY <1>1, NumberStep
<1>3. Number(P, op, j) <= Number(P, op, i - 1) /\ Number(P, op, i) <= Number(P, op, k)
  BY <1>1, NumberMonotone
<1>4. \A n \in Nat : Number(P, op, n) \in Nat
  BY NumberType
<1>5. Number(P, op, i) = Number(P, op, i - 1) + 1
  BY <1>1, <1>2
<1> QED
  BY <1>1, <1>3, <1>4, <1>5

\* Calls of other kinds do not count.
LEMMA NumberSame ==
  ASSUME NEW P, NEW op, NEW j \in Nat, NEW k \in Nat, j <= k,
         \A i \in (j + 1)..k : P[i] # op
  PROVE  Number(P, op, j) = Number(P, op, k)
<1>1. {i \in 1..j : P[i] = op} = {i \in 1..k : P[i] = op}
  OBVIOUS
<1> QED
  BY <1>1 DEF Number

\* A worker with more calls of one kind is ahead by calls of that kind only.
LEMMA AheadByKind ==
  ASSUME NEW P, NEW L \in Nat, NEW d \in [Workers -> 0..L], OnePhase(P, d),
         NEW v \in Workers, NEW w \in Workers, NEW op \in Op,
         Number(P, op, d[v]) < Number(P, op, d[w])
  PROVE  /\ d[v] < d[w]
         /\ \A i \in (d[v] + 1)..d[w] : P[i] \in Op => P[i] = op
<1>1. d[v] \in Nat /\ d[w] \in Nat
  OBVIOUS
<1>2. \A k \in Nat : Number(P, op, k) \in Nat
  BY NumberType
<1>3. d[v] < d[w]
  <2> SUFFICES ASSUME d[w] <= d[v] PROVE FALSE
    BY <1>1
  <2>1. Number(P, op, d[w]) <= Number(P, op, d[v])
    BY <1>1, NumberMonotone
  <2> QED
    BY <1>1, <1>2, <2>1
<1>4. PICK i \in (d[v] + 1)..d[w] : P[i] = op
  <2> SUFFICES ASSUME \A i \in (d[v] + 1)..d[w] : P[i] # op PROVE FALSE
    OBVIOUS
  <2>1. Number(P, op, d[v]) = Number(P, op, d[w])
    BY <1>1, <1>3, NumberSame
  <2> QED
    BY <1>1, <1>2, <2>1
<1> QED
  BY <1>3, <1>4 DEF OnePhase

\* The clock of a worker that is not through is running.
LEMMA Running ==
  ASSUME NEW P, NEW L, Program(P, L), NEW d \in [Workers -> 0..L], NEW op,
         NEW c, Counts(c, op, P, d, L)
  PROVE  /\ c \in Clock /\ c.global \in Nat /\ L \in Nat /\ MaxInt \in Nat /\ L < MaxInt
         /\ \A w \in Workers :
              /\ d[w] \in Nat /\ c.local[w] \in Nat /\ c.global <= c.local[w]
              /\ Number(P, op, d[w]) \in Nat /\ Number(P, op, d[w]) <= L
              /\ d[w] < L => c.local[w] = Number(P, op, d[w])
              /\ c.local[w] # MaxInt => c.local[w] = Number(P, op, d[w])
              /\ c.local[w] = MaxInt => d[w] = L
<1>1. L \in Nat /\ MaxInt \in Nat /\ L < MaxInt
  BY DEF Program, MaxInt
<1>2. c \in Clock /\ c.global \in Nat /\ \A w \in Workers : c.local[w] \in Nat /\ c.global <= c.local[w]
  BY DEF Counts, Clock, GlobalIsMin
<1>3. \A w \in Workers : d[w] \in Nat /\ d[w] <= L
  BY <1>1
<1>4. \A w \in Workers : Number(P, op, d[w]) \in Nat /\ Number(P, op, d[w]) <= d[w]
  BY <1>3, NumberType
<1>5. \A w \in Workers : Number(P, op, d[w]) <= L
  BY <1>1, <1>3, <1>4
<1> QED
  BY <1>1, <1>2, <1>3, <1>4, <1>5 DEF Counts

\* A worker that is level on the other clock, and whose next call is of this
\* kind, has made as many calls of the other kind as everybody else.
LEMMA LevelOnOther ==
  ASSUME NEW P, NEW L, Program(P, L), NEW d \in [Workers -> 0..L], OnePhase(P, d),
         NEW op \in Op, NEW c, Counts(c, Other(op), P, d, L), NEW w \in Workers,
         d[w] < L, P[d[w] + 1] = op, c.local[w] <= c.global
  PROVE  /\ \A v \in Workers : Number(P, Other(op), d[v]) = Number(P, Other(op), d[w])
         /\ Level(c)
<1> DEFINE o == Other(op)
<1>1. o \in Op /\ o # op
  BY OtherIs
<1>2. /\ L \in Nat /\ c.global \in Nat
      /\ \A v \in Workers : /\ d[v] \in Nat /\ c.local[v] \in Nat /\ c.global <= c.local[v]
                            /\ Number(P, o, d[v]) \in Nat
                            /\ d[v] < L => c.local[v] = Number(P, o, d[v])
                            /\ c.local[v] # MaxInt => c.local[v] = Number(P, o, d[v])
  BY Running
<1> HIDE DEF o
<1>3. ASSUME NEW v \in Workers PROVE Number(P, o, d[v]) = Number(P, o, d[w])
  <2>1. CASE Number(P, o, d[v]) < Number(P, o, d[w])
    <3>1. d[v] < d[w]
      BY <1>1, <1>2, <2>1, AheadByKind
    <3>2. c.local[v] = Number(P, o, d[v]) /\ c.local[w] = Number(P, o, d[w])
      BY <1>2, <3>1
    <3> QED
      BY <1>2, <2>1, <3>2
  <2>2. CASE Number(P, o, d[w]) < Number(P, o, d[v])
    <3>1. d[w] < d[v] /\ \A i \in (d[w] + 1)..d[v] : P[i] \in Op => P[i] = o
      BY <1>1, <1>2, <2>2, AheadByKind
    <3>2. (d[w] + 1) \in (d[w] + 1)..d[v]
      BY <1>2, <3>1
    <3> QED
      BY <1>1, <3>1, <3>2
  <2> QED
    BY <1>2, <2>1, <2>2
<1>4. ASSUME NEW v \in Workers, c.local[v] # MaxInt PROVE c.local[v] = c.global
  BY <1>2, <1>3, <1>4
<1> QED
  BY <1>3, <1>4 DEF Level, o

\* Granting that call keeps the clocks right and the workers in one phase.
LEMMA GrantKeeps ==
  ASSUME NEW P, NEW L, Program(P, L), NEW d \in [Workers -> 0..L], OnePhase(P, d),
         NEW op \in Op, NEW own, Counts(own, op, P, d, L),
         NEW c, Counts(c, Other(op), P, d, L), NEW w \in Workers,
         d[w] < L, P[d[w] + 1] = op, c.local[w] <= c.global,
         NEW e, e = [d EXCEPT ![w] = @ + 1]
  PROVE  /\ e \in [Workers -> 0..L] /\ OnePhase(P, e)
         /\ Counts(Update(own, w), op, P, e, L) /\ Counts(c, Other(op), P, e, L)
<1> DEFINE o == Other(op)
           u == Update(own, w)
<1>1. o \in Op /\ o # op
  BY OtherIs
<1>2. L \in Nat /\ \A v \in Workers : d[v] \in Nat
  BY Running
<1>3. e \in [Workers -> 0..L] /\ e[w] = d[w] + 1 /\ \A v \in Workers : v # w => e[v] = d[v]
  BY <1>2
<1>4. \A v \in Workers : Number(P, o, d[v]) = Number(P, o, d[w]) /\ Number(P, o, d[v]) \in Nat
  <2>1. \A v \in Workers : Number(P, o, d[v]) = Number(P, o, d[w])
    BY LevelOnOther
  <2>2. \A v \in Workers : Number(P, o, d[v]) \in Nat
    BY <1>2, NumberType
  <2> QED
    BY <2>1, <2>2
<1> HIDE DEF o
<1>5. OnePhase(P, e)
  <2> SUFFICES ASSUME NEW v \in Workers, NEW x \in Workers,
                      NEW i \in (e[v] + 1)..e[x], NEW j \in (e[v] + 1)..e[x],
                      P[i] \in Op, P[j] \in Op
               PROVE  P[i] = P[j]
    BY DEF OnePhase
  <2>1. CASE x = w /\ v # w
    <3>1. ASSUME NEW n \in (d[v] + 1)..(d[w] + 1), P[n] \in Op PROVE P[n] = op
      <4> SUFFICES ASSUME P[n] = o PROVE FALSE
        BY <1>1, <3>1, OtherIs DEF o
      <4>1. n \in (d[v] + 1)..d[w]
        BY <1>1, <1>2
      <4>2. Number(P, o, d[v]) < Number(P, o, d[w])
        BY <1>2, <4>1, NumberGrows
      <4> QED
        BY <1>4, <4>2
    <3>2. i \in (d[v] + 1)..(d[w] + 1) /\ j \in (d[v] + 1)..(d[w] + 1)
      BY <1>3, <2>1
    <3> QED
      BY <3>1, <3>2
  <2>2. CASE x # w
    <3>1. i \in (d[v] + 1)..d[x] /\ j \in (d[v] + 1)..d[x]
      BY <1>2, <1>3, <2>2
    <3> QED
      BY <3>1 DEF OnePhase
  <2>3. CASE x = w /\ v = w
    BY <1>2, <1>3, <2>3
  <2> QED
    BY <2>1, <2>2, <2>3
<1>6. Counts(u, op, P, e, L)
  <2>1. u \in Clock /\ GlobalIsMin(u) /\ u.local = [own.local EXCEPT ![w] = @ + 1]
    BY UpdateClock DEF Counts
  <2>2. own.local \in [Workers -> Nat]
    BY DEF Counts, Clock
  <2>3. u.local[w] = own.local[w] + 1 /\ \A v \in Workers : v # w => u.local[v] = own.local[v]
    BY <2>1, <2>2
  <2>4. own.local[w] = Number(P, op, d[w])
    BY Running
  <2>5. Number(P, op, d[w] + 1) = Number(P, op, d[w]) + 1
    BY <1>2, NumberStep
  <2> HIDE DEF u
  <2> QED
    BY <1>3, <2>1, <2>3, <2>4, <2>5 DEF Counts
<1>7. Counts(c, o, P, e, L)
  <2>1. Number(P, o, d[w] + 1) = Number(P, o, d[w])
    BY <1>1, <1>2, NumberStep
  <2>2. c.local[w] = Number(P, o, d[w])
    BY Running DEF o
  <2> QED
    BY <1>3, <2>1, <2>2 DEF Counts, o
<1> QED
  BY <1>3, <1>5, <1>6, <1>7 DEF o

\* VectorClock::Update returns true exactly when it brings everybody level.
LEMMA UpdateBringsLevel ==
  ASSUME NEW c \in Clock, GlobalIsMin(c), NEW w \in Workers, c.local[w] + 1 < MaxInt
  PROVE  UpdateReturns(c, w) <=> Level(Update(c, w))
<1> DEFINE t == Tick(c, w)
           u == Update(c, w)
<1>1. t \in Clock /\ t.local = [c.local EXCEPT ![w] = @ + 1] /\ t.global = c.global
  BY DEF Tick, Clock
<1>2. u \in Clock /\ u.local = t.local /\ GlobalIsMin(u)
  BY <1>1, UpdateClock
<1>3. MaxInt \in Nat /\ c.global \in Nat /\ \A v \in Workers : c.local[v] \in Nat /\ t.local[v] \in Nat
  BY <1>1 DEF MaxInt, Clock
<1>4. u.global \in Nat /\ \A v \in Workers : u.local[v] \in Nat /\ u.global <= u.local[v]
  BY <1>2 DEF GlobalIsMin, Clock
<1>5. DOMAIN u.local = Workers /\ DOMAIN t.local = Workers
  BY <1>1, <1>2 DEF Clock
<1>6. t.local[w] = c.local[w] + 1
  BY <1>1 DEF Clock
<1> HIDE DEF t, u
<1>7. ASSUME UpdateReturns(c, w) PROVE Level(u)
  <2>1. GlobalIsLargest(u)
    BY <1>7 DEF UpdateReturns, u
  <2> QED
    BY <1>4, <1>5, <2>1 DEF GlobalIsLargest, Level
<1>8. ASSUME Level(u) PROVE UpdateReturns(c, w)
  <2>1. GlobalIsLargest(u)
    BY <1>4, <1>5, <1>8 DEF GlobalIsLargest, Level
  <2>2. c.global <= c.local[w]
    BY DEF GlobalIsMin
  <2>3. c.global < t.local[w] /\ c.global < MaxInt
    BY <1>3, <1>6, <2>2
  <2>4. t.local[w] = u.global
    BY <1>2, <1>3, <1>6, <1>8 DEF Level
  <2>5. \A v \in Workers : c.global < t.local[v]
    BY <1>2, <1>8, <2>3, <2>4 DEF Level
  <2>6. GlobalIsBehind(t)
    BY <1>1, <1>5, <2>5 DEF GlobalIsBehind
  <2> QED
    BY <2>1, <2>6 DEF UpdateReturns, t, u
<1> QED
  BY <1>7, <1>8 DEF u

-----------------------------------------------------------------------------
(* The caches.                                                               *)

\* What is in a cache is the next call of a worker that is not through.
LEMMA CachedIs ==
  ASSUME NEW cache, NEW op, NEW P, NEW L, NEW d \in [Workers -> 0..L], Program(P, L),
         Holds(cache, op, P, d, L), NEW i \in 1..Len(cache)
  PROVE  /\ cache[i] \in Message /\ cache[i].src \in Workers
         /\ cache[i].k = d[cache[i].src] + 1 /\ d[cache[i].src] < L
         /\ P[d[cache[i].src] + 1] = op
<1>1. cache[i] \in Message
  BY DEF Holds
<1>2. cache[i].src \in Workers
  BY <1>1 DEF Message
<1>3. d[cache[i].src] \in Nat /\ L \in Nat
  BY <1>2 DEF Program
<1> QED
  BY <1>1, <1>2, <1>3 DEF Holds

\* A worker whose next call is of another kind, or that is through, has nothing
\* in the cache.
LEMMA NotCached ==
  ASSUME NEW cache, NEW op, NEW P, NEW L, NEW d \in [Workers -> 0..L], Program(P, L),
         Holds(cache, op, P, d, L), NEW w, P[d[w] + 1] # op \/ d[w] = L
  PROVE  ~InCache(cache, w)
<1> SUFFICES ASSUME NEW i \in 1..Len(cache), cache[i].src = w PROVE FALSE
  BY DEF InCache
<1>1. d[w] < L /\ P[d[w] + 1] = op /\ d[w] \in Nat /\ L \in Nat
  BY CachedIs DEF Program
<1> QED
  BY <1>1

\* The next position of a worker with nothing in the cache does not matter.
LEMMA HoldsAfter ==
  ASSUME NEW cache, NEW op, NEW P, NEW L, NEW d, NEW e, Holds(cache, op, P, d, L),
         NEW w, ~InCache(cache, w), \A v \in Workers : v # w => e[v] = d[v]
  PROVE  Holds(cache, op, P, e, L)
<1>1. \A i \in 1..Len(cache) : cache[i] \in Message
  BY DEF Holds
<1>2. \A i \in 1..Len(cache) : cache[i].src \in Workers /\ cache[i].src # w
  BY <1>1 DEF InCache, Message
<1> QED
  BY <1>2 DEF Holds

\* A cache may take the next call of a worker that has none in it.
LEMMA HoldsAppended ==
  ASSUME NEW cache, NEW op, NEW P, NEW L, NEW d \in [Workers -> 0..L], Program(P, L),
         Holds(cache, op, P, d, L), NEW m \in Message,
         ~InCache(cache, m.src), m.k = d[m.src] + 1, m.k <= L, P[m.k] = op
  PROVE  Holds(Append(cache, m), op, P, d, L)
<1>1. cache \in Seq(Message)
  BY DEF Holds
<1>2. /\ Append(cache, m) \in Seq(Message) /\ Len(cache) \in Nat
      /\ Len(Append(cache, m)) = Len(cache) + 1
      /\ \A i \in 1..Len(cache) : Append(cache, m)[i] = cache[i]
      /\ Append(cache, m)[Len(cache) + 1] = m
  BY <1>1, AppendCache
<1>3. \A i \in 1..Len(cache) : cache[i].src # m.src
  BY DEF InCache
<1>4. ASSUME NEW i \in 1..Len(Append(cache, m))
      PROVE  \/ i \in 1..Len(cache) /\ Append(cache, m)[i] = cache[i]
             \/ i = Len(cache) + 1 /\ Append(cache, m)[i] = m
  BY <1>2
<1>5. \A i \in 1..Len(Append(cache, m)) :
        /\ Append(cache, m)[i].k = d[Append(cache, m)[i].src] + 1
        /\ Append(cache, m)[i].k <= L /\ P[Append(cache, m)[i].k] = op
  BY <1>4 DEF Holds
<1>6. \A i, j \in 1..Len(Append(cache, m)) :
        Append(cache, m)[i].src = Append(cache, m)[j].src => i = j
  BY <1>3, <1>4 DEF Holds
<1> QED
  BY <1>2, <1>5, <1>6 DEF Holds

\* Whose calls are in a cache after one is appended.
LEMMA InAppended ==
  ASSUME NEW cache \in Seq(Message), NEW m \in Message
  PROVE  \A w : InCache(Append(cache, m), w) <=> InCache(cache, w) \/ w = m.src
<1>1. /\ Append(cache, m) \in Seq(Message) /\ Len(cache) \in Nat
      /\ Len(Append(cache, m)) = Len(cache) + 1
      /\ \A i \in 1..Len(cache) : Append(cache, m)[i] = cache[i]
      /\ Append(cache, m)[Len(cache) + 1] = m
  BY AppendCache
<1>2. \A i \in 1..Len(Append(cache, m)) : i \in 1..Len(cache) \/ i = Len(cache) + 1
  BY <1>1
<1>3. \A i \in 1..Len(cache) : i \in 1..Len(Append(cache, m))
  BY <1>1
<1>4. (Len(cache) + 1) \in 1..Len(Append(cache, m))
  BY <1>1
<1> QED
  BY <1>1, <1>2, <1>3, <1>4 DEF InCache

\* Taking the oldest call out: it was the only one of its worker.
LEMMA HoldsTail ==
  ASSUME NEW cache, NEW op, NEW P, NEW L, NEW d \in [Workers -> 0..L], Program(P, L),
         Holds(cache, op, P, d, L), cache # << >>
  PROVE  /\ Head(cache) = cache[1] /\ 1 \in 1..Len(cache) /\ Tail(cache) \in Seq(Message)
         /\ Holds(Tail(cache), op, P, d, L) /\ ~InCache(Tail(cache), Head(cache).src)
         /\ \A w : w # Head(cache).src => (InCache(Tail(cache), w) <=> InCache(cache, w))
         /\ InCache(cache, Head(cache).src)
<1>1. cache \in Seq(Message)
  BY DEF Holds
<1>2. /\ Tail(cache) \in Seq(Message) /\ Len(cache) \in Nat
      /\ Head(cache) = cache[1] /\ 1 \in 1..Len(cache)
      /\ Len(Tail(cache)) = Len(cache) - 1
      /\ \A i \in 1..Len(Tail(cache)) : (i + 1) \in 1..Len(cache) /\ Tail(cache)[i] = cache[i + 1]
      /\ \A i \in 1..Len(cache) : i # 1 => (i - 1) \in 1..Len(Tail(cache)) /\ Tail(cache)[i - 1] = cache[i]
  BY <1>1, TailCache
<1>3. \A i, j \in 1..Len(cache) : cache[i].src = cache[j].src => i = j
  BY DEF Holds
<1>4. Holds(Tail(cache), op, P, d, L)
  <2>1. \A i \in 1..Len(Tail(cache)) : /\ Tail(cache)[i].k = d[Tail(cache)[i].src] + 1
                                       /\ Tail(cache)[i].k <= L /\ P[Tail(cache)[i].k] = op
    BY <1>2 DEF Holds
  <2>2. ASSUME NEW i \in 1..Len(Tail(cache)), NEW j \in 1..Len(Tail(cache)),
               Tail(cache)[i].src = Tail(cache)[j].src
        PROVE  i = j
    <3>1. i + 1 = j + 1
      BY <1>2, <1>3, <2>2
    <3> QED
      BY <3>1
  <2> QED
    BY <1>2, <2>1, <2>2 DEF Holds
<1>5. ~InCache(Tail(cache), Head(cache).src)
  <2> SUFFICES ASSUME NEW i \in 1..Len(Tail(cache)), Tail(cache)[i].src = cache[1].src PROVE FALSE
    BY <1>2 DEF InCache
  <2>1. i + 1 = 1
    BY <1>2, <1>3
  <2> QED
    BY <2>1
<1>6. \A w : w # Head(cache).src => (InCache(Tail(cache), w) <=> InCache(cache, w))
  BY <1>2, ZenonT(60) DEF InCache
<1>7. InCache(cache, Head(cache).src)
  BY <1>2 DEF InCache
<1> QED
  BY <1>2, <1>4, <1>5, <1>6, <1>7

-----------------------------------------------------------------------------
(* The clocks and the caches together, from the side of one kind of call.    *)

\* The two sides are alike.
LEMMA SchedSwap ==
  ASSUME NEW op \in Op, NEW own, NEW other, NEW cache, NEW rest, NEW P, NEW d, NEW L, NEW place,
         Sched(op, own, other, cache, rest, P, d, L, place)
  PROVE  Sched(Other(op), other, own, rest, cache, P, d, L, place)
BY OtherIs DEF Sched

\* A call whose worker is ahead on the other clock waits in the cache.
LEMMA CallWaits ==
  ASSUME NEW op \in Op, NEW own, NEW other, NEW cache, NEW rest, NEW P, NEW d, NEW L, Program(P, L),
         Sched(op, own, other, cache, rest, P, d, L, "no"), NEW m \in Message,
         m.k = d[m.src] + 1, m.k <= L, P[m.k] = op, ~InCache(cache, m.src),
         other.global < other.local[m.src]
  PROVE  Sched(op, own, other, Append(cache, m), rest, P, d, L, "no")
<1>1. /\ d \in [Workers -> 0..L] /\ Half(op, own, other, cache, P, d, L, "no")
      /\ Half(Other(op), other, own, rest, P, d, L, "no") /\ OnePhase(P, d)
  BY DEF Sched
<1>2. op # "no" /\ Other(op) # "no"
  BY DEF Op, Other
<1>3. Holds(Append(cache, m), op, P, d, L)
  BY <1>1, HoldsAppended DEF Half
<1>4. cache \in Seq(Message)
  BY <1>1 DEF Half, Holds
<1>5. \A i \in 1..Len(Append(cache, m)) : other.global < other.local[Append(cache, m)[i].src]
  <2>1. /\ Len(cache) \in Nat /\ Len(Append(cache, m)) = Len(cache) + 1
        /\ \A i \in 1..Len(cache) : Append(cache, m)[i] = cache[i]
        /\ Append(cache, m)[Len(cache) + 1] = m
    BY <1>4, AppendCache
  <2>2. \A i \in 1..Len(cache) : other.global < other.local[cache[i].src]
    BY <1>1, <1>2 DEF Half
  <2>3. \A i \in 1..Len(Append(cache, m)) : i \in 1..Len(cache) \/ i = Len(cache) + 1
    BY <2>1
  <2> QED
    BY <2>1, <2>2, <2>3
<1>6. Half(op, own, other, Append(cache, m), P, d, L, "no")
  BY <1>1, <1>2, <1>3, <1>5 DEF Half
<1> QED
  BY <1>1, <1>2, <1>6 DEF Sched

\* In the state after a grant, a cached call of the other kind is either still
\* held back by this clock, or everybody has become level on it.
LEMMA StaysAhead ==
  ASSUME NEW op \in Op, NEW P, NEW L, Program(P, L), NEW e \in [Workers -> 0..L], OnePhase(P, e),
         NEW c, Counts(c, op, P, e, L), NEW x \in Workers, e[x] < L, P[e[x] + 1] = Other(op),
         ~(c.global < c.local[x])
  PROVE  Level(c)
<1> SUFFICES ASSUME NEW v \in Workers, c.local[v] # MaxInt PROVE c.local[v] = c.global
  BY DEF Level
<1>1. /\ c.global \in Nat /\ c.local[x] \in Nat /\ c.local[v] \in Nat
      /\ c.global <= c.local[v] /\ c.global <= c.local[x]
      /\ c.local[x] = Number(P, op, e[x]) /\ c.local[v] = Number(P, op, e[v])
      /\ e[x] \in Nat /\ e[v] \in Nat /\ L \in Nat
  BY Running
<1> SUFFICES ASSUME c.local[x] < c.local[v] PROVE FALSE
  BY <1>1
<1>2. e[x] < e[v] /\ \A i \in (e[x] + 1)..e[v] : P[i] \in Op => P[i] = op
  BY <1>1, AheadByKind
<1>3. (e[x] + 1) \in (e[x] + 1)..e[v]
  BY <1>1, <1>2
<1> QED
  BY <1>2, <1>3, OtherIs

\* The server is done with one more call of w.
OneMore(e, d, w) == e = [d EXCEPT ![w] = @ + 1]

\* The next call of w may be granted.
MayGrant(op, own, other, w, P, d, L) ==
  /\ w \in Workers /\ d[w] < L /\ P[d[w] + 1] = op /\ other.local[w] <= other.global

\* Update returns true exactly when everybody has become level.
LEMMA GrantBringsLevel ==
  ASSUME NEW P, NEW L, Program(P, L), NEW d \in [Workers -> 0..L], NEW op, NEW c,
         Counts(c, op, P, d, L), NEW w \in Workers, d[w] < L
  PROVE  UpdateReturns(c, w) <=> Level(Update(c, w))
<1>1. c \in Clock /\ GlobalIsMin(c)
  BY DEF Counts
<1>2. /\ c.local[w] = Number(P, op, d[w])
      /\ L \in Nat /\ MaxInt \in Nat /\ L < MaxInt /\ d[w] \in Nat
  BY Running
<1>3. Number(P, op, d[w]) <= d[w] /\ Number(P, op, d[w]) \in Nat
  BY <1>2, NumberType
<1>4. c.local[w] + 1 < MaxInt
  BY <1>2, <1>3
<1> QED
  BY <1>1, <1>4, UpdateBringsLevel

\* A call that need not wait is granted on arrival: nothing of its kind was
\* waiting, and if it brings everybody level the loop over the other cache
\* begins, and will complete no round.
LEMMA CallGranted ==
  ASSUME NEW op \in Op, NEW own, NEW other, NEW cache, NEW rest, NEW P, NEW d, NEW L, Program(P, L),
         Sched(op, own, other, cache, rest, P, d, L, "no"), NEW w,
         MayGrant(op, own, other, w, P, d, L), NEW e, OneMore(e, d, w)
  PROVE  /\ cache = << >>
         /\ ~UpdateReturns(own, w) =>
              Sched(op, Update(own, w), other, cache, rest, P, e, L, "no")
         /\ UpdateReturns(own, w) =>
              Sched(op, Update(own, w), other, cache, rest, P, e, L,
                    IF rest = << >> THEN "no" ELSE Other(op))
<1> e = [d EXCEPT ![w] = @ + 1]
  BY DEF OneMore
<1> DEFINE u == Update(own, w)
           o == Other(op)
<1>1. /\ d \in [Workers -> 0..L] /\ OnePhase(P, d)
      /\ Half(op, own, other, cache, P, d, L, "no") /\ Half(o, other, own, rest, P, d, L, "no")
  BY DEF Sched
<1>2. op # "no" /\ o # "no" /\ o # op /\ o \in Op /\ Other(o) = op
  BY DEF Op, Other
<1>3. /\ w \in Workers /\ d[w] < L /\ P[d[w] + 1] = op /\ other.local[w] <= other.global
  BY DEF MayGrant
<1>4. Counts(own, op, P, d, L) /\ Counts(other, o, P, d, L)
  BY <1>1 DEF Half
<1>5. /\ Holds(cache, op, P, d, L) /\ Holds(rest, o, P, d, L)
      /\ \A i \in 1..Len(cache) : other.global < other.local[cache[i].src]
      /\ \A i \in 1..Len(rest) : own.global < own.local[rest[i].src]
  BY <1>1, <1>2 DEF Half
<1>6. Level(other)
  BY <1>1, <1>3, <1>4, LevelOnOther
<1>7. cache = << >>
  <2> SUFFICES ASSUME cache # << >> PROVE FALSE
    OBVIOUS
  <2>1. 1 \in 1..Len(cache)
    BY <1>1, <1>5, HoldsTail
  <2> DEFINE x == cache[1].src
  <2>2. x \in Workers /\ d[x] < L
    BY <1>1, <1>5, <2>1, CachedIs
  <2>3. other.local[x] # MaxInt /\ other.global \in Nat
    BY <1>1, <1>4, <2>2, Running
  <2>4. other.local[x] = other.global
    BY <1>6, <2>2, <2>3 DEF Level
  <2> QED
    BY <1>5, <2>1, <2>3, <2>4
<1>8. /\ e \in [Workers -> 0..L] /\ OnePhase(P, e)
      /\ Counts(u, op, P, e, L) /\ Counts(other, o, P, e, L)
  BY <1>1, <1>3, <1>4, GrantKeeps
<1>9. \A v \in Workers : v # w => e[v] = d[v]
  BY <1>1, <1>3
<1>10. ~InCache(rest, w)
  BY <1>1, <1>2, <1>3, <1>5, NotCached
<1>11. Holds(rest, o, P, e, L) /\ Holds(cache, op, P, e, L)
  <2>1. Holds(rest, o, P, e, L)
    BY <1>5, <1>9, <1>10, HoldsAfter
  <2>2. Len(cache) = 0 /\ cache \in Seq(Message)
    BY <1>5, <1>7 DEF Holds
  <2> QED
    BY <2>1, <2>2 DEF Holds
<1>12. Half(op, u, other, cache, P, e, L, "no")
  <2>1. \A i \in 1..Len(cache) : other.global < other.local[cache[i].src]
    BY <1>5
  <2> QED
    BY <1>2, <1>8, <1>11, <2>1 DEF Half
<1>13. UpdateReturns(own, w) <=> Level(u)
  BY <1>1, <1>3, <1>4, GrantBringsLevel
<1>14. ASSUME ~Level(u) PROVE Sched(op, u, other, cache, rest, P, e, L, "no")
  <2>1. ASSUME NEW i \in 1..Len(rest) PROVE u.global < u.local[rest[i].src]
    <3>1. rest[i].src \in Workers /\ e[rest[i].src] < L /\ P[e[rest[i].src] + 1] = o
      BY <1>8, <1>11, CachedIs
    <3> QED
      BY <1>8, <1>14, <3>1, StaysAhead
  <2>2. Half(o, other, u, rest, P, e, L, "no")
    BY <1>2, <1>8, <1>11, <2>1 DEF Half
  <2> QED
    BY <1>2, <1>8, <1>12, <2>2 DEF Sched
<1>15. ASSUME Level(u), rest = << >> PROVE Sched(op, u, other, cache, rest, P, e, L, "no")
  <2>1. Half(o, other, u, rest, P, e, L, "no")
    BY <1>2, <1>8, <1>11, <1>15 DEF Half
  <2> QED
    BY <1>2, <1>8, <1>12, <2>1 DEF Sched
<1>16. ASSUME Level(u), rest # << >> PROVE Sched(op, u, other, cache, rest, P, e, L, o)
  <2>1. other.local[w] = other.global
    BY <1>1, <1>3, <1>4, Running
  <2>2. Half(o, other, u, rest, P, e, L, o)
    BY <1>3, <1>8, <1>10, <1>11, <1>16, <2>1 DEF Half
  <2>3. Half(op, u, other, cache, P, e, L, o)
    BY <1>2, <1>12 DEF Half
  <2> QED
    BY <1>2, <1>7, <1>8, <2>2, <2>3 DEF Sched
<1> HIDE DEF u, o
<1> QED
  BY <1>7, <1>13, <1>14, <1>15, <1>16 DEF u, o

\* What is drained after a round that leaves tail in the cache.
AfterRound(tail, op) == IF tail = << >> THEN "no" ELSE op

\* The call of w has been taken out of the cache.
Without(tail, cache, w) ==
  /\ ~InCache(tail, w) /\ InCache(cache, w)
  /\ \A y : y # w => (InCache(tail, y) <=> InCache(cache, y))

\* A round of a draining loop: the call in it may be granted, and does not bring
\* everybody level.
LEMMA LoopRound ==
  ASSUME NEW op \in Op, NEW own, NEW other, NEW cache, NEW rest, NEW P, NEW d, NEW L, Program(P, L),
         Sched(op, own, other, cache, rest, P, d, L, op), NEW tail, NEW w \in Workers,
         d[w] < L, P[d[w] + 1] = op,
         Holds(tail, op, P, d, L), Without(tail, cache, w),
         NEW e, OneMore(e, d, w)
  PROVE  /\ cache # << >> /\ rest = << >> /\ MayGrant(op, own, other, w, P, d, L)
         /\ ~UpdateReturns(own, w)
         /\ Sched(op, Update(own, w), other, tail, rest, P, e, L, AfterRound(tail, op))
<1> e = [d EXCEPT ![w] = @ + 1]
  BY DEF OneMore
<1> DEFINE u == Update(own, w)
           o == Other(op)
<1>1. /\ d \in [Workers -> 0..L] /\ OnePhase(P, d) /\ rest = << >>
      /\ Half(op, own, other, cache, P, d, L, op) /\ Half(o, other, own, rest, P, d, L, op)
  BY DEF Sched
<1>2. op # "no" /\ o # "no" /\ o # op /\ o \in Op /\ Other(o) = op
  BY DEF Op, Other
<1>3. /\ Counts(own, op, P, d, L) /\ Counts(other, o, P, d, L)
      /\ Holds(cache, op, P, d, L) /\ Holds(rest, o, P, d, L)
      /\ cache # << >> /\ Level(other)
  BY <1>1 DEF Half
<1>4. PICK x \in Workers : ~InCache(cache, x) /\ own.local[x] = own.global
  BY <1>1 DEF Half
<1>7. other.local[w] = other.global /\ other.global \in Nat
  <2>1. other.local[w] # MaxInt /\ other.global \in Nat
    BY <1>1, <1>3, Running
  <2> QED
    BY <1>3, <2>1 DEF Level
<1>8. other.local[w] <= other.global
  BY <1>7
<1>9. /\ e \in [Workers -> 0..L] /\ OnePhase(P, e)
      /\ Counts(u, op, P, e, L) /\ Counts(other, o, P, e, L)
  BY <1>1, <1>3, <1>8, GrantKeeps
<1>10. x # w
  BY <1>4 DEF Without
<1>11. /\ own \in Clock /\ u.local = [own.local EXCEPT ![w] = @ + 1] /\ GlobalIsMin(u)
       /\ u.global \in {own.global, own.global + 1} /\ u \in Clock
  BY <1>3, UpdateClock DEF Counts
<1>12. /\ u.local[w] = own.local[w] + 1 /\ u.local[x] = own.local[x]
       /\ u.global <= u.local[x] /\ own.global <= own.local[w]
       /\ own.global \in Nat /\ own.local[w] \in Nat /\ u.global \in Nat
  BY <1>3, <1>4, <1>10, <1>11 DEF Clock, Counts, GlobalIsMin
<1>13. u.local[x] = u.global /\ u.local[w] # u.global
  BY <1>4, <1>11, <1>12
<1>14. ~UpdateReturns(own, w)
  <2>1. u.local[w] # MaxInt
    <3>1. own.local[w] + 1 < MaxInt
      <4>1. own.local[w] = Number(P, op, d[w]) /\ L < MaxInt /\ L \in Nat /\ MaxInt \in Nat /\ d[w] \in Nat
        BY <1>1, <1>3, Running
      <4>2. Number(P, op, d[w]) <= d[w] /\ Number(P, op, d[w]) \in Nat
        BY <4>1, NumberType
      <4> QED
        BY <4>1, <4>2
    <3> QED
      BY <1>12, <3>1
  <2>2. ~Level(u)
    BY <1>13, <2>1 DEF Level
  <2> QED
    BY <1>1, <1>3, <2>2, GrantBringsLevel
<1> HIDE DEF u, o
<1>15. Holds(tail, op, P, e, L) /\ Holds(rest, o, P, e, L)
  <2>1. \A v \in Workers : v # w => e[v] = d[v]
    BY <1>1
  <2>2. Holds(tail, op, P, e, L)
    BY <2>1, HoldsAfter, ZenonT(60) DEF Without
  <2>3. ~InCache(rest, w)
    BY <1>1 DEF InCache
  <2> QED
    BY <1>3, <2>1, <2>2, <2>3, HoldsAfter
<1>16. \A p : p # o => Half(o, other, u, rest, P, e, L, p)
  BY <1>1, <1>9, <1>15 DEF Half
<1>17. ASSUME tail = << >> PROVE Half(op, u, other, tail, P, e, L, "no")
  <2>1. Len(tail) = 0
    BY <1>15, <1>17 DEF Holds
  <2> QED
    BY <1>2, <1>9, <1>15, <2>1 DEF Half
<1>18. ASSUME tail # << >> PROVE Half(op, u, other, tail, P, e, L, op)
  <2>1. ~InCache(tail, x)
    BY <1>4, <1>10 DEF Without
  <2> QED
    BY <1>3, <1>9, <1>13, <1>15, <1>18, <2>1 DEF Half
<1>19. Sched(op, u, other, tail, rest, P, e, L, AfterRound(tail, op))
  <2>1. CASE tail = << >>
    BY <1>1, <1>2, <1>9, <1>16, <1>17, <2>1 DEF Sched, o, AfterRound
  <2>2. CASE tail # << >>
    BY <1>1, <1>2, <1>9, <1>16, <1>18, <2>2 DEF Sched, o, AfterRound
  <2> QED
    BY <2>1, <2>2
<1> QED
  BY <1>1, <1>3, <1>8, <1>14, <1>19 DEF MayGrant, u

\* The oldest call in a cache is that of w.
First(cache, w) == Head(cache).src = w

\* The same for the oldest call in the cache.
LEMMA LoopGrants ==
  ASSUME NEW op \in Op, NEW own, NEW other, NEW cache, NEW rest, NEW P, NEW d, NEW L, Program(P, L),
         Sched(op, own, other, cache, rest, P, d, L, op), NEW w, First(cache, w),
         NEW e, OneMore(e, d, w)
  PROVE  /\ cache # << >> /\ rest = << >> /\ MayGrant(op, own, other, w, P, d, L)
         /\ Head(cache) \in Message /\ Head(cache).k = d[w] + 1
         /\ ~UpdateReturns(own, w)
         /\ Sched(op, Update(own, w), other, Tail(cache), rest, P, e, L, AfterRound(Tail(cache), op))
         /\ Without(Tail(cache), cache, w)
<1>1. d \in [Workers -> 0..L] /\ Holds(cache, op, P, d, L) /\ cache # << >>
  BY DEF Sched, Half
<1>2. /\ Head(cache) = cache[1] /\ 1 \in 1..Len(cache) /\ Tail(cache) \in Seq(Message)
      /\ Holds(Tail(cache), op, P, d, L) /\ Without(Tail(cache), cache, w)
  BY <1>1, HoldsTail DEF First, Without
<1>3. /\ Head(cache) \in Message /\ w \in Workers /\ Head(cache).k = d[w] + 1
      /\ d[w] < L /\ P[d[w] + 1] = op
  BY <1>1, <1>2, CachedIs DEF First
<1>4. PICK t : t = Tail(cache)
  OBVIOUS
<1>5. Holds(t, op, P, d, L) /\ Without(t, cache, w)
  BY <1>2, <1>4
<1>6. /\ cache # << >> /\ rest = << >> /\ MayGrant(op, own, other, w, P, d, L)
      /\ ~UpdateReturns(own, w)
      /\ Sched(op, Update(own, w), other, t, rest, P, e, L, AfterRound(t, op))
  BY <1>3, <1>5, LoopRound
<1> QED
  BY <1>2, <1>3, <1>4, <1>6

\* A worker that is through stops one of its clocks. The global clock moves only
\* if all others have left, and then nothing is cached.
LEMMA WorkerLeaves ==
  ASSUME NEW op \in Op, NEW own, NEW other, NEW cache, NEW rest, NEW P, NEW d, NEW L, Program(P, L),
         Sched(op, own, other, cache, rest, P, d, L, "no"), NEW w \in Workers, d[w] = L
  PROVE  /\ Sched(op, FinishTrain(own, w), other, cache, rest, P, d, L, "no")
         /\ FinishTrainReturns(own, w) => cache = << >> /\ rest = << >>
<1> DEFINE f == FinishTrain(own, w)
           t == Stopped(own, w)
           o == Other(op)
<1>1. /\ d \in [Workers -> 0..L] /\ OnePhase(P, d)
      /\ Half(op, own, other, cache, P, d, L, "no") /\ Half(o, other, own, rest, P, d, L, "no")
  BY DEF Sched
<1>2. op # "no" /\ o # "no" /\ o # op /\ o \in Op /\ Other(o) = op
  BY DEF Op, Other
<1>3. /\ Counts(own, op, P, d, L) /\ Counts(other, o, P, d, L)
      /\ Holds(cache, op, P, d, L) /\ Holds(rest, o, P, d, L)
      /\ \A i \in 1..Len(rest) : own.global < own.local[rest[i].src]
  BY <1>1, <1>2 DEF Half
<1>4. own \in Clock /\ GlobalIsMin(own)
  BY <1>3 DEF Counts
<1>5. /\ L \in Nat /\ MaxInt \in Nat /\ L < MaxInt /\ own.global \in Nat
      /\ \A v \in Workers :
           /\ d[v] \in Nat /\ own.local[v] \in Nat /\ own.global <= own.local[v]
           /\ Number(P, op, d[v]) \in Nat /\ Number(P, op, d[v]) <= L
           /\ own.local[v] # MaxInt => own.local[v] = Number(P, op, d[v])
           /\ own.local[v] = MaxInt => d[v] = L
  BY <1>1, <1>3, Running
<1>6. /\ t \in Clock /\ t.global = own.global /\ t.local[w] = MaxInt
      /\ \A v \in Workers : v # w => t.local[v] = own.local[v]
      /\ DOMAIN t.local = Workers /\ DOMAIN own.local = Workers
  BY <1>4, <1>5 DEF Stopped, Clock
<1> HIDE DEF t
<1>7. CASE GlobalIsBehind(t)
  <2>1. \A v \in Workers : own.global < t.local[v]
    BY <1>6, <1>7 DEF GlobalIsBehind
  <2>2. own.local[w] = own.global
    <3>1. PICK x \in Workers : own.global = own.local[x]
      BY <1>4 DEF GlobalIsMin
    <3> QED
      BY <1>5, <1>6, <2>1, <3>1
  <2>3. ASSUME NEW v \in Workers PROVE t.local[v] = MaxInt
    <3> SUFFICES ASSUME v # w, own.local[v] # MaxInt PROVE FALSE
      BY <1>6
    <3>1. own.local[v] = Number(P, op, d[v]) /\ own.global < own.local[v]
      BY <1>5, <1>6, <2>1
    <3>2. d[v] <= L
      BY <1>1, <1>5
    <3>3. Number(P, op, d[v]) <= Number(P, op, L)
      BY <1>5, <3>2, NumberMonotone
    <3>4. own.local[w] = Number(P, op, L) \/ own.local[w] = MaxInt
      BY <1>5
    <3> QED
      BY <1>5, <2>2, <3>1, <3>3, <3>4
  <2>4. \A v \in Workers : d[v] = L
    BY <1>5, <1>6, <2>3
  <2>5. cache = << >> /\ rest = << >>
    <3>1. ASSUME NEW c, NEW p, Holds(c, p, P, d, L), c # << >> PROVE FALSE
      <4>1. 1 \in 1..Len(c)
        BY <1>1, <3>1, HoldsTail
      <4> QED
        BY <1>1, <1>5, <2>4, <3>1, <4>1, CachedIs
    <3> QED
      BY <1>3, <3>1
  <2>6. f.global = MaxInt /\ f.local = t.local /\ f \in Clock
    <3> DEFINE S == {t.local[v] : v \in Workers}
    <3>1. S = {MaxInt}
      BY <2>3
    <3>2. f = [t EXCEPT !.global = CHOOSE n \in S : \A v \in Workers : n <= t.local[v]]
      BY <1>6, <1>7 DEF FinishTrain, t
    <3>3. (CHOOSE n \in S : \A v \in Workers : n <= t.local[v]) = MaxInt
      BY <1>5, <2>3, <3>1
    <3> HIDE DEF S
    <3> QED
      BY <1>5, <1>6, <3>2, <3>3 DEF Clock
  <2> HIDE DEF f
  <2>7. Counts(f, op, P, d, L)
    BY <1>5, <2>3, <2>4, <2>6 DEF Counts, GlobalIsMin
  <2>8. Len(cache) = 0 /\ Len(rest) = 0
    BY <2>5
  <2>9. Half(op, f, other, cache, P, d, L, "no") /\ Half(o, other, f, rest, P, d, L, "no")
    BY <1>2, <1>3, <2>7, <2>8 DEF Half
  <2> QED
    BY <1>1, <1>2, <2>5, <2>9 DEF Sched, f
<1>8. CASE ~GlobalIsBehind(t)
  <2>1. f = t /\ ~FinishTrainReturns(own, w)
    BY <1>8 DEF FinishTrain, FinishTrainReturns, t
  <2>2. PICK x \in Workers : ~(own.global < t.local[x])
    BY <1>6, <1>8 DEF GlobalIsBehind
  <2>3. GlobalIsMin(t)
    <3>1. \A v \in Workers : t.global <= t.local[v]
      BY <1>5, <1>6
    <3>2. t.global = t.local[x]
      BY <1>5, <1>6, <2>2, <3>1
    <3> QED
      BY <3>1, <3>2 DEF GlobalIsMin
  <2>4. Counts(t, op, P, d, L)
    BY <1>3, <1>6, <2>3 DEF Counts
  <2>5. \A i \in 1..Len(rest) : t.global < t.local[rest[i].src]
    <3> SUFFICES ASSUME NEW i \in 1..Len(rest) PROVE t.global < t.local[rest[i].src]
      OBVIOUS
    <3>1. rest[i].src \in Workers /\ d[rest[i].src] < L
      BY <1>1, <1>3, CachedIs
    <3>2. rest[i].src # w
      BY <1>5, <3>1
    <3> QED
      BY <1>3, <1>6, <3>1, <3>2
  <2>6. Half(op, t, other, cache, P, d, L, "no") /\ Half(o, other, t, rest, P, d, L, "no")
    BY <1>1, <1>2, <1>3, <2>4, <2>5 DEF Half
  <2> QED
    BY <1>1, <1>2, <2>1, <2>6 DEF Sched
<1> QED
  BY <1>7, <1>8

\* A call that goes to other servers only.
LEMMA CallPasses ==
  ASSUME NEW op \in Op, NEW own, NEW other, NEW cache, NEW rest, NEW P, NEW d, NEW L, Program(P, L),
         NEW place, Sched(op, own, other, cache, rest, P, d, L, place), NEW w \in Workers,
         d[w] < L, P[d[w] + 1] = "none", NEW e, OneMore(e, d, w)
  PROVE  Sched(op, own, other, cache, rest, P, e, L, place)
<1> e = [d EXCEPT ![w] = @ + 1]
  BY DEF OneMore
<1> DEFINE o == Other(op)
<1>1. /\ d \in [Workers -> 0..L] /\ OnePhase(P, d)
      /\ Half(op, own, other, cache, P, d, L, place) /\ Half(o, other, own, rest, P, d, L, place)
  BY DEF Sched
<1>2. o \in Op /\ "none" # op /\ "none" # o
  BY DEF Op, Other
<1>3. L \in Nat /\ \A v \in Workers : d[v] \in Nat
  BY <1>1 DEF Program
<1>4. /\ e \in [Workers -> 0..L] /\ e[w] = d[w] + 1 /\ \A v \in Workers : v # w => e[v] = d[v]
  BY <1>1, <1>3
<1> HIDE DEF o
<1>5. OnePhase(P, e)
  <2> SUFFICES ASSUME NEW v \in Workers, NEW x \in Workers,
                      NEW i \in (e[v] + 1)..e[x], NEW j \in (e[v] + 1)..e[x],
                      P[i] \in Op, P[j] \in Op
               PROVE  P[i] = P[j]
    BY DEF OnePhase
  <2>1. i # d[w] + 1 /\ j # d[w] + 1
    BY OtherIs
  <2>2. i \in (d[v] + 1)..d[x] /\ j \in (d[v] + 1)..d[x]
    BY <1>3, <1>4, <2>1
  <2> QED
    BY <1>1, <2>2 DEF OnePhase
<1>6. ASSUME NEW c, NEW p \in Op, Counts(c, p, P, d, L) PROVE Counts(c, p, P, e, L)
  <2>1. Number(P, p, d[w] + 1) = Number(P, p, d[w])
    <3>1. P[d[w] + 1] # p
      BY OtherIs
    <3> QED
      BY <1>3, <3>1, NumberStep
  <2> QED
    BY <1>3, <1>4, <1>6, <2>1 DEF Counts
<1>7. ASSUME NEW c, NEW p \in Op, Holds(c, p, P, d, L) PROVE Holds(c, p, P, e, L)
  <2>1. ~InCache(c, w)
    <3>1. P[d[w] + 1] # p
      BY OtherIs
    <3> QED
      BY <1>1, <1>7, <3>1, NotCached
  <2> QED
    BY <1>4, <1>7, <2>1, HoldsAfter
<1>8. Half(op, own, other, cache, P, e, L, place) /\ Half(o, other, own, rest, P, e, L, place)
  BY <1>1, <1>2, <1>6, <1>7 DEF Half
<1> QED
  BY <1>4, <1>5, <1>8 DEF Sched, o

-----------------------------------------------------------------------------
(* The handlers.                                                             *)

\* Call k of w, of kind op, is marked as answered, and absorbed if it is an Add.
Marked(a, answered, w, k) == a = [answered EXCEPT ![w] = @ \cup {k}]
Absorbed(new, params, w, op) ==
  new = IF op = "Add" THEN [params EXCEPT ![w] = @ + 1] ELSE params

\* The books after a call has been answered.
LEMMA BooksStep ==
  ASSUME NEW P, NEW L \in Nat, NEW d \in [Workers -> 0..L], NEW w \in Workers, NEW e,
         OneMore(e, d, w), NEW k, k = d[w] + 1, P[k] \in Op,
         NEW answered \in [Workers -> SUBSET Nat], NEW params \in [Workers -> Nat],
         Books(answered, params, P, d), NEW a, Marked(a, answered, w, k),
         NEW new, Absorbed(new, params, w, P[k])
  PROVE  Books(a, new, P, e)
<1>1. /\ d[w] \in Nat /\ e[w] = d[w] + 1 /\ \A v \in Workers : v # w => e[v] = d[v]
  BY DEF OneMore
<1>2. /\ a[w] = answered[w] \cup {d[w] + 1} /\ \A v \in Workers : v # w => a[v] = answered[v]
      /\ \A v \in Workers : v # w => new[v] = params[v]
      /\ new[w] = IF P[d[w] + 1] = "Add" THEN params[w] + 1 ELSE params[w]
  BY DEF Marked, Absorbed
<1>3. new[w] = Number(P, "Add", e[w])
  <2>1. Number(P, "Add", d[w] + 1) =
          IF P[d[w] + 1] = "Add" THEN Number(P, "Add", d[w]) + 1 ELSE Number(P, "Add", d[w])
    BY <1>1, NumberStep
  <2>2. params[w] = Number(P, "Add", d[w])
    BY DEF Books
  <2> QED
    BY <1>1, <1>2, <2>1, <2>2
<1>4. {j \in 1..(d[w] + 1) : P[j] \in Op} = {j \in 1..d[w] : P[j] \in Op} \cup {d[w] + 1}
  BY <1>1
<1>5. a[w] = {j \in 1..e[w] : P[j] \in Op}
  BY <1>1, <1>2, <1>4 DEF Books
<1>6. ASSUME NEW v \in Workers
      PROVE  a[v] = {j \in 1..e[v] : P[j] \in Op} /\ new[v] = Number(P, "Add", e[v])
  <2>1. CASE v = w
    BY <1>3, <1>5, <2>1
  <2>2. CASE v # w
    BY <1>1, <1>2, <2>2 DEF Books
  <2> QED
    BY <2>1, <2>2
<1> QED
  BY <1>6 DEF Books

\* A Get that need not wait is answered with the Adds before it, of everybody.
LEMMA ReplyOfGet ==
  ASSUME NEW P, NEW L, Program(P, L), NEW d, NEW own, NEW other, NEW cache, NEW rest, NEW place,
         Sched("Get", own, other, cache, rest, P, d, L, place),
         NEW w, MayGrant("Get", own, other, w, P, d, L),
         NEW answered, NEW params \in [Workers -> Nat], Books(answered, params, P, d),
         NEW replies, Replied(replies, P, L)
  PROVE  Replied(replies \cup {[src |-> w, k |-> d[w] + 1, params |-> params]}, P, L)
<1>1. /\ d \in [Workers -> 0..L] /\ OnePhase(P, d) /\ Counts(other, Other("Get"), P, d, L)
  BY DEF Sched, Half
<1>2. /\ w \in Workers /\ d[w] < L /\ P[d[w] + 1] = "Get" /\ other.local[w] <= other.global
  BY DEF MayGrant
<1>3. d[w] \in Nat /\ L \in Nat
  BY <1>1, <1>2 DEF Program
<1>4. \A v \in Workers : Number(P, "Add", d[v]) = Number(P, "Add", d[w])
  BY <1>1, <1>2, OtherIs, LevelOnOther
<1>5. Number(P, "Add", d[w] + 1) = Number(P, "Add", d[w])
  BY <1>2, <1>3, NumberStep
<1>6. params = [v \in Workers |-> Number(P, "Add", d[w] + 1)]
  BY <1>4, <1>5 DEF Books
<1>7. d[w] + 1 \in 1..L
  BY <1>2, <1>3
<1> DEFINE new == [src |-> w, k |-> d[w] + 1, params |-> params]
<1>8. new.k = d[w] + 1 /\ new.params = params
  OBVIOUS
<1> HIDE DEF new
<1>9. new.k \in 1..L /\ P[new.k] = "Get" /\ new.params = [v \in Workers |-> Number(P, "Add", new.k)]
  BY <1>2, <1>6, <1>7, <1>8
<1> QED
  BY <1>9, ZenonT(60) DEF Replied, new

\* What a handler may do to the calls of other workers than w: nothing.
Untouched(s, t, w) ==
  \A v : v # w => /\ InCache(t.addCache, v) <=> InCache(s.addCache, v)
                  /\ InCache(t.getCache, v) <=> InCache(s.getCache, v)

\* The server has put a call of w aside, or marked w as gone.
Waits(s, t, w, P, d, L) ==
  ServerOK(t, P, d, L) /\ t.answered = s.answered /\ Untouched(s, t, w)

SameCaches(s, t) == t.addCache = s.addCache /\ t.getCache = s.getCache

\* The server has answered call m.
Serves(s, t, m, P, d, L) ==
  /\ \E e : OneMore(e, d, m.src) /\ ServerOK(t, P, e, L)
  /\ t.answered = [s.answered EXCEPT ![m.src] = @ \cup {m.k}]
  /\ Untouched(s, t, m.src)
  /\ ~InCache(t.addCache, m.src) /\ ~InCache(t.getCache, m.src)

\* m is the next call of its worker, and it is of this kind.
Due(m, op, P, d, L) ==
  /\ m \in Message /\ m.k = d[m.src] + 1 /\ m.k <= L /\ P[m.k] = op

\* The kind of call the thread's loop drains.
LEMMA DrainedIs ==
  \A s : /\ s.draining = "no" => Drained(s) = "no"
         /\ s.draining = "gets" => Drained(s) = "Get"
         /\ s.draining = "adds" => Drained(s) = "Add"
BY DEF Drained

\* There is such a vector of positions.
LEMMA OneMoreIs ==
  ASSUME NEW L \in Nat, NEW d \in [Workers -> 0..L], NEW w
  PROVE  \E e : OneMore(e, d, w)
BY DEF OneMore

\* An Add that arrives is put aside, or absorbed and answered.
LEMMA AddArrives ==
  ASSUME NEW P, NEW L, Program(P, L), NEW d, NEW s, ServerOK(s, P, d, L), s.draining = "no",
         NEW m, Due(m, "Add", P, d, L),
         ~InCache(s.addCache, m.src), ~InCache(s.getCache, m.src)
  PROVE  LET t == ProcessAdd(s, m)
         IN  Waits(s, t, m.src, P, d, L) \/ Serves(s, t, m, P, d, L)
<1> DEFINE w == m.src
           t == ProcessAdd(s, m)
<1>1. /\ s \in Server /\ ~s.failed /\ L \in Nat
      /\ Sched("Add", s.add, s.get, s.addCache, s.getCache, P, d, L, "no")
      /\ Books(s.answered, s.params, P, d) /\ Waiting(s.waited, s.addCache) /\ Replied(s.replies, P, L)
  BY DrainedIs DEF ServerOK, Program
<1>2. d \in [Workers -> 0..L]
  BY <1>1 DEF Sched
<1>3. /\ m \in Message /\ w \in Workers /\ m.k = d[w] + 1 /\ m.k <= L /\ P[m.k] = "Add"
      /\ d[w] \in Nat /\ d[w] < L
  BY <1>1, <1>2 DEF Due, Message
<1>4. /\ s.addCache \in Seq(Message) /\ s.answered \in [Workers -> SUBSET Nat]
      /\ s.params \in [Workers -> Nat] /\ s.waited \in [Workers -> Int]
      /\ s.get \in Clock
  BY <1>1 DEF Server
<1>5. s.get.local[w] \in Nat /\ s.get.global \in Nat
  BY <1>3, <1>4 DEF Clock
<1>6. CASE AddMustWait(s, w)
  <2>1. t = CacheAdd(s, m)
    BY <1>6 DEF ProcessAdd
  <2> HIDE DEF t
  <2>2. /\ t \in Server
        /\ t.addCache = Append(s.addCache, m) /\ t.getCache = s.getCache
        /\ t.waited = [s.waited EXCEPT ![w] = @ + 1]
        /\ t.add = s.add /\ t.get = s.get /\ t.params = s.params
        /\ t.draining = s.draining /\ t.failed = s.failed
        /\ t.answered = s.answered /\ t.replies = s.replies
    BY <1>1, <1>3, <2>1, CacheAddFields
  <2>3. s.get.global < s.get.local[w]
    BY <1>5, <1>6 DEF AddMustWait
  <2>4. Sched("Add", s.add, s.get, Append(s.addCache, m), s.getCache, P, d, L, "no")
    BY <1>1, <1>3, <2>3, OtherIs, CallWaits
  <2>5. \A v : InCache(t.addCache, v) <=> InCache(s.addCache, v) \/ v = w
    BY <1>3, <1>4, <2>2, InAppended
  <2>6. Waiting(t.waited, t.addCache)
    BY <1>1, <1>3, <1>4, <2>2, <2>5 DEF Waiting
  <2>7. ServerOK(t, P, d, L)
    BY <1>1, <2>2, <2>4, <2>6, DrainedIs DEF ServerOK
  <2> QED
    BY <2>2, <2>5, <2>7 DEF Waits, Untouched, t
<1>7. CASE ~AddMustWait(s, w)
  <2>1. MayGrant("Add", s.add, s.get, w, P, d, L)
    BY <1>3, <1>5, <1>7 DEF MayGrant, AddMustWait
  <2>2. PICK e : OneMore(e, d, w)
    BY <1>1, <1>2, OneMoreIs
  <2>3. /\ s.addCache = << >>
        /\ ~UpdateReturns(s.add, w) =>
             Sched("Add", Update(s.add, w), s.get, s.addCache, s.getCache, P, e, L, "no")
        /\ UpdateReturns(s.add, w) =>
             Sched("Add", Update(s.add, w), s.get, s.addCache, s.getCache, P, e, L,
                   IF s.getCache = << >> THEN "no" ELSE Other("Add"))
    BY <1>1, <2>1, <2>2, OtherIs, CallGranted
  <2> DEFINE a == ApplyAdd(s, m)
  <2>4. /\ a \in Server
        /\ a.add = Update(s.add, w) /\ a.get = s.get
        /\ a.params = [s.params EXCEPT ![w] = @ + 1]
        /\ a.answered = [s.answered EXCEPT ![w] = @ \cup {m.k}]
        /\ a.waited = s.waited /\ a.draining = s.draining /\ a.failed = s.failed
        /\ a.addCache = s.addCache /\ a.getCache = s.getCache
        /\ a.replies = s.replies
    BY <1>1, <1>3, ApplyAddFields
  <2>5. Books(a.answered, a.params, P, e)
    <3>1. P[m.k] \in Op
      BY <1>3, OtherIs
    <3>2. Marked(a.answered, s.answered, w, m.k) /\ Absorbed(a.params, s.params, w, P[m.k])
      BY <1>3, <2>4 DEF Marked, Absorbed
    <3> HIDE DEF a
    <3> QED
      BY <1>1, <1>2, <1>3, <1>4, <2>2, <3>1, <3>2, BooksStep
  <2>6. ASSUME NEW u, u \in Server, u.add = a.add, u.get = a.get, u.waited = a.waited,
               u.addCache = a.addCache, u.getCache = a.getCache, u.failed = a.failed,
               u.params = a.params, u.answered = a.answered, u.replies = a.replies,
               Sched("Add", a.add, a.get, a.addCache, a.getCache, P, e, L, Drained(u))
        PROVE  Serves(s, u, m, P, d, L)
    <3>1. ServerOK(u, P, e, L)
      BY <1>1, <2>4, <2>5, <2>6 DEF ServerOK
    <3> QED
      BY <2>2, <2>4, <2>6, <3>1 DEF Serves, Untouched
  <2>7. CASE ~UpdateReturns(s.add, w)
    <3>1. t = a
      BY <1>7, <2>7 DEF ProcessAdd
    <3>2. Drained(a) = "no"
      BY <2>4, DrainedIs
    <3>3. Serves(s, a, m, P, d, L)
      BY <2>3, <2>4, <2>6, <2>7, <3>2
    <3> QED
      BY <3>1, <3>3
  <2>8. CASE UpdateReturns(s.add, w)
    <3> DEFINE u == StartDrainingGets(a)
    <3>1. t = u
      BY <1>7, <2>3, <2>8 DEF ProcessAdd
    <3>2. /\ u \in Server /\ u.add = a.add /\ u.get = a.get /\ u.waited = a.waited
          /\ u.addCache = a.addCache /\ u.getCache = a.getCache /\ u.failed = a.failed
          /\ u.params = a.params /\ u.answered = a.answered /\ u.replies = a.replies
          /\ u.draining = IF a.getCache = << >> THEN "no" ELSE "gets"
      BY <2>4, StartFields, StartPlace
    <3> HIDE DEF u
    <3>3. Drained(u) = IF s.getCache = << >> THEN "no" ELSE Other("Add")
      BY <2>4, <3>2, DrainedIs, OtherIs
    <3>4. Sched("Add", a.add, a.get, a.addCache, a.getCache, P, e, L, Drained(u))
      BY <2>3, <2>4, <2>8, <3>3
    <3> HIDE DEF a
    <3>5. Serves(s, u, m, P, d, L)
      BY <2>6, <3>2, <3>4
    <3> QED
      BY <3>1, <3>5
  <2> QED
    BY <2>7, <2>8
<1> QED
  BY <1>6, <1>7

\* A Get that arrives is put aside or answered.
LEMMA GetArrives ==
  ASSUME NEW P, NEW L, Program(P, L), NEW d, NEW s, ServerOK(s, P, d, L), s.draining = "no",
         NEW m, Due(m, "Get", P, d, L),
         ~InCache(s.addCache, m.src), ~InCache(s.getCache, m.src)
  PROVE  LET t == ProcessGet(s, m)
         IN  Waits(s, t, m.src, P, d, L) \/ Serves(s, t, m, P, d, L)
<1> DEFINE w == m.src
           t == ProcessGet(s, m)
<1>1. /\ s \in Server /\ ~s.failed /\ L \in Nat
      /\ Sched("Add", s.add, s.get, s.addCache, s.getCache, P, d, L, "no")
      /\ Books(s.answered, s.params, P, d) /\ Waiting(s.waited, s.addCache) /\ Replied(s.replies, P, L)
  BY DrainedIs DEF ServerOK, Program
<1>0. Sched("Get", s.get, s.add, s.getCache, s.addCache, P, d, L, "no")
  BY <1>1, OtherIs, SchedSwap
<1>2. d \in [Workers -> 0..L]
  BY <1>1 DEF Sched
<1>3. /\ m \in Message /\ w \in Workers /\ m.k = d[w] + 1 /\ m.k <= L /\ P[m.k] = "Get"
      /\ d[w] \in Nat /\ d[w] < L
  BY <1>1, <1>2 DEF Due, Message
<1>4. /\ s.getCache \in Seq(Message) /\ s.answered \in [Workers -> SUBSET Nat]
      /\ s.params \in [Workers -> Nat] /\ s.waited \in [Workers -> Int]
      /\ s.add \in Clock
  BY <1>1 DEF Server
<1>5. s.add.local[w] \in Nat /\ s.add.global \in Nat
  BY <1>3, <1>4 DEF Clock
<1>6. GetMustWait(s, w) <=> s.add.global < s.add.local[w]
  <2>1. s.waited[w] = 0
    BY <1>1, <1>3 DEF Waiting
  <2> QED
    BY <1>5, <2>1 DEF GetMustWait
<1>7. CASE GetMustWait(s, w)
  <2>1. t = CacheGet(s, m)
    BY <1>7 DEF ProcessGet
  <2> HIDE DEF t
  <2>2. /\ t \in Server
        /\ t.getCache = Append(s.getCache, m) /\ t.addCache = s.addCache
        /\ t.waited = s.waited
        /\ t.add = s.add /\ t.get = s.get /\ t.params = s.params
        /\ t.draining = s.draining /\ t.failed = s.failed
        /\ t.answered = s.answered /\ t.replies = s.replies
    BY <1>1, <1>3, <2>1, CacheGetFields
  <2>3. Sched("Get", s.get, s.add, Append(s.getCache, m), s.addCache, P, d, L, "no")
    BY <1>0, <1>3, <1>6, <1>7, OtherIs, CallWaits
  <2>4. Sched("Add", s.add, s.get, s.addCache, Append(s.getCache, m), P, d, L, "no")
    BY <2>3, OtherIs, SchedSwap
  <2>5. \A v : InCache(t.getCache, v) <=> InCache(s.getCache, v) \/ v = w
    BY <1>3, <1>4, <2>2, InAppended
  <2>6. ServerOK(t, P, d, L)
    BY <1>1, <2>2, <2>4, DrainedIs DEF ServerOK
  <2> QED
    BY <2>2, <2>5, <2>6 DEF Waits, Untouched, t
<1>8. CASE ~GetMustWait(s, w)
  <2>1. MayGrant("Get", s.get, s.add, w, P, d, L)
    BY <1>3, <1>5, <1>6, <1>8 DEF MayGrant
  <2>2. PICK e : OneMore(e, d, w)
    BY <1>1, <1>2, OneMoreIs
  <2>3. /\ ~UpdateReturns(s.get, w) =>
             Sched("Get", Update(s.get, w), s.add, s.getCache, s.addCache, P, e, L, "no")
        /\ UpdateReturns(s.get, w) =>
             Sched("Get", Update(s.get, w), s.add, s.getCache, s.addCache, P, e, L,
                   IF s.addCache = << >> THEN "no" ELSE Other("Get"))
    BY <1>0, <2>1, <2>2, OtherIs, CallGranted
  <2> DEFINE a == ServeGet(s, m)
  <2>4. /\ a \in Server
        /\ a.get = Update(s.get, w) /\ a.add = s.add
        /\ a.params = s.params
        /\ a.answered = [s.answered EXCEPT ![w] = @ \cup {m.k}]
        /\ a.waited = s.waited /\ a.draining = s.draining /\ a.failed = s.failed
        /\ a.addCache = s.addCache /\ a.getCache = s.getCache
        /\ a.replies = s.replies \cup {[src |-> w, k |-> m.k, params |-> s.params]}
    BY <1>1, <1>3, ServeGetFields
  <2>5. Books(a.answered, a.params, P, e)
    <3>1. P[m.k] \in Op
      BY <1>3, OtherIs
    <3>2. Marked(a.answered, s.answered, w, m.k) /\ Absorbed(a.params, s.params, w, P[m.k])
      BY <1>3, <2>4 DEF Marked, Absorbed
    <3> HIDE DEF a
    <3> QED
      BY <1>1, <1>2, <1>3, <1>4, <2>2, <3>1, <3>2, BooksStep
  <2>6. Replied(a.replies, P, L)
    <3>1. Replied(s.replies \cup {[src |-> w, k |-> d[w] + 1, params |-> s.params]}, P, L)
      BY <1>0, <1>1, <1>4, <2>1, ReplyOfGet
    <3>2. a.replies = s.replies \cup {[src |-> w, k |-> d[w] + 1, params |-> s.params]}
      BY <1>3, <2>4
    <3> QED
      BY <3>1, <3>2
  <2>7. ASSUME NEW u, u \in Server, u.add = a.add, u.get = a.get, u.waited = a.waited,
               u.addCache = a.addCache, u.getCache = a.getCache, u.failed = a.failed,
               u.params = a.params, u.answered = a.answered, u.replies = a.replies,
               Sched("Get", a.get, a.add, a.getCache, a.addCache, P, e, L, Drained(u))
        PROVE  Serves(s, u, m, P, d, L)
    <3>1. Sched("Add", a.add, a.get, a.addCache, a.getCache, P, e, L, Drained(u))
      BY <2>7, OtherIs, SchedSwap
    <3>2. ServerOK(u, P, e, L)
      BY <1>1, <2>4, <2>5, <2>6, <2>7, <3>1 DEF ServerOK
    <3> QED
      BY <2>2, <2>4, <2>7, <3>2 DEF Serves, Untouched
  <2>8. CASE ~UpdateReturns(s.get, w)
    <3>1. t = a
      BY <1>8, <2>8 DEF ProcessGet
    <3>2. Drained(a) = "no"
      BY <2>4, DrainedIs
    <3>3. Serves(s, a, m, P, d, L)
      BY <2>3, <2>4, <2>7, <2>8, <3>2
    <3> QED
      BY <3>1, <3>3
  <2>9. CASE UpdateReturns(s.get, w)
    <3> DEFINE u == StartDrainingAdds(a)
    <3>1. t = u
      BY <1>8, <2>9 DEF ProcessGet
    <3>2. /\ u \in Server /\ u.add = a.add /\ u.get = a.get /\ u.waited = a.waited
          /\ u.addCache = a.addCache /\ u.getCache = a.getCache /\ u.failed = a.failed
          /\ u.params = a.params /\ u.answered = a.answered /\ u.replies = a.replies
          /\ u.draining = IF a.addCache = << >> THEN "no" ELSE "adds"
      BY <2>4, StartFields, StartPlace
    <3> HIDE DEF u
    <3>3. Drained(u) = IF s.addCache = << >> THEN "no" ELSE Other("Get")
      BY <2>4, <3>2, DrainedIs, OtherIs
    <3>4. Sched("Get", a.get, a.add, a.getCache, a.addCache, P, e, L, Drained(u))
      BY <2>3, <2>4, <2>9, <3>3
    <3> HIDE DEF a
    <3>5. Serves(s, u, m, P, d, L)
      BY <2>7, <3>2, <3>4
    <3> QED
      BY <3>1, <3>5
  <2> QED
    BY <2>8, <2>9
<1> QED
  BY <1>7, <1>8

\* One round of the loop over the cached Gets.
LEMMA GetDrained ==
  ASSUME NEW P, NEW L, Program(P, L), NEW d, NEW s, ServerOK(s, P, d, L), s.draining = "gets"
  PROVE  /\ s.getCache # << >> /\ Due(Head(s.getCache), "Get", P, d, L)
         /\ InCache(s.getCache, Head(s.getCache).src)
         /\ Serves(s, DrainGet(s), Head(s.getCache), P, d, L)
<1> DEFINE m == Head(s.getCache)
           w == m.src
           p == [s EXCEPT !.getCache = Tail(@)]
           a == ServeGet(p, m)
           u == StartDrainingGets(a)
<1>1. /\ s \in Server /\ ~s.failed /\ L \in Nat
      /\ Sched("Add", s.add, s.get, s.addCache, s.getCache, P, d, L, "Get")
      /\ Books(s.answered, s.params, P, d) /\ Waiting(s.waited, s.addCache) /\ Replied(s.replies, P, L)
  BY DrainedIs DEF ServerOK, Program
<1>2. Sched("Get", s.get, s.add, s.getCache, s.addCache, P, d, L, "Get")
  BY <1>1, OtherIs, SchedSwap
<1>3. d \in [Workers -> 0..L]
  BY <1>1 DEF Sched
<1>4. PICK e : OneMore(e, d, w)
  BY <1>1, <1>3, OneMoreIs
<1>5. /\ s.getCache # << >> /\ s.addCache = << >> /\ MayGrant("Get", s.get, s.add, w, P, d, L)
      /\ m \in Message /\ m.k = d[w] + 1 /\ ~UpdateReturns(s.get, w)
      /\ Sched("Get", Update(s.get, w), s.add, Tail(s.getCache), s.addCache, P, e, L,
               AfterRound(Tail(s.getCache), "Get"))
      /\ Without(Tail(s.getCache), s.getCache, w)
  <2>1. First(s.getCache, w)
    BY DEF First
  <2> HIDE DEF m
  <2> QED
    BY <1>2, <1>4, <2>1, OtherIs, LoopGrants DEF m
<1>6. /\ w \in Workers /\ P[m.k] = "Get" /\ m.k <= L
  <2>1. w \in Workers /\ d[w] < L /\ P[d[w] + 1] = "Get"
    BY <1>5 DEF MayGrant
  <2> QED
    BY <1>1, <1>3, <1>5, <2>1
<1>7. /\ p \in Server /\ p.add = s.add /\ p.get = s.get /\ p.waited = s.waited
      /\ p.addCache = s.addCache /\ p.getCache = Tail(s.getCache) /\ p.failed = s.failed
      /\ p.params = s.params /\ p.answered = s.answered /\ p.replies = s.replies
  BY <1>1, <1>5, PopFields DEF Server
<1> HIDE DEF p, m
<1>8. /\ a \in Server
      /\ a.get = Update(s.get, w) /\ a.add = s.add /\ a.params = s.params
      /\ a.answered = [s.answered EXCEPT ![w] = @ \cup {m.k}]
      /\ a.waited = s.waited /\ a.failed = s.failed
      /\ a.addCache = s.addCache /\ a.getCache = Tail(s.getCache)
      /\ a.replies = s.replies \cup {[src |-> w, k |-> m.k, params |-> s.params]}
  <2>1. /\ a \in Server
        /\ a.get = Update(p.get, w) /\ a.add = p.add /\ a.params = p.params
        /\ a.answered = [p.answered EXCEPT ![w] = @ \cup {m.k}]
        /\ a.waited = p.waited /\ a.failed = p.failed
        /\ a.addCache = p.addCache /\ a.getCache = p.getCache
        /\ a.replies = p.replies \cup {[src |-> w, k |-> m.k, params |-> p.params]}
    BY <1>5, <1>7, ServeGetFields
  <2> HIDE DEF a
  <2> QED
    BY <1>7, <2>1
<1> HIDE DEF a
<1>9. DrainGet(s) = u
  BY <1>5 DEF DrainGet, a, p, m
<1>10. /\ u \in Server /\ u.add = a.add /\ u.get = a.get /\ u.waited = a.waited
       /\ u.addCache = a.addCache /\ u.getCache = a.getCache /\ u.failed = a.failed
       /\ u.params = a.params /\ u.answered = a.answered /\ u.replies = a.replies
       /\ u.draining = IF a.getCache = << >> THEN "no" ELSE "gets"
  BY <1>8, StartFields, StartPlace
<1> HIDE DEF u
<1>11. Drained(u) = AfterRound(Tail(s.getCache), "Get")
  BY <1>8, <1>10, DrainedIs DEF AfterRound
<1>12. Sched("Add", u.add, u.get, u.addCache, u.getCache, P, e, L, Drained(u))
  BY <1>5, <1>8, <1>10, <1>11, OtherIs, SchedSwap
<1>13. Books(u.answered, u.params, P, e)
  <2>1. P[m.k] \in Op
    BY <1>6, OtherIs
  <2>2. /\ Marked(u.answered, s.answered, w, m.k) /\ Absorbed(u.params, s.params, w, P[m.k])
        /\ s.answered \in [Workers -> SUBSET Nat] /\ s.params \in [Workers -> Nat]
    BY <1>1, <1>6, <1>8, <1>10 DEF Marked, Absorbed, Server
  <2> QED
    BY <1>1, <1>3, <1>4, <1>5, <1>6, <2>1, <2>2, BooksStep
<1>14. Replied(u.replies, P, L)
  <2>1. s.params \in [Workers -> Nat]
    BY <1>1 DEF Server
  <2> QED
    BY <1>1, <1>2, <1>5, <1>8, <1>10, <2>1, ReplyOfGet
<1>15. ServerOK(u, P, e, L)
  BY <1>1, <1>8, <1>10, <1>12, <1>13, <1>14 DEF ServerOK
<1>16. Untouched(s, u, w) /\ ~InCache(u.getCache, w) /\ ~InCache(u.addCache, w)
  <2>1. ~InCache(s.addCache, w)
    BY <1>5 DEF InCache
  <2> QED
    BY <1>5, <1>8, <1>10, <2>1 DEF Untouched, Without
<1>17. Serves(s, u, m, P, d, L)
  BY <1>4, <1>8, <1>10, <1>15, <1>16 DEF Serves
<1> QED
  BY <1>5, <1>6, <1>9, <1>17 DEF Due, Without, m

\* One round of the loop over the cached Adds.
LEMMA AddDrained ==
  ASSUME NEW P, NEW L, Program(P, L), NEW d, NEW s, ServerOK(s, P, d, L), s.draining = "adds"
  PROVE  /\ s.addCache # << >> /\ Due(Head(s.addCache), "Add", P, d, L)
         /\ InCache(s.addCache, Head(s.addCache).src)
         /\ Serves(s, DrainAdd(s), Head(s.addCache), P, d, L)
<1> DEFINE m == Head(s.addCache)
           w == m.src
           p == [s EXCEPT !.addCache = Tail(@)]
           a == ApplyAdd(p, m)
           b == [a EXCEPT !.waited[w] = @ - 1]
           u == StartDrainingAdds(b)
<1>1. /\ s \in Server /\ ~s.failed /\ L \in Nat
      /\ Sched("Add", s.add, s.get, s.addCache, s.getCache, P, d, L, "Add")
      /\ Books(s.answered, s.params, P, d) /\ Waiting(s.waited, s.addCache) /\ Replied(s.replies, P, L)
  BY DrainedIs DEF ServerOK, Program
<1>2. d \in [Workers -> 0..L]
  BY <1>1 DEF Sched
<1>3. PICK e : OneMore(e, d, w)
  BY <1>1, <1>2, OneMoreIs
<1>4. /\ s.addCache # << >> /\ s.getCache = << >> /\ MayGrant("Add", s.add, s.get, w, P, d, L)
      /\ m \in Message /\ m.k = d[w] + 1 /\ ~UpdateReturns(s.add, w)
      /\ Sched("Add", Update(s.add, w), s.get, Tail(s.addCache), s.getCache, P, e, L,
               AfterRound(Tail(s.addCache), "Add"))
      /\ Without(Tail(s.addCache), s.addCache, w)
  <2>1. First(s.addCache, w)
    BY DEF First
  <2> HIDE DEF m
  <2> QED
    BY <1>1, <1>3, <2>1, OtherIs, LoopGrants DEF m
<1>5. /\ w \in Workers /\ P[m.k] = "Add" /\ m.k <= L
  <2>1. w \in Workers /\ d[w] < L /\ P[d[w] + 1] = "Add"
    BY <1>4 DEF MayGrant
  <2> QED
    BY <1>1, <1>2, <1>4, <2>1
<1>6. /\ p \in Server /\ p.add = s.add /\ p.get = s.get /\ p.waited = s.waited
      /\ p.addCache = Tail(s.addCache) /\ p.getCache = s.getCache /\ p.failed = s.failed
      /\ p.params = s.params /\ p.answered = s.answered /\ p.replies = s.replies
  BY <1>1, <1>4, PopFields DEF Server
<1> HIDE DEF p, m
<1>7. /\ a \in Server
      /\ a.add = Update(p.add, w) /\ a.get = p.get
      /\ a.params = [p.params EXCEPT ![w] = @ + 1]
      /\ a.answered = [p.answered EXCEPT ![w] = @ \cup {m.k}]
      /\ a.waited = p.waited /\ a.failed = p.failed
      /\ a.addCache = p.addCache /\ a.getCache = p.getCache /\ a.replies = p.replies
  BY <1>4, <1>6, ApplyAddFields
<1> HIDE DEF a
<1>8. /\ b \in Server /\ b.waited = [a.waited EXCEPT ![w] = @ - 1]
      /\ b.add = a.add /\ b.get = a.get /\ b.params = a.params /\ b.answered = a.answered
      /\ b.failed = a.failed /\ b.addCache = a.addCache /\ b.getCache = a.getCache
      /\ b.replies = a.replies
  <2>1. [a.waited EXCEPT ![w] = @ - 1] \in [Workers -> Int]
    BY <1>5, <1>7 DEF Server
  <2> QED
    BY <1>7, <2>1 DEF Server
<1>9. DrainAdd(s) = u
  BY <1>4 DEF DrainAdd, a, p, m
<1> HIDE DEF b
<1>10. /\ u \in Server /\ u.add = b.add /\ u.get = b.get /\ u.waited = b.waited
       /\ u.addCache = b.addCache /\ u.getCache = b.getCache /\ u.failed = b.failed
       /\ u.params = b.params /\ u.answered = b.answered /\ u.replies = b.replies
       /\ u.draining = IF b.addCache = << >> THEN "no" ELSE "adds"
  BY <1>8, StartFields, StartPlace
<1> HIDE DEF u
<1>11. /\ u \in Server /\ u.add = Update(s.add, w) /\ u.get = s.get
       /\ u.waited = [s.waited EXCEPT ![w] = @ - 1]
       /\ u.addCache = Tail(s.addCache) /\ u.getCache = s.getCache /\ ~u.failed
       /\ u.params = [s.params EXCEPT ![w] = @ + 1]
       /\ u.answered = [s.answered EXCEPT ![w] = @ \cup {m.k}]
       /\ u.replies = s.replies
       /\ u.draining = IF Tail(s.addCache) = << >> THEN "no" ELSE "adds"
  BY <1>1, <1>6, <1>7, <1>8, <1>10
<1>12. Drained(u) = AfterRound(Tail(s.addCache), "Add")
  BY <1>11, DrainedIs DEF AfterRound
<1>13. Sched("Add", u.add, u.get, u.addCache, u.getCache, P, e, L, Drained(u))
  BY <1>4, <1>11, <1>12
<1>14. Books(u.answered, u.params, P, e)
  <2>1. P[m.k] \in Op
    BY <1>5, OtherIs
  <2>2. /\ Marked(u.answered, s.answered, w, m.k) /\ Absorbed(u.params, s.params, w, P[m.k])
        /\ s.answered \in [Workers -> SUBSET Nat] /\ s.params \in [Workers -> Nat]
    BY <1>1, <1>5, <1>11 DEF Marked, Absorbed, Server
  <2> QED
    BY <1>1, <1>2, <1>3, <1>4, <1>5, <2>1, <2>2, BooksStep
<1>15. Waiting(u.waited, u.addCache)
  <2>1. s.waited \in [Workers -> Int]
    BY <1>1 DEF Server
  <2>2. u.waited[w] = s.waited[w] - 1 /\ \A v \in Workers : v # w => u.waited[v] = s.waited[v]
    BY <1>5, <1>11, <2>1
  <2>3. s.waited[w] = 1 /\ ~InCache(u.addCache, w)
    BY <1>1, <1>4, <1>5, <1>11 DEF Waiting, Without
  <2>4. ASSUME NEW v \in Workers PROVE u.waited[v] = IF InCache(u.addCache, v) THEN 1 ELSE 0
    BY <1>1, <1>4, <1>11, <2>2, <2>3 DEF Waiting, Without
  <2> QED
    BY <2>4 DEF Waiting
<1>16. ServerOK(u, P, e, L)
  BY <1>1, <1>11, <1>13, <1>14, <1>15 DEF ServerOK
<1>17. Untouched(s, u, w) /\ ~InCache(u.getCache, w) /\ ~InCache(u.addCache, w)
  <2>1. ~InCache(s.getCache, w)
    BY <1>4 DEF InCache
  <2> QED
    BY <1>4, <1>11, <2>1 DEF Untouched, Without
<1>18. Serves(s, u, m, P, d, L)
  BY <1>3, <1>11, <1>16, <1>17 DEF Serves
<1> QED
  BY <1>4, <1>5, <1>9, <1>18 DEF Due, Without, m

\* The two halves of ProcessFinishTrain, for a worker that is through: neither
\* finds anything to drain.
LEMMA Leaves ==
  ASSUME NEW P, NEW L, Program(P, L), NEW d, NEW s, ServerOK(s, P, d, L), s.draining = "no",
         NEW w \in Workers, d[w] = L
  PROVE  /\ Waits(s, FinishAdds(s, w), w, P, d, L) /\ SameCaches(s, FinishAdds(s, w))
         /\ Waits(s, FinishGets(s, w), w, P, d, L) /\ SameCaches(s, FinishGets(s, w))
<1>1. /\ s \in Server /\ ~s.failed
      /\ Sched("Add", s.add, s.get, s.addCache, s.getCache, P, d, L, "no")
      /\ Books(s.answered, s.params, P, d) /\ Waiting(s.waited, s.addCache) /\ Replied(s.replies, P, L)
  BY DrainedIs DEF ServerOK
<1>2. Sched("Get", s.get, s.add, s.getCache, s.addCache, P, d, L, "no")
  BY <1>1, OtherIs, SchedSwap
<1>3. ASSUME NEW u, u \in Server, u.waited = s.waited, u.draining = "no", u.failed = s.failed,
             u.addCache = s.addCache, u.getCache = s.getCache,
             u.params = s.params, u.answered = s.answered, u.replies = s.replies,
             Sched("Add", u.add, u.get, s.addCache, s.getCache, P, d, L, "no")
      PROVE  Waits(s, u, w, P, d, L) /\ SameCaches(s, u)
  <2>1. ServerOK(u, P, d, L)
    BY <1>1, <1>3, DrainedIs DEF ServerOK
  <2> QED
    BY <1>3, <2>1 DEF Waits, Untouched, SameCaches
<1>4. ASSUME NEW t \in Server, t.draining = "no"
      PROVE  /\ t.getCache = << >> => StartDrainingGets(t) = t
             /\ t.addCache = << >> => StartDrainingAdds(t) = t
  BY <1>4 DEF StartDrainingGets, StartDrainingAdds, Server
<1>5. Waits(s, FinishAdds(s, w), w, P, d, L) /\ SameCaches(s, FinishAdds(s, w))
  <2> DEFINE t == [s EXCEPT !.add = FinishTrain(@, w)]
  <2>1. /\ Sched("Add", FinishTrain(s.add, w), s.get, s.addCache, s.getCache, P, d, L, "no")
        /\ FinishTrainReturns(s.add, w) => s.addCache = << >> /\ s.getCache = << >>
    BY <1>1, OtherIs, WorkerLeaves
  <2>2. FinishTrain(s.add, w) \in Clock
    BY <2>1 DEF Sched, Half, Counts
  <2>3. /\ t \in Server /\ t.add = FinishTrain(s.add, w) /\ t.get = s.get
        /\ t.waited = s.waited /\ t.draining = "no" /\ t.failed = s.failed
        /\ t.addCache = s.addCache /\ t.getCache = s.getCache
        /\ t.params = s.params /\ t.answered = s.answered /\ t.replies = s.replies
    BY <1>1, <2>2 DEF Server
  <2>4. FinishAdds(s, w) = IF ~FinishTrainReturns(s.add, w) THEN t
                           ELSE IF s.addCache # << >> THEN [t EXCEPT !.failed = TRUE]
                           ELSE StartDrainingGets(t)
    BY DEF FinishAdds
  <2> HIDE DEF t
  <2>5. FinishAdds(s, w) = t
    BY <1>4, <2>1, <2>3, <2>4
  <2> QED
    BY <1>3, <2>1, <2>3, <2>5
<1>6. Waits(s, FinishGets(s, w), w, P, d, L) /\ SameCaches(s, FinishGets(s, w))
  <2> DEFINE t == [s EXCEPT !.get = FinishTrain(@, w)]
  <2>1. /\ Sched("Get", FinishTrain(s.get, w), s.add, s.getCache, s.addCache, P, d, L, "no")
        /\ FinishTrainReturns(s.get, w) => s.getCache = << >> /\ s.addCache = << >>
    BY <1>2, OtherIs, WorkerLeaves
  <2>2. FinishTrain(s.get, w) \in Clock
    BY <2>1 DEF Sched, Half, Counts
  <2>3. /\ t \in Server /\ t.get = FinishTrain(s.get, w) /\ t.add = s.add
        /\ t.waited = s.waited /\ t.draining = "no" /\ t.failed = s.failed
        /\ t.addCache = s.addCache /\ t.getCache = s.getCache
        /\ t.params = s.params /\ t.answered = s.answered /\ t.replies = s.replies
    BY <1>1, <2>2 DEF Server
  <2>4. FinishGets(s, w) = IF ~FinishTrainReturns(s.get, w) THEN t
                           ELSE IF s.getCache # << >> THEN [t EXCEPT !.failed = TRUE]
                           ELSE StartDrainingAdds(t)
    BY DEF FinishGets
  <2> HIDE DEF t
  <2>5. FinishGets(s, w) = t
    BY <1>4, <2>1, <2>3, <2>4
  <2>6. Sched("Add", s.add, FinishTrain(s.get, w), s.addCache, s.getCache, P, d, L, "no")
    BY <2>1, OtherIs, SchedSwap
  <2> QED
    BY <1>3, <2>3, <2>5, <2>6
<1> QED
  BY <1>5, <1>6

\* A call that goes to other servers only.
LEMMA CallPassesBy ==
  ASSUME NEW P, NEW L, Program(P, L), NEW d, NEW s, ServerOK(s, P, d, L),
         NEW w \in Workers, d[w] < L, P[d[w] + 1] = "none", NEW e, OneMore(e, d, w)
  PROVE  ServerOK(s, P, e, L)
<1>1. /\ s \in Server /\ ~s.failed /\ L \in Nat
      /\ Sched("Add", s.add, s.get, s.addCache, s.getCache, P, d, L, Drained(s))
      /\ Books(s.answered, s.params, P, d) /\ Waiting(s.waited, s.addCache) /\ Replied(s.replies, P, L)
  BY DEF ServerOK, Program
<1>2. Sched("Add", s.add, s.get, s.addCache, s.getCache, P, e, L, Drained(s))
  BY <1>1, OtherIs, CallPasses
<1>3. d \in [Workers -> 0..L]
  BY <1>1 DEF Sched
<1>4. d[w] \in Nat /\ e[w] = d[w] + 1 /\ \A v \in Workers : v # w => e[v] = d[v]
  BY <1>1, <1>3 DEF OneMore
<1>5. Number(P, "Add", d[w] + 1) = Number(P, "Add", d[w])
  <2>1. P[d[w] + 1] # "Add"
    OBVIOUS
  <2> QED
    BY <1>4, <2>1, NumberStep
<1>6. {j \in 1..(d[w] + 1) : P[j] \in Op} = {j \in 1..d[w] : P[j] \in Op}
  BY <1>4, OtherIs
<1>7. ASSUME NEW v \in Workers
      PROVE  /\ s.answered[v] = {j \in 1..e[v] : P[j] \in Op}
             /\ s.params[v] = Number(P, "Add", e[v])
  <2>1. CASE v = w
    <3>1. /\ s.answered[w] = {j \in 1..d[w] : P[j] \in Op}
          /\ s.params[w] = Number(P, "Add", d[w])
      BY <1>1 DEF Books
    <3> QED
      BY <1>4, <1>5, <1>6, <2>1, <3>1
  <2>2. CASE v # w
    BY <1>1, <1>4, <2>2 DEF Books
  <2> QED
    BY <2>1, <2>2
<1> QED
  BY <1>1, <1>2, <1>7 DEF ServerOK, Books

\* A new scheduler.
LEMMA NewServer ==
  ASSUME NEW P, NEW L, Program(P, L), NEW d, d = [w \in Workers |-> 0]
  PROVE  ServerOK(InitServer, P, d, L)
<1> DEFINE s == InitServer
           c == New(Workers)
<1>1. L \in Nat /\ d \in [Workers -> 0..L] /\ \A w \in Workers : d[w] = 0
  BY DEF Program
<1>2. c \in Clock /\ c.global = 0 /\ \A w \in Workers : c.local[w] = 0
  BY DEF New, Clock
<1> HIDE DEF c
<1>3. /\ s \in Server /\ s.add = c /\ s.get = c /\ s.addCache = << >> /\ s.getCache = << >>
      /\ s.draining = "no" /\ ~s.failed /\ s.replies = {}
      /\ \A w \in Workers : s.waited[w] = 0 /\ s.params[w] = 0 /\ s.answered[w] = {}
  <2>1. << >> \in Seq(Message)
    OBVIOUS
  <2> QED
    BY <1>2, <2>1 DEF InitServer, Server, c
<1> HIDE DEF s
<1>4. \A op : Number(P, op, 0) = 0
  <2>1. \A op : {j \in 1..0 : P[j] = op} = {}
    OBVIOUS
  <2> QED
    BY <2>1, FS_EmptySet DEF Number
<1>5. \A op : Counts(c, op, P, d, L)
  BY <1>1, <1>2, <1>4, WorkersAssumption DEF Counts, GlobalIsMin
<1>6. OnePhase(P, d)
  BY <1>1 DEF OnePhase
<1>7. \A op : Holds(<< >>, op, P, d, L)
  BY DEF Holds
<1>8. \A op \in Op : Half(op, c, c, << >>, P, d, L, "no")
  BY <1>5, <1>7, OtherIs DEF Half
<1>9. Sched("Add", c, c, << >>, << >>, P, d, L, "no")
  BY <1>1, <1>6, <1>8, OtherIs DEF Sched
<1>10. Books(s.answered, s.params, P, d)
  BY <1>1, <1>3, <1>4 DEF Books
<1>11. \A w : ~InCache(<< >>, w)
  BY DEF InCache
<1>12. Waiting(s.waited, s.addCache) /\ Replied(s.replies, P, L)
  BY <1>3, <1>11 DEF Waiting, Replied
<1> QED
  BY <1>3, <1>9, <1>10, <1>12, DrainedIs DEF ServerOK, s
=============================================================================
