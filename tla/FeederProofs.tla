---------------------------- MODULE FeederProofs ----------------------------
(* Proofs about Feeder, for any threads, sources, records and sizes: the     *)
(* queue of batches exceeds its limit only by the threads that passed the    *)
(* test, a record is never read by two threads, the task of a record is      *)
(* neither lost nor doubled, and the batches hold its samples in order.      *)
EXTENDS Feeder, FiniteSetTheorems, SequenceTheorems, NaturalsInduction, WellFoundedInduction,
        TLAPS

-----------------------------------------------------------------------------
(* The inductive invariants.                                                 *)

\* A sequence, whatever its elements are.
IsSeq(q) == Len(q) \in Nat /\ q = [k \in 1..Len(q) |-> q[k]]

\* Where a thread of the Feeder can be; from "entry" on it looks at a source.
Places == {"none", "while", "exited", "entry", "pop", "assemble", "return"}
AtSource(t) == thread[t].at \in {"entry", "pop", "assemble", "return"}
HasTask(t) == thread[t].at \in {"assemble", "return"}

TypeInv ==
  /\ entries \in 0..Len(Plans)
  /\ thread = [t \in Threads |-> thread[t]]
  /\ \A t \in Threads :
       /\ thread[t] = [at |-> thread[t].at, entry |-> thread[t].entry, task |-> thread[t].task]
       /\ thread[t].at \in Places /\ thread[t].entry \in 0..entries
       /\ AtSource(t) => thread[t].entry # 0
  /\ batches = [i \in Sources |-> batches[i]] /\ \A i \in Sources : IsSeq(batches[i])
  /\ tasks = [i \in Sources |-> tasks[i]] /\ \A i \in Sources : IsSeq(tasks[i])

\* The threads that passed the test of source i and have not pushed their batch.
Passed(i) == {t \in Threads : thread[t].entry = i /\ thread[t].at \in {"pop", "assemble"}}
Bound ==
  \A i \in Sources :
    Len(batches[i]) + Cardinality(Passed(i)) < MaxQueue + Cardinality(Threads)

\* A task is about a record of its source, and a record has one task at most.
OfSource(task, i) == \E k \in DOMAIN Plans[i] : task.record = Plans[i][k]
OwnRecords ==
  /\ \A i \in Sources : i > entries => tasks[i] = << >>
  /\ \A i \in Sources : \A k \in DOMAIN tasks[i] : OfSource(tasks[i][k], i)
  /\ \A t \in Threads : HasTask(t) => OfSource(thread[t].task, thread[t].entry)
\* No record is read by two threads, and none that is read waits in a queue.
OneReader ==
  /\ \A t, u \in Threads :
       HasTask(t) /\ HasTask(u) /\ thread[t].task.record = thread[u].task.record => t = u
  /\ \A t \in Threads, i \in Sources : \A k \in DOMAIN tasks[i] :
       HasTask(t) => thread[t].task.record # tasks[i][k].record
OneTask ==
  /\ \A i, j \in Sources : \A k \in DOMAIN tasks[i], l \in DOMAIN tasks[j] :
       tasks[i][k].record = tasks[j][l].record => i = j /\ k = l
  /\ OneReader

\* The tasks of source i, in its queue and with the threads.
Tasks(i) ==
  ToSet(tasks[i])
    \cup {thread[t].task : t \in {u \in Threads : HasTask(u) /\ thread[u].entry = i}}

\* How many batches of record r source i has.
BatchesSoFar(i, r) == BatchesOf(i, r, Len(Produced(i)))

\* The items of a sequence hold the samples after the first one up to the last.
Adjoining(items, first, last) ==
  \E upto \in [0..Len(items) -> 0..last] :
    /\ upto[0] = first /\ upto[Len(items)] = last
    /\ \A k \in 1..Len(items) :
         upto[k - 1] <= upto[k] /\ items[k] = Samples(upto[k - 1], upto[k])

\* A task stands after the batches made so far: what it has cached and what its
\* stream has left are the samples that are in no batch, in order.
Stands(task, i) ==
  /\ task.cache \in Seq(Seq(Nat)) /\ stream[task.record] \in Seq(Seq(Nat))
  /\ task.curr = BatchesSoFar(i, task.record) * BatchSize
  /\ Adjoining(task.cache \o stream[task.record], task.curr, SampleCount[task.record])
TasksStand ==
  /\ \A i \in Sources : \A task \in Tasks(i) : Stands(task, i)
  /\ \A t \in Threads : thread[t].at = "assemble" => Enough(thread[t].task)

\* A record without a task has no full batch left.
NoneLost ==
  \A i \in 1..entries : \A k \in DOMAIN Plans[i] :
    \/ \E task \in Tasks(i) : task.record = Plans[i][k]
    \/ (BatchesSoFar(i, Plans[i][k]) + 1) * BatchSize > SampleCount[Plans[i][k]]

\* Sources that are not scheduled are untouched, and threads without a task
\* have no record.
Untouched ==
  /\ \A i \in Sources : i > entries =>
       /\ taken[i] = << >> /\ batches[i] = << >>
       /\ \A k \in DOMAIN Plans[i] : stream[Plans[i][k]] = Rows(Plans[i][k])
  /\ \A t \in Threads : ~HasTask(t) => thread[t].task.record = "none"

\* The application, and what it has taken.
AppInv ==
  /\ stream = [r \in Records |-> stream[r]]
  /\ taken = [i \in Sources |-> taken[i]] /\ \A i \in Sources : IsSeq(taken[i])
  /\ app = [at |-> app.at, entry |-> app.entry]
  /\ app.at = "pop" => app.entry \in Sources
  /\ app.at = "schedule" => \A t \in Threads : thread[t].at = "none"

-----------------------------------------------------------------------------
(* Queues.                                                                   *)

LEMMA SeqOfElements ==
  ASSUME NEW q, IsSeq(q)
  PROVE  /\ DOMAIN q = 1..Len(q)
         /\ \A x : q \in Seq({q[k] : k \in 1..Len(q)} \cup {x})
<1>1. PICK n \in Nat : n = Len(q) /\ q = [k \in 1..n |-> q[k]]
  BY DEF IsSeq
<1>2. ASSUME NEW x PROVE q \in Seq({q[k] : k \in 1..n} \cup {x})
  <2>1. \A k \in 1..n : q[k] \in {q[j] : j \in 1..n} \cup {x}
    OBVIOUS
  <2> QED
    BY <1>1, <2>1
<1> QED
  BY <1>1, <1>2

LEMMA ElementsOfSeq ==
  ASSUME NEW S, NEW q \in Seq(S)
  PROVE  IsSeq(q)
BY LenProperties DEF IsSeq

LEMMA AppendIsSeq ==
  ASSUME NEW q, IsSeq(q), NEW x
  PROVE  IsSeq(Append(q, x)) /\ Len(Append(q, x)) = Len(q) + 1
<1>1. q \in Seq({q[k] : k \in 1..Len(q)} \cup {x})
  BY SeqOfElements
<1>2. PICK S : q \in Seq(S) /\ x \in S
  BY <1>1
<1>3. Append(q, x) \in Seq(S) /\ Len(Append(q, x)) = Len(q) + 1
  BY <1>2, AppendProperties
<1> QED
  BY <1>3, ElementsOfSeq

LEMMA TailIsSeq ==
  ASSUME NEW q, IsSeq(q), q # << >>
  PROVE  /\ IsSeq(Tail(q)) /\ Len(q) \in Nat \ {0} /\ Len(Tail(q)) = Len(q) - 1
         /\ 1 \in DOMAIN q /\ Head(q) = q[1]
         /\ \A k \in DOMAIN Tail(q) : k \in Nat /\ k + 1 \in DOMAIN q /\ Tail(q)[k] = q[k + 1]
<1>1. q \in Seq({q[k] : k \in 1..Len(q)} \cup {0})
  BY SeqOfElements
<1>2. PICK S : q \in Seq(S)
  BY <1>1
<1>3. Len(q) \in Nat \ {0} /\ DOMAIN q = 1..Len(q)
  BY <1>2, LenProperties, EmptySeq
<1>4. /\ Tail(q) \in Seq(S) /\ Len(Tail(q)) = Len(q) - 1
      /\ \A k \in 1..Len(Tail(q)) : Tail(q)[k] = q[k + 1]
  BY <1>2, HeadTailProperties
<1>5. DOMAIN Tail(q) = 1..(Len(q) - 1) /\ IsSeq(Tail(q))
  BY <1>4, LenProperties, ElementsOfSeq
<1>6. Head(q) = q[1]
  BY <1>2, <1>3
<1> QED
  BY <1>3, <1>4, <1>5, <1>6

LEMMA PushIsSeq ==
  ASSUME NEW q, IsSeq(q), NEW x
  PROVE  /\ IsSeq(<<x>> \o q) /\ Len(<<x>> \o q) = Len(q) + 1
         /\ \A k \in DOMAIN (<<x>> \o q) :
              \/ k = 1 /\ (<<x>> \o q)[k] = x
              \/ k - 1 \in DOMAIN q /\ k \in Nat /\ (<<x>> \o q)[k] = q[k - 1]
<1>1. q \in Seq({q[k] : k \in 1..Len(q)} \cup {x})
  BY SeqOfElements
<1>2. PICK S : q \in Seq(S) /\ x \in S
  BY <1>1
<1>3. PICK p \in Seq(S) : p = <<x>>
  <2>1. <<x>> \in Seq(S)
    BY <1>2
  <2> QED
    BY <2>1
<1>4. Len(p) = 1 /\ p[1] = x
  BY <1>3
<1>5. PICK r \in Seq(S) : r = p \o q
  BY <1>2, <1>3, ConcatProperties
<1>6. /\ Len(r) = Len(q) + 1
      /\ \A k \in 1..Len(r) : r[k] = IF k <= 1 THEN p[k] ELSE q[k - 1]
  BY <1>2, <1>3, <1>4, <1>5, ConcatProperties
<1>7. DOMAIN q = 1..Len(q) /\ DOMAIN r = 1..Len(r) /\ Len(q) \in Nat /\ IsSeq(r)
  BY <1>2, <1>5, LenProperties, ElementsOfSeq
<1>8. \A k \in DOMAIN r : \/ k = 1 /\ r[k] = x
                          \/ k - 1 \in DOMAIN q /\ k \in Nat /\ r[k] = q[k - 1]
  BY <1>4, <1>6, <1>7
<1> QED
  BY <1>3, <1>5, <1>6, <1>7, <1>8

-----------------------------------------------------------------------------
(* Consecutive samples.                                                      *)

LEMMA FirstOne ==
  ASSUME NEW S, S \subseteq Nat, S # {}
  PROVE  \E x \in S : \A y \in S : x <= y
<1> DEFINE R == {ss \in Nat \X Nat : ss[1] < ss[2]}
<1>1. IsWellFoundedOn(R, Nat)
  BY NatLessThanWellFounded DEF OpToRel
<1> HIDE DEF R
<1>2. PICK x \in S : \A y \in S : ~(<<y, x>> \in R)
  BY <1>1, WFMin
<1>3. ASSUME NEW y \in S PROVE x <= y
  <2>1. x \in Nat /\ y \in Nat /\ <<y, x>> \notin R
    BY <1>2
  <2>2. y < x => <<y, x>> \in R
    BY <2>1 DEF R
  <2> QED
    BY <2>1, <2>2
<1> QED
  BY <1>3

LEMMA LargestOne ==
  ASSUME NEW n \in Nat, NEW S, S \subseteq 0..n, S # {}
  PROVE  Max(S) \in S /\ \A y \in S : y <= Max(S)
<1> DEFINE T == {d \in 0..n : n - d \in S}
<1>1. T \subseteq Nat /\ T # {}
  <2>1. PICK y \in S : y \in 0..n
    OBVIOUS
  <2>2. n - y \in T
    BY <2>1
  <2>3. T \subseteq Nat
    OBVIOUS
  <2> HIDE DEF T
  <2> QED
    BY <2>2, <2>3
<1> HIDE DEF T
<1>2. PICK d \in T : \A e \in T : d <= e
  BY <1>1, FirstOne
<1>3. d \in 0..n /\ n - d \in S
  BY DEF T
<1>4. ASSUME NEW y \in S PROVE y <= n - d
  <2>1. y \in 0..n /\ n - y \in 0..n /\ n - (n - y) = y
    OBVIOUS
  <2>2. n - y \in T
    BY <2>1 DEF T
  <2> QED
    BY <1>2, <1>3, <2>1, <2>2
<1>5. \E x \in S : \A y \in S : x >= y
  <2>1. n - d \in S /\ \A y \in S : n - d >= y
    BY <1>3, <1>4
  <2> QED
    BY <2>1
<1>6. Max(S) \in S /\ \A y \in S : Max(S) >= y
  BY <1>5 DEF Max
<1> QED
  BY <1>6

LEMMA SamplesType ==
  ASSUME NEW a \in Nat, NEW b \in Nat, a <= b
  PROVE  /\ Samples(a, b) \in Seq(Nat) /\ Len(Samples(a, b)) = b - a
         /\ \A j \in 1..(b - a) : Samples(a, b)[j] = a + j
BY DEF Samples

LEMMA NoSamples ==
  ASSUME NEW a \in Nat
  PROVE  Samples(a, a) = << >>
<1>1. Samples(a, a) \in Seq(Nat) /\ Len(Samples(a, a)) = 0
  BY SamplesType
<1> QED
  BY <1>1, EmptySeq

LEMMA SameSeq ==
  ASSUME NEW S, NEW p \in Seq(S), NEW q \in Seq(S), Len(p) = Len(q),
         \A j \in 1..Len(p) : p[j] = q[j]
  PROVE  p = q
BY LenProperties

LEMMA JoinSamples ==
  ASSUME NEW a \in Nat, NEW b \in Nat, NEW c \in Nat, a <= b, b <= c
  PROVE  Samples(a, b) \o Samples(b, c) = Samples(a, c)
<1>0. a <= c
  OBVIOUS
<1>1. PICK p \in Seq(Nat) : p = Samples(a, b)
  BY SamplesType
<1>2. PICK q \in Seq(Nat) : q = Samples(b, c)
  BY SamplesType
<1>3. PICK r \in Seq(Nat) : r = Samples(a, c)
  BY <1>0, SamplesType
<1>4. Len(p) = b - a /\ \A j \in 1..(b - a) : p[j] = a + j
  BY <1>1, SamplesType
<1>5. Len(q) = c - b /\ \A j \in 1..(c - b) : q[j] = b + j
  BY <1>2, SamplesType
<1>6. Len(r) = c - a /\ \A j \in 1..(c - a) : r[j] = a + j
  BY <1>0, <1>3, SamplesType
<1>7. p \o q \in Seq(Nat) /\ Len(p \o q) = c - a
  <2>1. p \o q \in Seq(Nat) /\ Len(p \o q) = Len(p) + Len(q)
    BY ConcatProperties
  <2>2. (b - a) + (c - b) = c - a
    OBVIOUS
  <2> QED
    BY <1>4, <1>5, <2>1, <2>2
<1>8. ASSUME NEW j \in 1..(c - a) PROVE (p \o q)[j] = a + j
  <2>1. (p \o q)[j] = IF j <= b - a THEN p[j] ELSE q[j - (b - a)]
    BY <1>4, <1>5, ConcatProperties, SMTT(30)
  <2>2. CASE j <= b - a
    BY <1>4, <2>1, <2>2
  <2>3. CASE ~(j <= b - a)
    <3>1. j - (b - a) \in 1..(c - b)
      BY <2>3
    <3> QED
      BY <1>5, <2>1, <2>3, <3>1
  <2> QED
    BY <2>2, <2>3
<1>9. p \o q = r
  BY <1>6, <1>7, <1>8, SameSeq
<1> QED
  BY <1>1, <1>2, <1>3, <1>9

LEMMA PartOfSamples ==
  ASSUME NEW a \in Nat, NEW b \in Nat, NEW c \in Nat, a <= b, b <= c
  PROVE  /\ SubSeq(Samples(a, c), 1, b - a) = Samples(a, b)
         /\ SubSeq(Samples(a, c), b - a + 1, Len(Samples(a, c))) = Samples(b, c)
<1>0. a <= c
  OBVIOUS
<1>1. PICK r \in Seq(Nat) : r = Samples(a, c)
  BY <1>0, SamplesType
<1>2. Len(r) = c - a /\ \A j \in 1..(c - a) : r[j] = a + j
  BY <1>0, <1>1, SamplesType
<1>3. SubSeq(r, 1, b - a) = Samples(a, b)
  <2>1. \A j \in 1..(b - a) : r[j] \in Nat
    BY <1>2
  <2>2. /\ SubSeq(r, 1, b - a) \in Seq(Nat)
        /\ Len(SubSeq(r, 1, b - a)) = b - a
        /\ \A j \in 1..(b - a) : SubSeq(r, 1, b - a)[j] = r[j]
    BY <2>1, SubSeqProperties
  <2>3. Samples(a, b) \in Seq(Nat) /\ Len(Samples(a, b)) = b - a
        /\ \A j \in 1..(b - a) : Samples(a, b)[j] = a + j
    BY SamplesType
  <2>4. \A j \in 1..(b - a) : SubSeq(r, 1, b - a)[j] = Samples(a, b)[j]
    BY <1>2, <2>2, <2>3
  <2> QED
    BY <2>2, <2>3, <2>4, SameSeq
<1>4. SubSeq(r, b - a + 1, c - a) = Samples(b, c)
  <2> DEFINE s == SubSeq(r, b - a + 1, c - a)
  <2>1. \A j \in (b - a + 1)..(c - a) : r[j] \in Nat
    BY <1>2
  <2>2. s \in Seq(Nat) /\ Len(s) = c - b
        /\ \A j \in 1..(c - b) : s[j] = r[(b - a + 1) + j - 1]
    BY <2>1, SubSeqProperties
  <2>3. Samples(b, c) \in Seq(Nat) /\ Len(Samples(b, c)) = c - b
        /\ \A j \in 1..(c - b) : Samples(b, c)[j] = b + j
    BY SamplesType
  <2> HIDE DEF s
  <2>4. \A j \in 1..(c - b) : s[j] = Samples(b, c)[j]
    BY <1>2, <2>2, <2>3
  <2>5. s = Samples(b, c)
    BY <2>2, <2>3, <2>4, SameSeq
  <2> QED
    BY <2>5 DEF s
<1> QED
  BY <1>1, <1>2, <1>3, <1>4

\* The positions of adjoining items do not decrease.
LEMMA UptoGrows ==
  ASSUME NEW n \in Nat, NEW upto \in [0..n -> Nat],
         \A k \in 1..n : upto[k - 1] <= upto[k]
  PROVE  \A k \in 0..n : upto[0] <= upto[k]
<1> DEFINE Bad == {k \in 0..n : ~(upto[0] <= upto[k])}
<1> SUFFICES ASSUME Bad # {} PROVE FALSE
  OBVIOUS
<1>1. Bad \subseteq Nat
  OBVIOUS
<1>2. PICK k \in Bad : \A j \in Bad : k <= j
  <2> HIDE DEF Bad
  <2> QED
    BY <1>1, FirstOne
<1>3. k \in 1..n /\ k - 1 \in 0..n
  OBVIOUS
<1>4. k - 1 \notin Bad
  BY <1>2
<1> QED
  BY <1>3, <1>4

\* Items that adjoin, one after the other, are consecutive samples.
LEMMA FlattenSamples ==
  ASSUME NEW items \in Seq(Seq(Nat)), NEW upto \in [0..Len(items) -> Nat],
         \A k \in 1..Len(items) :
           upto[k - 1] <= upto[k] /\ items[k] = Samples(upto[k - 1], upto[k])
  PROVE  FlattenSeq(items) = Samples(upto[0], upto[Len(items)])
<1>1. Len(items) \in Nat
  BY LenProperties
<1>2. CASE Len(items) = 0
  <2>1. FlattenSeq(items) = items /\ items = << >>
    BY <1>2, EmptySeq DEF FlattenSeq
  <2>2. Samples(upto[0], upto[0]) = << >>
    BY <1>1, NoSamples
  <2> QED
    BY <1>2, <2>1, <2>2
<1>3. CASE Len(items) # 0
  <2> DEFINE flatten[i \in 1..Len(items)] ==
               IF i = 1 THEN items[i] ELSE flatten[i - 1] \o items[i]
  <2>1. FlattenSeq(items) = flatten[Len(items)]
    BY <1>3 DEF FlattenSeq
  <2> DEFINE g == [i \in 1..Len(items) |-> Samples(upto[0], upto[i])]
  <2>2. \A i \in 0..Len(items) : upto[0] <= upto[i]
    BY <1>1, UptoGrows
  <2>3. \A i \in 1..Len(items) :
          g[i] = IF i = 1 THEN items[i] ELSE g[i - 1] \o items[i]
    <3> SUFFICES ASSUME NEW i \in 1..Len(items)
                 PROVE  g[i] = IF i = 1 THEN items[i] ELSE g[i - 1] \o items[i]
      OBVIOUS
    <3>1. CASE i = 1
      BY <3>1
    <3>2. CASE i # 1
      <4>1. i - 1 \in 1..Len(items) /\ i - 1 \in 0..Len(items) /\ 0 \in 0..Len(items)
            /\ i \in 0..Len(items)
        BY <1>1, <3>2
      <4>2. g[i - 1] = Samples(upto[0], upto[i - 1]) /\ g[i] = Samples(upto[0], upto[i])
        BY <4>1
      <4>3. upto[0] \in Nat /\ upto[i - 1] \in Nat /\ upto[i] \in Nat
            /\ upto[0] <= upto[i - 1] /\ upto[i - 1] <= upto[i]
        BY <2>2, <4>1
      <4>4. Samples(upto[0], upto[i - 1]) \o Samples(upto[i - 1], upto[i])
              = Samples(upto[0], upto[i])
        BY <4>3, JoinSamples
      <4> HIDE DEF g
      <4> QED
        BY <3>2, <4>2, <4>4
    <3> QED
      BY <3>1, <3>2
  <2> HIDE DEF g
  <2>4. g = [i \in 1..Len(items) |-> IF i = 1 THEN items[i] ELSE g[i - 1] \o items[i]]
    <3>1. g = [i \in 1..Len(items) |-> g[i]]
      BY DEF g
    <3> QED
      BY <2>3, <3>1
  <2>5. flatten = [i \in 1..Len(items) |->
                     IF i = 1 THEN items[i] ELSE flatten[i - 1] \o items[i]]
    BY <2>4
  <2> HIDE DEF flatten
  <2>6. \A i \in 1..Len(items) : flatten[i] = g[i]
    <3> DEFINE Bad == {i \in 1..Len(items) : flatten[i] # g[i]}
    <3> SUFFICES ASSUME Bad # {} PROVE FALSE
      OBVIOUS
    <3>1. Bad \subseteq Nat
      BY <1>1
    <3>2. PICK i \in Bad : \A j \in Bad : i <= j
      BY <3>1, FirstOne
    <3>3. i \in 1..Len(items) /\ flatten[i] # g[i]
      OBVIOUS
    <3>4. flatten[i] = IF i = 1 THEN items[i] ELSE flatten[i - 1] \o items[i]
      BY <2>5, <3>3
    <3>5. g[i] = IF i = 1 THEN items[i] ELSE g[i - 1] \o items[i]
      BY <2>3, <3>3
    <3>6. i # 1 => flatten[i - 1] = g[i - 1]
      <4>1. i - 1 \notin Bad
        BY <1>1, <3>1, <3>2
      <4> QED
        BY <1>1, <3>3, <4>1
    <3> QED
      BY <3>3, <3>4, <3>5, <3>6
  <2>7. g[Len(items)] = Samples(upto[0], upto[Len(items)])
    BY <1>1, <1>3 DEF g
  <2>8. Len(items) \in 1..Len(items)
    BY <1>1, <1>3
  <2> HIDE DEF flatten, g
  <2> QED
    BY <2>1, <2>6, <2>7, <2>8
<1> QED
  BY <1>2, <1>3

-----------------------------------------------------------------------------
(* Reading a batch.                                                          *)

LEMMA SplitSamples ==
  ASSUME NEW a \in Nat, NEW b \in Nat, NEW c \in Nat, a <= b, b <= c,
         NEW item, item = Samples(a, c), NEW n, n = b - a
  PROVE  Split(item, n)[1] = Samples(a, b) /\ Split(item, n)[2] = Samples(b, c)
<1>1. SubSeq(item, 1, n) = Samples(a, b) /\ SubSeq(item, n + 1, Len(item)) = Samples(b, c)
  BY PartOfSamples
<1> QED
  BY <1>1 DEF Split

\* The first n of adjoining items.
LEMMA FlattenPrefix ==
  ASSUME NEW items \in Seq(Seq(Nat)), NEW last \in Nat, NEW upto \in [0..Len(items) -> 0..last],
         \A k \in 1..Len(items) :
           upto[k - 1] <= upto[k] /\ items[k] = Samples(upto[k - 1], upto[k]),
         NEW n \in 0..Len(items)
  PROVE  /\ FlattenSeq(SubSeq(items, 1, n)) = Samples(upto[0], upto[n])
         /\ upto[0] \in Nat /\ upto[n] \in Nat /\ upto[0] <= upto[n]
<1>0. PICK m \in Nat : m = Len(items)
  BY LenProperties
<1>1. /\ n \in Nat /\ n <= m /\ upto \in [0..m -> 0..last]
      /\ \A k \in 1..n : items[k] \in Seq(Nat)
  BY <1>0, LenProperties
<1>2. PICK s \in Seq(Seq(Nat)) : s = SubSeq(items, 1, n)
  <2>1. SubSeq(items, 1, n) \in Seq(Seq(Nat))
    BY <1>1, SubSeqProperties
  <2> QED
    BY <2>1
<1>3. Len(s) = n /\ \A k \in 1..n : s[k] = items[k]
  <2>1. /\ Len(SubSeq(items, 1, n)) = IF 1 <= n THEN n - 1 + 1 ELSE 0
        /\ \A k \in 1..(n - 1 + 1) : SubSeq(items, 1, n)[k] = items[1 + k - 1]
    BY <1>1, SubSeqProperties
  <2> QED
    BY <1>1, <1>2, <2>1
<1>4. PICK u : u = [k \in 0..n |-> upto[k]]
  OBVIOUS
<1>5. u \in [0..n -> Nat] /\ \A k \in 0..n : u[k] = upto[k]
  BY <1>1, <1>4
<1>6. \A k \in 1..n : u[k - 1] <= u[k] /\ s[k] = Samples(u[k - 1], u[k])
  <2> SUFFICES ASSUME NEW k \in 1..n
               PROVE  u[k - 1] <= u[k] /\ s[k] = Samples(u[k - 1], u[k])
    OBVIOUS
  <2>1. k \in 1..m /\ k - 1 \in 0..n /\ k \in 0..n
    BY <1>1
  <2> QED
    BY <1>0, <1>3, <1>5, <2>1
<1>7. FlattenSeq(s) = Samples(u[0], u[n])
  BY <1>3, <1>5, <1>6, FlattenSamples
<1>8. u[0] <= u[n] /\ 0 \in 0..n /\ n \in 0..n
  <2>1. \A k \in 1..n : u[k - 1] <= u[k]
    BY <1>6
  <2>2. \A k \in 0..n : u[0] <= u[k]
    BY <1>1, <1>5, <2>1, UptoGrows
  <2> QED
    BY <1>1, <2>2
<1> QED
  BY <1>2, <1>5, <1>7, <1>8

\* The items from the n-th on.
LEMMA ItemsFrom ==
  ASSUME NEW items \in Seq(Seq(Nat)), NEW n \in 1..(Len(items) + 1)
  PROVE  LET s == SubSeq(items, n, Len(items))
         IN  /\ s \in Seq(Seq(Nat)) /\ Len(s) = Len(items) + 1 - n
             /\ \A k \in 1..(Len(items) + 1 - n) : s[k] = items[n + k - 1]
<1>1. PICK m \in Nat : m = Len(items) /\ n \in 1..(m + 1)
  BY LenProperties
<1>2. \A k \in n..m : items[k] \in Seq(Nat)
  BY <1>1, LenProperties
<1>3. /\ SubSeq(items, n, m) \in Seq(Seq(Nat))
      /\ Len(SubSeq(items, n, m)) = IF n <= m THEN m - n + 1 ELSE 0
      /\ \A k \in 1..(m - n + 1) : SubSeq(items, n, m)[k] = items[n + k - 1]
  BY <1>1, <1>2, SubSeqProperties
<1>4. (IF n <= m THEN m - n + 1 ELSE 0) = m + 1 - n /\ m - n + 1 = m + 1 - n
  BY <1>1
<1> QED
  BY <1>1, <1>3, <1>4

LEMMA AdjoiningIs ==
  ASSUME NEW items, NEW n \in Nat, Len(items) = n, NEW first, NEW last,
         NEW upto \in [0..n -> 0..last], upto[0] = first, upto[n] = last,
         \A k \in 1..n : upto[k - 1] <= upto[k] /\ items[k] = Samples(upto[k - 1], upto[k])
  PROVE  Adjoining(items, first, last)
BY DEF Adjoining

\* A batch holds the next samples, and what is cached and unread are the others.
LEMMA ReadBatch ==
  ASSUME NEW cache \in Seq(Seq(Nat)), NEW unread \in Seq(Seq(Nat)),
         NEW first \in Nat, NEW last \in Nat,
         Adjoining(cache \o unread, first, last), first + BatchSize <= last,
         NEW read, read = ReadBatchTensor(cache, unread)
  PROVE  /\ read.cache \in Seq(Seq(Nat)) /\ read.unread \in Seq(Seq(Nat))
         /\ read.rows = Samples(first, first + BatchSize)
         /\ Adjoining(read.cache \o read.unread, first + BatchSize, last)
<1>1. PICK all \in Seq(Seq(Nat)) : all = cache \o unread
  BY ConcatProperties
<1>2. PICK m \in Nat : m = Len(all)
  BY LenProperties
<1>3. PICK upto \in [0..m -> 0..last] :
        /\ upto[0] = first /\ upto[m] = last
        /\ \A k \in 1..m : upto[k - 1] <= upto[k] /\ all[k] = Samples(upto[k - 1], upto[k])
  BY <1>1, <1>2 DEF Adjoining
<1>4. PICK next \in Nat : next = first + BatchSize /\ first <= next /\ next <= last
  BY FeederAssumption
<1>5. \A n \in 0..m : /\ FlattenSeq(SubSeq(all, 1, n)) = Samples(first, upto[n])
                      /\ upto[n] \in Nat /\ first <= upto[n]
  BY <1>2, <1>3, FlattenPrefix
<1>6. \A n \in 0..m : Len(FlattenSeq(SubSeq(all, 1, n))) = upto[n] - first
  BY <1>5, SamplesType
<1>7. PICK w \in 0..m :
        /\ w = Max({n \in 0..Len(all) : Len(FlattenSeq(SubSeq(all, 1, n))) <= BatchSize})
        /\ upto[w] <= next /\ \A n \in 0..m : upto[n] <= next => n <= w
  <2>1. PICK fit : fit = {n \in 0..Len(all) : Len(FlattenSeq(SubSeq(all, 1, n))) <= BatchSize}
    OBVIOUS
  <2>2. \A n \in 0..m : upto[n] - first <= BatchSize <=> upto[n] <= next
    BY <1>4, <1>5, FeederAssumption
  <2>3. \A n : n \in fit <=> n \in 0..m /\ upto[n] <= next
    BY <1>2, <1>6, <2>1, <2>2
  <2>4. 0 \in fit /\ fit \subseteq 0..m
    <3>1. 0 \in 0..m /\ upto[0] <= next
      BY <1>3, <1>4
    <3> QED
      BY <2>3, <3>1
  <2>5. Max(fit) \in fit /\ \A y \in fit : y <= Max(fit)
    BY <2>4, LargestOne
  <2> QED
    BY <2>1, <2>3, <2>5
<1>8. upto[w] \in Nat /\ first <= upto[w]
  BY <1>5
<1>9. PICK rest \in Nat : rest = BatchSize - Len(FlattenSeq(SubSeq(all, 1, w)))
                         /\ rest = next - upto[w]
  <2>1. PICK a \in Nat : a = upto[w] /\ first <= a /\ a <= next
    BY <1>7, <1>8
  <2>2. Len(FlattenSeq(SubSeq(all, 1, w))) = a - first
    BY <1>6, <2>1
  <2>3. BatchSize \in Nat /\ BatchSize - (a - first) = next - a /\ next - a \in Nat
    BY <1>4, <2>1, FeederAssumption, SMTT(30)
  <2> QED
    BY <2>1, <2>2, <2>3
<1>10. /\ read.rows = FlattenSeq(SubSeq(all, 1, w))
                         \o (IF rest = 0 THEN << >> ELSE Split(all[w + 1], rest)[1])
       /\ read.cache = IF rest = 0 THEN << >> ELSE <<Split(all[w + 1], rest)[2]>>
       /\ read.unread = SubSeq(all, w + (IF rest = 0 THEN 1 ELSE 2), Len(all))
  <2>1. PICK rows, keep, left :
          /\ rows = FlattenSeq(SubSeq(all, 1, w))
                      \o (IF rest = 0 THEN << >> ELSE Split(all[w + 1], rest)[1])
          /\ keep = IF rest = 0 THEN << >> ELSE <<Split(all[w + 1], rest)[2]>>
          /\ left = SubSeq(all, w + (IF rest = 0 THEN 1 ELSE 2), Len(all))
    OBVIOUS
  <2>2. read = [rows |-> rows, cache |-> keep, unread |-> left]
    BY <1>1, <1>7, <1>9, <2>1 DEF ReadBatchTensor
  <2>3. read.rows = rows /\ read.cache = keep /\ read.unread = left
    BY <2>2
  <2> QED
    BY <2>1, <2>3, Zenon
<1>11. CASE rest = 0
  <2>1. upto[w] = next
    BY <1>8, <1>9, <1>11
  <2>2. read.rows = FlattenSeq(SubSeq(all, 1, w)) \o << >> /\ read.cache = << >>
        /\ read.unread = SubSeq(all, w + 1, Len(all))
    BY <1>10, <1>11, Zenon
  <2>3. read.rows = Samples(first, next)
    <3>1. Samples(first, next) \in Seq(Nat)
      BY <1>4, SamplesType
    <3> QED
      BY <1>5, <2>1, <2>2, <3>1, ConcatEmptySeq
  <2>4. PICK s \in Seq(Seq(Nat)) : s = read.unread /\ Len(s) = m - w
        /\ \A k \in 1..(m - w) : s[k] = all[w + k]
    <3>1. w + 1 \in 1..(Len(all) + 1)
      BY <1>2
    <3>2. /\ SubSeq(all, w + 1, Len(all)) \in Seq(Seq(Nat))
          /\ Len(SubSeq(all, w + 1, Len(all))) = Len(all) + 1 - (w + 1)
          /\ \A k \in 1..(Len(all) + 1 - (w + 1)) :
               SubSeq(all, w + 1, Len(all))[k] = all[w + 1 + k - 1]
      BY <3>1, ItemsFrom
    <3>3. m + 1 - (w + 1) = m - w /\ \A k \in 1..(m - w) : w + 1 + k - 1 = w + k
      OBVIOUS
    <3>4. PICK s \in Seq(Seq(Nat)) : s = SubSeq(all, w + 1, Len(all))
      BY <3>2
    <3>5. Len(s) = m - w /\ \A k \in 1..(m - w) : s[k] = all[w + 1 + k - 1]
      BY <1>2, <3>2, <3>3, <3>4
    <3>6. \A k \in 1..(m - w) : s[k] = all[w + k]
      BY <3>3, <3>5
    <3> QED
      BY <2>2, <3>4, <3>5, <3>6
  <2>5. read.cache \in Seq(Seq(Nat)) /\ read.cache \o s = s
    BY <2>2, EmptySeq, ConcatEmptySeq
  <2>6. PICK u : u = [k \in 0..(m - w) |-> upto[w + k]]
    OBVIOUS
  <2>7. u \in [0..(m - w) -> 0..last] /\ \A k \in 0..(m - w) : u[k] = upto[w + k]
    BY <2>6
  <2>8. u[0] = next /\ u[m - w] = last
    BY <1>3, <2>1, <2>7
  <2>9. \A k \in 1..(m - w) : u[k - 1] <= u[k] /\ s[k] = Samples(u[k - 1], u[k])
    <3> SUFFICES ASSUME NEW k \in 1..(m - w)
                 PROVE  u[k - 1] <= u[k] /\ s[k] = Samples(u[k - 1], u[k])
      OBVIOUS
    <3>1. w + k \in 1..m /\ k - 1 \in 0..(m - w) /\ k \in 0..(m - w) /\ w + (k - 1) = w + k - 1
      OBVIOUS
    <3>2. u[k - 1] = upto[w + k - 1] /\ u[k] = upto[w + k] /\ s[k] = all[w + k]
      BY <2>4, <2>7, <3>1
    <3>3. upto[w + k - 1] <= upto[w + k] /\ all[w + k] = Samples(upto[w + k - 1], upto[w + k])
      BY <1>3, <3>1
    <3> QED
      BY <3>2, <3>3
  <2>10. Adjoining(s, next, last)
    <3>1. m - w \in Nat
      OBVIOUS
    <3> QED
      BY <2>4, <2>7, <2>8, <2>9, <3>1, AdjoiningIs
  <2> QED
    BY <1>4, <2>3, <2>4, <2>5, <2>10
<1>12. CASE rest # 0
  <2>1. upto[w] < next
    BY <1>8, <1>9, <1>12
  <2>2. w < m /\ w + 1 \in 1..m /\ w + 1 \in 0..m
    BY <1>3, <1>4, <2>1
  <2>3. upto[w + 1] \in Nat /\ next < upto[w + 1] /\ next <= upto[w + 1]
    <3>1. upto[w + 1] \in Nat
      BY <1>5, <2>2
    <3>2. ~(w + 1 <= w)
      OBVIOUS
    <3>3. ~(upto[w + 1] <= next)
      BY <1>7, <2>2, <3>2
    <3> QED
      BY <3>1, <3>3
  <2>4. all[w + 1] = Samples(upto[w], upto[w + 1])
    <3>1. w + 1 - 1 = w
      OBVIOUS
    <3> QED
      BY <1>3, <2>2, <3>1
  <2>5. PICK parts : parts = Split(all[w + 1], rest)
    OBVIOUS
  <2>6. parts[1] = Samples(upto[w], next) /\ parts[2] = Samples(next, upto[w + 1])
    <3>1. upto[w] <= next
      BY <1>7
    <3>2. PICK a \in Nat : a = upto[w] /\ a <= next
      BY <1>8, <3>1
    <3>3. PICK d \in Nat : d = upto[w + 1] /\ next <= d
      BY <2>3
    <3>4. PICK item : item = all[w + 1] /\ item = Samples(a, d)
      BY <2>4, <3>2, <3>3
    <3>5. rest = next - a
      BY <1>9, <3>2
    <3>6. a <= next /\ next <= d /\ item = Samples(a, d) /\ rest = next - a
      BY <3>2, <3>3, <3>4, <3>5
    <3>7. Split(item, rest)[1] = Samples(a, next) /\ Split(item, rest)[2] = Samples(next, d)
      BY ONLY <3>6, SplitSamples, SMTT(30)
    <3> QED
      BY <2>5, <3>2, <3>3, <3>4, <3>7, Zenon
  <2>7. read.rows = FlattenSeq(SubSeq(all, 1, w)) \o parts[1] /\ read.cache = <<parts[2]>>
        /\ read.unread = SubSeq(all, w + 2, Len(all))
    BY <1>10, <1>12, <2>5, Zenon
  <2>8. read.rows = Samples(first, next)
    <3>1. Samples(first, upto[w]) \o Samples(upto[w], next) = Samples(first, next)
      BY <1>7, <1>8, JoinSamples
    <3> QED
      BY <1>5, <2>6, <2>7, <3>1
  <2>9. PICK s \in Seq(Seq(Nat)) : s = read.unread /\ Len(s) = m - w - 1
        /\ \A k \in 1..(m - w - 1) : s[k] = all[w + 1 + k]
    <3>1. w + 2 \in 1..(Len(all) + 1)
      BY <1>2, <2>2
    <3>2. /\ SubSeq(all, w + 2, Len(all)) \in Seq(Seq(Nat))
          /\ Len(SubSeq(all, w + 2, Len(all))) = Len(all) + 1 - (w + 2)
          /\ \A k \in 1..(Len(all) + 1 - (w + 2)) :
               SubSeq(all, w + 2, Len(all))[k] = all[w + 2 + k - 1]
      BY <3>1, ItemsFrom
    <3>3. m + 1 - (w + 2) = m - w - 1 /\ \A k \in 1..(m - w - 1) : w + 2 + k - 1 = w + 1 + k
      OBVIOUS
    <3>4. PICK s \in Seq(Seq(Nat)) : s = SubSeq(all, w + 2, Len(all))
      BY <3>2
    <3>5. Len(s) = m - w - 1 /\ \A k \in 1..(m - w - 1) : s[k] = all[w + 2 + k - 1]
      BY <1>2, <3>2, <3>3, <3>4
    <3>6. \A k \in 1..(m - w - 1) : s[k] = all[w + 1 + k]
      BY <3>3, <3>5
    <3> QED
      BY <2>7, <3>4, <3>5, <3>6
  <2>10. PICK c \in Seq(Seq(Nat)) :
          c = read.cache /\ Len(c) = 1 /\ c[1] = Samples(next, upto[w + 1])
    <3>1. PICK x \in Seq(Nat) : x = Samples(next, upto[w + 1])
      BY <2>3, SamplesType
    <3>2. <<x>> \in Seq(Seq(Nat)) /\ Len(<<x>>) = 1 /\ <<x>>[1] = x
      OBVIOUS
    <3> QED
      BY <2>6, <2>7, <3>1, <3>2
  <2>11. PICK q \in Seq(Seq(Nat)) : q = c \o s
    BY ConcatProperties
  <2>12. Len(q) = m - w /\ q[1] = Samples(next, upto[w + 1])
         /\ \A k \in 2..(m - w) : q[k] = all[w + k]
    <3>1. Len(q) = Len(c) + Len(s)
          /\ \A k \in 1..(Len(c) + Len(s)) : q[k] = IF k <= Len(c) THEN c[k] ELSE s[k - Len(c)]
      BY <2>11, ConcatProperties
    <3>2. Len(c) + Len(s) = m - w
      BY <2>9, <2>10
    <3>3. q[1] = c[1]
      BY <2>2, <2>10, <3>1, <3>2, SMTT(30)
    <3>4. ASSUME NEW k \in 2..(m - w) PROVE q[k] = all[w + k]
      <4>1. k - 1 \in 1..(m - w - 1) /\ w + 1 + (k - 1) = w + k /\ ~(k <= 1) /\ k \in 1..(m - w)
        OBVIOUS
      <4>2. q[k] = s[k - 1]
        BY <2>10, <3>1, <3>2, <4>1
      <4> QED
        BY <2>9, <4>1, <4>2
    <3> QED
      BY <2>10, <3>1, <3>2, <3>3, <3>4
  <2>13. PICK u : u = [k \in 0..(m - w) |-> IF k = 0 THEN next ELSE upto[w + k]]
    OBVIOUS
  <2>14. u \in [0..(m - w) -> 0..last] /\ u[0] = next
         /\ \A k \in 1..(m - w) : u[k] = upto[w + k]
    <3>1. \A k \in 0..(m - w) : w + k \in 0..m /\ upto[w + k] \in 0..last
      OBVIOUS
    <3>2. next \in 0..last /\ 0 \in 0..(m - w) /\ 1..(m - w) \subseteq 0..(m - w)
      BY <1>4
    <3> QED
      BY <2>13, <3>1, <3>2, SMTT(30)
  <2>15. u[m - w] = last
    BY <1>3, <2>2, <2>14
  <2>16. \A k \in 1..(m - w) : u[k - 1] <= u[k] /\ q[k] = Samples(u[k - 1], u[k])
    <3> SUFFICES ASSUME NEW k \in 1..(m - w)
                 PROVE  u[k - 1] <= u[k] /\ q[k] = Samples(u[k - 1], u[k])
      OBVIOUS
    <3>1. CASE k = 1
      <4>1. u[1] = upto[w + 1] /\ 1 - 1 = 0
        BY <2>14, <3>1
      <4> QED
        BY <2>3, <2>12, <2>14, <3>1, <4>1
    <3>2. CASE k # 1
      <4>1. w + k \in 1..m /\ k - 1 \in 1..(m - w) /\ k \in 2..(m - w) /\ w + (k - 1) = w + k - 1
        BY <3>2
      <4>2. u[k - 1] = upto[w + k - 1] /\ u[k] = upto[w + k] /\ q[k] = all[w + k]
        BY <2>12, <2>14, <4>1
      <4>3. upto[w + k - 1] <= upto[w + k] /\ all[w + k] = Samples(upto[w + k - 1], upto[w + k])
        BY <1>3, <4>1
      <4> QED
        BY <4>2, <4>3
    <3> QED
      BY <3>1, <3>2
  <2>17. Adjoining(q, next, last)
    <3>1. m - w \in Nat
      OBVIOUS
    <3> QED
      BY <2>12, <2>14, <2>15, <2>16, <3>1, AdjoiningIs
  <2> QED
    BY <1>4, <2>8, <2>9, <2>10, <2>11, <2>17
<1> QED
  BY <1>11, <1>12

-----------------------------------------------------------------------------
(* What a step of a thread does.                                             *)

\* A place of a thread's loop.
ThreadOK(y) ==
  /\ y = [at |-> y.at, entry |-> y.entry, task |-> y.task]
  /\ y.at \in Places /\ y.entry \in 0..entries
  /\ y.at \in {"entry", "pop", "assemble", "return"} => y.entry # 0

LEMMA GoesOn ==
  ASSUME TypeInv, NEW t \in Threads, thread' = NextEntry(t)
  PROVE  \E y : /\ thread' = [thread EXCEPT ![t] = y] /\ ThreadOK(y)
                /\ y.at \in {"entry", "while"} /\ y.task = NoTask
<1>1. PICK e \in Nat : e = thread[t].entry /\ e \in 0..entries
  BY DEF TypeInv
<1>2. entries \in Nat
  BY FeederAssumption DEF TypeInv
<1>3. CASE e < entries
  <2>1. PICK y : y = [at |-> "entry", entry |-> e + 1, task |-> NoTask]
    OBVIOUS
  <2>2. thread' = [thread EXCEPT ![t] = y]
    BY <1>1, <1>3, <2>1 DEF NextEntry, TypeInv
  <2>3. y.at = "entry" /\ y.entry = e + 1 /\ y.task = NoTask /\ y = [at |-> y.at, entry |-> y.entry, task |-> y.task]
    BY <2>1
  <2>4. ThreadOK(y)
    BY <1>1, <1>2, <1>3, <2>3 DEF ThreadOK, Places
  <2> QED
    BY <2>2, <2>3, <2>4
<1>4. CASE ~(e < entries)
  <2>1. PICK y : y = [at |-> "while", entry |-> 0, task |-> NoTask]
    OBVIOUS
  <2>2. thread' = [thread EXCEPT ![t] = y]
    BY <1>1, <1>4, <2>1 DEF NextEntry, TypeInv
  <2>3. y.at = "while" /\ y.entry = 0 /\ y.task = NoTask /\ y = [at |-> y.at, entry |-> y.entry, task |-> y.task]
    BY <2>1
  <2>4. ThreadOK(y)
    BY <1>2, <2>3 DEF ThreadOK, Places
  <2> QED
    BY <2>2, <2>3, <2>4
<1> QED
  BY <1>3, <1>4

\* The thread goes on without a task or batch, passes the test of a queue, takes
\* a task, pushes its batch or gives the task back.
GoesOnly(t, y) ==
  /\ y.at \in {"entry", "while", "exited"} /\ ~HasTask(t) /\ UNCHANGED <<batches, tasks>>
Passes(t, y) ==
  /\ thread[t].at = "entry" /\ y.at = "pop" /\ y.entry = thread[t].entry
  /\ Len(batches[y.entry]) < MaxQueue /\ UNCHANGED <<batches, tasks>>
Takes(t, y) ==
  LET i == thread[t].entry IN
  /\ thread[t].at = "pop" /\ tasks[i] # << >> /\ UNCHANGED batches
  /\ tasks' = [tasks EXCEPT ![i] = Tail(tasks[i])]
  /\ \/ y.at \in {"entry", "while"}
     \/ y.at = "assemble" /\ y.entry = i /\ y.task = Head(tasks[i])
Pushes(t, y) ==
  LET i == thread[t].entry IN
  /\ thread[t].at = "assemble" /\ y.at = "return" /\ y.entry = i
  /\ y.task.record = thread[t].task.record /\ UNCHANGED tasks
  /\ \E b : batches' = [batches EXCEPT ![i] = Append(batches[i], b)]
GivesBack(t, y) ==
  LET i == thread[t].entry IN
  /\ thread[t].at = "return" /\ y.at \in {"entry", "while"} /\ UNCHANGED batches
  /\ \/ UNCHANGED tasks
     \/ tasks' = [tasks EXCEPT ![i] = <<thread[t].task>> \o tasks[i]]

LEMMA StepShape ==
  ASSUME TypeInv, NEW t \in Threads, Step(t)
  PROVE  /\ UNCHANGED entries
         /\ \E y : /\ thread' = [thread EXCEPT ![t] = y] /\ ThreadOK(y)
                   /\ \/ GoesOnly(t, y) \/ Passes(t, y) \/ Takes(t, y) \/ Pushes(t, y)
                      \/ GivesBack(t, y)
<1>1. /\ thread = [u \in Threads |-> thread[u]] /\ thread[t].entry \in 0..entries
      /\ thread[t] = [at |-> thread[t].at, entry |-> thread[t].entry, task |-> thread[t].task]
      /\ entries \in Nat
  BY FeederAssumption DEF TypeInv
<1>2. UNCHANGED entries
  BY DEF Step, Loop, TestFull, PopTask, PushBatch, PushTask
<1>3. ASSUME thread' = NextEntry(t), ~HasTask(t), UNCHANGED <<batches, tasks>>
      PROVE  \E y : thread' = [thread EXCEPT ![t] = y] /\ ThreadOK(y) /\ GoesOnly(t, y)
  BY <1>3, GoesOn DEF GoesOnly
<1>4. CASE Loop(t)
  <2>1. CASE running
    BY <1>3, <1>4, <2>1 DEF Loop, HasTask
  <2>2. CASE ~running
    <3>1. PICK y : y = [thread[t] EXCEPT !.at = "exited"]
      OBVIOUS
    <3>2. thread' = [thread EXCEPT ![t] = y]
      BY <1>1, <1>4, <2>2, <3>1 DEF Loop
    <3>3. y = [at |-> "exited", entry |-> thread[t].entry, task |-> thread[t].task]
      BY <1>1, <3>1
    <3>4. ThreadOK(y) /\ GoesOnly(t, y)
      BY <1>1, <1>4, <3>3 DEF ThreadOK, Places, GoesOnly, Loop, HasTask
    <3> QED
      BY <1>2, <3>2, <3>4
  <2> QED
    BY <1>2, <2>1, <2>2
<1>5. CASE TestFull(t)
  <2>1. CASE Full(thread[t].entry)
    BY <1>2, <1>3, <1>5, <2>1 DEF TestFull, HasTask
  <2>2. CASE ~Full(thread[t].entry)
    <3>1. PICK y : y = [thread[t] EXCEPT !.at = "pop"]
      OBVIOUS
    <3>2. thread' = [thread EXCEPT ![t] = y]
      BY <1>1, <1>5, <2>2, <3>1 DEF TestFull
    <3>3. y = [at |-> "pop", entry |-> thread[t].entry, task |-> thread[t].task]
      BY <1>1, <3>1
    <3>4. thread[t].entry \in Sources /\ thread[t].entry # 0 /\ thread[t].at = "entry"
      BY <1>1, <1>5, FeederAssumption DEF TypeInv, TestFull, AtSource, Sources
    <3>5. Len(batches[thread[t].entry]) < MaxQueue
      BY <2>2, <3>4, FeederAssumption DEF Full, TypeInv, IsSeq
    <3>6. ThreadOK(y)
      BY <1>1, <3>3, <3>4 DEF ThreadOK, Places
    <3>7. Passes(t, y)
      BY <1>5, <3>3, <3>4, <3>5 DEF Passes, TestFull
    <3> QED
      BY <1>2, <3>2, <3>6, <3>7
  <2> QED
    BY <2>1, <2>2
<1>6. CASE PopTask(t)
  <2> DEFINE i == thread[t].entry
  <2>1. thread[t].at = "pop" /\ UNCHANGED batches /\ thread[t].entry # 0
    BY <1>6 DEF PopTask, TypeInv, AtSource
  <2>2. CASE tasks[i] = << >>
    BY <1>2, <1>3, <1>6, <2>1, <2>2 DEF PopTask, HasTask
  <2>3. CASE tasks[i] # << >> /\ ~Enough(Head(tasks[i]))
    <3>1. thread' = NextEntry(t) /\ tasks' = [tasks EXCEPT ![i] = Tail(tasks[i])]
      BY <1>6, <2>3 DEF PopTask
    <3>2. PICK y : /\ thread' = [thread EXCEPT ![t] = y] /\ ThreadOK(y)
                   /\ y.at \in {"entry", "while"}
      BY <3>1, GoesOn
    <3>3. Takes(t, y)
      BY <2>1, <2>3, <3>1, <3>2 DEF Takes
    <3> QED
      BY <1>2, <3>2, <3>3
  <2>4. CASE tasks[i] # << >> /\ Enough(Head(tasks[i]))
    <3>1. PICK y : y = [at |-> "assemble", entry |-> i, task |-> Head(tasks[i])]
      OBVIOUS
    <3>2. y.at = "assemble" /\ y.entry = i /\ y.task = Head(tasks[i])
          /\ y = [at |-> y.at, entry |-> y.entry, task |-> y.task]
      BY <3>1
    <3>4. thread' = [thread EXCEPT ![t] = y]
      BY <1>6, <2>4, <3>1 DEF PopTask
    <3>5. Takes(t, y)
      BY <1>6, <2>1, <2>4, <3>2 DEF Takes, PopTask
    <3>6. ThreadOK(y)
      BY <1>1, <2>1, <3>2 DEF ThreadOK, Places
    <3> QED
      BY <1>2, <3>4, <3>5, <3>6
  <2> QED
    BY <2>2, <2>3, <2>4
<1>7. CASE PushBatch(t)
  <2>1. PICK read :
          /\ batches' = [batches EXCEPT ![thread[t].entry] =
               Append(@, [record |-> thread[t].task.record, rows |-> read.rows])]
          /\ thread' = [thread EXCEPT ![t] =
               [at |-> "return", entry |-> thread[t].entry,
                task |-> [record |-> thread[t].task.record, curr |-> thread[t].task.curr + BatchSize,
                          cache |-> read.cache]]]
    BY <1>7 DEF PushBatch
  <2>2. PICK task : task = [record |-> thread[t].task.record, curr |-> thread[t].task.curr + BatchSize,
                            cache |-> read.cache]
    OBVIOUS
  <2>3. PICK y : y = [at |-> "return", entry |-> thread[t].entry, task |-> task]
    OBVIOUS
  <2>4. y.at = "return" /\ y.entry = thread[t].entry /\ y.task = task
        /\ y = [at |-> y.at, entry |-> y.entry, task |-> y.task]
    BY <2>3
  <2>5. thread' = [thread EXCEPT ![t] = y]
    BY <2>1, <2>2, <2>3
  <2>6. task.record = thread[t].task.record
    BY <2>2
  <2>7. thread[t].at = "assemble" /\ thread[t].entry # 0 /\ UNCHANGED tasks
    BY <1>7 DEF PushBatch, TypeInv, AtSource
  <2>8. ThreadOK(y)
    BY <1>1, <2>4, <2>7 DEF ThreadOK, Places
  <2>9. Pushes(t, y)
    BY <2>1, <2>4, <2>6, <2>7 DEF Pushes
  <2> QED
    BY <1>2, <2>5, <2>8, <2>9
<1>8. CASE PushTask(t)
  <2>1. thread[t].at = "return" /\ UNCHANGED batches /\ thread' = NextEntry(t)
    BY <1>8 DEF PushTask
  <2>2. \/ UNCHANGED tasks
        \/ tasks' = [tasks EXCEPT ![thread[t].entry] = <<thread[t].task>> \o tasks[thread[t].entry]]
    BY <1>8 DEF PushTask
  <2> QED
    BY <1>2, <2>1, <2>2, GoesOn DEF GivesBack
<1> QED
  BY <1>4, <1>5, <1>6, <1>7, <1>8 DEF Step

-----------------------------------------------------------------------------
(* The types.                                                                *)

LEMMA TypeInit == Init => TypeInv
<1> SUFFICES ASSUME Init PROVE TypeInv
  OBVIOUS
<1>1. entries = 0 /\ Len(Plans) \in Nat
  BY FeederAssumption DEF Init
<1>2. IsSeq(<< >>)
  BY EmptySeq, ElementsOfSeq
<1>3. thread = [t \in Threads |-> thread[t]]
      /\ \A t \in Threads : thread[t] = [at |-> "none", entry |-> 0, task |-> NoTask]
  BY DEF Init
<1>4. \A t \in Threads :
       /\ thread[t] = [at |-> thread[t].at, entry |-> thread[t].entry, task |-> thread[t].task]
       /\ thread[t].at = "none" /\ thread[t].entry = 0
  BY <1>3
<1>5. \A i \in Sources : batches[i] = << >> /\ tasks[i] = << >>
  BY DEF Init
<1>6. batches = [i \in Sources |-> batches[i]] /\ tasks = [i \in Sources |-> tasks[i]]
  BY DEF Init
<1> QED
  BY <1>1, <1>2, <1>3, <1>4, <1>5, <1>6 DEF TypeInv, Places, AtSource

\* The steps that concern no thread, task or batch.
LEMMA OtherSteps ==
  ASSUME Next
  PROVE  \/ Schedule \/ Start \/ PopBatch \/ \E t \in Threads : Step(t)
         \/ UNCHANGED <<entries, thread, tasks, batches>>
BY DEF Next, Ask, Stop, StopStep, Exit, Join, Finished, vars

LEMMA ScheduleTasks ==
  ASSUME TypeInv, Schedule
  PROVE  /\ entries + 1 \in Sources /\ IsSeq(tasks'[entries + 1])
         /\ DOMAIN tasks'[entries + 1] = DOMAIN Plans[entries + 1]
         /\ \A k \in DOMAIN Plans[entries + 1] :
              /\ tasks'[entries + 1][k].record = Plans[entries + 1][k]
              /\ tasks'[entries + 1][k].curr = 0 /\ tasks'[entries + 1][k].cache = << >>
         /\ \A i \in Sources : i # entries + 1 => tasks'[i] = tasks[i]
         /\ tasks' = [i \in Sources |-> tasks'[i]]
<1>1. PICK e \in Nat : e = entries + 1 /\ e \in 1..Len(Plans)
  BY FeederAssumption DEF TypeInv, Schedule
<1>2. e \in Sources /\ Plans[e] \in Seq(Records) /\ DOMAIN Plans[e] = 1..Len(Plans[e])
      /\ Len(Plans[e]) \in Nat
  BY <1>1, FeederAssumption, LenProperties DEF Sources
<1>3. PICK f : f = [k \in DOMAIN Plans[e] |-> [NoTask EXCEPT !.record = Plans[e][k]]]
  OBVIOUS
<1>4. /\ DOMAIN f = DOMAIN Plans[e]
      /\ \A k \in DOMAIN Plans[e] :
           f[k].record = Plans[e][k] /\ f[k].curr = 0 /\ f[k].cache = << >>
  BY <1>3 DEF NoTask
<1>5. f \in Seq({f[k] : k \in DOMAIN Plans[e]})
  <2>1. PICK n \in Nat : n = Len(Plans[e]) /\ DOMAIN Plans[e] = 1..n
    BY <1>2
  <2>2. f \in [1..n -> {f[k] : k \in 1..n}]
    BY <1>3, <2>1
  <2> QED
    BY <2>1, <2>2, SMTT(30)
<1>6. IsSeq(f)
  BY <1>5, ElementsOfSeq
<1>7. tasks' = [tasks EXCEPT ![e] = f]
  BY <1>1, <1>3 DEF Schedule
<1>8. tasks'[e] = f /\ (\A i \in Sources : i # e => tasks'[i] = tasks[i])
      /\ tasks' = [i \in Sources |-> tasks'[i]]
  BY <1>2, <1>7 DEF TypeInv
<1> QED
  BY <1>1, <1>2, <1>4, <1>6, <1>8

\* What a step does to a queue of batches, and to a queue of tasks.
LEMMA QueueSteps ==
  ASSUME TypeInv, NEW t \in Threads, NEW y,
         GoesOnly(t, y) \/ Passes(t, y) \/ Takes(t, y) \/ Pushes(t, y) \/ GivesBack(t, y)
  PROVE  /\ batches' = [i \in Sources |-> batches'[i]] /\ \A i \in Sources : IsSeq(batches'[i])
         /\ tasks' = [i \in Sources |-> tasks'[i]] /\ \A i \in Sources : IsSeq(tasks'[i])
<1>1. /\ batches = [i \in Sources |-> batches[i]] /\ \A i \in Sources : IsSeq(batches[i])
      /\ tasks = [i \in Sources |-> tasks[i]] /\ \A i \in Sources : IsSeq(tasks[i])
  BY DEF TypeInv
<1>2. CASE GoesOnly(t, y) \/ Passes(t, y)
  BY <1>1, <1>2 DEF GoesOnly, Passes
<1>3. CASE Takes(t, y)
  BY <1>1, <1>3, TailIsSeq DEF Takes
<1>4. CASE Pushes(t, y)
  <2>1. UNCHANGED tasks
    BY <1>4 DEF Pushes
  <2>2. PICK b, i : batches' = [batches EXCEPT ![i] = Append(batches[i], b)]
    BY <1>4 DEF Pushes
  <2>3. batches' = [j \in Sources |-> IF j = i THEN Append(batches[i], b) ELSE batches[j]]
    BY <1>1, <2>2
  <2>4. \A j \in Sources : IsSeq(Append(batches[j], b))
    BY <1>1, AppendIsSeq
  <2> QED
    BY <1>1, <2>1, <2>3, <2>4
<1>5. CASE GivesBack(t, y)
  <2>1. UNCHANGED batches
    BY <1>5 DEF GivesBack
  <2>2. CASE UNCHANGED tasks
    BY <1>1, <2>1, <2>2
  <2>3. CASE \E x, i : tasks' = [tasks EXCEPT ![i] = <<x>> \o tasks[i]]
    <3>1. PICK x, i : tasks' = [tasks EXCEPT ![i] = <<x>> \o tasks[i]]
      BY <2>3
    <3>2. tasks' = [j \in Sources |-> IF j = i THEN <<x>> \o tasks[i] ELSE tasks[j]]
      BY <1>1, <3>1
    <3>3. \A j \in Sources : IsSeq(<<x>> \o tasks[j])
      BY <1>1, PushIsSeq
    <3> QED
      BY <1>1, <2>1, <3>2, <3>3
  <2> QED
    BY <1>5, <2>2, <2>3 DEF GivesBack
<1> QED
  BY <1>2, <1>3, <1>4, <1>5

LEMMA TypeNext ==
  ASSUME TypeInv, Next
  PROVE  TypeInv'
<1>1. entries \in Nat /\ Len(Plans) \in Nat
  BY FeederAssumption DEF TypeInv
<1>2. CASE Schedule
  <2>1. entries' = entries + 1 /\ entries' \in 0..Len(Plans) /\ UNCHANGED <<thread, batches>>
    BY <1>1, <1>2 DEF Schedule, TypeInv
  <2>2. tasks' = [i \in Sources |-> tasks'[i]] /\ \A i \in Sources : IsSeq(tasks'[i])
    BY <1>2, ScheduleTasks DEF TypeInv
  <2> QED
    BY <1>1, <2>1, <2>2 DEF TypeInv, AtSource
<1>3. CASE Start
  <2>1. UNCHANGED <<entries, tasks, batches>>
    BY <1>3 DEF Start
  <2>2. thread' = [t \in Threads |-> thread'[t]]
        /\ \A t \in Threads : thread'[t] = [thread[t] EXCEPT !.at = "while"]
    BY <1>3 DEF Start
  <2>3. \A t \in Threads :
          thread'[t] = [at |-> "while", entry |-> thread[t].entry, task |-> thread[t].task]
    BY <2>2 DEF TypeInv
  <2>4. \A t \in Threads :
          /\ thread'[t] = [at |-> thread'[t].at, entry |-> thread'[t].entry, task |-> thread'[t].task]
          /\ thread'[t].at = "while" /\ thread'[t].entry = thread[t].entry
    <3> SUFFICES ASSUME NEW t \in Threads
                 PROVE  /\ thread'[t] = [at |-> thread'[t].at, entry |-> thread'[t].entry,
                                         task |-> thread'[t].task]
                        /\ thread'[t].at = "while" /\ thread'[t].entry = thread[t].entry
      OBVIOUS
    <3>1. PICK y : y = thread'[t] /\ y = [at |-> "while", entry |-> thread[t].entry,
                                         task |-> thread[t].task]
      BY <2>3
    <3>2. y.at = "while" /\ y.entry = thread[t].entry /\ y.task = thread[t].task
      BY <3>1
    <3> QED
      BY <3>1, <3>2
  <2> QED
    BY <2>1, <2>2, <2>4 DEF TypeInv, Places, AtSource
<1>4. CASE PopBatch
  <2>1. UNCHANGED <<entries, tasks, thread>>
    BY <1>4 DEF PopBatch
  <2>2. /\ batches[app.entry] # << >>
        /\ batches' = [batches EXCEPT ![app.entry] = Tail(batches[app.entry])]
    BY <1>4 DEF PopBatch
  <2>3. batches' = [i \in Sources |-> batches'[i]] /\ \A i \in Sources : IsSeq(batches'[i])
    BY <2>2, TailIsSeq DEF TypeInv
  <2> QED
    BY <2>1, <2>3 DEF TypeInv, AtSource
<1>5. CASE \E t \in Threads : Step(t)
  <2>1. PICK t \in Threads : Step(t)
    BY <1>5
  <2>2. UNCHANGED entries
    BY <2>1, StepShape
  <2>3. PICK y : /\ thread' = [thread EXCEPT ![t] = y] /\ ThreadOK(y)
                 /\ \/ GoesOnly(t, y) \/ Passes(t, y) \/ Takes(t, y) \/ Pushes(t, y)
                    \/ GivesBack(t, y)
    BY <2>1, StepShape
  <2>4. /\ batches' = [i \in Sources |-> batches'[i]] /\ \A i \in Sources : IsSeq(batches'[i])
        /\ tasks' = [i \in Sources |-> tasks'[i]] /\ \A i \in Sources : IsSeq(tasks'[i])
    BY <2>3, QueueSteps
  <2>5. thread' = [u \in Threads |-> thread'[u]]
        /\ \A u \in Threads : thread'[u] = IF u = t THEN y ELSE thread[u]
    BY <2>3 DEF TypeInv
  <2>6. \A u \in Threads :
          /\ thread'[u] = [at |-> thread'[u].at, entry |-> thread'[u].entry, task |-> thread'[u].task]
          /\ thread'[u].at \in Places /\ thread'[u].entry \in 0..entries
          /\ thread'[u].at \in {"entry", "pop", "assemble", "return"} => thread'[u].entry # 0
    BY <2>3, <2>5 DEF TypeInv, ThreadOK, AtSource
  <2> QED
    BY <2>2, <2>4, <2>5, <2>6 DEF TypeInv, AtSource
<1>6. CASE UNCHANGED <<entries, thread, tasks, batches>>
  BY <1>6 DEF TypeInv, AtSource
<1> QED
  BY <1>2, <1>3, <1>4, <1>5, <1>6, OtherSteps

-----------------------------------------------------------------------------
(* The limit of the queue.                                                   *)

LEMMA PassedIsFinite ==
  ASSUME NEW i
  PROVE  /\ IsFiniteSet(Passed(i)) /\ Cardinality(Passed(i)) \in Nat
         /\ Cardinality(Passed(i)) <= Cardinality(Threads) /\ Cardinality(Threads) \in Nat
<1>1. Passed(i) \subseteq Threads /\ IsFiniteSet(Threads)
  BY FeederAssumption DEF Passed
<1> QED
  BY <1>1, FS_Subset, FS_CardinalityType

LEMMA BoundInit == Init => Bound
<1> SUFFICES ASSUME Init, NEW i \in Sources
             PROVE  Len(batches[i]) + Cardinality(Passed(i)) < MaxQueue + Cardinality(Threads)
  BY DEF Bound
<1>1. batches[i] = << >> /\ Len(batches[i]) = 0
  BY EmptySeq DEF Init
<1>2. MaxQueue \in Nat \ {0}
  BY FeederAssumption
<1> QED
  BY <1>1, <1>2, PassedIsFinite

\* Threads that leave, and a batch that is pushed or taken.
LEMMA BoundStays ==
  ASSUME NEW S, NEW T, IsFiniteSet(S), T \subseteq S, NEW c \in Nat, NEW d \in Nat,
         NEW n \in Nat, c + Cardinality(S) < n,
         d <= c \/ (d = c + 1 /\ \E x \in S : x \notin T)
  PROVE  d + Cardinality(T) < n
<1>1. /\ IsFiniteSet(T) /\ Cardinality(T) <= Cardinality(S)
      /\ Cardinality(T) \in Nat /\ Cardinality(S) \in Nat
      /\ (T # S => Cardinality(T) < Cardinality(S))
  BY FS_Subset, FS_CardinalityType
<1> QED
  BY <1>1

LEMMA BoundNext ==
  ASSUME TypeInv, TypeInv', Bound, Next
  PROVE  Bound'
<1>1. /\ MaxQueue \in Nat \ {0} /\ Cardinality(Threads) \in Nat
      /\ \A i \in Sources : Len(batches[i]) \in Nat /\ Len(batches'[i]) \in Nat
  BY FeederAssumption, FS_CardinalityType DEF TypeInv, IsSeq
<1> SUFFICES ASSUME NEW i \in Sources
             PROVE  Len(batches'[i]) + Cardinality(Passed(i)') < MaxQueue + Cardinality(Threads)
  BY DEF Bound
<1>2. ASSUME Passed(i)' \subseteq Passed(i),
             \/ Len(batches'[i]) <= Len(batches[i])
             \/ Len(batches'[i]) = Len(batches[i]) + 1 /\ \E t \in Passed(i) : t \notin Passed(i)'
      PROVE  Len(batches'[i]) + Cardinality(Passed(i)') < MaxQueue + Cardinality(Threads)
  <2>1. PICK n \in Nat : n = MaxQueue + Cardinality(Threads)
    BY <1>1
  <2>2. PICK c \in Nat : c = Len(batches[i])
    BY <1>1
  <2>3. PICK d \in Nat : d = Len(batches'[i])
    BY <1>1
  <2>4. PICK S, T : S = Passed(i) /\ T = Passed(i)'
    OBVIOUS
  <2>5. c + Cardinality(S) < n
    BY <2>1, <2>2, <2>4 DEF Bound
  <2>6. /\ IsFiniteSet(S) /\ T \subseteq S
        /\ d <= c \/ (d = c + 1 /\ \E x \in S : x \notin T)
    BY <1>2, <2>2, <2>3, <2>4, PassedIsFinite
  <2>7. d + Cardinality(T) < n
    BY ONLY <2>5, <2>6, BoundStays
  <2> QED
    BY <2>1, <2>3, <2>4, <2>7
<1>3. CASE UNCHANGED <<thread, batches>>
  <2>1. Passed(i)' = Passed(i)
    BY <1>3 DEF Passed
  <2> QED
    BY <1>1, <1>2, <1>3, <2>1
<1>4. CASE Start
  <2>1. UNCHANGED batches /\ \A t \in Threads : thread'[t].at = "while"
    BY <1>4 DEF Start, TypeInv
  <2>2. Passed(i)' \subseteq Passed(i)
    BY <2>1 DEF Passed
  <2> QED
    BY <1>1, <1>2, <2>1, <2>2
<1>5. CASE PopBatch
  <2>1. UNCHANGED thread /\ batches[app.entry] # << >>
        /\ batches' = [batches EXCEPT ![app.entry] = Tail(batches[app.entry])]
    BY <1>5 DEF PopBatch
  <2>2. Passed(i)' = Passed(i)
    BY <2>1 DEF Passed
  <2>3. CASE i = app.entry
    <3>1. IsSeq(batches[i]) /\ batches[i] # << >> /\ batches'[i] = Tail(batches[i])
      BY <2>1, <2>3 DEF TypeInv
    <3>2. Len(batches'[i]) = Len(batches[i]) - 1
      BY <3>1, TailIsSeq
    <3> QED
      BY <1>1, <1>2, <2>2, <3>2
  <2>4. CASE i # app.entry
    <3>1. batches'[i] = batches[i]
      BY <2>1, <2>4 DEF TypeInv
    <3> QED
      BY <1>1, <1>2, <2>2, <3>1
  <2> QED
    BY <2>3, <2>4
<1>6. ASSUME NEW t \in Threads, Step(t)
      PROVE  Len(batches'[i]) + Cardinality(Passed(i)') < MaxQueue + Cardinality(Threads)
  <2>1. PICK y : /\ thread' = [thread EXCEPT ![t] = y]
                 /\ \/ GoesOnly(t, y) \/ Passes(t, y) \/ Takes(t, y) \/ Pushes(t, y)
                    \/ GivesBack(t, y)
    BY <1>6, StepShape
  <2>2. \A u \in Threads : thread'[u] = IF u = t THEN y ELSE thread[u]
    BY <2>1 DEF TypeInv
  <2>4. CASE GoesOnly(t, y) \/ Takes(t, y) \/ GivesBack(t, y)
    <3>1. UNCHANGED batches
      BY <2>4 DEF GoesOnly, Takes, GivesBack
    <3>2. Passed(i)' \subseteq Passed(i)
      BY <2>2, <2>4 DEF GoesOnly, Takes, GivesBack, Passed
    <3> QED
      BY <1>1, <1>2, <3>1, <3>2
  <2>5. CASE Pushes(t, y)
    <3>1. Passed(i)' \subseteq Passed(i)
      BY <2>2, <2>5 DEF Pushes, Passed
    <3>2. PICK b : batches' = [batches EXCEPT ![thread[t].entry] = Append(batches[thread[t].entry], b)]
      BY <2>5 DEF Pushes
    <3>3. CASE i = thread[t].entry
      <4>1. t \in Passed(i) /\ t \notin Passed(i)'
        BY <2>2, <2>5, <3>3 DEF Pushes, Passed
      <4>2. batches'[i] = Append(batches[i], b) /\ IsSeq(batches[i])
        BY <3>2, <3>3 DEF TypeInv
      <4>3. Len(batches'[i]) = Len(batches[i]) + 1
        BY <4>2, AppendIsSeq
      <4> QED
        BY <1>2, <3>1, <4>1, <4>3
    <3>4. CASE i # thread[t].entry
      <4>1. batches'[i] = batches[i]
        BY <3>2, <3>4 DEF TypeInv
      <4> QED
        BY <1>1, <1>2, <3>1, <4>1
    <3> QED
      BY <3>3, <3>4
  <2>6. CASE Passes(t, y)
    <3>1. UNCHANGED batches /\ y.entry = thread[t].entry /\ Len(batches[y.entry]) < MaxQueue
      BY <2>6 DEF Passes
    <3>2. CASE i = y.entry
      <4>1. Len(batches'[i]) < MaxQueue
        BY <3>1, <3>2
      <4>2. Cardinality(Passed(i)') \in Nat /\ Cardinality(Passed(i)') <= Cardinality(Threads)
        <5>1. Passed(i)' \subseteq Threads /\ IsFiniteSet(Threads)
          BY FeederAssumption DEF Passed
        <5> QED
          BY <5>1, FS_Subset, FS_CardinalityType
      <4> QED
        BY <1>1, <4>1, <4>2
    <3>3. CASE i # y.entry
      <4>1. Passed(i)' \subseteq Passed(i)
        BY <2>2, <3>3 DEF Passed
      <4> QED
        BY <1>1, <1>2, <3>1, <4>1
    <3> QED
      BY <3>2, <3>3
  <2> QED
    BY <2>1, <2>4, <2>5, <2>6
<1> QED
  BY <1>3, <1>4, <1>5, <1>6, OtherSteps DEF Schedule

\* The queue of batches of a source never holds more than max_queue_size and one
\* batch less than the Feeder has threads, though the test of Full and the push
\* are two steps (feeder.cc:54-58).
THEOREM QueuesStayBounded == Spec => []QueueBound
<1>1. Init => TypeInv /\ Bound
  BY TypeInit, BoundInit
<1>2. TypeInv /\ Bound /\ [Next]_vars => (TypeInv /\ Bound)'
  <2>1. ASSUME TypeInv, Bound, Next PROVE (TypeInv /\ Bound)'
    BY <2>1, TypeNext, BoundNext
  <2>2. ASSUME TypeInv, Bound, UNCHANGED vars PROVE (TypeInv /\ Bound)'
    BY <2>2 DEF vars, TypeInv, AtSource, Bound, Passed
  <2> QED
    BY <2>1, <2>2
<1>3. TypeInv /\ Bound => QueueBound
  <2> SUFFICES ASSUME TypeInv, Bound, NEW i \in Sources
               PROVE  Len(batches[i]) <= MaxQueue + Cardinality(Threads) - 1
    BY DEF QueueBound
  <2>1. Len(batches[i]) \in Nat /\ MaxQueue \in Nat
    BY FeederAssumption DEF TypeInv, IsSeq
  <2>2. Len(batches[i]) + Cardinality(Passed(i)) < MaxQueue + Cardinality(Threads)
    BY DEF Bound
  <2> QED
    BY <2>1, <2>2, PassedIsFinite
<1> QED
  BY <1>1, <1>2, <1>3, PTL DEF Spec

-----------------------------------------------------------------------------
(* The readers of a record.                                                  *)

LEMMA TasksInit == Init => OwnRecords /\ OneTask
BY DEF Init, OwnRecords, OneTask, OneReader, HasTask

\* Where a task of a queue was before the step that took the first one.
LEMMA TaskWas ==
  ASSUME TypeInv, NEW t \in Threads, NEW y, Takes(t, y), NEW i \in Sources, NEW k \in DOMAIN tasks'[i]
  PROVE  \/ i # thread[t].entry /\ tasks'[i] = tasks[i]
         \/ /\ i = thread[t].entry /\ k \in Nat /\ k + 1 \in DOMAIN tasks[i]
            /\ tasks'[i][k] = tasks[i][k + 1] /\ k + 1 # 1 /\ 1 \in DOMAIN tasks[i]
            /\ Head(tasks[i]) = tasks[i][1]
<1>1. CASE i # thread[t].entry
  BY <1>1 DEF Takes, TypeInv
<1>2. CASE i = thread[t].entry
  <2>1. tasks'[i] = Tail(tasks[i]) /\ tasks[i] # << >> /\ IsSeq(tasks[i])
    BY <1>2 DEF Takes, TypeInv
  <2>2. /\ k \in Nat /\ k + 1 \in DOMAIN tasks[i] /\ Tail(tasks[i])[k] = tasks[i][k + 1]
        /\ 1 \in DOMAIN tasks[i] /\ Head(tasks[i]) = tasks[i][1]
    BY <2>1, TailIsSeq
  <2> QED
    BY <1>2, <2>1, <2>2
<1> QED
  BY <1>1, <1>2

\* A task of a queue after a thread gave its task back.
LEMMA TaskIs ==
  ASSUME TypeInv, NEW t \in Threads, NEW i \in Sources, NEW k \in DOMAIN tasks'[i],
         tasks' = [tasks EXCEPT ![thread[t].entry] = <<thread[t].task>> \o tasks[thread[t].entry]]
  PROVE  \/ i # thread[t].entry /\ tasks'[i] = tasks[i]
         \/ i = thread[t].entry /\ k = 1 /\ tasks'[i][k] = thread[t].task
         \/ i = thread[t].entry /\ k \in Nat /\ k - 1 \in DOMAIN tasks[i]
            /\ tasks'[i][k] = tasks[i][k - 1]
<1>1. CASE i # thread[t].entry
  BY <1>1 DEF TypeInv
<1>2. CASE i = thread[t].entry
  <2>1. tasks'[i] = <<thread[t].task>> \o tasks[i] /\ IsSeq(tasks[i])
    BY <1>2 DEF TypeInv
  <2>2. PICK x, q : x = thread[t].task /\ q = tasks[i]
    OBVIOUS
  <2>3. \A l \in DOMAIN (<<x>> \o q) :
          \/ l = 1 /\ (<<x>> \o q)[l] = x
          \/ l - 1 \in DOMAIN q /\ l \in Nat /\ (<<x>> \o q)[l] = q[l - 1]
    <3>1. IsSeq(q)
      BY <2>1, <2>2
    <3> QED
      BY ONLY <3>1, PushIsSeq
  <2> QED
    BY <1>2, <2>1, <2>2, <2>3
<1> QED
  BY <1>1, <1>2

\* A source that is scheduled brings records of its own.
LEMMA TasksSchedule ==
  ASSUME TypeInv, OwnRecords, OneTask, Schedule
  PROVE  OwnRecords' /\ OneTask'
<1>1. PICK e \in Nat : e = entries + 1 /\ entries \in Nat /\ entries' = e
  BY FeederAssumption DEF TypeInv, Schedule
<1>2. /\ e \in Sources /\ DOMAIN tasks'[e] = DOMAIN Plans[e]
      /\ \A k \in DOMAIN Plans[e] : tasks'[e][k].record = Plans[e][k]
      /\ \A i \in Sources : i # e => tasks'[i] = tasks[i]
  BY <1>1, ScheduleTasks
<1>3. UNCHANGED thread /\ \A t \in Threads : HasTask(t)' <=> HasTask(t)
  BY DEF Schedule, HasTask
<1>4. \A t \in Threads : HasTask(t) => thread[t].entry \in Sources /\ thread[t].entry # e
  BY <1>1, FeederAssumption DEF TypeInv, HasTask, AtSource, Sources
<1>5. \A i \in Sources : i > entries => tasks[i] = << >>
  BY DEF OwnRecords
<1>6. \A i \in Sources : i \in Nat
  BY FeederAssumption DEF Sources
<1>7. OwnRecords'
  <2>1. \A i \in Sources : i > entries' => tasks'[i] = << >>
    BY <1>1, <1>2, <1>5, <1>6
  <2>2. \A i \in Sources : \A k \in DOMAIN tasks'[i] : OfSource(tasks'[i][k], i)
    <3> SUFFICES ASSUME NEW i \in Sources, NEW k \in DOMAIN tasks'[i] PROVE OfSource(tasks'[i][k], i)
      OBVIOUS
    <3>1. CASE i = e
      BY <1>2, <3>1 DEF OfSource
    <3>2. CASE i # e
      BY <1>2, <3>2 DEF OwnRecords
    <3> QED
      BY <3>1, <3>2
  <2>3. \A t \in Threads : HasTask(t)' => OfSource(thread[t].task, thread[t].entry)'
    BY <1>3 DEF OwnRecords, OfSource
  <2> QED
    BY <2>1, <2>2, <2>3 DEF OwnRecords, OfSource
<1>8. ASSUME NEW i \in Sources, NEW j \in Sources, NEW k \in DOMAIN tasks'[i],
             NEW l \in DOMAIN tasks'[j], tasks'[i][k].record = tasks'[j][l].record
      PROVE  i = j /\ k = l
  <2>1. OfSource(tasks'[i][k], i) /\ OfSource(tasks'[j][l], j)
    BY <1>7 DEF OwnRecords, OfSource
  <2>2. i = j
    BY <1>8, <2>1, FeederAssumption DEF OfSource, Sources
  <2>3. CASE i = e
    <3>1. k \in DOMAIN Plans[e] /\ l \in DOMAIN Plans[e] /\ Plans[e][k] = Plans[e][l]
      BY <1>2, <1>8, <2>2, <2>3
    <3> QED
      BY <1>2, <2>2, <3>1, FeederAssumption DEF Sources
  <2>4. CASE i # e
    <3>1. k \in DOMAIN tasks[i] /\ l \in DOMAIN tasks[i] /\ tasks[i][k].record = tasks[i][l].record
      BY <1>2, <1>8, <2>2, <2>4
    <3> QED
      BY <2>2, <3>1 DEF OneTask
  <2> QED
    BY <2>2, <2>3, <2>4
<1>9. ASSUME NEW t \in Threads, HasTask(t), NEW i \in Sources, NEW k \in DOMAIN tasks'[i]
      PROVE  thread[t].task.record # tasks'[i][k].record
  <2>1. OfSource(tasks'[i][k], i) /\ OfSource(thread[t].task, thread[t].entry)
    BY <1>7, <1>9 DEF OwnRecords, OfSource
  <2>2. CASE i = e
    BY <1>4, <1>9, <2>1, <2>2, FeederAssumption DEF OfSource, Sources
  <2>3. CASE i # e
    BY <1>2, <1>9, <2>3 DEF OneTask, OneReader
  <2> QED
    BY <2>2, <2>3
<1>10. OneReader'
  BY <1>3, <1>9 DEF OneTask, OneReader, HasTask
<1> QED
  BY <1>7, <1>8, <1>10 DEF OneTask

LEMMA TasksStep ==
  ASSUME TypeInv, OwnRecords, OneTask, NEW t \in Threads, Step(t)
  PROVE  OwnRecords' /\ OneTask'
<1>1. UNCHANGED entries
  BY StepShape
<1>2. PICK y : /\ thread' = [thread EXCEPT ![t] = y]
               /\ \/ GoesOnly(t, y) \/ Passes(t, y) \/ Takes(t, y) \/ Pushes(t, y)
                  \/ GivesBack(t, y)
  BY StepShape
<1>3. \A u \in Threads : thread'[u] = IF u = t THEN y ELSE thread[u]
  BY <1>2 DEF TypeInv
<1>4. \A u \in Threads : u # t => (HasTask(u)' <=> HasTask(u))
  BY <1>3 DEF HasTask
<1>5. HasTask(t)' <=> y.at \in {"assemble", "return"}
  BY <1>3 DEF HasTask
<1>6. \A u \in Threads : HasTask(u) => thread[u].entry \in Sources /\ thread[u].entry <= entries
  BY FeederAssumption DEF TypeInv, HasTask, AtSource, Sources
<1>7. CASE ~HasTask(t)' /\ UNCHANGED tasks
  BY <1>1, <1>3, <1>4, <1>7 DEF OwnRecords, OneTask, OneReader, OfSource
<1>8. CASE HasTask(t) /\ y.entry = thread[t].entry /\ y.task.record = thread[t].task.record
           /\ UNCHANGED tasks
  BY <1>1, <1>3, <1>4, <1>8 DEF OwnRecords, OneTask, OneReader, OfSource
<1>9. CASE Takes(t, y)
  <2>1. PICK e \in Sources : e = thread[t].entry /\ e <= entries
    BY <1>9, FeederAssumption DEF TypeInv, Takes, AtSource, Sources
  <2>2. \A i \in Sources : \A k \in DOMAIN tasks'[i] :
          \/ i # e /\ tasks'[i] = tasks[i]
          \/ /\ i = e /\ k \in Nat /\ k + 1 \in DOMAIN tasks[i]
             /\ tasks'[i][k] = tasks[i][k + 1] /\ k + 1 # 1
    BY <1>9, <2>1, TaskWas
  <2>3. 1 \in DOMAIN tasks[e] /\ Head(tasks[e]) = tasks[e][1]
    BY <1>9, <2>1, TailIsSeq DEF Takes, TypeInv
  <2>4. HasTask(t)' => y.entry = e /\ y.task = tasks[e][1]
    BY <1>5, <1>9, <2>1, <2>3 DEF Takes
  <2>5. OwnRecords'
    <3>1. \A i \in Sources : i > entries' => tasks'[i] = << >>
      BY <1>1, <1>9, <2>1, FeederAssumption DEF OwnRecords, Takes, TypeInv, Sources
    <3>2. \A i \in Sources : \A k \in DOMAIN tasks'[i] : OfSource(tasks'[i][k], i)
      BY <2>2 DEF OwnRecords, OfSource
    <3>3. \A u \in Threads : HasTask(u)' => OfSource(thread[u].task, thread[u].entry)'
      BY <1>3, <1>4, <2>1, <2>3, <2>4 DEF OwnRecords, OfSource
    <3> QED
      BY <3>1, <3>2, <3>3 DEF OwnRecords, OfSource
  <2>6. ASSUME NEW i \in Sources, NEW j \in Sources, NEW k \in DOMAIN tasks'[i],
               NEW l \in DOMAIN tasks'[j], tasks'[i][k].record = tasks'[j][l].record
        PROVE  i = j /\ k = l
    BY <2>2, <2>6 DEF OneTask
  <2>7. ASSUME NEW u \in Threads, NEW v \in Threads, HasTask(u)', HasTask(v)',
               thread'[u].task.record = thread'[v].task.record
        PROVE  u = v
    BY <1>3, <1>4, <2>1, <2>3, <2>4, <2>7 DEF OneTask, OneReader
  <2>8. ASSUME NEW u \in Threads, HasTask(u)', NEW i \in Sources, NEW k \in DOMAIN tasks'[i]
        PROVE  thread'[u].task.record # tasks'[i][k].record
    <3>1. CASE u = t
      BY <1>3, <2>1, <2>2, <2>3, <2>4, <2>8, <3>1 DEF OneTask
    <3>2. CASE u # t
      BY <1>3, <1>4, <2>2, <2>8, <3>2 DEF OneTask, OneReader
    <3> QED
      BY <3>1, <3>2
  <2> QED
    BY <2>5, <2>6, <2>7, <2>8 DEF OneTask, OneReader
<1>10. CASE /\ GivesBack(t, y)
            /\ tasks' = [tasks EXCEPT ![thread[t].entry] = <<thread[t].task>> \o tasks[thread[t].entry]]
  <2>1. PICK e \in Sources : e = thread[t].entry /\ e <= entries
    BY <1>6, <1>10 DEF GivesBack, HasTask
  <2>2. HasTask(t) /\ ~HasTask(t)'
    BY <1>5, <1>10 DEF GivesBack, HasTask
  <2>3. \A i \in Sources : \A k \in DOMAIN tasks'[i] :
          \/ i # e /\ tasks'[i] = tasks[i]
          \/ i = e /\ k = 1 /\ tasks'[i][k] = thread[t].task
          \/ i = e /\ k \in Nat /\ k - 1 \in DOMAIN tasks[i] /\ tasks'[i][k] = tasks[i][k - 1]
    <3> SUFFICES ASSUME NEW i \in Sources, NEW k \in DOMAIN tasks'[i]
                 PROVE  \/ i # e /\ tasks'[i] = tasks[i]
                        \/ i = e /\ k = 1 /\ tasks'[i][k] = thread[t].task
                        \/ /\ i = e /\ k \in Nat /\ k - 1 \in DOMAIN tasks[i]
                           /\ tasks'[i][k] = tasks[i][k - 1]
      OBVIOUS
    <3>1. tasks' = [tasks EXCEPT ![thread[t].entry] = <<thread[t].task>> \o tasks[thread[t].entry]]
      BY <1>10
    <3>2. \/ i # thread[t].entry /\ tasks'[i] = tasks[i]
          \/ i = thread[t].entry /\ k = 1 /\ tasks'[i][k] = thread[t].task
          \/ i = thread[t].entry /\ k \in Nat /\ k - 1 \in DOMAIN tasks[i]
             /\ tasks'[i][k] = tasks[i][k - 1]
      BY ONLY TypeInv, <3>1, TaskIs
    <3> QED
      BY <2>1, <3>2
  <2>4. OwnRecords'
    <3>1. \A i \in Sources : i > entries' => tasks'[i] = << >>
      BY <1>1, <1>10, <2>1, FeederAssumption DEF OwnRecords, TypeInv, Sources
    <3>2. \A i \in Sources : \A k \in DOMAIN tasks'[i] : OfSource(tasks'[i][k], i)
      BY <2>1, <2>2, <2>3 DEF OwnRecords, OfSource
    <3>3. \A u \in Threads : HasTask(u)' => OfSource(thread[u].task, thread[u].entry)'
      BY <1>3, <1>4, <2>2 DEF OwnRecords, OfSource
    <3> QED
      BY <3>1, <3>2, <3>3 DEF OwnRecords, OfSource
  <2>5. ASSUME NEW i \in Sources, NEW j \in Sources, NEW k \in DOMAIN tasks'[i],
               NEW l \in DOMAIN tasks'[j], tasks'[i][k].record = tasks'[j][l].record
        PROVE  i = j /\ k = l
    BY <2>1, <2>2, <2>3, <2>5 DEF OneTask, OneReader
  <2>6. ASSUME NEW u \in Threads, HasTask(u)', NEW i \in Sources, NEW k \in DOMAIN tasks'[i]
        PROVE  thread'[u].task.record # tasks'[i][k].record
    BY <1>3, <1>4, <2>2, <2>3, <2>6 DEF OneTask, OneReader
  <2>7. ASSUME NEW u \in Threads, NEW v \in Threads, HasTask(u)', HasTask(v)',
               thread'[u].task.record = thread'[v].task.record
        PROVE  u = v
    BY <1>3, <1>4, <2>2, <2>7 DEF OneTask, OneReader
  <2> QED
    BY <2>4, <2>5, <2>6, <2>7 DEF OneTask, OneReader
<1>11. CASE GoesOnly(t, y) \/ Passes(t, y)
  BY <1>5, <1>7, <1>11 DEF GoesOnly, Passes
<1>12. CASE Pushes(t, y)
  BY <1>8, <1>12 DEF Pushes, HasTask
<1>13. CASE GivesBack(t, y) /\ UNCHANGED tasks
  BY <1>5, <1>7, <1>13 DEF GivesBack
<1> QED
  BY <1>2, <1>9, <1>10, <1>11, <1>12, <1>13 DEF GivesBack

LEMMA TasksNext ==
  ASSUME TypeInv, OwnRecords, OneTask, Next
  PROVE  OwnRecords' /\ OneTask'
<1>1. CASE Start
  <2>1. UNCHANGED <<entries, tasks>> /\ \A t \in Threads : thread'[t].at = "while"
    BY <1>1 DEF Start, TypeInv
  <2> QED
    BY <2>1 DEF OwnRecords, OneTask, OneReader, OfSource, HasTask
<1>2. CASE UNCHANGED <<entries, thread, tasks>>
  BY <1>2 DEF OwnRecords, OneTask, OneReader, OfSource, HasTask
<1> QED
  BY <1>1, <1>2, OtherSteps, TasksSchedule, TasksStep DEF PopBatch

\* Whatever the threads do, no two of them read the same record at a time, and no
\* record that one of them reads is in a task queue: the stream of a record and
\* the cache of its task, which ReadBatchTensor changes without a lock
\* (feeder.cc:96-131), have one owner.
THEOREM OneReaderPerRecord == Spec => []OneReader
<1>1. Init => TypeInv /\ OwnRecords /\ OneTask
  BY TypeInit, TasksInit
<1>2. TypeInv /\ OwnRecords /\ OneTask /\ [Next]_vars => (TypeInv /\ OwnRecords /\ OneTask)'
  <2>1. ASSUME TypeInv, OwnRecords, OneTask, Next PROVE (TypeInv /\ OwnRecords /\ OneTask)'
    BY <2>1, TypeNext, TasksNext
  <2>2. ASSUME TypeInv, OwnRecords, OneTask, UNCHANGED vars
        PROVE  (TypeInv /\ OwnRecords /\ OneTask)'
    BY <2>2 DEF vars, TypeInv, AtSource, OwnRecords, OneTask, OneReader, OfSource, HasTask
  <2> QED
    BY <2>1, <2>2
<1>3. OneTask => OneReader
  BY DEF OneTask
<1> QED
  BY <1>1, <1>2, <1>3, PTL DEF Spec

-----------------------------------------------------------------------------
(* The batches of a source.                                                  *)

LEMMA NextMultiple ==
  ASSUME NEW n \in Nat
  PROVE  n * BatchSize \in Nat /\ (n + 1) * BatchSize = n * BatchSize + BatchSize
BY FeederAssumption

LEMMA SeqsOfOneSet ==
  ASSUME NEW p, IsSeq(p), NEW q, IsSeq(q), NEW x
  PROVE  \E S : p \in Seq(S) /\ q \in Seq(S) /\ x \in S
<1>1. PICK S : S = {p[k] : k \in 1..Len(p)} \cup {q[k] : k \in 1..Len(q)} \cup {x}
  OBVIOUS
<1>2. Len(p) \in Nat /\ p = [k \in 1..Len(p) |-> p[k]] /\ \A k \in 1..Len(p) : p[k] \in S
  BY <1>1 DEF IsSeq
<1>3. Len(q) \in Nat /\ q = [k \in 1..Len(q) |-> q[k]] /\ \A k \in 1..Len(q) : q[k] \in S
  BY <1>1 DEF IsSeq
<1>4. ASSUME NEW n \in Nat, NEW f, f = [k \in 1..n |-> f[k]], \A k \in 1..n : f[k] \in S
      PROVE  f \in Seq(S)
  BY <1>4
<1>5. p \in Seq(S) /\ q \in Seq(S) /\ x \in S
  BY <1>1, <1>2, <1>3, <1>4
<1> QED
  BY <1>5

LEMMA ConcatIsSeq ==
  ASSUME NEW p, IsSeq(p), NEW q, IsSeq(q)
  PROVE  /\ IsSeq(p \o q) /\ Len(p \o q) = Len(p) + Len(q)
         /\ \A k \in 1..(Len(p) + Len(q)) :
              (p \o q)[k] = IF k <= Len(p) THEN p[k] ELSE q[k - Len(p)]
<1>2. PICK S : p \in Seq(S) /\ q \in Seq(S)
  BY SeqsOfOneSet
<1>3. p \o q \in Seq(S) /\ Len(p \o q) = Len(p) + Len(q)
      /\ \A k \in 1..(Len(p) + Len(q)) :
           (p \o q)[k] = IF k <= Len(p) THEN p[k] ELSE q[k - Len(p)]
  BY <1>2, ConcatProperties
<1> QED
  BY <1>3, ElementsOfSeq

LEMMA AppendElements ==
  ASSUME NEW q, IsSeq(q), NEW x
  PROVE  /\ IsSeq(Append(q, x)) /\ Len(Append(q, x)) = Len(q) + 1 /\ Append(q, x)[Len(q) + 1] = x
         /\ \A k \in 1..Len(q) : Append(q, x)[k] = q[k]
<1>1. PICK S : q \in Seq(S) /\ x \in S
  <2>1. q \in Seq({q[k] : k \in 1..Len(q)} \cup {x})
    BY SeqOfElements
  <2> QED
    BY <2>1
<1>2. /\ Append(q, x) \in Seq(S) /\ Len(Append(q, x)) = Len(q) + 1
      /\ \A k \in 1..Len(q) : Append(q, x)[k] = q[k]
      /\ Append(q, x)[Len(q) + 1] = x
  BY <1>1, AppendProperties
<1> QED
  BY <1>2, ElementsOfSeq

\* The application takes the first batch of the queue, a thread adds the last.
LEMMA MoveHead ==
  ASSUME NEW p, IsSeq(p), NEW q, IsSeq(q), q # << >>
  PROVE  Append(p, Head(q)) \o Tail(q) = p \o q
<1>1. PICK S : p \in Seq(S) /\ q \in Seq(S)
  BY SeqsOfOneSet
<1>2. PICK h \in S : h = Head(q) /\ h = q[1]
  BY <1>1, HeadTailProperties, TailIsSeq
<1>3. PICK d : d = Tail(q) /\ d \in Seq(S)
  BY <1>1, HeadTailProperties
<1>4. PICK one : one = <<h>> /\ one \in Seq(S)
  <2>1. <<h>> \in Seq(S)
    OBVIOUS
  <2> QED
    BY <2>1
<1>5. q = one \o d
  <2>1. Len(q) \in Nat \ {0}
    BY TailIsSeq
  <2>2. 1 \in 1..Len(q) /\ Len(q) \in 1..Len(q) /\ 1 + 1 = 2
    BY <2>1
  <2>3. SubSeq(q, 1, Len(q)) = <<q[1]>> \o SubSeq(q, 1 + 1, Len(q))
    BY <1>1, <2>2, SubSeqRecursiveFirst, Zenon
  <2>4. SubSeq(q, 1, Len(q)) = q /\ Tail(q) = SubSeq(q, 2, Len(q))
    BY <1>1, SubSeqFull, TailIsSubSeq, Zenon
  <2> QED
    BY <1>2, <1>3, <1>4, <2>2, <2>3, <2>4, Zenon
<1>6. Append(p, h) = p \o one
  BY <1>1, <1>4, AppendIsConcat, Zenon
<1>7. (p \o one) \o d = p \o (one \o d)
  BY <1>1, <1>3, <1>4, ConcatAssociative
<1> QED
  BY <1>2, <1>3, <1>5, <1>6, <1>7, Zenon

LEMMA AppendBehind ==
  ASSUME NEW p, IsSeq(p), NEW q, IsSeq(q), NEW x, NEW u, u = Append(q, x), NEW v, v = p \o q
  PROVE  p \o u = Append(v, x)
<1>1. PICK S : p \in Seq(S) /\ q \in Seq(S) /\ x \in S
  BY SeqsOfOneSet
<1>2. PICK one : one = <<x>> /\ one \in Seq(S)
  <2>1. <<x>> \in Seq(S)
    BY <1>1
  <2> QED
    BY <2>1
<1>3. p \o q \in Seq(S)
  BY <1>1, ConcatProperties
<1>4. Append(q, x) = q \o one /\ Append(p \o q, x) = (p \o q) \o one
  BY <1>1, <1>2, <1>3, AppendIsConcat, Zenon
<1>5. (p \o q) \o one = p \o (q \o one)
  BY <1>1, <1>2, ConcatAssociative
<1> QED
  BY <1>4, <1>5, Zenon

\* The batches of a record among the first k of a sequence.
OfRecord(q, r, k) == {l \in 1..k : q[l].record = r}

\* Every batch holds the samples after the earlier batches of its record.
InOrder(q) ==
  \A k \in 1..Len(q) :
    LET n == Cardinality(OfRecord(q, q[k].record, k - 1))
    IN  q[k].rows = Samples(n * BatchSize, (n + 1) * BatchSize)

LEMMA OfRecordFinite ==
  ASSUME NEW q, NEW r, NEW k \in Nat
  PROVE  IsFiniteSet(OfRecord(q, r, k)) /\ Cardinality(OfRecord(q, r, k)) \in Nat
<1>1. IsFiniteSet(1..k) /\ OfRecord(q, r, k) \subseteq 1..k
  BY FS_Interval DEF OfRecord
<1>2. IsFiniteSet(OfRecord(q, r, k))
  BY <1>1, FS_Subset
<1> QED
  BY <1>2, FS_CardinalityType

\* One more batch.
LEMMA SameBefore ==
  ASSUME NEW q, IsSeq(q), NEW b, NEW r, NEW k \in 0..Len(q)
  PROVE  OfRecord(Append(q, b), r, k) = OfRecord(q, r, k)
<1>1. PICK n \in Nat : n = Len(q)
  BY DEF IsSeq
<1>2. \A l \in 1..n : Append(q, b)[l] = q[l]
  BY <1>1, AppendElements
<1>3. \A l \in 1..k : Append(q, b)[l] = q[l]
  BY <1>1, <1>2
<1>4. PICK p : p = Append(q, b)
  OBVIOUS
<1> QED
  BY <1>3, <1>4 DEF OfRecord

LEMMA OneMoreBatch ==
  ASSUME NEW q, IsSeq(q), NEW b, NEW r
  PROVE  Cardinality(OfRecord(Append(q, b), r, Len(Append(q, b)))) =
           Cardinality(OfRecord(q, r, Len(q))) + (IF b.record = r THEN 1 ELSE 0)
<1>1. PICK n \in Nat : n = Len(q)
  BY DEF IsSeq
<1>2. PICK p : p = Append(q, b) /\ Len(p) = n + 1 /\ p[n + 1] = b
  <2>1. Len(Append(q, b)) = Len(q) + 1 /\ Append(q, b)[Len(q) + 1] = b
    BY AppendElements
  <2> QED
    BY <1>1, <2>1
<1>3. OfRecord(p, r, n) = OfRecord(q, r, n)
  <2>1. n \in 0..Len(q)
    BY <1>1
  <2> QED
    BY <1>2, <2>1, SameBefore, Zenon
<1>4. IsFiniteSet(OfRecord(p, r, n)) /\ Cardinality(OfRecord(p, r, n)) \in Nat
  BY OfRecordFinite
<1>5. Cardinality(OfRecord(p, r, n + 1)) =
        Cardinality(OfRecord(p, r, n)) + (IF b.record = r THEN 1 ELSE 0)
  <2>1. CASE b.record = r
    <3>1. OfRecord(p, r, n + 1) = OfRecord(p, r, n) \cup {n + 1}
      BY <1>2, <2>1 DEF OfRecord
    <3>2. n + 1 \notin OfRecord(p, r, n)
      BY DEF OfRecord
    <3>3. Cardinality(OfRecord(p, r, n + 1)) = Cardinality(OfRecord(p, r, n)) + 1
      BY <1>4, <3>1, <3>2, FS_AddElement
    <3> QED
      BY <2>1, <3>3
  <2>2. CASE b.record # r
    <3>1. OfRecord(p, r, n + 1) = OfRecord(p, r, n)
      BY <1>2, <2>2 DEF OfRecord
    <3> QED
      BY <1>4, <2>2, <3>1
  <2> QED
    BY <2>1, <2>2
<1> QED
  BY <1>1, <1>2, <1>3, <1>5, Zenon

LEMMA OneMoreInOrder ==
  ASSUME NEW q, IsSeq(q), InOrder(q), NEW b, NEW p, p = Append(q, b),
         NEW n \in Nat, n = Cardinality(OfRecord(q, b.record, Len(q))),
         b.rows = Samples(n * BatchSize, (n + 1) * BatchSize)
  PROVE  InOrder(p)
<1>1. PICK m \in Nat : m = Len(q)
  BY DEF IsSeq
<1>2. Len(p) = m + 1 /\ p[m + 1] = b /\ \A k \in 1..m : p[k] = q[k]
  BY <1>1, AppendElements
<1>3. \A r : \A k \in 0..m : OfRecord(p, r, k) = OfRecord(q, r, k)
  <2>1. \A r : \A k \in 0..Len(q) : OfRecord(p, r, k) = OfRecord(q, r, k)
    BY SameBefore, Zenon
  <2> QED
    BY <1>1, <2>1
<1>4. ASSUME NEW k \in 1..(m + 1), NEW c, c = Cardinality(OfRecord(p, p[k].record, k - 1))
      PROVE  p[k].rows = Samples(c * BatchSize, (c + 1) * BatchSize)
  <2>1. k - 1 \in 0..m
    OBVIOUS
  <2>2. CASE k = m + 1
    <3>1. k - 1 = m /\ p[k] = b
      BY <1>2, <2>2
    <3>2. c = n
      BY <1>1, <1>3, <1>4, <2>1, <3>1
    <3> QED
      BY <3>1, <3>2
  <2>3. CASE k \in 1..m
    <3>1. p[k] = q[k]
      BY <1>2, <2>3
    <3>2. OfRecord(p, p[k].record, k - 1) = OfRecord(q, q[k].record, k - 1)
      BY <1>3, <2>1, <3>1
    <3>3. c = Cardinality(OfRecord(q, q[k].record, k - 1))
      BY <1>4, <3>2
    <3> QED
      BY <1>1, <2>3, <3>1, <3>3 DEF InOrder
  <2>4. k = m + 1 \/ k \in 1..m
    OBVIOUS
  <2> QED
    BY <2>2, <2>3, <2>4, Zenon
<1> QED
  BY <1>2, <1>4 DEF InOrder

-----------------------------------------------------------------------------
(* Records.                                                                  *)

LEMMA PlannedRecord ==
  ASSUME NEW i \in Sources, NEW k \in DOMAIN Plans[i]
  PROVE  Plans[i][k] \in Records
<1>1. Plans[i] \in Seq(Records)
  BY FeederAssumption DEF Sources
<1> QED
  BY <1>1

LEMMA SampleCountType ==
  ASSUME NEW i \in Sources, NEW k \in DOMAIN Plans[i]
  PROVE  SampleCount[Plans[i][k]] \in Nat
<1>1. PICK r \in Records : r = Plans[i][k]
  BY PlannedRecord
<1>2. Counts[r] \in Seq(Nat \ {0})
  BY FeederAssumption
<1>3. CountAfter(r, Len(Counts[r])) \in Nat
  BY <1>2, LenProperties DEF CountAfter
<1> QED
  BY <1>1, <1>3 DEF SampleCount

\* The items of a record hold all its samples.
LEMMA RowsAdjoin ==
  ASSUME NEW r \in Records
  PROVE  /\ Rows(r) \in Seq(Seq(Nat)) /\ Adjoining(Rows(r), 0, SampleCount[r])
<1>1. Counts[r] \in Seq(Nat \ {0}) /\ DOMAIN Counts[r] = 1..Len(Counts[r])
  BY FeederAssumption, LenProperties
<1>2. PICK n \in Nat : n = Len(Counts[r])
  BY <1>1, LenProperties
<1>3. \A k \in 1..n : Counts[r][k] \in Nat /\ Counts[r][k] > 0
  BY <1>1, <1>2
<1>4. \A k, l \in 1..n : k < l => Counts[r][k] < Counts[r][l]
  BY <1>1, <1>2, FeederAssumption
<1>5. PICK upto : upto = [k \in 0..n |-> CountAfter(r, k)]
  OBVIOUS
<1>6. \A k \in 0..n : upto[k] = IF k = 0 THEN 0 ELSE Counts[r][k]
  BY <1>5 DEF CountAfter
<1>7. SampleCount[r] = upto[n]
  BY <1>2, <1>5 DEF SampleCount
<1>8. \A k \in 0..n : upto[k] \in Nat /\ upto[k] <= upto[n]
  <2> SUFFICES ASSUME NEW k \in 0..n PROVE upto[k] \in Nat /\ upto[k] <= upto[n]
    OBVIOUS
  <2>1. upto[k] \in Nat /\ upto[n] \in Nat
    BY <1>3, <1>6
  <2>2. CASE k = 0 \/ k = n
    BY <1>6, <2>1, <2>2
  <2>3. CASE k # 0 /\ k # n
    <3>1. k \in 1..n /\ n \in 1..n /\ k < n /\ n # 0 /\ n \in 0..n
      BY <2>3
    <3>2. Counts[r][k] < Counts[r][n]
      BY <1>4, <3>1
    <3> QED
      BY <1>6, <2>1, <2>3, <3>1, <3>2
  <2> QED
    BY <2>2, <2>3
<1>9. upto \in [0..n -> 0..upto[n]]
  <2>1. \A k \in 0..n : upto[k] \in 0..upto[n]
    BY <1>8
  <2> QED
    BY <1>5, <2>1
<1>10. \A k \in 1..n : upto[k - 1] <= upto[k]
  <2> SUFFICES ASSUME NEW k \in 1..n PROVE upto[k - 1] <= upto[k]
    OBVIOUS
  <2>1. k - 1 \in 0..n /\ k \in 0..n
    OBVIOUS
  <2>2. CASE k = 1
    BY <1>6, <1>8, <2>1, <2>2
  <2>3. CASE k # 1
    <3>1. k - 1 \in 1..n /\ k - 1 < k
      BY <2>3
    <3>2. Counts[r][k - 1] < Counts[r][k] /\ Counts[r][k] \in Nat /\ Counts[r][k - 1] \in Nat
      BY <1>3, <1>4, <3>1
    <3> QED
      BY <1>6, <2>1, <3>1, <3>2
  <2> QED
    BY <2>2, <2>3
<1>11. PICK items : items = Rows(r)
  OBVIOUS
<1>12. \A k \in 1..n : items[k] = Samples(upto[k - 1], upto[k])
  <2>1. \A k \in 1..n : items[k] = Samples(CountAfter(r, k - 1), CountAfter(r, k))
    BY <1>1, <1>2, <1>11 DEF Rows
  <2>2. \A k \in 1..n : k - 1 \in 0..n /\ k \in 0..n
    OBVIOUS
  <2> QED
    BY <1>5, <2>1, <2>2
<1>13. items \in Seq(Seq(Nat)) /\ Len(items) = n
  <2>1. \A k \in 1..n : items[k] \in Seq(Nat)
    <3> SUFFICES ASSUME NEW k \in 1..n PROVE items[k] \in Seq(Nat)
      OBVIOUS
    <3>1. k - 1 \in 0..n /\ k \in 0..n
      OBVIOUS
    <3>2. upto[k - 1] \in Nat /\ upto[k] \in Nat /\ upto[k - 1] <= upto[k]
      BY <1>8, <1>10, <3>1
    <3>3. Samples(upto[k - 1], upto[k]) \in Seq(Nat)
      BY <3>2, SamplesType
    <3> QED
      BY <1>12, <3>3
  <2>2. items = [k \in 1..n |-> items[k]]
    BY <1>1, <1>2, <1>11 DEF Rows
  <2> QED
    BY <2>1, <2>2
<1>14. upto[0] = 0
  BY <1>6
<1>15. Adjoining(items, 0, upto[n])
  BY <1>9, <1>10, <1>12, <1>13, <1>14, AdjoiningIs
<1> QED
  BY <1>7, <1>11, <1>13, <1>15

-----------------------------------------------------------------------------
(* The tasks of a source.                                                    *)

FeederInv ==
  /\ TypeInv /\ OwnRecords /\ OneTask /\ AppInv /\ Untouched
  /\ TasksStand /\ NoneLost /\ SamplesInOrder

LEMMA InTasks ==
  ASSUME NEW i, NEW task
  PROVE  task \in Tasks(i) <=>
           \/ task \in ToSet(tasks[i])
           \/ \E t \in Threads : HasTask(t) /\ thread[t].entry = i /\ thread[t].task = task
BY DEF Tasks

LEMMA TailElements ==
  ASSUME NEW q, IsSeq(q), q # << >>
  PROVE  ToSet(q) = {Head(q)} \cup ToSet(Tail(q))
<1>1. /\ IsSeq(Tail(q)) /\ Len(q) \in Nat \ {0} /\ Len(Tail(q)) = Len(q) - 1
      /\ Head(q) = q[1]
      /\ \A k \in DOMAIN Tail(q) : k \in Nat /\ k + 1 \in DOMAIN q /\ Tail(q)[k] = q[k + 1]
  BY TailIsSeq
<1>2. DOMAIN q = 1..Len(q) /\ DOMAIN Tail(q) = 1..(Len(q) - 1)
  BY <1>1, SeqOfElements
<1>0. PICK n \in Nat \ {0} : n = Len(q)
  BY <1>1
<1>3. PICK d : d = Tail(q) /\ DOMAIN q = 1..n /\ DOMAIN d = 1..(n - 1)
               /\ \A k \in 1..(n - 1) : d[k] = q[k + 1]
  BY <1>0, <1>1, <1>2
<1>4. ASSUME NEW k \in 1..n PROVE q[k] = q[1] \/ \E l \in 1..(n - 1) : q[k] = d[l]
  <2>1. CASE k = 1
    BY <2>1
  <2>2. CASE k # 1
    <3>1. k - 1 \in 1..(n - 1) /\ (k - 1) + 1 = k
      BY <2>2
    <3>2. q[k] = d[k - 1]
      BY <1>3, <3>1
    <3> QED
      BY <3>1, <3>2
  <2> QED
    BY <2>1, <2>2
<1>5. \A k \in 1..(n - 1) : k + 1 \in 1..n
  OBVIOUS
<1>6. 1 \in 1..n
  OBVIOUS
<1>7. {q[k] : k \in 1..n} = {q[1]} \cup {d[k] : k \in 1..(n - 1)}
  <2>1. ASSUME NEW x \in {q[k] : k \in 1..n} PROVE x \in {q[1]} \cup {d[k] : k \in 1..(n - 1)}
    <3>1. PICK k \in 1..n : x = q[k]
      BY <2>1, Zenon
    <3>2. q[k] = q[1] \/ \E l \in 1..(n - 1) : q[k] = d[l]
      BY <1>4
    <3> QED
      BY <3>1, <3>2, Zenon
  <2>2. ASSUME NEW x \in {d[k] : k \in 1..(n - 1)} PROVE x \in {q[k] : k \in 1..n}
    <3>1. PICK k \in 1..(n - 1) : x = d[k]
      BY <2>2, Zenon
    <3>2. k + 1 \in 1..n /\ d[k] = q[k + 1]
      BY <1>3, <1>5
    <3> QED
      BY <3>1, <3>2, Zenon
  <2>3. q[1] \in {q[k] : k \in 1..n}
    BY <1>6, Zenon
  <2> QED
    BY <2>1, <2>2, <2>3, Zenon
<1>8. ToSet(q) = {q[k] : k \in 1..n} /\ ToSet(d) = {d[k] : k \in 1..(n - 1)}
  BY <1>3 DEF ToSet
<1>9. ToSet(q) = {q[1]} \cup ToSet(d)
  BY <1>7, <1>8
<1> QED
  BY <1>1, <1>3, <1>9, Zenon

LEMMA PushElements ==
  ASSUME NEW q, IsSeq(q), NEW x
  PROVE  ToSet(<<x>> \o q) = {x} \cup ToSet(q)
<1>1. PICK p : p = <<x>> \o q
  OBVIOUS
<1>2. PICK n \in Nat : n = Len(q) /\ Len(p) = n + 1 /\ DOMAIN q = 1..n /\ DOMAIN p = 1..(n + 1)
  <2>1. IsSeq(p) /\ Len(p) = Len(q) + 1
    BY <1>1, PushIsSeq
  <2> QED
    BY <2>1, SeqOfElements DEF IsSeq
<1>3. \A k \in 1..(n + 1) : \/ k = 1 /\ p[k] = x
                            \/ k - 1 \in 1..n /\ k \in Nat /\ p[k] = q[k - 1]
  BY <1>1, <1>2, PushIsSeq
<1>4. ASSUME NEW k \in 1..n PROVE \E l \in 1..(n + 1) : q[k] = p[l]
  <2>1. k + 1 \in 1..(n + 1) /\ (k + 1) - 1 = k /\ k + 1 # 1
    OBVIOUS
  <2>2. p[k + 1] = q[k]
    BY <1>3, <2>1
  <2> QED
    BY <2>1, <2>2
<1>5. 1 \in 1..(n + 1) /\ ~(1 - 1 \in 1..n)
  OBVIOUS
<1>6. p[1] = x
  BY <1>3, <1>5
<1>7. {p[k] : k \in 1..(n + 1)} = {x} \cup {q[k] : k \in 1..n}
  BY <1>3, <1>4, <1>5, <1>6
<1> QED
  BY <1>1, <1>2, <1>7 DEF ToSet

\* What holds of the batches so far of every source.
LEMMA ProducedIs ==
  ASSUME TypeInv, AppInv, NEW i \in Sources
  PROVE  IsSeq(Produced(i)) /\ Len(Produced(i)) \in Nat /\ DOMAIN Produced(i) = 1..Len(Produced(i))
<1>1. IsSeq(taken[i]) /\ IsSeq(batches[i])
  BY DEF TypeInv, AppInv
<1>2. IsSeq(Produced(i))
  BY <1>1, ConcatIsSeq DEF Produced
<1> QED
  BY <1>2, SeqOfElements DEF IsSeq

LEMMA SoFarIs ==
  ASSUME TypeInv, AppInv, NEW i \in Sources, NEW r
  PROVE  /\ BatchesSoFar(i, r) = Cardinality(OfRecord(Produced(i), r, Len(Produced(i))))
         /\ BatchesSoFar(i, r) \in Nat
<1>1. Len(Produced(i)) \in Nat
  BY ProducedIs
<1>2. BatchesSoFar(i, r) = Cardinality(OfRecord(Produced(i), r, Len(Produced(i))))
  BY DEF BatchesSoFar, BatchesOf, OfRecord
<1> QED
  BY <1>1, <1>2, OfRecordFinite

LEMMA OrderIs ==
  ASSUME TypeInv, AppInv
  PROVE  SamplesInOrder <=> \A i \in Sources : InOrder(Produced(i))
<1>1. \A i \in Sources : DOMAIN Produced(i) = 1..Len(Produced(i))
  BY ProducedIs
<1> QED
  BY <1>1 DEF SamplesInOrder, InOrder, BatchesOf, OfRecord

\* Steps that read no samples: tasks may be dropped, but none with a full batch.
LEMMA KeepsSamples ==
  ASSUME TypeInv, AppInv, TasksStand, NoneLost, SamplesInOrder,
         UNCHANGED <<entries, stream>>, \A i \in Sources : Produced(i)' = Produced(i),
         \A i \in Sources : \A task \in Tasks(i)' : task \in Tasks(i),
         \A i \in Sources : \A task \in Tasks(i) : task \in Tasks(i)' \/ ~Enough(task),
         \A t \in Threads : thread'[t].at = "assemble" => Enough(thread'[t].task)
  PROVE  TasksStand' /\ NoneLost' /\ SamplesInOrder'
<1>1. \A i \in Sources : \A r : BatchesSoFar(i, r)' = BatchesSoFar(i, r)
  BY DEF BatchesSoFar, BatchesOf
<1>2. SamplesInOrder'
  BY DEF SamplesInOrder, BatchesOf
<1>3. \A i \in Sources : \A task : Stands(task, i) => Stands(task, i)'
  BY <1>1 DEF Stands
<1>4. TasksStand'
  BY <1>3 DEF TasksStand, Enough
<1>5. ASSUME NEW i \in 1..entries, NEW k \in DOMAIN Plans[i]
      PROVE  \/ \E task \in Tasks(i)' : task.record = Plans[i][k]
             \/ (BatchesSoFar(i, Plans[i][k])' + 1) * BatchSize > SampleCount[Plans[i][k]]
  <2>1. i \in Sources
    BY FeederAssumption DEF TypeInv, Sources
  <2>2. PICK r : r = Plans[i][k]
    OBVIOUS
  <2>3. CASE (BatchesSoFar(i, r) + 1) * BatchSize > SampleCount[r]
    BY <1>1, <2>1, <2>2, <2>3
  <2>4. CASE \E task \in Tasks(i) : task.record = r
    <3>1. PICK task \in Tasks(i) : task.record = r
      BY <2>4
    <3>2. CASE task \in Tasks(i)'
      BY <2>2, <3>1, <3>2
    <3>3. CASE ~Enough(task)
      <4>1. task.curr = BatchesSoFar(i, r) * BatchSize
        BY <2>1, <3>1 DEF TasksStand, Stands
      <4>2. BatchesSoFar(i, r) \in Nat
        BY <2>1, SoFarIs
      <4>3. (BatchesSoFar(i, r) + 1) * BatchSize = task.curr + BatchSize
            /\ task.curr + BatchSize \in Nat
        BY <4>1, <4>2, NextMultiple, FeederAssumption
      <4>4. SampleCount[r] \in Nat
        BY <2>1, <2>2, SampleCountType
      <4>5. ~(task.curr + BatchSize <= SampleCount[r])
        BY <3>1, <3>3 DEF Enough
      <4>6. task.curr + BatchSize > SampleCount[r]
        BY <4>3, <4>4, <4>5
      <4> QED
        BY <2>3, <4>3, <4>6
    <3> QED
      BY <2>1, <3>2, <3>3
  <2> QED
    BY <2>2, <2>3, <2>4 DEF NoneLost
<1>6. NoneLost'
  BY <1>5 DEF NoneLost
<1> QED
  BY <1>2, <1>4, <1>6

-----------------------------------------------------------------------------
(* The steps of a thread and the samples.                                    *)

LEMMA StepKeeps ==
  ASSUME NEW t \in Threads, Step(t)
  PROVE  /\ UNCHANGED <<entries, taken, app>> /\ thread[t].at \notin {"none", "exited"}
         /\ thread[t].at # "assemble" => UNCHANGED <<stream, batches>>
BY DEF Step, Loop, TestFull, PopTask, PushBatch, PushTask

\* A thread without a task has no record.
LEMMA NoRecordStep ==
  ASSUME TypeInv, Untouched, NEW t \in Threads, Step(t), NEW u \in Threads, ~HasTask(u)'
  PROVE  thread'[u].task.record = "none"
<1>1. /\ thread = [v \in Threads |-> thread[v]]
      /\ thread[t] = [at |-> thread[t].at, entry |-> thread[t].entry, task |-> thread[t].task]
  BY DEF TypeInv
<1>2. \A v \in Threads : ~HasTask(v) => thread[v].task.record = "none"
  BY DEF Untouched
<1>3. NoTask.record = "none"
  BY DEF NoTask
<1>4. CASE thread' = NextEntry(t)
  <2>1. PICK y : thread' = [thread EXCEPT ![t] = y] /\ y.task = NoTask
    BY <1>4, GoesOn
  <2>2. \A v \in Threads : thread'[v] = IF v = t THEN y ELSE thread[v]
    BY <1>1, <2>1
  <2> QED
    BY <1>2, <1>3, <2>1, <2>2 DEF HasTask
<1>5. CASE \E a : thread' = [thread EXCEPT ![t].at = a] /\ ~HasTask(t)
  <2>1. PICK a : thread' = [thread EXCEPT ![t].at = a] /\ ~HasTask(t)
    BY <1>5
  <2>2. PICK y : y = [thread[t] EXCEPT !.at = a]
    OBVIOUS
  <2>3. thread' = [thread EXCEPT ![t] = y]
    BY <1>1, <2>1, <2>2
  <2>4. y.task = thread[t].task
    BY <1>1, <2>2
  <2>5. \A v \in Threads : thread'[v] = IF v = t THEN y ELSE thread[v]
    BY <1>1, <2>3
  <2> QED
    BY <1>2, <2>1, <2>4, <2>5 DEF HasTask
<1>6. CASE \E y : thread' = [thread EXCEPT ![t] = y] /\ y.at \in {"assemble", "return"}
  <2>1. PICK y : thread' = [thread EXCEPT ![t] = y] /\ y.at \in {"assemble", "return"}
    BY <1>6
  <2>2. \A v \in Threads : thread'[v] = IF v = t THEN y ELSE thread[v]
    BY <1>1, <2>1
  <2> QED
    BY <1>2, <2>1, <2>2 DEF HasTask
<1>7. CASE Loop(t) \/ TestFull(t)
  BY <1>4, <1>5, <1>7 DEF Loop, TestFull, HasTask
<1>8. CASE PopTask(t)
  <2>1. PICK y : y = [at |-> "assemble", entry |-> thread[t].entry, task |-> Head(tasks[thread[t].entry])]
    OBVIOUS
  <2>2. y.at = "assemble"
    BY <2>1
  <2>3. thread' = NextEntry(t) \/ thread' = [thread EXCEPT ![t] = y]
    BY <1>8, <2>1 DEF PopTask
  <2> QED
    BY <1>4, <1>6, <2>2, <2>3
<1>9. CASE PushBatch(t)
  <2>1. PICK task : thread' = [thread EXCEPT ![t] =
                      [at |-> "return", entry |-> thread[t].entry, task |-> task]]
    BY <1>9 DEF PushBatch
  <2>2. PICK y : y = [at |-> "return", entry |-> thread[t].entry, task |-> task]
    OBVIOUS
  <2>3. y.at = "return" /\ thread' = [thread EXCEPT ![t] = y]
    BY <2>1, <2>2
  <2>4. y.at \in {"assemble", "return"}
    BY <2>3
  <2> QED
    BY <1>6, <2>3, <2>4, Zenon
<1>10. CASE PushTask(t)
  BY <1>4, <1>10 DEF PushTask
<1> QED
  BY <1>7, <1>8, <1>9, <1>10 DEF Step

LEMMA TasksBefore ==
  ASSUME NEW t \in Threads, NEW i \in Sources, NEW z
  PROVE  z \in Tasks(i) <=>
           \/ z \in ToSet(tasks[i])
           \/ HasTask(t) /\ thread[t].entry = i /\ thread[t].task = z
           \/ \E u \in Threads \ {t} : HasTask(u) /\ thread[u].entry = i /\ thread[u].task = z
BY InTasks

\* A thread that assembles no batch loses no task with a full batch.
LEMMA QuietStep ==
  ASSUME TypeInv, OwnRecords, AppInv, TasksStand, NEW t \in Threads, Step(t), thread[t].at # "assemble"
  PROVE  /\ \A i \in Sources : \A task \in Tasks(i)' : task \in Tasks(i)
         /\ \A i \in Sources : \A task \in Tasks(i) : task \in Tasks(i)' \/ ~Enough(task)
         /\ \A u \in Threads : thread'[u].at = "assemble" => Enough(thread'[u].task)
<1>1. PICK y : /\ thread' = [thread EXCEPT ![t] = y] /\ ThreadOK(y)
               /\ \/ GoesOnly(t, y) \/ Passes(t, y) \/ Takes(t, y) \/ Pushes(t, y)
                  \/ GivesBack(t, y)
  BY StepShape
<1>2. \A u \in Threads : thread'[u] = IF u = t THEN y ELSE thread[u]
  BY <1>1 DEF TypeInv
<1>3. \A u \in Threads : thread[u].at = "assemble" => Enough(thread[u].task)
  BY DEF TasksStand
<1>7. \A i \in Sources : \A z :
        z \in Tasks(i)' <=>
          \/ z \in ToSet(tasks'[i])
          \/ y.at \in {"assemble", "return"} /\ y.entry = i /\ y.task = z
          \/ \E u \in Threads \ {t} : HasTask(u) /\ thread[u].entry = i /\ thread[u].task = z
  <2> SUFFICES ASSUME NEW i \in Sources, NEW z
               PROVE  z \in Tasks(i)' <=>
                        \/ z \in ToSet(tasks'[i])
                        \/ y.at \in {"assemble", "return"} /\ y.entry = i /\ y.task = z
                        \/ \E u \in Threads \ {t} :
                             HasTask(u) /\ thread[u].entry = i /\ thread[u].task = z
    OBVIOUS
  <2>1. z \in Tasks(i)' <=>
          \/ z \in ToSet(tasks'[i])
          \/ \E u \in Threads : HasTask(u)' /\ thread'[u].entry = i /\ thread'[u].task = z
    BY DEF Tasks
  <2>2. \A u \in Threads : HasTask(u)' <=> thread'[u].at \in {"assemble", "return"}
    BY DEF HasTask
  <2> QED
    BY <1>2, <2>1, <2>2 DEF HasTask
<1>8. \A i \in Sources : \A z :
        z \in Tasks(i) <=>
          \/ z \in ToSet(tasks[i])
          \/ HasTask(t) /\ thread[t].entry = i /\ thread[t].task = z
          \/ \E u \in Threads \ {t} : HasTask(u) /\ thread[u].entry = i /\ thread[u].task = z
  BY ONLY TasksBefore, Zenon
<1>4. CASE GoesOnly(t, y) \/ Passes(t, y)
  <2>1. ~HasTask(t) /\ y.at \notin {"assemble", "return"} /\ UNCHANGED tasks
    BY <1>4 DEF GoesOnly, Passes, HasTask
  <2>2. \A i \in Sources : \A z : z \in Tasks(i)' <=> z \in Tasks(i)
    BY <1>7, <1>8, <2>1
  <2> QED
    BY <1>2, <1>3, <2>1, <2>2
<1>5. CASE Takes(t, y)
  <2>1. PICK e \in Sources : e = thread[t].entry
    BY <1>5, FeederAssumption DEF TypeInv, Takes, AtSource, Sources
  <2>2. PICK q : q = tasks[e] /\ IsSeq(q) /\ q # << >>
    BY <1>5, <2>1 DEF Takes, TypeInv
  <2>3. PICK h, d : h = Head(q) /\ d = Tail(q) /\ ToSet(q) = {h} \cup ToSet(d)
    <3>1. ToSet(q) = {Head(q)} \cup ToSet(Tail(q))
      BY <2>2, TailElements
    <3> QED
      BY <3>1
  <2>4. tasks'[e] = d /\ \A i \in Sources : i # e => tasks'[i] = tasks[i]
    BY <1>5, <2>1, <2>2, <2>3 DEF Takes, TypeInv
  <2>5. ~HasTask(t)
    BY <1>5 DEF Takes, HasTask
  <2>6. PopTask(t)
    BY <1>5 DEF Step, Loop, TestFull, PushBatch, PushTask, Takes
  <2>7. CASE Enough(h)
    <3>1. PICK x : x = [at |-> "assemble", entry |-> e, task |-> h]
      OBVIOUS
    <3>2. thread' = [thread EXCEPT ![t] = x]
      BY <2>1, <2>2, <2>3, <2>6, <2>7, <3>1 DEF PopTask
    <3>3. y = x /\ y.at = "assemble" /\ y.entry = e /\ y.task = h
      BY <1>2, <3>1, <3>2 DEF TypeInv
    <3>4. \A i \in Sources : \A z : z \in Tasks(i)' <=> z \in Tasks(i)
      <4> SUFFICES ASSUME NEW i \in Sources, NEW z PROVE z \in Tasks(i)' <=> z \in Tasks(i)
        OBVIOUS
      <4>1. z \in Tasks(i)' <=>
              \/ z \in ToSet(tasks'[i]) \/ (e = i /\ h = z)
              \/ \E u \in Threads \ {t} : HasTask(u) /\ thread[u].entry = i /\ thread[u].task = z
        BY <1>7, <3>3
      <4>2. z \in Tasks(i) <=>
              \/ z \in ToSet(tasks[i])
              \/ \E u \in Threads \ {t} : HasTask(u) /\ thread[u].entry = i /\ thread[u].task = z
        BY <1>8, <2>5
      <4>3. z \in ToSet(tasks[i]) <=> z \in ToSet(tasks'[i]) \/ (e = i /\ h = z)
        BY <2>2, <2>3, <2>4
      <4> QED
        BY <4>1, <4>2, <4>3
    <3> QED
      BY <1>2, <1>3, <2>7, <3>3, <3>4
  <2>8. CASE ~Enough(h)
    <3>1. thread' = NextEntry(t)
      BY <2>1, <2>2, <2>3, <2>6, <2>8 DEF PopTask
    <3>2. y.at \notin {"assemble", "return"}
      <4>1. PICK x : thread' = [thread EXCEPT ![t] = x] /\ x.at \in {"entry", "while"}
        BY <3>1, GoesOn
      <4>2. y = x
        BY <1>2, <4>1 DEF TypeInv
      <4> QED
        BY <4>1, <4>2
    <3>3. \A i \in Sources : \A z :
            /\ z \in Tasks(i)' => z \in Tasks(i)
            /\ z \in Tasks(i) => z \in Tasks(i)' \/ z = h
      <4> SUFFICES ASSUME NEW i \in Sources, NEW z
                   PROVE  /\ z \in Tasks(i)' => z \in Tasks(i)
                          /\ z \in Tasks(i) => z \in Tasks(i)' \/ z = h
        OBVIOUS
      <4>1. z \in Tasks(i)' <=>
              \/ z \in ToSet(tasks'[i])
              \/ \E u \in Threads \ {t} : HasTask(u) /\ thread[u].entry = i /\ thread[u].task = z
        BY <1>7, <3>2
      <4>2. z \in Tasks(i) <=>
              \/ z \in ToSet(tasks[i])
              \/ \E u \in Threads \ {t} : HasTask(u) /\ thread[u].entry = i /\ thread[u].task = z
        BY <1>8, <2>5
      <4>3. z \in ToSet(tasks[i]) <=> z \in ToSet(tasks'[i]) \/ (e = i /\ h = z)
        BY <2>2, <2>3, <2>4
      <4> QED
        BY <4>1, <4>2, <4>3
    <3> QED
      BY <1>2, <1>3, <2>8, <3>2, <3>3
  <2> QED
    BY <2>7, <2>8
<1>6. CASE GivesBack(t, y)
  <2>1. PICK e \in Sources : e = thread[t].entry
    BY <1>6, FeederAssumption DEF TypeInv, GivesBack, AtSource, Sources
  <2>2. PICK w : w = thread[t].task
    OBVIOUS
  <2>3. HasTask(t) /\ y.at \notin {"assemble", "return"}
    BY <1>6 DEF GivesBack, HasTask
  <2>4. PushTask(t)
    BY <1>6 DEF Step, Loop, TestFull, PopTask, PushBatch, GivesBack
  <2>5. \A i \in Sources : \A z :
          /\ z \in Tasks(i)' <=>
               \/ z \in ToSet(tasks'[i])
               \/ \E u \in Threads \ {t} : HasTask(u) /\ thread[u].entry = i /\ thread[u].task = z
          /\ z \in Tasks(i) <=>
               \/ z \in ToSet(tasks[i]) \/ (e = i /\ w = z)
               \/ \E u \in Threads \ {t} : HasTask(u) /\ thread[u].entry = i /\ thread[u].task = z
    BY <1>7, <1>8, <2>1, <2>2, <2>3
  <2>6. CASE Unfinished(w)
    <3>1. tasks' = [tasks EXCEPT ![e] = <<w>> \o tasks[e]]
      BY <2>1, <2>2, <2>4, <2>6 DEF PushTask
    <3>2. tasks'[e] = <<w>> \o tasks[e] /\ \A i \in Sources : i # e => tasks'[i] = tasks[i]
      BY <3>1 DEF TypeInv
    <3>3. ToSet(tasks'[e]) = {w} \cup ToSet(tasks[e])
      BY <3>2, PushElements DEF TypeInv
    <3> QED
      BY <1>2, <1>3, <2>3, <2>5, <3>2, <3>3
  <2>7. CASE ~Unfinished(w)
    <3>1. UNCHANGED tasks
      BY <2>2, <2>4, <2>7 DEF PushTask
    <3>2. ~Enough(w)
      <4>1. w \in Tasks(e)
        BY <2>5
      <4>2. w.curr \in Nat
        <5>1. w.curr = BatchesSoFar(e, w.record) * BatchSize
          BY <4>1 DEF TasksStand, Stands
        <5>2. BatchesSoFar(e, w.record) \in Nat
          BY SoFarIs
        <5> QED
          BY <5>1, <5>2, NextMultiple
      <4>3. SampleCount[w.record] \in Nat
        <5>1. PICK k \in DOMAIN Plans[e] : w.record = Plans[e][k]
          BY <2>1, <2>2, <2>3 DEF OwnRecords, OfSource
        <5> QED
          BY <5>1, SampleCountType
      <4> QED
        BY <2>7, <4>2, <4>3, FeederAssumption DEF Unfinished, Enough
    <3> QED
      BY <1>2, <1>3, <2>3, <2>5, <3>1, <3>2
  <2> QED
    BY <2>6, <2>7
<1> QED
  BY <1>1, <1>4, <1>5, <1>6 DEF Pushes

\* A thread pushes the batch it has assembled.
LEMMA PushStep ==
  ASSUME FeederInv, NEW t \in Threads, PushBatch(t)
  PROVE  /\ TasksStand' /\ NoneLost' /\ SamplesInOrder'
         /\ stream' = [r \in Records |-> stream'[r]]
         /\ \A i \in Sources : i > entries =>
              /\ batches'[i] = batches[i]
              /\ \A k \in DOMAIN Plans[i] : stream'[Plans[i][k]] = stream[Plans[i][k]]
<1>0. TypeInv /\ OwnRecords /\ OneTask /\ AppInv /\ TasksStand /\ NoneLost /\ SamplesInOrder
  BY DEF FeederInv
<1>1. thread[t].at = "assemble" /\ HasTask(t) /\ UNCHANGED <<entries, tasks, taken>>
  BY DEF PushBatch, HasTask
<1>2. PICK e \in Sources : e = thread[t].entry /\ e <= entries
  BY <1>0, <1>1, FeederAssumption DEF TypeInv, AtSource, Sources
<1>3. PICK task : task = thread[t].task /\ task \in Tasks(e) /\ Enough(task) /\ Stands(task, e)
  <2>1. thread[t].task \in Tasks(e)
    BY <1>1, <1>2, InTasks
  <2> QED
    BY <1>0, <1>1, <2>1 DEF TasksStand
<1>4. PICK j \in DOMAIN Plans[e] : task.record = Plans[e][j]
  BY <1>0, <1>1, <1>2, <1>3 DEF OwnRecords, OfSource
<1>5. PICK r \in Records : r = task.record /\ r = Plans[e][j] /\ SampleCount[r] \in Nat
  BY <1>4, PlannedRecord, SampleCountType
<1>6. PICK n \in Nat : n = BatchesSoFar(e, r)
  BY <1>0, SoFarIs
<1>7. PICK a \in Nat : a = task.curr /\ a = n * BatchSize /\ (n + 1) * BatchSize = a + BatchSize
  BY <1>3, <1>5, <1>6, NextMultiple DEF Stands
<1>8. PICK read :
        /\ read = ReadBatchTensor(task.cache, stream[r])
        /\ stream' = [stream EXCEPT ![r] = read.unread]
        /\ batches' = [batches EXCEPT ![e] = Append(batches[e], [record |-> r, rows |-> read.rows])]
        /\ thread' = [thread EXCEPT ![t] =
             [at |-> "return", entry |-> e,
              task |-> [record |-> r, curr |-> a + BatchSize, cache |-> read.cache]]]
  BY <1>2, <1>3, <1>5, <1>7 DEF PushBatch
<1>9. /\ read.cache \in Seq(Seq(Nat)) /\ read.unread \in Seq(Seq(Nat))
      /\ read.rows = Samples(a, a + BatchSize)
      /\ Adjoining(read.cache \o read.unread, a + BatchSize, SampleCount[r])
  <2>1. task.cache \in Seq(Seq(Nat)) /\ stream[r] \in Seq(Seq(Nat))
        /\ Adjoining(task.cache \o stream[r], a, SampleCount[r])
    BY <1>3, <1>5, <1>7 DEF Stands
  <2>2. a + BatchSize <= SampleCount[r]
    BY <1>3, <1>5, <1>7 DEF Enough
  <2>3. read = ReadBatchTensor(task.cache, stream[r])
    BY <1>8
  <2> QED
    BY <1>5, <2>1, <2>2, <2>3, ReadBatch
<1>10. PICK new : new = [record |-> r, curr |-> a + BatchSize, cache |-> read.cache]
  OBVIOUS
<1>11. new.record = r /\ new.curr = a + BatchSize /\ new.cache = read.cache
  BY <1>10
<1>12. PICK y : y = [at |-> "return", entry |-> e, task |-> new]
  OBVIOUS
<1>13. y.at = "return" /\ y.entry = e /\ y.task = new
  BY <1>12
<1>14. \A u \in Threads : thread'[u] = IF u = t THEN y ELSE thread[u]
  BY <1>0, <1>8, <1>10, <1>12 DEF TypeInv
<1>15. PICK b : b = [record |-> r, rows |-> read.rows]
  OBVIOUS
<1>16. b.record = r /\ b.rows = read.rows
  BY <1>15
<1>17. batches'[e] = Append(batches[e], b) /\ \A i \in Sources : i # e => batches'[i] = batches[i]
  BY <1>0, <1>8, <1>15 DEF TypeInv
<1>18. /\ stream'[r] = read.unread /\ \A s \in Records : s # r => stream'[s] = stream[s]
       /\ stream' = [s \in Records |-> stream'[s]]
  BY <1>0, <1>8 DEF AppInv
<1>19. Produced(e)' = Append(Produced(e), b) /\ \A i \in Sources : i # e => Produced(i)' = Produced(i)
  <2>1. IsSeq(taken[e]) /\ IsSeq(batches[e])
    BY <1>0 DEF TypeInv, AppInv
  <2>2. taken[e] \o Append(batches[e], b) = Append(taken[e] \o batches[e], b)
    <3>1. PICK p : p = taken[e] /\ IsSeq(p)
      BY <2>1
    <3>2. PICK q : q = batches[e] /\ IsSeq(q)
      BY <2>1
    <3>3. PICK u, v : u = Append(q, b) /\ v = p \o q
      OBVIOUS
    <3>4. p \o u = Append(v, b)
      <4>1. IsSeq(p) /\ IsSeq(q) /\ u = Append(q, b) /\ v = p \o q
        BY <3>1, <3>2, <3>3
      <4> QED
        BY ONLY <4>1, AppendBehind
    <3> QED
      BY <3>1, <3>2, <3>3, <3>4, Zenon
  <2>3. Produced(e)' = taken[e] \o Append(batches[e], b)
    BY <1>1, <1>17 DEF Produced
  <2>4. \A i \in Sources : i # e => Produced(i)' = Produced(i)
    BY <1>1, <1>17 DEF Produced
  <2> QED
    BY <2>2, <2>3, <2>4, Zenon DEF Produced
<1>20. \A i \in Sources : \A s :
         BatchesSoFar(i, s)' = BatchesSoFar(i, s) + (IF i = e /\ s = r THEN 1 ELSE 0)
  <2> SUFFICES ASSUME NEW i \in Sources, NEW s
               PROVE  BatchesSoFar(i, s)' =
                        BatchesSoFar(i, s) + (IF i = e /\ s = r THEN 1 ELSE 0)
    OBVIOUS
  <2>1. PICK q : q = Produced(i) /\ IsSeq(q)
    BY <1>0, ProducedIs
  <2>2. PICK p : p = Produced(i)'
    OBVIOUS
  <2>3. BatchesSoFar(i, s)' = Cardinality(OfRecord(p, s, Len(p)))
    BY <2>2 DEF BatchesSoFar, BatchesOf, OfRecord
  <2>4. BatchesSoFar(i, s) = Cardinality(OfRecord(q, s, Len(q))) /\ BatchesSoFar(i, s) \in Nat
    BY <1>0, <2>1, SoFarIs
  <2>5. CASE i = e
    <3>1. p = Append(q, b)
      BY <1>19, <2>1, <2>2, <2>5
    <3>2. Cardinality(OfRecord(p, s, Len(p))) =
            Cardinality(OfRecord(q, s, Len(q))) + (IF b.record = s THEN 1 ELSE 0)
      BY <2>1, <3>1, OneMoreBatch
    <3> QED
      BY <1>16, <2>3, <2>4, <2>5, <3>2
  <2>6. CASE i # e
    <3>1. p = q
      BY <1>19, <2>1, <2>2, <2>6
    <3> QED
      BY <2>3, <2>4, <2>6, <3>1
  <2> QED
    BY <2>5, <2>6
<1>21. \A i \in Sources : \A z :
         /\ z \in Tasks(i)' => (i = e /\ z = new) \/ (z \in Tasks(i) /\ z.record # r /\ z.record \in Records)
         /\ z \in Tasks(i) /\ z.record # r => z \in Tasks(i)'
         /\ i = e /\ z = new => z \in Tasks(i)'
  <2> SUFFICES ASSUME NEW i \in Sources, NEW z
               PROVE  /\ z \in Tasks(i)' => \/ i = e /\ z = new
                                            \/ z \in Tasks(i) /\ z.record # r /\ z.record \in Records
                      /\ z \in Tasks(i) /\ z.record # r => z \in Tasks(i)'
                      /\ i = e /\ z = new => z \in Tasks(i)'
    OBVIOUS
  <2>1. z \in Tasks(i)' <=>
          \/ z \in ToSet(tasks[i])
          \/ \E u \in Threads : HasTask(u)' /\ thread'[u].entry = i /\ thread'[u].task = z
    BY <1>1 DEF Tasks
  <2>2. z \in Tasks(i) <=>
          \/ z \in ToSet(tasks[i])
          \/ \E u \in Threads : HasTask(u) /\ thread[u].entry = i /\ thread[u].task = z
    BY InTasks
  <2>3. \A u \in Threads : u # t => (HasTask(u)' <=> HasTask(u))
    BY <1>14 DEF HasTask
  <2>4. HasTask(t)'
    BY <1>13, <1>14 DEF HasTask
  <2>5. z \in ToSet(tasks[i]) => z.record # r /\ z.record \in Records
    <3> SUFFICES ASSUME z \in ToSet(tasks[i]) PROVE z.record # r /\ z.record \in Records
      OBVIOUS
    <3>1. PICK k \in DOMAIN tasks[i] : z = tasks[i][k]
      BY DEF ToSet
    <3>2. z.record # r
      <4>1. thread[t].task.record = r /\ HasTask(t)
        BY <1>1, <1>3, <1>5
      <4>2. thread[t].task.record # tasks[i][k].record
        BY <1>0, <4>1, Zenon DEF OneTask, OneReader
      <4> QED
        BY <3>1, <4>1, <4>2
    <3>3. PICK l \in DOMAIN Plans[i] : z.record = Plans[i][l]
      BY <1>0, <3>1 DEF OwnRecords, OfSource
    <3> QED
      BY <3>2, <3>3, PlannedRecord
  <2>6. ASSUME NEW u \in Threads, u # t, HasTask(u), thread[u].entry = i, thread[u].task = z
        PROVE  z.record # r /\ z.record \in Records
    <3>1. z.record # r
      <4>1. thread[t].task.record = r /\ HasTask(t)
        BY <1>1, <1>3, <1>5
      <4>2. thread[t].task.record # thread[u].task.record
        BY <1>0, <2>6, <4>1, Zenon DEF OneTask, OneReader
      <4> QED
        BY <2>6, <4>1, <4>2
    <3>2. PICK l \in DOMAIN Plans[i] : z.record = Plans[i][l]
      BY <1>0, <2>6 DEF OwnRecords, OfSource
    <3> QED
      BY <3>1, <3>2, PlannedRecord
  <2>7. thread[t].task.record = r
    BY <1>3, <1>5
  <2> QED
    BY <1>13, <1>14, <2>1, <2>2, <2>3, <2>4, <2>5, <2>6, <2>7
<1>22. Stands(new, e)'
  <2>1. BatchesSoFar(e, r)' = n + 1
    BY <1>6, <1>20
  <2>2. new.curr = BatchesSoFar(e, r)' * BatchSize
    BY <1>7, <1>11, <2>1
  <2> QED
    BY <1>9, <1>11, <1>18, <2>2 DEF Stands
<1>23. ASSUME NEW i \in Sources, NEW z \in Tasks(i), z.record # r, z.record \in Records
       PROVE  Stands(z, i)'
  <2>1. Stands(z, i)
    BY <1>0 DEF TasksStand
  <2>2. stream'[z.record] = stream[z.record]
    BY <1>18, <1>23
  <2>3. BatchesSoFar(i, z.record)' = BatchesSoFar(i, z.record)
    <3>1. BatchesSoFar(i, z.record) \in Nat
      BY <1>0, SoFarIs
    <3> QED
      BY <1>20, <1>23, <3>1
  <2> QED
    BY <2>1, <2>2, <2>3 DEF Stands
<1>24. TasksStand'
  <2>1. \A i \in Sources : \A z \in Tasks(i)' : Stands(z, i)'
    BY <1>21, <1>22, <1>23
  <2>2. \A u \in Threads : thread'[u].at = "assemble" => Enough(thread'[u].task)
    BY <1>0, <1>13, <1>14 DEF TasksStand
  <2> QED
    BY <2>1, <2>2 DEF TasksStand, Enough
<1>25. NoneLost'
  <2>1. ASSUME NEW i \in 1..entries, NEW k \in DOMAIN Plans[i]
        PROVE  \/ \E z \in Tasks(i)' : z.record = Plans[i][k]
               \/ (BatchesSoFar(i, Plans[i][k])' + 1) * BatchSize > SampleCount[Plans[i][k]]
    <3>1. i \in Sources
      BY <1>0, FeederAssumption DEF TypeInv, Sources
    <3>2. CASE Plans[i][k] = r
      <4>1. i = e
        BY <1>5, <3>1, <3>2, FeederAssumption DEF Sources
      <4> QED
        BY <1>11, <1>21, <3>1, <3>2, <4>1
    <3>3. CASE Plans[i][k] # r
      <4>1. PICK s : s = Plans[i][k] /\ s # r
        BY <3>3
      <4>2. CASE \E z \in Tasks(i) : z.record = s
        BY <1>21, <3>1, <4>1, <4>2
      <4>3. CASE (BatchesSoFar(i, s) + 1) * BatchSize > SampleCount[s]
        <5>1. BatchesSoFar(i, s) \in Nat
          BY <1>0, <3>1, SoFarIs
        <5>2. BatchesSoFar(i, s)' = BatchesSoFar(i, s)
          BY <1>20, <3>1, <4>1, <5>1
        <5> QED
          BY <4>1, <4>3, <5>2
      <4> QED
        BY <1>0, <4>1, <4>2, <4>3 DEF NoneLost
    <3> QED
      BY <3>2, <3>3
  <2> QED
    BY <1>1, <2>1 DEF NoneLost
<1>26. SamplesInOrder'
  <2>1. ASSUME NEW i \in Sources
        PROVE  \A k \in DOMAIN Produced(i)' :
                 LET m == BatchesOf(i, Produced(i)[k].record, k - 1)'
                 IN  Produced(i)'[k].rows = Samples(m * BatchSize, (m + 1) * BatchSize)
    <3>1. PICK q : q = Produced(i) /\ IsSeq(q)
      BY <1>0, ProducedIs
    <3>2. PICK p : p = Produced(i)'
      OBVIOUS
    <3>3. InOrder(q)
      BY <1>0, <3>1, OrderIs
    <3>4. IsSeq(p) /\ InOrder(p)
      <4>1. CASE i = e
        <5>1. p = Append(q, b)
          BY <1>19, <3>1, <3>2, <4>1
        <5>2. n = Cardinality(OfRecord(q, b.record, Len(q)))
          BY <1>0, <1>6, <1>16, <3>1, <4>1, SoFarIs
        <5>3. b.rows = Samples(n * BatchSize, (n + 1) * BatchSize)
          BY <1>7, <1>9, <1>16
        <5>4. InOrder(p)
          BY <3>1, <3>3, <5>1, <5>2, <5>3, OneMoreInOrder
        <5>5. IsSeq(p)
          BY <3>1, <5>1, AppendElements
        <5> QED
          BY <5>4, <5>5
      <4>2. CASE i # e
        BY <1>19, <3>1, <3>2, <3>3, <4>2
      <4> QED
        BY <4>1, <4>2
    <3>5. DOMAIN p = 1..Len(p)
      BY <3>4, SeqOfElements
    <3>6. \A k, s : BatchesOf(i, s, k)' = Cardinality(OfRecord(p, s, k))
      BY <3>2 DEF BatchesOf, OfRecord
    <3> QED
      BY <3>2, <3>4, <3>5, <3>6 DEF InOrder
  <2> QED
    BY <2>1 DEF SamplesInOrder
<1>27. ASSUME NEW i \in Sources, i > entries
       PROVE  /\ batches'[i] = batches[i]
              /\ \A k \in DOMAIN Plans[i] : stream'[Plans[i][k]] = stream[Plans[i][k]]
  <2>1. i # e
    BY <1>0, <1>2, <1>27, FeederAssumption DEF TypeInv, Sources
  <2>2. \A k \in DOMAIN Plans[i] : Plans[i][k] # r /\ Plans[i][k] \in Records
    BY <1>5, <2>1, PlannedRecord, FeederAssumption DEF Sources
  <2> QED
    BY <1>17, <1>18, <2>1, <2>2
<1> QED
  BY <1>18, <1>24, <1>25, <1>26, <1>27

-----------------------------------------------------------------------------
(* The steps of the application and the samples.                             *)

LEMMA AppNext ==
  ASSUME FeederInv, Next
  PROVE  AppInv'
<1>0. TypeInv /\ AppInv
  BY DEF FeederInv
<1>1. /\ stream = [r \in Records |-> stream[r]] /\ taken = [i \in Sources |-> taken[i]]
      /\ \A i \in Sources : IsSeq(taken[i])
      /\ app = [at |-> app.at, entry |-> app.entry]
      /\ app.at = "schedule" => \A t \in Threads : thread[t].at = "none"
  BY <1>0 DEF AppInv
<1>2. CASE Schedule
  BY <1>0, <1>2 DEF AppInv, Schedule
<1>3. CASE PopBatch
  <2>1. UNCHANGED <<stream, thread>> /\ app' = [at |-> "ready", entry |-> 0]
        /\ taken' = [taken EXCEPT ![app.entry] = Append(taken[app.entry], Head(batches[app.entry]))]
    BY <1>3 DEF PopBatch
  <2>2. app'.at = "ready" /\ app' = [at |-> app'.at, entry |-> app'.entry]
    BY <2>1
  <2>3. app.entry \in Sources
    BY <1>0, <1>3 DEF AppInv, PopBatch
  <2>4. /\ taken' = [i \in Sources |-> taken'[i]]
        /\ \A i \in Sources : taken'[i] = IF i = app.entry
                                          THEN Append(taken[app.entry], Head(batches[app.entry]))
                                          ELSE taken[i]
    BY <1>1, <2>1, <2>3
  <2>5. IsSeq(Append(taken[app.entry], Head(batches[app.entry])))
    BY <1>1, <2>3, AppendIsSeq
  <2>6. \A i \in Sources : IsSeq(taken'[i])
    BY <1>1, <2>4, <2>5
  <2> QED
    BY <1>1, <2>1, <2>2, <2>4, <2>6 DEF AppInv
<1>4. CASE Start \/ (\E i \in Sources : Ask(i)) \/ Stop \/ Exit \/ Join
  <2>1. UNCHANGED <<stream, taken>>
    BY <1>4 DEF Start, Ask, Stop, Exit, Join
  <2>2. /\ app'.at # "schedule" /\ app' = [at |-> app'.at, entry |-> app'.entry]
        /\ app'.at = "pop" => app'.entry \in Sources
    <3>1. CASE Start
      <4>1. app' = [at |-> "ready", entry |-> app.entry]
        BY <1>1, <3>1 DEF Start
      <4> QED
        BY <4>1
    <3>2. CASE \E i \in Sources : Ask(i)
      <4>1. PICK i \in Sources : app' = [at |-> "pop", entry |-> i]
        BY <3>2 DEF Ask
      <4> QED
        BY <4>1
    <3>3. CASE Stop \/ Join
      <4>1. app' = [at |-> "stop", entry |-> 1] \/ app' = [at |-> "stopped", entry |-> 0]
        BY <3>3 DEF Stop, Join
      <4> QED
        BY <4>1
    <3>4. CASE Exit
      <4>1. app' = [at |-> "stop", entry |-> app.entry + 1]
        BY <1>1, <3>4 DEF Exit
      <4> QED
        BY <4>1
    <3> QED
      BY <1>4, <3>1, <3>2, <3>3, <3>4
  <2> QED
    BY <1>1, <2>1, <2>2 DEF AppInv
<1>5. CASE Finished
  BY <1>0, <1>5 DEF AppInv, Finished, vars
<1>6. ASSUME NEW t \in Threads, Step(t) PROVE AppInv'
  <2>1. UNCHANGED <<taken, app>> /\ thread[t].at # "none" /\ thread[t].at \notin {"exited"}
    BY <1>6, StepKeeps
  <2>2. app.at # "schedule"
    BY <1>1, <2>1
  <2>3. stream' = [r \in Records |-> stream'[r]]
    <3>1. CASE thread[t].at = "assemble"
      <4>1. PushBatch(t)
        BY <1>6, <3>1 DEF Step, Loop, TestFull, PopTask, PushTask
      <4> QED
        BY <4>1, PushStep
    <3>2. CASE thread[t].at # "assemble"
      BY <1>1, <1>6, <3>2, StepKeeps
    <3> QED
      BY <3>1, <3>2
  <2> QED
    BY <1>0, <1>1, <2>1, <2>2, <2>3 DEF AppInv
<1> QED
  BY <1>2, <1>3, <1>4, <1>5, <1>6 DEF Next, StopStep

\* Schedule gives the records of a source their tasks.
LEMMA ScheduleSamples ==
  ASSUME FeederInv, Schedule
  PROVE  TasksStand' /\ NoneLost' /\ SamplesInOrder'
<1>0. TypeInv /\ AppInv /\ Untouched /\ TasksStand /\ NoneLost /\ SamplesInOrder
  BY DEF FeederInv
<1>1. PICK e \in Sources : e = entries + 1 /\ entries' = e
  BY <1>0, ScheduleTasks DEF Schedule
<1>2. entries \in Nat /\ UNCHANGED <<batches, stream, thread, taken>>
  BY <1>0, FeederAssumption DEF TypeInv, Schedule
<1>3. /\ DOMAIN tasks'[e] = DOMAIN Plans[e]
      /\ \A k \in DOMAIN Plans[e] :
           tasks'[e][k].record = Plans[e][k] /\ tasks'[e][k].curr = 0 /\ tasks'[e][k].cache = << >>
      /\ \A i \in Sources : i # e => tasks'[i] = tasks[i]
  BY <1>0, <1>1, ScheduleTasks
<1>4. \A i \in Sources : Produced(i)' = Produced(i)
  BY <1>2 DEF Produced
<1>5. \A i \in Sources : \A r : BatchesSoFar(i, r)' = BatchesSoFar(i, r)
  BY <1>4 DEF BatchesSoFar, BatchesOf
<1>6. SamplesInOrder'
  BY <1>0, <1>4 DEF SamplesInOrder, BatchesOf
<1>7. \A u \in Threads : HasTask(u) => thread[u].entry # e
  BY <1>0, <1>1, <1>2 DEF TypeInv
<1>8. \A i \in Sources : i # e => Tasks(i)' = Tasks(i)
  BY <1>2, <1>3 DEF Tasks, HasTask
<1>9. \A z : z \in Tasks(e)' <=> \E k \in DOMAIN Plans[e] : z = tasks'[e][k]
  <2>1. \A u \in Threads : HasTask(u)' <=> HasTask(u)
    BY <1>2 DEF HasTask
  <2>2. \A z : z \in Tasks(e)' <=>
          \/ z \in ToSet(tasks'[e])
          \/ \E u \in Threads : HasTask(u)' /\ thread'[u].entry = e /\ thread'[u].task = z
    BY DEF Tasks
  <2>3. \A z : z \in ToSet(tasks'[e]) <=> \E k \in DOMAIN Plans[e] : z = tasks'[e][k]
    BY <1>3 DEF ToSet
  <2> QED
    BY <1>2, <1>7, <2>1, <2>2, <2>3
<1>10. \A r : BatchesSoFar(e, r) = 0
  <2> SUFFICES ASSUME NEW r PROVE BatchesSoFar(e, r) = 0
    OBVIOUS
  <2>1. taken[e] = << >> /\ batches[e] = << >>
    BY <1>0, <1>1, <1>2 DEF Untouched
  <2>2. Produced(e) = << >>
    BY <2>1, EmptySeq, ConcatEmptySeq DEF Produced
  <2>3. Len(Produced(e)) = 0
    BY <2>2
  <2>4. OfRecord(Produced(e), r, 0) = {}
    BY DEF OfRecord
  <2>5. BatchesSoFar(e, r) = Cardinality(OfRecord(Produced(e), r, Len(Produced(e))))
    BY <1>0, SoFarIs
  <2> QED
    BY <2>3, <2>4, <2>5, FS_EmptySet
<1>11. ASSUME NEW k \in DOMAIN Plans[e], NEW z, z = tasks'[e][k] PROVE Stands(z, e)'
  <2>2. PICK r \in Records : r = Plans[e][k] /\ z.record = r /\ z.curr = 0 /\ z.cache = << >>
    BY <1>3, <1>11, PlannedRecord
  <2>3. stream'[r] = Rows(r)
    BY <1>0, <1>1, <1>2, <2>2 DEF Untouched
  <2>4. Rows(r) \in Seq(Seq(Nat)) /\ Adjoining(Rows(r), 0, SampleCount[r])
    BY RowsAdjoin
  <2>5. z.cache \in Seq(Seq(Nat)) /\ z.cache \o stream'[r] = Rows(r)
    BY <2>2, <2>3, <2>4, EmptySeq, ConcatEmptySeq
  <2>6. z.curr = BatchesSoFar(e, r)' * BatchSize
    <3>1. BatchesSoFar(e, r)' = 0
      BY <1>5, <1>10
    <3> QED
      BY <2>2, <3>1, FeederAssumption
  <2> QED
    BY <2>2, <2>3, <2>4, <2>5, <2>6 DEF Stands
<1>12. TasksStand'
  <2>1. \A i \in Sources : \A z : Stands(z, i) => Stands(z, i)'
    BY <1>2, <1>5 DEF Stands
  <2>2. \A i \in Sources : \A z \in Tasks(i)' : Stands(z, i)'
    <3> SUFFICES ASSUME NEW i \in Sources, NEW z \in Tasks(i)' PROVE Stands(z, i)'
      OBVIOUS
    <3>1. CASE i = e
      <4>1. z \in Tasks(e)'
        BY <3>1
      <4>2. PICK k \in DOMAIN Plans[e] : z = tasks'[e][k]
        BY <1>9, <4>1
      <4>3. Stands(z, e)'
        BY <1>11, <4>2
      <4> QED
        BY <3>1, <4>3
    <3>2. CASE i # e
      <4>1. z \in Tasks(i)
        BY <1>8, <3>2
      <4>2. Stands(z, i)
        BY <1>0, <4>1 DEF TasksStand
      <4> QED
        BY <2>1, <4>2
    <3> QED
      BY <3>1, <3>2
  <2> QED
    BY <1>0, <1>2, <2>2 DEF TasksStand, Enough
<1>13. NoneLost'
  <2>1. ASSUME NEW i \in 1..entries', NEW k \in DOMAIN Plans[i]
        PROVE  \/ \E z \in Tasks(i)' : z.record = Plans[i][k]
               \/ (BatchesSoFar(i, Plans[i][k])' + 1) * BatchSize > SampleCount[Plans[i][k]]
    <3>1. CASE i = e
      BY <1>3, <1>9, <3>1
    <3>2. CASE i # e
      <4>1. i \in 1..entries /\ i \in Sources
        BY <1>0, <1>1, <1>2, <3>2, FeederAssumption DEF TypeInv, Sources
      <4> QED
        BY <1>0, <1>5, <1>8, <3>2, <4>1 DEF NoneLost
    <3> QED
      BY <3>1, <3>2
  <2> QED
    BY <2>1 DEF NoneLost
<1> QED
  BY <1>6, <1>12, <1>13

LEMMA SamplesNext ==
  ASSUME FeederInv, Next
  PROVE  TasksStand' /\ NoneLost' /\ SamplesInOrder'
<1>0. TypeInv /\ OwnRecords /\ AppInv /\ TasksStand /\ NoneLost /\ SamplesInOrder
  BY DEF FeederInv
<1>1. \A t \in Threads : thread[t].at = "assemble" => Enough(thread[t].task)
  BY <1>0 DEF TasksStand
<1>2. CASE Schedule
  BY <1>2, ScheduleSamples
<1>3. CASE Start
  <2>1. UNCHANGED <<entries, tasks, batches, stream, taken>>
    BY <1>3 DEF Start
  <2>2. \A t \in Threads : thread[t].at = "none" /\ thread'[t].at = "while"
    BY <1>0, <1>3 DEF Start, AppInv, TypeInv
  <2>3. \A t \in Threads : ~HasTask(t) /\ ~HasTask(t)'
    BY <2>2 DEF HasTask
  <2>4. \A i \in Sources : Tasks(i)' = Tasks(i)
    BY <2>1, <2>3 DEF Tasks
  <2>5. \A i \in Sources : Produced(i)' = Produced(i)
    BY <2>1 DEF Produced
  <2> QED
    BY <1>0, <2>1, <2>2, <2>4, <2>5, KeepsSamples
<1>4. CASE PopBatch
  <2>1. UNCHANGED <<entries, tasks, stream, thread>>
    BY <1>4 DEF PopBatch
  <2>2. PICK e \in Sources : e = app.entry
    BY <1>0, <1>4 DEF AppInv, PopBatch
  <2>3. PICK p, q : p = taken[e] /\ q = batches[e] /\ IsSeq(p) /\ IsSeq(q) /\ q # << >>
    BY <1>0, <1>4, <2>2 DEF TypeInv, AppInv, PopBatch
  <2>4. /\ taken'[e] = Append(p, Head(q)) /\ batches'[e] = Tail(q)
        /\ \A i \in Sources : i # e => taken'[i] = taken[i] /\ batches'[i] = batches[i]
    BY <1>0, <1>4, <2>2, <2>3 DEF PopBatch, TypeInv, AppInv
  <2>5. \A i \in Sources : Produced(i)' = Produced(i)
    <3> SUFFICES ASSUME NEW i \in Sources PROVE Produced(i)' = Produced(i)
      OBVIOUS
    <3>1. CASE i # e
      BY <2>4, <3>1 DEF Produced
    <3>2. CASE i = e
      <4>1. IsSeq(p) /\ IsSeq(q) /\ q # << >>
        BY <2>3
      <4>2. Append(p, Head(q)) \o Tail(q) = p \o q
        BY ONLY <4>1, MoveHead
      <4>3. Produced(e)' = Append(p, Head(q)) \o Tail(q) /\ Produced(e) = p \o q
        BY <2>3, <2>4, Zenon DEF Produced
      <4> QED
        BY <3>2, <4>2, <4>3, Zenon
    <3> QED
      BY <3>1, <3>2
  <2>6. \A i \in Sources : Tasks(i)' = Tasks(i)
    BY <2>1 DEF Tasks, HasTask
  <2> QED
    BY <1>0, <1>1, <2>1, <2>5, <2>6, KeepsSamples
<1>5. ASSUME NEW t \in Threads, Step(t) PROVE TasksStand' /\ NoneLost' /\ SamplesInOrder'
  <2>1. CASE thread[t].at = "assemble"
    <3>1. PushBatch(t)
      BY <1>5, <2>1 DEF Step, Loop, TestFull, PopTask, PushTask
    <3> QED
      BY <3>1, PushStep
  <2>2. CASE thread[t].at # "assemble"
    <3>1. UNCHANGED <<entries, stream, batches, taken>>
      BY <1>5, <2>2, StepKeeps
    <3>2. \A i \in Sources : Produced(i)' = Produced(i)
      BY <3>1 DEF Produced
    <3>3. /\ \A i \in Sources : \A task \in Tasks(i)' : task \in Tasks(i)
          /\ \A i \in Sources : \A task \in Tasks(i) : task \in Tasks(i)' \/ ~Enough(task)
          /\ \A u \in Threads : thread'[u].at = "assemble" => Enough(thread'[u].task)
      BY <1>0, <1>5, <2>2, QuietStep
    <3> QED
      BY <1>0, <3>1, <3>2, <3>3, KeepsSamples
  <2> QED
    BY <2>1, <2>2
<1>6. CASE UNCHANGED <<entries, tasks, batches, stream, thread, taken>>
  <2>1. \A i \in Sources : Produced(i)' = Produced(i) /\ Tasks(i)' = Tasks(i)
    BY <1>6 DEF Produced, Tasks, HasTask
  <2> QED
    BY <1>0, <1>1, <1>6, <2>1, KeepsSamples
<1>7. \/ Schedule \/ Start \/ PopBatch \/ \E t \in Threads : Step(t)
      \/ UNCHANGED <<entries, tasks, batches, stream, thread, taken>>
  BY DEF Next, Ask, Stop, StopStep, Exit, Join, Finished, vars
<1> QED
  BY <1>2, <1>3, <1>4, <1>5, <1>6, <1>7

LEMMA UntouchedNext ==
  ASSUME FeederInv, Next
  PROVE  Untouched'
<1>0. TypeInv /\ AppInv /\ Untouched
  BY DEF FeederInv
<1>1. /\ \A i \in Sources : i > entries =>
           /\ taken[i] = << >> /\ batches[i] = << >>
           /\ \A k \in DOMAIN Plans[i] : stream[Plans[i][k]] = Rows(Plans[i][k])
      /\ \A t \in Threads : ~HasTask(t) => thread[t].task.record = "none"
  BY <1>0 DEF Untouched
<1>2. CASE Schedule
  <2>1. UNCHANGED <<batches, stream, thread, taken>> /\ entries' = entries + 1 /\ entries \in Nat
    BY <1>0, <1>2, FeederAssumption DEF Schedule, TypeInv
  <2>2. \A i \in Sources : i > entries' => i > entries
    BY <2>1, FeederAssumption DEF Sources
  <2> QED
    BY <1>1, <2>1, <2>2 DEF Untouched, HasTask
<1>3. CASE Start
  <2>1. UNCHANGED <<entries, batches, stream, taken>>
    BY <1>3 DEF Start
  <2>2. \A t \in Threads : thread[t].at = "none" /\ thread'[t].task = thread[t].task
    <3> SUFFICES ASSUME NEW t \in Threads
                 PROVE  thread[t].at = "none" /\ thread'[t].task = thread[t].task
      OBVIOUS
    <3>1. thread[t].at = "none"
      BY <1>0, <1>3 DEF Start, AppInv
    <3>2. thread'[t] = [thread[t] EXCEPT !.at = "while"]
      BY <1>3 DEF Start
    <3>3. thread[t] = [at |-> thread[t].at, entry |-> thread[t].entry, task |-> thread[t].task]
      BY <1>0 DEF TypeInv
    <3> QED
      BY <3>1, <3>2, <3>3
  <2>3. \A t \in Threads : thread'[t].task.record = "none"
    BY <1>1, <2>2 DEF HasTask
  <2> QED
    BY <1>1, <2>1, <2>3 DEF Untouched
<1>4. CASE PopBatch
  <2>1. UNCHANGED <<entries, stream, thread>> /\ app.entry \in Sources /\ batches[app.entry] # << >>
    BY <1>0, <1>4 DEF PopBatch, AppInv
  <2>2. \A i \in Sources : i # app.entry => taken'[i] = taken[i] /\ batches'[i] = batches[i]
    BY <1>0, <1>4 DEF PopBatch, TypeInv, AppInv
  <2> QED
    BY <1>1, <2>1, <2>2 DEF Untouched, HasTask
<1>5. ASSUME NEW t \in Threads, Step(t) PROVE Untouched'
  <2>1. \A u \in Threads : ~HasTask(u)' => thread'[u].task.record = "none"
    BY <1>0, <1>5, NoRecordStep
  <2>2. UNCHANGED <<entries, taken>>
    BY <1>5, StepKeeps
  <2>3. \A i \in Sources : i > entries =>
          /\ batches'[i] = batches[i]
          /\ \A k \in DOMAIN Plans[i] : stream'[Plans[i][k]] = stream[Plans[i][k]]
    <3>1. CASE thread[t].at = "assemble"
      <4>1. PushBatch(t)
        BY <1>5, <3>1 DEF Step, Loop, TestFull, PopTask, PushTask
      <4> QED
        BY <4>1, PushStep
    <3>2. CASE thread[t].at # "assemble"
      BY <1>5, <3>2, StepKeeps
    <3> QED
      BY <3>1, <3>2
  <2> QED
    BY <1>1, <2>1, <2>2, <2>3 DEF Untouched
<1>6. CASE UNCHANGED <<entries, batches, stream, thread, taken>>
  BY <1>1, <1>6 DEF Untouched, HasTask
<1>7. \/ Schedule \/ Start \/ PopBatch \/ \E t \in Threads : Step(t)
      \/ UNCHANGED <<entries, batches, stream, thread, taken>>
  BY DEF Next, Ask, Stop, StopStep, Exit, Join, Finished, vars
<1> QED
  BY <1>2, <1>3, <1>4, <1>5, <1>6, <1>7


-----------------------------------------------------------------------------
(* The invariant as a whole.                                                 *)

LEMMA FeederInit == Init => FeederInv
<1> SUFFICES ASSUME Init PROVE FeederInv
  OBVIOUS
<1>1. TypeInv /\ OwnRecords /\ OneTask
  BY TypeInit, TasksInit
<1>2. entries = 0 /\ app = [at |-> "schedule", entry |-> 0]
  BY DEF Init
<1>3. \A i \in Sources : taken[i] = << >> /\ batches[i] = << >> /\ tasks[i] = << >>
  BY DEF Init
<1>4. \A t \in Threads : thread[t].at = "none" /\ thread[t].task.record = "none"
  BY DEF Init, NoTask
<1>5. stream = [r \in Records |-> Rows(r)] /\ taken = [i \in Sources |-> taken[i]]
  BY DEF Init
<1>6. AppInv
  <2>1. IsSeq(<< >>)
    BY EmptySeq, ElementsOfSeq
  <2> QED
    BY <1>2, <1>3, <1>4, <1>5, <2>1 DEF AppInv
<1>7. Untouched
  BY <1>3, <1>4, <1>5, PlannedRecord DEF Untouched
<1>8. TasksStand
  <2>1. \A i \in Sources : ToSet(tasks[i]) = {}
    BY <1>3 DEF ToSet
  <2>2. \A i \in Sources : Tasks(i) = {}
    BY <1>4, <2>1 DEF Tasks, HasTask
  <2> QED
    BY <1>4, <2>2 DEF TasksStand
<1>9. NoneLost
  BY <1>2 DEF NoneLost
<1>10. SamplesInOrder
  <2>1. \A i \in Sources : Produced(i) = << >>
    BY <1>3, EmptySeq, ConcatEmptySeq DEF Produced
  <2> QED
    BY <2>1 DEF SamplesInOrder
<1> QED
  BY <1>1, <1>6, <1>7, <1>8, <1>9, <1>10 DEF FeederInv

LEMMA FeederNext ==
  ASSUME FeederInv, [Next]_vars
  PROVE  FeederInv'
<1>0. TypeInv /\ OwnRecords /\ OneTask
  BY DEF FeederInv
<1>1. CASE Next
  BY <1>0, <1>1, TypeNext, TasksNext, AppNext, UntouchedNext, SamplesNext DEF FeederInv
<1>2. CASE UNCHANGED vars
  <2>1. TypeInv' /\ OwnRecords' /\ OneTask'
    BY <1>0, <1>2 DEF vars, TypeInv, AtSource, OwnRecords, OneTask, OneReader, OfSource, HasTask
  <2>2. AppInv' /\ Untouched'
    BY <1>2 DEF FeederInv, vars, AppInv, Untouched, HasTask
  <2>3. \A i \in Sources : Produced(i)' = Produced(i) /\ Tasks(i)' = Tasks(i)
    BY <1>2 DEF vars, Produced, Tasks, HasTask
  <2>4. TasksStand' /\ NoneLost' /\ SamplesInOrder'
    <3>1. TypeInv /\ AppInv /\ TasksStand /\ NoneLost /\ SamplesInOrder
      BY DEF FeederInv
    <3>2. \A t \in Threads : thread[t].at = "assemble" => Enough(thread[t].task)
      BY <3>1 DEF TasksStand
    <3>3. UNCHANGED <<entries, tasks, batches, stream, thread, taken>>
      BY <1>2 DEF vars
    <3> QED
      BY <2>3, <3>1, <3>2, <3>3, KeepsSamples
  <2> QED
    BY <2>1, <2>2, <2>4 DEF FeederInv
<1> QED
  BY <1>1, <1>2

LEMMA FeederInvHolds == Spec => []FeederInv
<1>1. FeederInv /\ [Next]_vars => FeederInv'
  BY FeederNext
<1> QED
  BY FeederInit, <1>1, PTL DEF Spec

\* Whatever the sizes of the items, the batch and the queues, and however the
\* threads take turns, the batches of a record are full and hold its samples
\* in order, none twice and none left out (feeder.cc:64-148).
THEOREM BatchesInOrder == Spec => []SamplesInOrder
<1>1. FeederInv => SamplesInOrder
  BY DEF FeederInv
<1> QED
  BY FeederInvHolds, <1>1, PTL

\* A task of a planned record is in its queue, or its thread is at the source.
LEMMA TaskPlace ==
  ASSUME FeederInv, NEW i \in Sources, NEW task \in Tasks(i)
  PROVE  \/ \E k \in DOMAIN tasks[i] : tasks[i][k] = task
         \/ \E t \in Threads : HasTask(t) /\ thread[t].task = task
BY DEF Tasks, ToSet

\* The task of a record that has a full batch left is in the queue of its source
\* or with one thread, never in both and never twice: ProduceBatch puts it
\* back as long as samples are left (feeder.cc:64-86).
THEOREM TasksNotLost == Spec => []TaskOfRecordIsThere
<1>1. ASSUME FeederInv PROVE TaskOfRecordIsThere
  <2>0. TypeInv /\ OwnRecords /\ OneTask /\ OneReader /\ Untouched /\ NoneLost
    BY <1>1 DEF FeederInv, OneTask
  <2> SUFFICES ASSUME NEW i \in 1..entries, NEW r \in ToSet(Plans[i]),
                      (BatchesSoFar(i, r) + 1) * BatchSize <= SampleCount[r]
               PROVE  Cardinality({k \in DOMAIN tasks[i] : tasks[i][k].record = r})
                        + Cardinality({t \in Threads : thread[t].task.record = r}) = 1
    BY DEF TaskOfRecordIsThere, BatchesSoFar
  <2>1. i \in Sources
    BY <2>0, FeederAssumption DEF TypeInv, Sources
  <2>2. PICK l \in DOMAIN Plans[i] : r = Plans[i][l]
    BY DEF ToSet
  <2>3. r \in Records /\ r # "none" /\ SampleCount[r] \in Nat
    BY <2>1, <2>2, PlannedRecord, SampleCountType, FeederAssumption
  <2>4. (BatchesSoFar(i, r) + 1) * BatchSize \in Nat
    <3>1. BatchesSoFar(i, r) \in Nat
      BY <1>1, <2>1, SoFarIs DEF FeederInv
    <3> QED
      BY <3>1, FeederAssumption
  <2>5. PICK task \in Tasks(i) : task.record = r
    BY <2>0, <2>2, <2>3, <2>4 DEF NoneLost
  <2>6. \A t \in Threads : thread[t].task.record = r => HasTask(t)
    BY <2>0, <2>3 DEF Untouched
  <2>7. CASE \E k \in DOMAIN tasks[i] : tasks[i][k] = task
    <3>1. PICK k \in DOMAIN tasks[i] : tasks[i][k].record = r
      BY <2>5, <2>7
    <3>2. \A m \in DOMAIN tasks[i] : tasks[i][m].record = r => m = k
      BY <2>0, <2>1, <3>1 DEF OneTask
    <3>3. {m \in DOMAIN tasks[i] : tasks[i][m].record = r} = {k}
      BY <3>1, <3>2
    <3>4. \A t \in Threads : thread[t].task.record # r
      BY <2>0, <2>1, <2>6, <3>1 DEF OneReader
    <3>5. {t \in Threads : thread[t].task.record = r} = {}
      BY <3>4
    <3>6. Cardinality({m \in DOMAIN tasks[i] : tasks[i][m].record = r}) = 1
      BY <3>3, FS_Singleton, Zenon
    <3>7. Cardinality({t \in Threads : thread[t].task.record = r}) = 0
      BY <3>5, FS_EmptySet, Zenon
    <3> QED
      BY <3>6, <3>7
  <2>8. CASE \E t \in Threads : HasTask(t) /\ thread[t].task = task
    <3>1. PICK t \in Threads : HasTask(t) /\ thread[t].task.record = r
      BY <2>5, <2>8
    <3>2. \A u \in Threads : thread[u].task.record = r => u = t
      BY <2>0, <2>6, <3>1 DEF OneReader
    <3>3. {u \in Threads : thread[u].task.record = r} = {t}
      BY <3>1, <3>2
    <3>4. \A m \in DOMAIN tasks[i] : tasks[i][m].record # r
      BY <2>0, <2>1, <3>1 DEF OneReader
    <3>5. {m \in DOMAIN tasks[i] : tasks[i][m].record = r} = {}
      BY <3>4
    <3>6. Cardinality({u \in Threads : thread[u].task.record = r}) = 1
      BY <3>3, FS_Singleton, Zenon
    <3>7. Cardinality({m \in DOMAIN tasks[i] : tasks[i][m].record = r}) = 0
      BY <3>5, FS_EmptySet, Zenon
    <3> QED
      BY <3>6, <3>7
  <2> QED
    BY <1>1, <2>1, <2>7, <2>8, TaskPlace
<1>2. FeederInv => TaskOfRecordIsThere
  BY <1>1
<1> QED
  BY FeederInvHolds, <1>2, PTL
=============================================================================
