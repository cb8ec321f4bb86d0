--------------------------- MODULE KVTableProofs ---------------------------
(* Proofs about KVTable, for any number of servers, threads, keys and calls: *)
(* the servers' stores are sound and implement KVMap when checkpoints are    *)
(* taken of packed stores; the worker's store is sound and a Get brings the  *)
(* servers' values when the keys of a call belong to one server.             *)
EXTENDS KVTable, FiniteSetTheorems, WellFoundedInduction, TLAPS

-----------------------------------------------------------------------------
(* Numbers.                                                                  *)

\* A set of natural numbers has a least one.
LEMMA LeastOne ==
  ASSUME NEW S, S \subseteq Nat, S # {}
  PROVE  Min(S) \in S /\ \A y \in S : Min(S) <= y
<1> DEFINE R == {ss \in Nat \X Nat : ss[1] < ss[2]}
<1>1. IsWellFoundedOn(R, Nat)
  BY NatLessThanWellFounded DEF OpToRel
<1> HIDE DEF R
<1>2. PICK x \in S : \A y \in S : ~(<<y, x>> \in R)
  BY <1>1, WFMin
<1>3. ASSUME NEW y \in S PROVE x <= y
  <2>1. x \in Nat /\ y \in Nat /\ <<y, x>> \notin R
    BY <1>2
  <2>2. y < x => <<y, x>> \in R
    BY <2>1 DEF R
  <2> QED
    BY <2>1, <2>2
<1> QED
  BY <1>3 DEF Min

\* Dividing a natural number.
LEMMA Division ==
  ASSUME NEW n \in Nat \ {0}, NEW a \in Nat
  PROVE  /\ a % n \in 0..(n - 1) /\ a \div n \in Nat
         /\ a = n * (a \div n) + (a % n)
<1>1. a = n * (a \div n) + (a % n)
  BY SMTT(30)
<1> QED
  BY <1>1

\* A larger quotient takes the number at least one divisor further.
LEMMA LargerQuotient ==
  ASSUME NEW n \in Nat \ {0}, NEW p \in Nat, NEW q \in Nat, p < q
  PROVE  n * p + n <= n * q
<1>1. q - p - 1 \in Nat
  OBVIOUS
<1>2. \A x \in Nat : n * x >= 0
  OBVIOUS
<1>3. n * (q - p - 1) = n * q - n * p - n
  OBVIOUS
<1> QED
  BY <1>1, <1>2, <1>3

\* Numbers closer than the divisor have different remainders.
LEMMA Remainders ==
  ASSUME NEW n \in Nat \ {0}, NEW a \in Nat, NEW i \in 0..(n - 1), NEW j \in 0..(n - 1),
         (a + i) % n = (a + j) % n
  PROVE  i = j
<1>1. PICK p \in Nat, q \in Nat, x \in Nat, y \in Nat, r \in Nat :
        /\ x = n * p /\ y = n * q /\ a + i = x + r /\ a + j = y + r
        /\ p < q => x + n <= y
        /\ q < p => y + n <= x
  <2>0. PICK b \in Nat, c \in Nat : b = a + i /\ c = a + j
    OBVIOUS
  <2> DEFINE p == b \div n
             q == c \div n
  <2>1. /\ p \in Nat /\ q \in Nat /\ b % n \in Nat /\ b % n = c % n
        /\ b = n * p + (b % n) /\ c = n * q + (c % n)
    <3>1. b % n \in 0..(n - 1) /\ p \in Nat /\ b = n * p + (b % n)
      BY Division
    <3>2. q \in Nat /\ c = n * q + (c % n)
      BY Division
    <3> QED
      BY <2>0, <3>1, <3>2
  <2>2. n * p \in Nat /\ n * q \in Nat
    BY <2>1
  <2>3. (p < q => n * p + n <= n * q) /\ (q < p => n * q + n <= n * p)
    BY <2>1, LargerQuotient
  <2> QED
    BY <2>0, <2>1, <2>2, <2>3
<1>2. CASE p = q
  BY <1>1, <1>2
<1>3. CASE p # q
  BY <1>1, <1>3
<1> QED
  BY <1>2, <1>3

-----------------------------------------------------------------------------
(* A search.                                                                 *)

Place(key, i) == (key + i) % Capacity

\* A search that stops does so at the first probe that may end it.
LEMMA SearchStops ==
  ASSUME NEW s, NEW key \in Nat, ~TooCrowded(s, key)
  PROVE  \E m \in 0..(MaxProbe - 1) :
           /\ SlotOf(s, key) = Place(key, m) /\ Place(key, m) \in Slots
           /\ s.node[Place(key, m)].key \in {-1, key}
           /\ \A i \in 0..(m - 1) : s.node[Place(key, i)].key \notin {-1, key}
<1> DEFINE m == Min(Stops(s, key))
<1>1. Stops(s, key) \subseteq 0..(MaxProbe - 1) /\ 0..(MaxProbe - 1) \subseteq Nat
  BY KVStoreAssumption DEF Stops, ProbeSlots
<1>2. m \in Stops(s, key) /\ \A y \in Stops(s, key) : m <= y
  BY <1>1, LeastOne DEF TooCrowded
<1>3. m \in 0..(MaxProbe - 1) /\ SlotOf(s, key) = Place(key, m)
  BY <1>1, <1>2 DEF SlotOf, ProbeSlots, Place
<1>4. Place(key, m) \in Slots
  BY <1>3, KVStoreAssumption, Division DEF Place, Slots
<1>5. s.node[Place(key, m)].key \in {-1, key}
  BY <1>2, <1>3 DEF Stops, ProbeSlots, Place
<1> HIDE DEF m
<1>6. ASSUME NEW i \in 0..(m - 1) PROVE s.node[Place(key, i)].key \notin {-1, key}
  <2>1. i \in 0..(MaxProbe - 1) /\ ~(m <= i)
    BY <1>3, KVStoreAssumption
  <2>2. i \notin Stops(s, key)
    BY <1>2, <2>1
  <2> QED
    BY <2>1, <2>2 DEF Stops, ProbeSlots, Place
<1> QED
  BY <1>3, <1>4, <1>5, <1>6

\* The first probe that may end a search does.
LEMMA SearchFinds ==
  ASSUME NEW s, NEW key \in Nat, NEW m \in 0..(MaxProbe - 1),
         s.node[Place(key, m)].key \in {-1, key},
         \A i \in 0..(m - 1) : s.node[Place(key, i)].key \notin {-1, key}
  PROVE  ~TooCrowded(s, key) /\ SlotOf(s, key) = Place(key, m)
<1>1. m \in Stops(s, key) /\ Stops(s, key) \subseteq 0..(MaxProbe - 1)
  BY DEF Stops, ProbeSlots, Place
<1>2. ~TooCrowded(s, key)
  BY <1>1 DEF TooCrowded
<1>3. \A i \in Stops(s, key) : m <= i
  <2>1. ASSUME NEW i \in Stops(s, key), i < m PROVE FALSE
    <3>1. i \in 0..(m - 1)
      BY <1>1, <2>1, KVStoreAssumption
    <3> QED
      BY <1>1, <2>1, <3>1 DEF Stops, ProbeSlots, Place
  <2> QED
    BY <1>1, <2>1, KVStoreAssumption
<1>4. Min(Stops(s, key)) \in Stops(s, key) /\ Min(Stops(s, key)) <= m
  BY <1>1, LeastOne, KVStoreAssumption
<1>5. Min(Stops(s, key)) = m
  BY <1>1, <1>3, <1>4, KVStoreAssumption
<1> QED
  BY <1>2, <1>5 DEF SlotOf, ProbeSlots, Place

\* Where the slots hold the same keys, a search goes the same way.
LEMMA SameSearch ==
  ASSUME NEW s, NEW t, NEW key \in Nat, \A i \in Slots : t.node[i].key = s.node[i].key
  PROVE  /\ TooCrowded(t, key) <=> TooCrowded(s, key)
         /\ SlotOf(t, key) = SlotOf(s, key)
         /\ Has(t, key) <=> Has(s, key)
<1>1. \A i \in 0..(MaxProbe - 1) : (key + i) % Capacity \in Slots
  BY KVStoreAssumption, Division DEF Slots
<1>2. Stops(t, key) = Stops(s, key)
  BY <1>1 DEF Stops, ProbeSlots
<1>3. /\ TooCrowded(t, key) <=> TooCrowded(s, key)
      /\ SlotOf(t, key) = SlotOf(s, key)
  BY <1>2 DEF TooCrowded, SlotOf
<1>4. ~TooCrowded(s, key) => SlotOf(s, key) \in Slots
  BY SearchStops
<1> QED
  BY <1>3, <1>4 DEF Has

-----------------------------------------------------------------------------
(* A good store.                                                             *)

Node == [key : Nat, offset : Nat, immutable : BOOLEAN]
Val  == [base : {"zero", "garbage", "random"}, key : Nat, adds : Nat]

\* The type of a store: every place of the array in use has a value.
StoreOK(s) ==
  s \in [node : [Slots -> Node \cup {Empty}], node_size : Nat,
        data : [0..(s.data_size - 1) -> Val], data_size : Nat, fatal : BOOLEAN]

\* The slots in use, and a store whose sizes count them.
Taken(s) == {i \in Slots : s.node[i] # Empty}
Counted(s) == s.node_size = Cardinality(Taken(s)) /\ s.data_size = s.node_size

Good(s) == StoreOK(s) /\ Sound(s) /\ Counted(s)

\* A key that is in a slot is found there.
LEMMA HeldIsFound ==
  ASSUME NEW s, Good(s), NEW key \in Nat, NEW i \in Slots, s.node[i].key = key
  PROVE  Has(s, key) /\ SlotOf(s, key) = i
<1>1. s.node[i] # Empty
  BY DEF Empty
<1> QED
  BY <1>1 DEF Good, Sound

\* A key that a store has is in a slot, and its value in the array.
LEMMA FoundIsHeld ==
  ASSUME NEW s, Good(s), NEW key \in Nat, Has(s, key)
  PROVE  /\ SlotOf(s, key) \in Slots /\ Entry(s, key) \in Node /\ Entry(s, key).key = key
         /\ Entry(s, key).offset \in 0..(s.data_size - 1)
         /\ Value(s, key) \in Val
<1>1. SlotOf(s, key) \in Slots /\ Entry(s, key).key = key
  BY SearchStops DEF Has, Entry
<1>2. Entry(s, key) # Empty /\ Entry(s, key) \in Node
  BY <1>1 DEF Entry, Empty, Good, StoreOK
<1>3. Entry(s, key).offset \in 0..(s.data_size - 1)
  BY <1>1, <1>2 DEF Good, Sound, Entry
<1>4. Value(s, key) \in Val
  BY <1>3 DEF Value, Good, StoreOK
<1> QED
  BY <1>1, <1>2, <1>3, <1>4

\* A search that ends without the key ends in a free slot, and the key is in no
\* slot.
LEMMA NotFoundIsFree ==
  ASSUME NEW s, Good(s), NEW key \in Nat, ~TooCrowded(s, key), ~Has(s, key)
  PROVE  /\ SlotOf(s, key) \in Slots /\ s.node[SlotOf(s, key)] = Empty
         /\ \A i \in Slots : s.node[i].key # key
<1>1. SlotOf(s, key) \in Slots /\ s.node[SlotOf(s, key)].key = -1
  BY SearchStops DEF Has
<1>2. s.node[SlotOf(s, key)] = Empty
  BY <1>1 DEF Good, StoreOK, Node
<1>3. \A i \in Slots : s.node[i].key # key
  BY HeldIsFound
<1> QED
  BY <1>1, <1>2, <1>3

\* The slots in use can be counted.
LEMMA TakenFinite ==
  ASSUME NEW s
  PROVE  /\ IsFiniteSet(Taken(s)) /\ Cardinality(Taken(s)) \in Nat
         /\ Cardinality(Taken(s)) <= Capacity
<1>1. IsFiniteSet(Slots) /\ Cardinality(Slots) = Capacity
  BY KVStoreAssumption, FS_Interval DEF Slots
<1>2. Taken(s) \subseteq Slots
  BY DEF Taken
<1>3. IsFiniteSet(Taken(s)) /\ Cardinality(Taken(s)) <= Cardinality(Slots)
  BY <1>1, <1>2, FS_Subset
<1> QED
  BY <1>1, <1>3, FS_CardinalityType

\* A search that does not end has met kMaxProbeNum entries, or all of them.
LEMMA CrowdedIsFull ==
  ASSUME NEW s, StoreOK(s), Counted(s), NEW key \in Nat, TooCrowded(s, key)
  PROVE  s.node_size >= Min({MaxProbe, Capacity})
<1>1. PICK n \in Nat : n = Min({MaxProbe, Capacity}) /\ n <= MaxProbe /\ n <= Capacity
  <2>1. {MaxProbe, Capacity} \subseteq Nat /\ {MaxProbe, Capacity} # {}
    BY KVStoreAssumption
  <2> QED
    BY <2>1, LeastOne
<1> DEFINE f == [i \in 0..(n - 1) |-> Place(key, i)]
<1>2. ASSUME NEW i \in 0..(n - 1) PROVE Place(key, i) \in Taken(s)
  <2>1. i \in 0..(MaxProbe - 1) /\ key + i \in Nat
    BY <1>1, KVStoreAssumption
  <2>2. Place(key, i) \in Slots
    BY <2>1, KVStoreAssumption, Division DEF Place, Slots
  <2>3. s.node[Place(key, i)].key # -1
    BY <2>1 DEF TooCrowded, Stops, ProbeSlots, Place
  <2> QED
    BY <2>2, <2>3 DEF Taken, Empty
<1>3. ASSUME NEW i \in 0..(n - 1), NEW j \in 0..(n - 1), Place(key, i) = Place(key, j)
      PROVE  i = j
  <2>1. i \in 0..(Capacity - 1) /\ j \in 0..(Capacity - 1)
    BY <1>1, KVStoreAssumption
  <2> QED
    BY <1>3, <2>1, Remainders, KVStoreAssumption DEF Place
<1>4. f \in Injection(0..(n - 1), Taken(s))
  BY <1>2, <1>3 DEF Injection, IsInjective
<1>5. Cardinality(0..(n - 1)) <= Cardinality(Taken(s))
  BY <1>4, TakenFinite, FS_Injection
<1>6. Cardinality(0..(n - 1)) = n
  BY <1>1, FS_Interval
<1> QED
  BY <1>1, <1>5, <1>6 DEF Counted

-----------------------------------------------------------------------------
(* The operations.                                                           *)

\* LOG_FATAL leaves the store as it is.
LEMMA FatalKeeps ==
  ASSUME NEW s, Good(s), NEW t, t = [s EXCEPT !.fatal = TRUE]
  PROVE  /\ Good(t) /\ t.fatal /\ t.node = s.node /\ t.data = s.data
         /\ t.node_size = s.node_size
         /\ \A key \in Nat : (Has(t, key) <=> Has(s, key)) /\ SlotOf(t, key) = SlotOf(s, key)
<1>1. /\ t.node = s.node /\ t.data = s.data /\ t.node_size = s.node_size
      /\ t.data_size = s.data_size
  BY DEF Good, StoreOK
<1>2. t.fatal /\ StoreOK(t)
  BY DEF Good, StoreOK
<1>3. \A key \in Nat : (Has(t, key) <=> Has(s, key)) /\ SlotOf(t, key) = SlotOf(s, key)
  BY <1>1, SameSearch
<1>4. \A i \in Slots : s.node[i] # Empty => s.node[i].key \in Nat
  BY DEF Good, StoreOK, Node
<1>5. Sound(t) /\ Counted(t)
  BY <1>1, <1>3, <1>4 DEF Good, Sound, Counted, Taken
<1> QED
  BY <1>1, <1>2, <1>3, <1>5 DEF Good

\* A new entry (kvstore.cc:52-61) in the free slot that the search for its key
\* ends in: the store has the key, and every other key as before.
LEMMA ClaimAdds ==
  ASSUME NEW s, Good(s), NEW key \in Nat, ~TooCrowded(s, key), ~Has(s, key), NEW t,
         t = Claim(s, key, SlotOf(s, key), s.data_size)
  PROVE  /\ Good(t) /\ (t.fatal <=> s.fatal)
         /\ Has(t, key) /\ SlotOf(t, key) = SlotOf(s, key)
         /\ Entry(t, key).offset = s.data_size /\ ~Entry(t, key).immutable
         /\ Value(t, key) = Fresh("garbage", key)
         /\ \A k \in Nat \ {key} :
              /\ Has(t, k) <=> Has(s, k)
              /\ Has(s, k) => /\ SlotOf(t, k) = SlotOf(s, k)
                              /\ Entry(t, k) = Entry(s, k) /\ Value(t, k) = Value(s, k)
<1>1. PICK slot \in Slots : /\ slot = SlotOf(s, key) /\ s.node[slot] = Empty
                            /\ \A i \in Slots : s.node[i].key # key
  BY NotFoundIsFree
<1>2. PICK n \in Nat : n = s.data_size
  BY DEF Good, StoreOK
<1>3. PICK e \in Node : e = [key |-> key, offset |-> n, immutable |-> FALSE]
  <2>1. [key |-> key, offset |-> n, immutable |-> FALSE] \in Node
    BY Zenon DEF Node
  <2> QED
    BY <2>1
<1>4. PICK v \in Val : v = Fresh("garbage", key)
  BY DEF Val, Fresh
<1>5. t = [node |-> [s.node EXCEPT ![slot] = e], node_size |-> s.node_size + 1,
           data |-> [o \in DOMAIN s.data \cup {n} |-> IF o = n THEN v ELSE s.data[o]],
           data_size |-> n + 1, fatal |-> s.fatal]
  BY <1>1, <1>2, <1>3, <1>4 DEF Claim, Good, StoreOK
<1>6. StoreOK(t)
  <2>1. [s.node EXCEPT ![slot] = e] \in [Slots -> Node \cup {Empty}]
    BY DEF Good, StoreOK
  <2>2. DOMAIN s.data \cup {n} = 0..n /\ n \notin DOMAIN s.data
    BY <1>2 DEF Good, StoreOK
  <2>3. [o \in DOMAIN s.data \cup {n} |-> IF o = n THEN v ELSE s.data[o]]
          \in [0..((n + 1) - 1) -> Val]
    BY <1>2, <2>2 DEF Good, StoreOK
  <2> QED
    BY <1>2, <1>5, <2>1, <2>3 DEF Good, StoreOK
<1>7. t.node[slot] = e /\ \A i \in Slots : i # slot => t.node[i] = s.node[i]
  BY <1>5 DEF Good, StoreOK
<1>8. /\ t.data[n] = v /\ \A o \in 0..(n - 1) : t.data[o] = s.data[o]
      /\ t.data_size = n + 1 /\ t.node_size = s.node_size + 1
  BY <1>2, <1>5 DEF Good, StoreOK
<1>9. Has(t, key) /\ SlotOf(t, key) = slot
  <2>1. PICK m \in 0..(MaxProbe - 1) :
          /\ slot = Place(key, m)
          /\ \A i \in 0..(m - 1) : s.node[Place(key, i)].key \notin {-1, key}
    BY <1>1, SearchStops
  <2>2. ASSUME NEW i \in 0..(m - 1) PROVE t.node[Place(key, i)].key \notin {-1, key}
    <3>1. Place(key, i) \in Slots
      BY KVStoreAssumption, Division DEF Place, Slots
    <3>2. Place(key, i) # slot
      BY <1>1, <2>1 DEF Empty
    <3> QED
      BY <1>7, <2>1, <3>1, <3>2
  <2>3. t.node[Place(key, m)].key = key
    BY <1>3, <1>7, <2>1
  <2> QED
    BY <2>1, <2>2, <2>3, SearchFinds DEF Has
<1>10. ASSUME NEW k \in Nat \ {key}, Has(s, k)
       PROVE  Has(t, k) /\ SlotOf(t, k) = SlotOf(s, k) /\ SlotOf(s, k) \in Slots
              /\ SlotOf(s, k) # slot
  <2>1. PICK m \in 0..(MaxProbe - 1) :
          /\ SlotOf(s, k) = Place(k, m) /\ Place(k, m) \in Slots
          /\ \A i \in 0..(m - 1) : s.node[Place(k, i)].key \notin {-1, k}
    BY <1>10, SearchStops DEF Has
  <2>2. s.node[Place(k, m)].key = k
    BY <1>10, <2>1 DEF Has
  <2>3. Place(k, m) # slot
    BY <1>1, <2>2 DEF Empty
  <2>4. ASSUME NEW i \in 0..(m - 1) PROVE t.node[Place(k, i)].key \notin {-1, k}
    <3>1. Place(k, i) \in Slots
      BY KVStoreAssumption, Division DEF Place, Slots
    <3> QED
      BY <1>3, <1>7, <2>1, <3>1
  <2>5. t.node[Place(k, m)].key = k
    BY <1>7, <2>1, <2>2, <2>3
  <2> QED
    BY <2>1, <2>3, <2>4, <2>5, SearchFinds DEF Has
<1>11. Counted(t)
  <2>1. Taken(t) = Taken(s) \cup {slot} /\ slot \notin Taken(s)
    BY <1>1, <1>3, <1>7 DEF Taken, Empty, Node
  <2>2. Cardinality(Taken(t)) = Cardinality(Taken(s)) + 1
    BY <2>1, TakenFinite, FS_AddElement
  <2> QED
    BY <1>2, <1>8, <2>2 DEF Good, Counted
<1>12. Sound(t)
  <2>1. ASSUME NEW i \in Slots, t.node[i] # Empty
        PROVE  /\ Has(t, t.node[i].key) /\ SlotOf(t, t.node[i].key) = i
               /\ t.node[i].offset \in 0..(t.data_size - 1)
    <3>1. CASE i = slot
      BY <1>3, <1>7, <1>8, <1>9, <3>1
    <3>2. CASE i # slot
      <4>1. /\ t.node[i] = s.node[i] /\ s.node[i] # Empty /\ s.node[i].key \in Nat \ {key}
        BY <1>1, <1>7, <2>1, <3>2 DEF Good, StoreOK, Node
      <4>2. /\ Has(s, s.node[i].key) /\ SlotOf(s, s.node[i].key) = i
            /\ s.node[i].offset \in 0..(n - 1)
        BY <1>2, <4>1 DEF Good, Sound
      <4> QED
        BY <1>8, <1>10, <4>1, <4>2
    <3> QED
      BY <3>1, <3>2
  <2>2. ASSUME NEW i \in Slots, NEW j \in Slots, t.node[i].offset = t.node[j].offset,
               t.node[i] # Empty
        PROVE  i = j
    <3>1. ASSUME NEW x \in Slots, x # slot
          PROVE  t.node[x] = s.node[x] /\ t.node[x].offset # n
      <4>1. t.node[x] = s.node[x]
        BY <1>7, <3>1
      <4>2. s.node[x] # Empty => s.node[x].offset \in 0..(n - 1)
        BY <1>2 DEF Good, Sound
      <4> QED
        BY <4>1, <4>2 DEF Empty
    <3>2. CASE i = slot
      BY <1>3, <1>7, <2>2, <3>1, <3>2
    <3>3. CASE i # slot
      <4>1. j # slot
        BY <1>3, <1>7, <2>2, <3>1, <3>3
      <4> QED
        BY <2>2, <3>1, <3>3, <4>1 DEF Good, Sound
    <3> QED
      BY <3>2, <3>3
  <2>3. t.data_size <= Capacity
    BY <1>11, TakenFinite DEF Counted
  <2> QED
    BY <2>1, <2>2, <2>3 DEF Sound
<1>13. Good(t)
  BY <1>6, <1>11, <1>12 DEF Good
<1>14. Entry(t, key) = e /\ Value(t, key) = v
  BY <1>3, <1>7, <1>8, <1>9 DEF Entry, Value
<1>15. ASSUME NEW k \in Nat \ {key}
       PROVE  /\ Has(t, k) <=> Has(s, k)
              /\ Has(s, k) => /\ SlotOf(t, k) = SlotOf(s, k)
                              /\ Entry(t, k) = Entry(s, k) /\ Value(t, k) = Value(s, k)
  <2>1. ASSUME Has(s, k)
        PROVE  Has(t, k) /\ SlotOf(t, k) = SlotOf(s, k) /\ Entry(t, k) = Entry(s, k)
               /\ Value(t, k) = Value(s, k)
    <3>1. Has(t, k) /\ SlotOf(t, k) = SlotOf(s, k) /\ Entry(t, k) = Entry(s, k)
      BY <1>7, <1>10, <2>1 DEF Entry
    <3>2. Entry(s, k).offset \in 0..(n - 1)
      BY <1>2, <2>1, FoundIsHeld
    <3> QED
      BY <1>8, <3>1, <3>2 DEF Value
  <2>2. ASSUME Has(t, k) PROVE Has(s, k)
    <3>1. SlotOf(t, k) \in Slots /\ t.node[SlotOf(t, k)].key = k
      BY <1>13, <2>2, FoundIsHeld DEF Entry
    <3>2. s.node[SlotOf(t, k)].key = k
      BY <1>3, <1>7, <3>1
    <3> QED
      BY <3>1, <3>2, HeldIsFound
  <2> QED
    BY <2>1, <2>2
<1>16. t.fatal <=> s.fatal
  BY <1>5
<1>17. e.offset = n /\ ~e.immutable
  BY <1>3
<1> QED
  BY <1>1, <1>2, <1>4, <1>9, <1>13, <1>14, <1>15, <1>16, <1>17

\* Writing into the place of a key that the store has, and its mask, changes the
\* value of this key only.
LEMMA WriteSets ==
  ASSUME NEW s, Good(s), NEW key \in Nat, Has(s, key), NEW val \in Val, NEW t,
         NEW immutable \in BOOLEAN,
         t = Write(s, SlotOf(s, key), Entry(s, key).offset, val, immutable)
  PROVE  /\ Good(t) /\ (t.fatal <=> s.fatal)
         /\ \A i \in Slots : t.node[i].key = s.node[i].key
         /\ Value(t, key) = val /\ (Entry(t, key).immutable <=> immutable)
         /\ \A k \in Nat : (Has(t, k) <=> Has(s, k)) /\ SlotOf(t, k) = SlotOf(s, k)
         /\ \A k \in Nat \ {key} :
              Has(s, k) => Entry(t, k) = Entry(s, k) /\ Value(t, k) = Value(s, k)
<1>1. PICK slot \in Slots, e \in Node :
        slot = SlotOf(s, key) /\ e = s.node[slot] /\ e.key = key /\ e = Entry(s, key)
        /\ e.offset \in 0..(s.data_size - 1)
  BY FoundIsHeld DEF Entry
<1>2. PICK d \in Node : d = [e EXCEPT !.immutable = immutable]
  BY DEF Node
<1>3. d.key = key /\ d.offset = e.offset /\ (d.immutable <=> immutable)
  BY <1>1, <1>2 DEF Node
<1>4. t = [node |-> [s.node EXCEPT ![slot] = d], node_size |-> s.node_size,
           data |-> [s.data EXCEPT ![e.offset] = val], data_size |-> s.data_size,
           fatal |-> s.fatal]
  BY <1>1, <1>2 DEF Write, Good, StoreOK
<1>5. StoreOK(t)
  <2>1. [s.node EXCEPT ![slot] = d] \in [Slots -> Node \cup {Empty}]
    BY DEF Good, StoreOK
  <2>2. [s.data EXCEPT ![e.offset] = val] \in [0..(s.data_size - 1) -> Val]
    BY DEF Good, StoreOK
  <2> QED
    BY <1>4, <2>1, <2>2 DEF Good, StoreOK
<1>6. t.node[slot] = d /\ \A i \in Slots : i # slot => t.node[i] = s.node[i]
  BY <1>4 DEF Good, StoreOK
<1>7. /\ t.data[e.offset] = val
      /\ \A o \in 0..(s.data_size - 1) : o # e.offset => t.data[o] = s.data[o]
  BY <1>1, <1>4 DEF Good, StoreOK
<1>8. t.data_size = s.data_size /\ t.node_size = s.node_size /\ (t.fatal <=> s.fatal)
  BY <1>4
<1>9. \A i \in Slots : /\ t.node[i].key = s.node[i].key /\ t.node[i].offset = s.node[i].offset
                       /\ t.node[i] = Empty <=> s.node[i] = Empty
  <2>1. d # Empty /\ e # Empty
    BY DEF Node, Empty
  <2> QED
    BY <1>1, <1>3, <1>6, <2>1
<1>10. \A k \in Nat : (Has(t, k) <=> Has(s, k)) /\ SlotOf(t, k) = SlotOf(s, k)
  BY <1>9, SameSearch
<1>11. Counted(t)
  <2>1. Taken(t) = Taken(s)
    BY <1>9 DEF Taken
  <2> QED
    BY <1>8, <2>1 DEF Good, Counted
<1>12. Sound(t)
  <2>1. \A i \in Slots : s.node[i] # Empty => s.node[i].key \in Nat
    BY DEF Good, StoreOK, Node
  <2> QED
    BY <1>8, <1>9, <1>10, <2>1 DEF Good, Sound
<1>13. Value(t, key) = val /\ (Entry(t, key).immutable <=> immutable)
  BY <1>1, <1>3, <1>6, <1>7, <1>10 DEF Entry, Value
<1>14. ASSUME NEW k \in Nat \ {key}, Has(s, k)
       PROVE  Entry(t, k) = Entry(s, k) /\ Value(t, k) = Value(s, k)
  <2>1. /\ SlotOf(s, k) \in Slots /\ Entry(s, k).key = k
        /\ Entry(s, k).offset \in 0..(s.data_size - 1) /\ Entry(s, k) \in Node
    BY <1>14, FoundIsHeld
  <2>2. SlotOf(s, k) # slot
    BY <1>1, <2>1 DEF Entry
  <2>3. Entry(s, k).offset # e.offset
    BY <1>1, <2>1, <2>2 DEF Good, Sound, Entry, Node, Empty
  <2> QED
    BY <1>6, <1>7, <1>10, <2>1, <2>2, <2>3 DEF Entry, Value
<1> QED
  BY <1>5, <1>8, <1>9, <1>10, <1>11, <1>12, <1>13, <1>14 DEF Good

\* KVStore::Set of a key that the store does not have.
LEMMA ClaimSets ==
  ASSUME NEW s, Good(s), NEW key \in Nat, ~TooCrowded(s, key), ~Has(s, key), NEW val \in Val,
         NEW u, u = Claim(s, key, SlotOf(s, key), s.data_size),
         NEW no \in BOOLEAN, NEW t, t = Write(u, SlotOf(s, key), s.data_size, val, no)
  PROVE  /\ Good(t) /\ (t.fatal <=> s.fatal) /\ Value(t, key) = val
         /\ \A k \in Nat : Has(t, k) <=> (Has(s, k) \/ k = key)
         /\ \A k \in Nat \ {key} : Has(s, k) => Value(t, k) = Value(s, k)
<1>1. /\ Good(u) /\ (u.fatal <=> s.fatal)
      /\ Has(u, key) /\ SlotOf(u, key) = SlotOf(s, key)
      /\ Entry(u, key).offset = s.data_size
      /\ \A k \in Nat \ {key} :
           /\ Has(u, k) <=> Has(s, k)
           /\ Has(s, k) => Value(u, k) = Value(s, k)
  BY ClaimAdds
<1>2. t = Write(u, SlotOf(u, key), Entry(u, key).offset, val, no)
  BY <1>1
<1>3. /\ Good(t) /\ (t.fatal <=> u.fatal) /\ Value(t, key) = val
      /\ \A k \in Nat : Has(t, k) <=> Has(u, k)
      /\ \A k \in Nat \ {key} : Has(u, k) => Value(t, k) = Value(u, k)
  BY ONLY <1>1, <1>2, no \in BOOLEAN, key \in Nat, val \in Val, WriteSets
<1> QED
  BY <1>1, <1>3

\* What a search has found is used by KVStore::Set: the store has the key with
\* the value, and every other key as before.
LEMMA InsertSets ==
  ASSUME NEW s, Good(s), NEW key \in Nat, ~TooCrowded(s, key), NEW val \in Val,
         NEW slot, slot = SlotOf(s, key),
         NEW offset, offset = (IF Has(s, key) THEN Entry(s, key).offset ELSE s.data_size),
         NEW u, u = (IF Has(s, key) THEN s ELSE Claim(s, key, slot, offset)),
         NEW no \in BOOLEAN, NEW t, t = Write(u, slot, offset, val, no)
  PROVE  /\ Good(t) /\ (t.fatal <=> s.fatal) /\ Value(t, key) = val
         /\ \A k \in Nat : Has(t, k) <=> (Has(s, k) \/ k = key)
         /\ \A k \in Nat \ {key} : Has(s, k) => Value(t, k) = Value(s, k)
<1>1. CASE Has(s, key)
  <2>1. t = Write(s, SlotOf(s, key), Entry(s, key).offset, val, no)
    BY <1>1
  <2>2. /\ Good(t) /\ (t.fatal <=> s.fatal) /\ Value(t, key) = val
        /\ \A k \in Nat : Has(t, k) <=> Has(s, k)
        /\ \A k \in Nat \ {key} : Has(s, k) => Value(t, k) = Value(s, k)
    BY ONLY <1>1, <2>1, no \in BOOLEAN, Good(s), key \in Nat, val \in Val, WriteSets
  <2> QED
    BY <1>1, <2>2
<1>2. CASE ~Has(s, key)
  <2>1. /\ u = Claim(s, key, SlotOf(s, key), s.data_size)
        /\ t = Write(u, SlotOf(s, key), s.data_size, val, no)
    BY <1>2
  <2> QED
    BY ONLY <1>2, <2>1, no \in BOOLEAN, Good(s), key \in Nat, ~TooCrowded(s, key),
            val \in Val, ClaimSets
<1> QED
  BY <1>1, <1>2

\* Changing only the value of a key is a write that keeps the mask.
LEMMA WriteKeepsMask ==
  ASSUME NEW s, Good(s), NEW key \in Nat, Has(s, key), NEW val \in Val
  PROVE  /\ Entry(s, key).immutable \in BOOLEAN
         /\ [s EXCEPT !.data[Entry(s, key).offset] = val]
              = Write(s, SlotOf(s, key), Entry(s, key).offset, val, Entry(s, key).immutable)
<1>1. SlotOf(s, key) \in Slots /\ Entry(s, key) \in Node
  BY FoundIsHeld
<1>2. Entry(s, key).immutable \in BOOLEAN
  BY <1>1 DEF Node
<1>3. [s.node EXCEPT ![SlotOf(s, key)] =
         [Entry(s, key) EXCEPT !.immutable = Entry(s, key).immutable]] = s.node
  <2>1. [Entry(s, key) EXCEPT !.immutable = Entry(s, key).immutable] = Entry(s, key)
    BY <1>1 DEF Node
  <2>2. [s.node EXCEPT ![SlotOf(s, key)] = s.node[SlotOf(s, key)]] = s.node
    BY <1>1 DEF Good, StoreOK
  <2> QED
    BY <2>1, <2>2 DEF Entry
<1>4. Write(s, SlotOf(s, key), Entry(s, key).offset, val, Entry(s, key).immutable)
        = [s EXCEPT !.data = [s.data EXCEPT ![Entry(s, key).offset] = val], !.node = s.node]
  BY <1>3 DEF Write, Entry
<1> QED
  BY <1>2, <1>4 DEF Good, StoreOK

\* KVStore::Get with immutable = false ends the process, or leaves a store with
\* the key, new or not, and every other key as before.
LEMMA FindHas ==
  ASSUME NEW s, Good(s), ~s.fatal, NEW key \in Nat, NEW t, t = Find(s, key)
  PROVE  /\ Good(t)
         /\ t.fatal <=> TooCrowded(s, key)
         /\ t.fatal => t.node_size >= Min({MaxProbe, Capacity})
         /\ t.fatal => \A k \in Nat : /\ Has(t, k) <=> Has(s, k)
                                      /\ Entry(t, k) = Entry(s, k) /\ Value(t, k) = Value(s, k)
         /\ ~t.fatal =>
              /\ Has(t, key)
              /\ \A k \in Nat : Has(t, k) <=> (Has(s, k) \/ k = key)
              /\ \A k \in Nat : Has(s, k) => Entry(t, k) = Entry(s, k) /\ Value(t, k) = Value(s, k)
              /\ ~Has(s, key) => Value(t, key) = Fresh("garbage", key) /\ ~Entry(t, key).immutable
<1>1. CASE TooCrowded(s, key)
  <2>1. t = [s EXCEPT !.fatal = TRUE]
    BY <1>1 DEF Find
  <2>2. /\ Good(t) /\ t.fatal /\ t.node = s.node /\ t.data = s.data
        /\ t.node_size = s.node_size
        /\ \A k \in Nat : (Has(t, k) <=> Has(s, k)) /\ SlotOf(t, k) = SlotOf(s, k)
    BY <2>1, FatalKeeps
  <2>3. s.node_size >= Min({MaxProbe, Capacity})
    BY <1>1, CrowdedIsFull DEF Good
  <2>4. \A k \in Nat : Entry(t, k) = Entry(s, k) /\ Value(t, k) = Value(s, k)
    BY <2>2 DEF Entry, Value
  <2> QED
    BY <1>1, <2>2, <2>3, <2>4
<1>2. CASE Has(s, key)
  <2>1. t = s /\ ~TooCrowded(s, key)
    BY <1>2 DEF Find, Has
  <2> QED
    BY <1>2, <2>1
<1>3. CASE ~TooCrowded(s, key) /\ ~Has(s, key)
  <2>1. t = Claim(s, key, SlotOf(s, key), s.data_size)
    BY <1>3 DEF Find
  <2>2. /\ Good(t) /\ (t.fatal <=> s.fatal)
        /\ Has(t, key) /\ ~Entry(t, key).immutable
        /\ Value(t, key) = Fresh("garbage", key)
        /\ \A k \in Nat \ {key} :
             /\ Has(t, k) <=> Has(s, k)
             /\ Has(s, k) => Entry(t, k) = Entry(s, k) /\ Value(t, k) = Value(s, k)
    BY <1>3, <2>1, ClaimAdds
  <2> QED
    BY <1>3, <2>2
<1> QED
  BY <1>1, <1>2, <1>3

\* A new store is good and has the black-listed key alone.
LEMMA NewIsGood ==
  /\ Good(New) /\ ~New.fatal
  /\ \A k \in Nat : Has(New, k) <=> k = 0
  /\ Value(New, 0) = Fresh("zero", 0) /\ Entry(New, 0).immutable
<1> DEFINE E == [node |-> [i \in Slots |-> Empty], node_size |-> 0,
                 data |-> << >>, data_size |-> 0, fatal |-> FALSE]
<1>1. \A i \in Slots : E.node[i] = Empty
  OBVIOUS
<1>2. StoreOK(E)
  <2>1. << >> \in [0..(0 - 1) -> Val]
    OBVIOUS
  <2> QED
    BY <2>1 DEF StoreOK
<1>3. Sound(E)
  BY <1>1, KVStoreAssumption DEF Sound
<1>4. Counted(E)
  <2>1. Taken(E) = {}
    BY <1>1 DEF Taken
  <2> QED
    BY <2>1, FS_EmptySet DEF Counted
<1>5. Good(E) /\ ~E.fatal
  BY <1>2, <1>3, <1>4 DEF Good
<1>6. \A k \in Nat : ~Has(E, k)
  BY <1>1, SearchStops DEF Has, Empty
<1>7. ~TooCrowded(E, 0)
  <2>1. Place(0, 0) \in Slots /\ 0 \in 0..(MaxProbe - 1) /\ 0..(0 - 1) = {}
    BY KVStoreAssumption, Division DEF Place, Slots
  <2>2. E.node[Place(0, 0)].key = -1
    BY <1>1, <2>1 DEF Empty
  <2> HIDE DEF E
  <2> QED
    BY <2>1, <2>2, SearchFinds
<1> HIDE DEF E
<1>8. PICK t : t = Find(E, 0)
  OBVIOUS
<1>9. /\ Good(t) /\ ~t.fatal /\ \A k \in Nat : Has(t, k) <=> k = 0
  BY <1>5, <1>6, <1>7, <1>8, FindHas
<1>10. New = Write(t, SlotOf(t, 0), Entry(t, 0).offset, Fresh("zero", 0), TRUE)
  BY <1>8, <1>9 DEF New, Set, E
<1>11. Fresh("zero", 0) \in Val /\ TRUE \in BOOLEAN /\ 0 \in Nat
  BY DEF Fresh, Val
<1>12. PICK v \in Val, yes \in BOOLEAN : v = Fresh("zero", 0) /\ yes = TRUE
  BY <1>11
<1>13. New = Write(t, SlotOf(t, 0), Entry(t, 0).offset, v, yes)
  BY <1>10, <1>12
<1>14. /\ Good(New) /\ (New.fatal <=> t.fatal)
       /\ Value(New, 0) = v /\ (Entry(New, 0).immutable <=> yes)
       /\ \A k \in Nat : Has(New, k) <=> Has(t, k)
  BY ONLY <1>9, <1>11, <1>13, WriteSets
<1> QED
  BY <1>9, <1>12, <1>14

\* A checkpoint is taken only of a store whose entries fill the first slots.
SavesPacked == ~SaveUnpacked

\* The keys of a call belong to one server, or the worker actor has one thread:
\* the answers to a call are copied one after the other.
CallsOneServer ==
  \A keys \in Asks : \A i, j \in DOMAIN keys : keys[i] % NumServers = keys[j] % NumServers
CopiesInTurn == CallsOneServer \/ \A t, u \in Threads : t = u

-----------------------------------------------------------------------------
(* The inductive invariants.                                                 *)

\* A server's store has the black-listed key, and this is the immutable one.
Masked(st) ==
  \A i \in Slots : st.node[i] # Empty => (st.node[i].immutable <=> st.node[i].key = 0)
ServerStore(st) == Good(st) /\ Has(st, 0) /\ Masked(st)

\* LOG_FATAL was met in a crowd.
Crowd(st) == st.fatal => st.node_size >= Min({MaxProbe, Capacity})

RequestOK(r) ==
  /\ r = [op |-> r.op, server |-> r.server, keys |-> r.keys, left |-> r.left]
  /\ r.op \in {"Get", "Add"} /\ r.server \in Servers /\ r.left \subseteq DOMAIN r.keys
  /\ \E keys \in Asks : \A i \in DOMAIN r.keys : i \in DOMAIN keys /\ r.keys[i] = keys[i]

ServerInv ==
  /\ server = [s \in Servers |-> server[s]] /\ image = [s \in Servers |-> image[s]]
  /\ \A s \in Servers : ServerStore(server[s]) /\ Crowd(server[s])
  /\ \A s \in Servers : image[s] # None => ServerStore(Load(image[s]))
  /\ \A r \in requests : RequestOK(r)

\* The value that the owner of a key has, of the stores srv. The worker's store w
\* has the key at place i of the call c, with that value.
Owner(key) == key % NumServers
OwnerHas(srv, key) == Has(srv[Owner(key)], key)
Owned(srv, key) == Value(srv[Owner(key)], key)
Copied(w, srv, key) ==
  OwnerHas(srv, key) /\ Has(w, key) /\ Value(w, key) = Owned(srv, key)

\* A part of the call that its server is working on: the keys that the loop has
\* passed are there.
PartOK(r, c, srv) ==
  /\ r.op = c.op
  /\ \A i \in DOMAIN r.keys :
       i \in DOMAIN c.keys /\ r.keys[i] = c.keys[i] /\ r.server = Owner(c.keys[i])
  /\ r.op = "Get" =>
       \A i \in DOMAIN r.keys \ r.left : srv[r.server].fatal \/ OwnerHas(srv, c.keys[i])

\* An answer has keys of the call, each with the value of its owner.
Fetched(e, c, srv) ==
  /\ e = [i \in DOMAIN e |-> e[i]]
  /\ \A i \in DOMAIN e :
       /\ c.op = "Get" /\ i \in DOMAIN c.keys
       /\ OwnerHas(srv, c.keys[i])
       /\ e[i] = [key |-> c.keys[i], val |-> Owned(srv, c.keys[i])]

\* What a thread has found is still so.
NextKey(e) == e[NextPlace(e)].key
SearchOK(r, w) ==
  LET key == NextKey(r.entries) IN
  r.slot # -1 =>
    /\ r.entries # << >> /\ ~TooCrowded(w, key) /\ r.slot = SlotOf(w, key)
    /\ r.new <=> ~Has(w, key)
    /\ r.offset = IF Has(w, key) THEN Entry(w, key).offset ELSE w.data_size

\* The parts under way are counted, and one thread at most copies an answer.
Busy == \E t \in Threads : thread[t] # Idle
PartsCounted ==
  /\ IsFiniteSet(requests) /\ IsFiniteSet(replies)
  /\ pending = Cardinality(requests) + Cardinality(replies) + (IF Busy THEN 1 ELSE 0)
  /\ call = None => pending = 0
  /\ CallsOneServer => pending <= 1
  /\ \A t, u \in Threads : thread[t] # Idle /\ thread[u] # Idle => t = u
  /\ \A r, q \in requests : r.server = q.server => r = q
  /\ \A r \in requests, q \in replies : r.server # q.server

WorkerInv ==
  /\ Good(worker) /\ Crowd(worker)
  /\ call = None \/ call.keys \in Asks
  /\ PartsCounted
  /\ \A r \in requests : PartOK(r, call, server)
  /\ \A r \in replies : Fetched(r.entries, call, server)
  /\ thread = [t \in Threads |-> thread[t]]
  /\ \A t \in Threads :
       Fetched(thread[t].entries, call, server) /\ SearchOK(thread[t], worker)
  /\ call.op = "Get" =>
       \A i \in DOMAIN call.keys :
         \/ \E r \in requests : i \in DOMAIN r.keys
         \/ \E r \in replies : i \in DOMAIN r.entries
         \/ \E t \in Threads : i \in DOMAIN thread[t].entries
         \/ Copied(worker, server, call.keys[i])

-----------------------------------------------------------------------------
(* The servers' handlers.                                                    *)

\* The mask of an entry is that of the key.
LEMMA MaskOfKey ==
  ASSUME NEW st, Good(st)
  PROVE  Masked(st) <=>
           \A k \in Nat : Has(st, k) => (Entry(st, k).immutable <=> k = 0)
<1>1. ASSUME Masked(st), NEW k \in Nat, Has(st, k)
      PROVE  Entry(st, k).immutable <=> k = 0
  <2>1. SlotOf(st, k) \in Slots /\ Entry(st, k).key = k /\ Entry(st, k) # Empty
    BY <1>1, FoundIsHeld DEF Empty
  <2> QED
    BY <1>1, <2>1 DEF Masked, Entry
<1>2. ASSUME \A k \in Nat : Has(st, k) => (Entry(st, k).immutable <=> k = 0),
             NEW i \in Slots, st.node[i] # Empty
      PROVE  st.node[i].immutable <=> st.node[i].key = 0
  <2>1. st.node[i].key \in Nat
    BY <1>2 DEF Good, StoreOK, Node
  <2>2. Has(st, st.node[i].key) /\ SlotOf(st, st.node[i].key) = i
    BY <1>2, <2>1, HeldIsFound
  <2> QED
    BY <1>2, <2>1, <2>2 DEF Entry
<1> QED
  BY <1>1, <1>2 DEF Masked

\* What a handler's search leaves is a server's store.
LEMMA FindServes ==
  ASSUME NEW st, ServerStore(st), ~st.fatal, NEW key \in Nat, NEW t, t = Find(st, key)
  PROVE  ServerStore(t) /\ Crowd(t)
<1>1. /\ Good(t)
      /\ t.fatal => t.node_size >= Min({MaxProbe, Capacity})
      /\ t.fatal => \A k \in Nat : /\ Has(t, k) <=> Has(st, k)
                                   /\ Entry(t, k) = Entry(st, k)
      /\ ~t.fatal =>
           /\ \A k \in Nat : Has(t, k) <=> (Has(st, k) \/ k = key)
           /\ \A k \in Nat : Has(st, k) => Entry(t, k) = Entry(st, k)
           /\ ~Has(st, key) => ~Entry(t, key).immutable
  BY FindHas DEF ServerStore
<1>2. \A k \in Nat : Has(st, k) => (Entry(st, k).immutable <=> k = 0)
  BY MaskOfKey DEF ServerStore
<1>3. Has(st, 0) /\ Has(t, 0)
  BY <1>1 DEF ServerStore
<1>4. \A k \in Nat : Has(t, k) => (Entry(t, k).immutable <=> k = 0)
  BY <1>1, <1>2, <1>3
<1> QED
  BY <1>1, <1>3, <1>4, MaskOfKey DEF ServerStore, Crowd

\* Changing the value of a key leaves a server's store, and the other values.
LEMMA UpdateServes ==
  ASSUME NEW st, ServerStore(st), NEW key \in Nat, Has(st, key), NEW val \in Val,
         NEW t, t = [st EXCEPT !.data[Entry(st, key).offset] = val]
  PROVE  /\ ServerStore(t) /\ (t.fatal <=> st.fatal) /\ Value(t, key) = val
         /\ \A k \in Nat : Has(t, k) <=> Has(st, k)
         /\ \A k \in Nat \ {key} : Has(st, k) => Value(t, k) = Value(st, k)
<1>1. Good(st) /\ Has(st, 0)
  BY DEF ServerStore
<1>2. PICK mask \in BOOLEAN :
        /\ mask = Entry(st, key).immutable
        /\ t = Write(st, SlotOf(st, key), Entry(st, key).offset, val, mask)
  BY <1>1, WriteKeepsMask
<1>3. /\ Good(t) /\ (t.fatal <=> st.fatal)
      /\ Value(t, key) = val /\ (Entry(t, key).immutable <=> mask)
      /\ \A k \in Nat : Has(t, k) <=> Has(st, k)
      /\ \A k \in Nat \ {key} :
           Has(st, k) => Entry(t, k) = Entry(st, k) /\ Value(t, k) = Value(st, k)
  BY ONLY <1>1, <1>2, key \in Nat, Has(st, key), val \in Val, WriteSets
<1>4. \A k \in Nat : Has(st, k) => (Entry(st, k).immutable <=> k = 0)
  BY MaskOfKey DEF ServerStore
<1>5. \A k \in Nat : Has(t, k) => (Entry(t, k).immutable <=> k = 0)
  BY <1>2, <1>3, <1>4
<1> QED
  BY <1>1, <1>3, <1>5, MaskOfKey DEF ServerStore

\* One key of ProcessGet (kv_table.h:106-127): the store has the key, a new one
\* with a random value, and nothing else has changed.
LEMMA GetKeyServes ==
  ASSUME NEW st, ServerStore(st), ~st.fatal, NEW key \in Nat, NEW t, t = GetKey(st, key)
  PROVE  /\ ServerStore(t) /\ Crowd(t)
         /\ t.fatal => \A k \in Nat : (Has(t, k) <=> Has(st, k)) /\ Value(t, k) = Value(st, k)
         /\ ~t.fatal =>
              /\ \A k \in Nat : Has(t, k) <=> (Has(st, k) \/ k = key)
              /\ \A k \in Nat : Has(st, k) => Value(t, k) = Value(st, k)
              /\ ~Has(st, key) => Value(t, key) = Fresh("random", key)
<1>1. PICK u : u = Find(st, key)
  OBVIOUS
<1>2. ServerStore(u) /\ Crowd(u)
  BY <1>1, FindServes
<1>3. /\ u.fatal => \A k \in Nat : (Has(u, k) <=> Has(st, k)) /\ Value(u, k) = Value(st, k)
      /\ ~u.fatal =>
           /\ Has(u, key)
           /\ \A k \in Nat : Has(u, k) <=> (Has(st, k) \/ k = key)
           /\ \A k \in Nat : Has(st, k) => Value(u, k) = Value(st, k)
  BY <1>1, FindHas DEF ServerStore
<1>4. CASE u.fatal \/ Has(st, key)
  <2>1. t = u
    BY <1>1, <1>4 DEF GetKey
  <2> QED
    BY <1>2, <1>3, <1>4, <2>1
<1>5. CASE ~u.fatal /\ ~Has(st, key)
  <2>1. PICK v \in Val : v = Fresh("random", key)
    BY DEF Fresh, Val
  <2>2. t = [u EXCEPT !.data[Entry(u, key).offset] = v]
    BY <1>1, <1>5, <2>1 DEF GetKey
  <2>3. /\ ServerStore(t) /\ (t.fatal <=> u.fatal) /\ Value(t, key) = v
        /\ \A k \in Nat : Has(t, k) <=> Has(u, k)
        /\ \A k \in Nat \ {key} : Has(u, k) => Value(t, k) = Value(u, k)
    BY <1>2, <1>3, <1>5, <2>2, UpdateServes
  <2> QED
    BY <1>3, <1>5, <2>1, <2>3 DEF Crowd
<1> QED
  BY <1>4, <1>5

\* One key of ProcessAdd (kv_table.h:129-149): the store has the key, and one
\* update more on its value unless it is the black-listed key.
Started(st, key) == IF Has(st, key) THEN Value(st, key) ELSE Fresh("garbage", key)
LEMMA AddKeyServes ==
  ASSUME NEW st, ServerStore(st), ~st.fatal, NEW key \in Nat, NEW t, t = AddKey(st, key)
  PROVE  /\ ServerStore(t) /\ Crowd(t)
         /\ t.fatal => \A k \in Nat : (Has(t, k) <=> Has(st, k)) /\ Value(t, k) = Value(st, k)
         /\ ~t.fatal =>
              /\ \A k \in Nat : Has(t, k) <=> (Has(st, k) \/ k = key)
              /\ \A k \in Nat \ {key} : Has(st, k) => Value(t, k) = Value(st, k)
              /\ key = 0 => Value(t, key) = Value(st, key)
              /\ key # 0 => Value(t, key) =
                   [Started(st, key) EXCEPT !.adds = Started(st, key).adds + 1]
<1>1. PICK u : u = Find(st, key)
  OBVIOUS
<1>2. ServerStore(u) /\ Crowd(u) /\ Good(u) /\ Has(st, 0)
  BY <1>1, FindServes DEF ServerStore
<1>3. /\ u.fatal => \A k \in Nat : (Has(u, k) <=> Has(st, k)) /\ Value(u, k) = Value(st, k)
      /\ ~u.fatal =>
           /\ Has(u, key)
           /\ \A k \in Nat : Has(u, k) <=> (Has(st, k) \/ k = key)
           /\ \A k \in Nat : Has(st, k) => Value(u, k) = Value(st, k)
           /\ ~Has(st, key) => Value(u, key) = Fresh("garbage", key)
  BY <1>1, FindHas DEF ServerStore
<1>4. ~u.fatal => (Entry(u, key).immutable <=> key = 0)
  BY <1>2, <1>3, MaskOfKey DEF ServerStore
<1>5. CASE u.fatal \/ key = 0
  <2>1. t = u
    BY <1>1, <1>4, <1>5 DEF AddKey
  <2> QED
    BY <1>2, <1>3, <1>5, <2>1
<1>6. CASE ~u.fatal /\ key # 0
  <2>1. PICK w \in Val : w = Value(u, key) /\ w = Started(st, key)
    BY <1>2, <1>3, <1>6, FoundIsHeld DEF Started
  <2>2. PICK v \in Val : v = [w EXCEPT !.adds = w.adds + 1]
    <3>1. [w EXCEPT !.adds = w.adds + 1]
            = [base |-> w.base, key |-> w.key, adds |-> w.adds + 1]
      BY DEF Val
    <3>2. /\ w.base \in {"zero", "garbage", "random"} /\ w.key \in Nat
          /\ w.adds + 1 \in Nat
      BY DEF Val
    <3>3. [base |-> w.base, key |-> w.key, adds |-> w.adds + 1] \in Val
      BY <3>2 DEF Val
    <3> QED
      BY <3>1, <3>3
  <2>3. t = [u EXCEPT !.data[Entry(u, key).offset] = v]
    BY <1>1, <1>4, <1>6, <2>1, <2>2 DEF AddKey, Value
  <2>4. /\ ServerStore(t) /\ (t.fatal <=> u.fatal) /\ Value(t, key) = v
        /\ \A k \in Nat : Has(t, k) <=> Has(u, k)
        /\ \A k \in Nat \ {key} : Has(u, k) => Value(t, k) = Value(u, k)
    BY <1>2, <1>3, <1>6, <2>3, UpdateServes
  <2>5. Value(t, key) = [Started(st, key) EXCEPT !.adds = Started(st, key).adds + 1]
    BY <2>1, <2>2, <2>4
  <2> QED
    BY <1>3, <1>6, <2>4, <2>5 DEF Crowd
<1> QED
  BY <1>5, <1>6

\* A checkpoint of a packed store is the store.
LEMMA LoadStored ==
  ASSUME NEW st, Good(st), ~st.fatal, Packed(st)
  PROVE  Load(Store(st)) = st
<1>1. PICK n \in Nat : n = st.node_size
  BY DEF Good, StoreOK
<1>2. \A i \in Slots : i < n <=> st.node[i] # Empty
  BY <1>1, KVStoreAssumption DEF Packed, Slots
<1>3. [i \in Slots |-> IF i < n THEN [j \in 0..(n - 1) |-> st.node[j]][i] ELSE Empty] = st.node
  <2>1. \A i \in Slots : i < n => i \in 0..(n - 1)
    BY KVStoreAssumption DEF Slots
  <2>2. \A i \in Slots : (IF i < n THEN [j \in 0..(n - 1) |-> st.node[j]][i] ELSE Empty) = st.node[i]
    BY <1>2, <2>1
  <2>3. st.node = [i \in Slots |-> st.node[i]]
    BY DEF Good, StoreOK
  <2> QED
    BY <2>2, <2>3
<1>4. Load(Store(st)) =
        [node |-> [i \in Slots |-> IF i < n THEN [j \in 0..(n - 1) |-> st.node[j]][i] ELSE Empty],
         node_size |-> n, data |-> st.data, data_size |-> st.data_size, fatal |-> FALSE]
  BY <1>1 DEF Load, Store
<1>5. st = [node |-> st.node, node_size |-> st.node_size, data |-> st.data,
            data_size |-> st.data_size, fatal |-> FALSE]
  BY DEF Good, StoreOK
<1> QED
  BY <1>1, <1>3, <1>4, <1>5

-----------------------------------------------------------------------------
(* The servers' invariant.                                                   *)

\* A key of a request is a key that the client asks for.
LEMMA RequestKeys ==
  ASSUME NEW r, RequestOK(r)
  PROVE  /\ DOMAIN r.keys \subseteq Nat
         /\ \A i \in DOMAIN r.keys : r.keys[i] \in Nat /\ {r.keys[i]} \in KeySets
<1>1. PICK keys \in Asks : \A i \in DOMAIN r.keys : i \in DOMAIN keys /\ r.keys[i] = keys[i]
  BY DEF RequestOK
<1>2. keys \in Seq(Nat)
  BY KVTableAssumption
<1>3. \A i \in DOMAIN keys : i \in Nat /\ keys[i] \in Nat
  BY <1>2
<1>4. \A i \in DOMAIN keys : {keys[i]} \in SUBSET Range(keys)
  BY DEF Range
<1> QED
  BY <1>1, <1>3, <1>4 DEF KeySets

LEMMA ServerInit == Init => ServerInv
<1> SUFFICES ASSUME Init PROVE ServerInv
  OBVIOUS
<1>1. ServerStore(New) /\ Crowd(New)
  <2>1. \A k \in Nat : Has(New, k) => (Entry(New, k).immutable <=> k = 0)
    BY NewIsGood
  <2> QED
    BY <2>1, NewIsGood, MaskOfKey DEF ServerStore, Crowd
<1> QED
  BY <1>1 DEF Init, ServerInv

\* The key that Serve handles, and what becomes of the store.
LEMMA ServeHandles ==
  ASSUME ServerInv, NEW s \in Servers, Serve(s)
  PROVE  \E r \in requests, i \in Nat :
           /\ i \in r.left /\ r.op \in {"Get", "Add"} /\ r.server = s /\ i = Min(r.left)
           /\ i \in DOMAIN r.keys /\ r.keys[i] \in Nat /\ {r.keys[i]} \in KeySets
           /\ ServerStore(server[s]) /\ ~server[s].fatal
           /\ server' = [server EXCEPT ![s] = server'[s]]
           /\ r.op = "Get" => server'[s] = GetKey(server[s], r.keys[i])
           /\ r.op = "Add" => server'[s] = AddKey(server[s], r.keys[i])
           /\ requests' = (requests \ {r}) \cup
                {[op |-> r.op, server |-> s, keys |-> r.keys, left |-> r.left \ {i}]}
<1>1. PICK r \in requests :
        /\ r.server = s /\ r.left # {}
        /\ server' = [server EXCEPT ![s] =
             IF r.op = "Get" THEN GetKey(server[s], r.keys[Min(r.left)])
                             ELSE AddKey(server[s], r.keys[Min(r.left)])]
        /\ requests' = (requests \ {r}) \cup {[r EXCEPT !.left = r.left \ {Min(r.left)}]}
  BY DEF Serve
<1>2. RequestOK(r)
  BY DEF ServerInv
<1>3. PICK i \in r.left : i = Min(r.left)
  BY <1>1, <1>2, RequestKeys, LeastOne DEF RequestOK
<1>4. i \in Nat /\ i \in DOMAIN r.keys /\ r.keys[i] \in Nat /\ {r.keys[i]} \in KeySets
  BY <1>2, <1>3, RequestKeys DEF RequestOK
<1>5. ServerStore(server[s]) /\ ~server[s].fatal /\ r.op \in {"Get", "Add"}
  BY <1>2 DEF ServerInv, Serve, Running, RequestOK
<1>6. server = [u \in Servers |-> server[u]]
  BY DEF ServerInv
<1>7. /\ server' = [server EXCEPT ![s] = server'[s]]
      /\ r.op = "Get" => server'[s] = GetKey(server[s], r.keys[i])
      /\ r.op = "Add" => server'[s] = AddKey(server[s], r.keys[i])
  BY <1>1, <1>3, <1>5, <1>6
<1>8. [r EXCEPT !.left = r.left \ {i}] =
        [op |-> r.op, server |-> s, keys |-> r.keys, left |-> r.left \ {i}]
  BY <1>1, <1>2 DEF RequestOK
<1>9. requests' = (requests \ {r}) \cup
        {[op |-> r.op, server |-> s, keys |-> r.keys, left |-> r.left \ {i}]}
  BY <1>1, <1>3, <1>8
<1> QED
  BY <1>1, <1>3, <1>4, <1>5, <1>7, <1>9

LEMMA ServerNext ==
  ASSUME SavesPacked, ServerInv, [Next]_vars
  PROVE  ServerInv'
<1>1. ASSUME NEW keys \in Asks, NEW op \in {"Get", "Add"}, Call(op, keys)
      PROVE  ServerInv'
  <2>1. ASSUME NEW r \in requests' PROVE RequestOK(r)
    <3>1. PICK s \in DOMAIN Partition(keys) :
            r = [op |-> op, server |-> s, keys |-> Partition(keys)[s],
                 left |-> DOMAIN Partition(keys)[s]]
      BY <1>1, <2>1 DEF Call
    <3>2. keys \in Seq(Nat)
      BY KVTableAssumption
    <3>3. \A i \in DOMAIN keys : keys[i] % NumServers \in Servers
      <4>1. \A i \in DOMAIN keys : keys[i] \in Nat
        BY <3>2
      <4> QED
        BY <4>1, KVTableAssumption, Division DEF Servers
    <3>4. s \in Servers
      BY <3>1, <3>3 DEF Partition
    <3>5. \A i \in DOMAIN Partition(keys)[s] : i \in DOMAIN keys /\ Partition(keys)[s][i] = keys[i]
      BY <3>1 DEF Partition, Restrict
    <3> QED
      BY <3>1, <3>4, <3>5 DEF RequestOK
  <2>2. UNCHANGED <<server, image>>
    BY <1>1 DEF Call
  <2> QED
    BY <2>1, <2>2 DEF ServerInv
<1>2. ASSUME NEW t \in Threads, Receive(t) \/ Search(t) \/ Fill(t)
      PROVE  ServerInv'
  BY <1>2 DEF Receive, Search, Fill, ServerInv
<1>3. ASSUME NEW s \in Servers, Serve(s)
      PROVE  ServerInv'
  <2>1. PICK r \in requests, i \in Nat :
          /\ i \in r.left /\ r.op \in {"Get", "Add"} /\ r.server = s /\ i = Min(r.left)
          /\ i \in DOMAIN r.keys /\ r.keys[i] \in Nat
          /\ ServerStore(server[s]) /\ ~server[s].fatal
          /\ server' = [server EXCEPT ![s] = server'[s]]
          /\ r.op = "Get" => server'[s] = GetKey(server[s], r.keys[i])
          /\ r.op = "Add" => server'[s] = AddKey(server[s], r.keys[i])
          /\ requests' = (requests \ {r}) \cup
               {[op |-> r.op, server |-> s, keys |-> r.keys, left |-> r.left \ {i}]}
    BY <1>3, ServeHandles
  <2>2. ServerStore(server'[s]) /\ Crowd(server'[s])
    BY <2>1, GetKeyServes, AddKeyServes
  <2>3. \A u \in Servers \ {s} : server'[u] = server[u]
    BY <2>1 DEF ServerInv
  <2>4. /\ server' = [u \in Servers |-> server'[u]]
        /\ \A u \in Servers : ServerStore(server'[u]) /\ Crowd(server'[u])
    BY <2>1, <2>2, <2>3 DEF ServerInv
  <2>5. RequestOK(r)
    BY DEF ServerInv
  <2>6. RequestOK([op |-> r.op, server |-> s, keys |-> r.keys, left |-> r.left \ {i}])
    BY <2>1, <2>5 DEF RequestOK
  <2>7. \A p \in requests' : RequestOK(p)
    BY <2>1, <2>6 DEF ServerInv
  <2>8. UNCHANGED image
    BY <1>3 DEF Serve
  <2> QED
    BY <2>4, <2>7, <2>8 DEF ServerInv
<1>4. ASSUME NEW s \in Servers, Answer(s)
      PROVE  ServerInv'
  BY <1>4 DEF Answer, ServerInv
<1>5. ASSUME NEW s \in Servers, StoreModel(s)
      PROVE  ServerInv'
  <2>1. Load(Store(server[s])) = server[s]
    BY <1>5, LoadStored DEF StoreModel, SavesPacked, ServerStore, Running, ServerInv
  <2>2. image' = [image EXCEPT ![s] = Store(server[s])] /\ UNCHANGED <<server, requests>>
    BY <1>5 DEF StoreModel
  <2> QED
    BY <2>1, <2>2 DEF ServerInv
<1>6. ASSUME NEW s \in Servers, LoadModel(s)
      PROVE  ServerInv'
  <2>1. server' = [server EXCEPT ![s] = Load(image[s])] /\ UNCHANGED <<image, requests>>
    BY <1>6 DEF LoadModel
  <2>2. ServerStore(Load(image[s])) /\ Crowd(Load(image[s]))
    BY <1>6 DEF LoadModel, Crowd, Load, ServerInv
  <2> QED
    BY <2>1, <2>2 DEF ServerInv
<1>7. CASE Return \/ Ended \/ UNCHANGED vars
  BY <1>7 DEF Return, Ended, vars, ServerInv
<1> QED
  BY <1>1, <1>2, <1>3, <1>4, <1>5, <1>6, <1>7 DEF Next

-----------------------------------------------------------------------------
(* Refinement: the servers implement KVMap.                                  *)

Maps  == [s \in Servers |-> Contents(server[s])]
Saved == [s \in Servers |-> IF image[s] = None THEN << >> ELSE Contents(Load(image[s]))]

\* The contents of a store, by its keys.
LEMMA ContentsOf ==
  ASSUME NEW st, Good(st)
  PROVE  Contents(st) = [k \in {k \in Nat : Has(st, k)} |-> Value(st, k)]
<1>1. HeldKeys(st) \subseteq Nat
  BY DEF HeldKeys, Good, StoreOK, Node, Empty
<1>2. \A k \in Nat : Has(st, k) => k \in HeldKeys(st)
  BY FoundIsHeld DEF HeldKeys, Entry
<1>3. {k \in HeldKeys(st) : Has(st, k)} = {k \in Nat : Has(st, k)}
  BY <1>1, <1>2
<1> QED
  BY <1>3 DEF Contents

LEMMA MapInit == Init => Map!Init
<1> SUFFICES ASSUME Init PROVE Map!Init
  OBVIOUS
<1>1. Contents(New) = [k \in {0} |-> Map!Fresh("zero", 0)]
  <2>1. Contents(New) = [k \in {k \in Nat : Has(New, k)} |-> Value(New, k)]
    BY NewIsGood, ContentsOf
  <2>2. {k \in Nat : Has(New, k)} = {0}
    BY NewIsGood
  <2>3. Value(New, 0) = Map!Fresh("zero", 0)
    BY NewIsGood DEF Fresh, Map!Fresh
  <2> QED
    BY <2>1, <2>2, <2>3
<1> QED
  BY <1>1 DEF Init, Map!Init

\* A handled key is a Get or an Add of the map, unless it ends the process.
LEMMA ServeIsMap ==
  ASSUME ServerInv, NEW s \in Servers, Serve(s)
  PROVE  Map!Next \/ UNCHANGED <<Maps, Saved>>
<1>1. PICK r \in requests, i \in Nat :
        /\ r.op \in {"Get", "Add"} /\ r.keys[i] \in Nat /\ {r.keys[i]} \in KeySets
        /\ ServerStore(server[s]) /\ ~server[s].fatal
        /\ server' = [server EXCEPT ![s] = server'[s]]
        /\ r.op = "Get" => server'[s] = GetKey(server[s], r.keys[i])
        /\ r.op = "Add" => server'[s] = AddKey(server[s], r.keys[i])
  BY ServeHandles, SMTT(30)
<1>2. PICK key \in Nat, ks \in KeySets : key = r.keys[i] /\ ks = {key}
  BY <1>1
<1>3. PICK st, t : st = server[s] /\ t = server'[s]
  OBVIOUS
<1>4. /\ Contents(st) = [k \in {k \in Nat : Has(st, k)} |-> Value(st, k)]
      /\ Good(t) => Contents(t) = [k \in {k \in Nat : Has(t, k)} |-> Value(t, k)]
  BY <1>1, <1>3, ContentsOf DEF ServerStore
<1>5. UNCHANGED Saved
  BY DEF Serve, Saved
<1>6. Maps' = [Maps EXCEPT ![s] = Contents(t)] /\ Maps[s] = Contents(st)
  BY <1>1, <1>3 DEF Maps, ServerInv
<1>7. ASSUME t.fatal, Good(t),
             \A k \in Nat : (Has(t, k) <=> Has(st, k)) /\ Value(t, k) = Value(st, k)
      PROVE  UNCHANGED <<Maps, Saved>>
  <2>1. {k \in Nat : Has(t, k)} = {k \in Nat : Has(st, k)}
    BY <1>7
  <2>2. Contents(t) = Contents(st)
    BY <1>4, <1>7, <2>1
  <2> QED
    BY <1>5, <1>6, <2>2 DEF Maps
<1>8. CASE r.op = "Get"
  <2>1. /\ Good(t)
        /\ t.fatal => \A k \in Nat : (Has(t, k) <=> Has(st, k)) /\ Value(t, k) = Value(st, k)
        /\ ~t.fatal =>
             /\ \A k \in Nat : Has(t, k) <=> (Has(st, k) \/ k = key)
             /\ \A k \in Nat : Has(st, k) => Value(t, k) = Value(st, k)
             /\ ~Has(st, key) => Value(t, key) = Fresh("random", key)
    BY <1>1, <1>2, <1>3, <1>8, GetKeyServes DEF ServerStore
  <2>2. CASE ~t.fatal
    <3>1. {k \in Nat : Has(t, k)} = {k \in Nat : Has(st, k)} \cup ks
      BY <1>2, <2>1, <2>2
    <3>2. Contents(t) = Map!With(Contents(st), ks, "random")
      BY <1>2, <1>4, <2>1, <2>2, <3>1 DEF Map!With, Map!Fresh, Fresh
    <3>3. Map!Get(s, ks)
      BY <1>5, <1>6, <3>2 DEF Map!Get, Maps, Saved
    <3> QED
      BY <1>2, <3>3 DEF Map!Next
  <2> QED
    BY <1>7, <2>1, <2>2
<1>9. CASE r.op = "Add"
  <2>1. /\ Good(t)
        /\ t.fatal => \A k \in Nat : (Has(t, k) <=> Has(st, k)) /\ Value(t, k) = Value(st, k)
        /\ ~t.fatal =>
             /\ \A k \in Nat : Has(t, k) <=> (Has(st, k) \/ k = key)
             /\ \A k \in Nat \ {key} : Has(st, k) => Value(t, k) = Value(st, k)
             /\ key = 0 => Value(t, key) = Value(st, key)
             /\ key # 0 => Value(t, key) =
                  [Started(st, key) EXCEPT !.adds = Started(st, key).adds + 1]
    BY <1>1, <1>2, <1>3, <1>9, AddKeyServes DEF ServerStore
  <2>2. CASE ~t.fatal
    <3> DEFINE m == Map!With(Contents(st), ks, "garbage")
               n == [k \in DOMAIN m |->
                       IF k \in ks \ {0} THEN [m[k] EXCEPT !.adds = m[k].adds + 1] ELSE m[k]]
    <3>1. {k \in Nat : Has(t, k)} = {k \in Nat : Has(st, k)} \cup ks
      BY <1>2, <2>1, <2>2
    <3>2. DOMAIN m = {k \in Nat : Has(t, k)}
      BY <1>4, <3>1 DEF Map!With
    <3>3. \A k \in DOMAIN m : m[k] = Started(st, k)
      BY <1>2, <1>4, <2>1, <2>2, <3>2 DEF Map!With, Map!Fresh, Fresh, Started
    <3>4. Has(st, 0)
      BY <1>1, <1>3 DEF ServerStore
    <3> HIDE DEF m
    <3>5. \A k \in DOMAIN m : Value(t, k) = n[k]
      BY <1>2, <2>1, <2>2, <3>2, <3>3, <3>4 DEF Started
    <3>6. Contents(t) = n
      BY <1>4, <2>1, <3>2, <3>5
    <3>7. Map!Add(s, ks)
      BY <1>5, <1>6, <3>6 DEF Map!Add, Maps, Saved, m
    <3> QED
      BY <1>2, <3>7 DEF Map!Next
  <2> QED
    BY <1>7, <2>1, <2>2
<1> QED
  BY <1>1, <1>8, <1>9

\* A step of the table is a step of the map or changes nothing it sees.
LEMMA MapNext ==
  ASSUME SavesPacked, ServerInv, [Next]_vars
  PROVE  [Map!Next]_<<Maps, Saved>>
<1>1. ASSUME NEW s \in Servers, StoreModel(s)
      PROVE  Map!Next
  <2>1. Load(Store(server[s])) = server[s]
    BY <1>1, LoadStored DEF StoreModel, SavesPacked, ServerStore, Running, ServerInv
  <2>2. Store(server[s]) # None
    BY DEF Store, None
  <2>3. UNCHANGED Maps /\ Saved' = [Saved EXCEPT ![s] = Maps[s]]
    BY <1>1, <2>1, <2>2 DEF StoreModel, Maps, Saved, ServerInv
  <2> QED
    BY <2>3 DEF Maps, Saved, Map!Next, Map!Save
<1>2. ASSUME NEW s \in Servers, LoadModel(s)
      PROVE  Map!Next
  <2>1. /\ server' = [server EXCEPT ![s] = Load(image[s])] /\ UNCHANGED image
        /\ image[s] # None
    BY <1>2 DEF LoadModel
  <2>2. UNCHANGED Saved /\ Maps' = [Maps EXCEPT ![s] = Saved[s]]
    BY <2>1 DEF Maps, Saved, ServerInv
  <2>3. Good(Load(image[s])) /\ Has(Load(image[s]), 0)
    BY <2>1 DEF ServerInv, ServerStore
  <2>4. 0 \in DOMAIN Contents(Load(image[s]))
    BY <2>3, ContentsOf
  <2>5. Saved[s] # << >>
    BY <2>1, <2>4 DEF Saved
  <2> QED
    BY <2>2, <2>5 DEF Maps, Saved, Map!Next, Map!Restore
<1>3. ASSUME NEW s \in Servers, Serve(s)
      PROVE  Map!Next \/ UNCHANGED <<Maps, Saved>>
  BY <1>3, ServeIsMap
<1>4. ASSUME UNCHANGED <<server, image>>
      PROVE  UNCHANGED <<Maps, Saved>>
  BY <1>4 DEF Maps, Saved
<1>5. ASSUME NEW keys, NEW op, Call(op, keys) PROVE UNCHANGED <<server, image>>
  BY <1>5 DEF Call
<1>6. ASSUME NEW t, Receive(t) \/ Search(t) \/ Fill(t) PROVE UNCHANGED <<server, image>>
  BY <1>6 DEF Receive, Search, Fill
<1>7. ASSUME NEW s, Answer(s) PROVE UNCHANGED <<server, image>>
  BY <1>7 DEF Answer
<1>8. CASE Return \/ Ended \/ UNCHANGED vars
  BY <1>4, <1>8 DEF Return, Ended, vars
<1> QED
  BY <1>1, <1>2, <1>3, <1>4, <1>5, <1>6, <1>7, <1>8 DEF Next

-----------------------------------------------------------------------------
(* The worker's invariant.                                                   *)

\* An empty function has no places.
LEMMA EmptyEntries ==
  /\ DOMAIN << >> = {}
  /\ \A e : e = [i \in DOMAIN e |-> e[i]] /\ DOMAIN e = {} => e = << >>
  /\ \A c, srv : Fetched(<< >>, c, srv)
<1>1. DOMAIN << >> = {} /\ << >> = [i \in {} |-> 0]
  OBVIOUS
<1>2. ASSUME NEW e, e = [i \in DOMAIN e |-> e[i]], DOMAIN e = {} PROVE e = << >>
  BY <1>1, <1>2
<1>3. \A c, srv : Fetched(<< >>, c, srv)
  BY <1>1 DEF Fetched
<1> QED
  BY <1>1, <1>2, <1>3

\* A thread that has taken an answer and found nothing yet.
LEMMA TakenAnswer ==
  ASSUME NEW e, NEW r, r = [Idle EXCEPT !.entries = e]
  PROVE  /\ r.entries = e /\ r.slot = -1 /\ (r = Idle <=> e = << >>)
         /\ \A w : SearchOK(r, w)
<1>1. r.entries = e /\ r.slot = -1
  BY DEF Idle
<1>2. e = << >> => r = Idle
  BY DEF Idle
<1>3. r = Idle => e = << >>
  BY <1>1 DEF Idle
<1> QED
  BY <1>1, <1>2, <1>3 DEF SearchOK

LEMMA IdleIs == /\ Idle.entries = << >> /\ Idle.slot = -1
                /\ \A w : SearchOK(Idle, w)
<1>1. Idle.entries = << >> /\ Idle.slot = -1
  BY DEF Idle
<1> QED
  BY <1>1 DEF SearchOK

\* The keys of a Get.
LEMMA CallKeys ==
  ASSUME WorkerInv, call.op = "Get"
  PROVE  /\ DOMAIN call.keys \subseteq Nat
         /\ \A i \in DOMAIN call.keys :
              call.keys[i] \in Nat /\ Owner(call.keys[i]) \in Servers
<1>1. call # None
  BY DEF None
<1>2. call.keys \in Seq(Nat)
  BY <1>1, KVTableAssumption DEF WorkerInv
<1>3. \A i \in DOMAIN call.keys : i \in Nat /\ call.keys[i] \in Nat
  BY <1>2
<1> QED
  BY <1>3, KVTableAssumption, Division DEF Owner, Servers

\* With no part pending nothing is under way.
LEMMA NothingPending ==
  ASSUME WorkerInv, pending = 0
  PROVE  requests = {} /\ replies = {} /\ \A t \in Threads : thread[t] = Idle
<1>1. Cardinality(requests) \in Nat /\ Cardinality(replies) \in Nat
  BY FS_CardinalityType DEF WorkerInv, PartsCounted
<1>2. Cardinality(requests) = 0 /\ Cardinality(replies) = 0 /\ ~Busy
  BY <1>1 DEF WorkerInv, PartsCounted
<1> QED
  BY <1>2, FS_EmptySet DEF WorkerInv, PartsCounted, Busy

LEMMA WorkerInit == Init => WorkerInv
<1> SUFFICES ASSUME Init PROVE WorkerInv
  OBVIOUS
<1>1. Good(worker) /\ Crowd(worker)
  BY NewIsGood DEF Init, Crowd
<1>2. PartsCounted
  BY FS_EmptySet DEF Init, PartsCounted, Busy
<1>3. call.op # "Get"
  BY DEF Init, None
<1>4. \A t \in Threads : Fetched(thread[t].entries, call, server) /\ SearchOK(thread[t], worker)
  BY IdleIs, EmptyEntries DEF Init
<1> QED
  BY <1>1, <1>2, <1>3, <1>4 DEF Init, WorkerInv

\* Between two calls nothing depends on the servers.
LEMMA AtRest ==
  ASSUME WorkerInv, pending = 0, call' = None,
         UNCHANGED <<worker, requests, replies, pending, thread>>
  PROVE  WorkerInv'
<1>1. requests = {} /\ replies = {} /\ \A t \in Threads : thread[t] = Idle
  BY NothingPending
<1>2. PartsCounted'
  BY DEF WorkerInv, PartsCounted, Busy
<1>3. call'.op # "Get"
  BY DEF None
<1>4. \A t \in Threads :
        Fetched(thread'[t].entries, call', server') /\ SearchOK(thread'[t], worker')
  BY <1>1, IdleIs, EmptyEntries
<1>5. Good(worker') /\ Crowd(worker') /\ thread' = [t \in Threads |-> thread'[t]]
  BY DEF WorkerInv
<1> QED
  BY <1>1, <1>2, <1>3, <1>4, <1>5 DEF WorkerInv

\* A call goes out.
LEMMA CallStep ==
  ASSUME WorkerInv, NEW op \in {"Get", "Add"}, NEW keys \in Asks, Call(op, keys)
  PROVE  WorkerInv'
<1> DEFINE D == {keys[i] % NumServers : i \in DOMAIN keys}
           Part(s) == Restrict(keys, {i \in DOMAIN keys : keys[i] % NumServers = s})
           Req(s) == [op |-> op, server |-> s, keys |-> Part(s), left |-> DOMAIN Part(s)]
<1>1. /\ call = None /\ pending = 0 /\ call' = [op |-> op, keys |-> keys]
      /\ UNCHANGED <<server, worker, replies, thread, image>>
  BY DEF Call, WorkerInv, PartsCounted
<1>2. replies = {} /\ \A t \in Threads : thread[t] = Idle
  BY <1>1, NothingPending
<1>3. requests' = {Req(s) : s \in D} /\ pending' = Cardinality(D)
  BY DEF Call, Partition
<1>4. call'.op = op /\ call'.keys = keys
  BY <1>1
<1>5. \A i \in DOMAIN keys : keys[i] \in Nat /\ keys[i] % NumServers \in Servers
  <2>1. keys \in Seq(Nat)
    BY KVTableAssumption
  <2>2. \A i \in DOMAIN keys : keys[i] \in Nat
    BY <2>1
  <2> QED
    BY <2>2, KVTableAssumption, Division DEF Servers
<1>6. \A s : DOMAIN Part(s) = {i \in DOMAIN keys : keys[i] % NumServers = s}
             /\ \A i \in DOMAIN Part(s) : Part(s)[i] = keys[i]
  BY DEF Restrict
<1>7. IsFiniteSet(D) /\ Cardinality(D) \in Nat
  <2>1. IsFiniteSet(Servers)
    BY KVTableAssumption, FS_Interval DEF Servers
  <2>2. D \in SUBSET Servers
    BY <1>5
  <2> QED
    BY <2>1, <2>2, FS_Subset, FS_CardinalityType
<1>8. CallsOneServer => Cardinality(D) <= 1
  <2> SUFFICES ASSUME CallsOneServer, D # {} PROVE Cardinality(D) <= 1
    BY <1>7, FS_EmptySet
  <2>1. PICK x \in D : TRUE
    OBVIOUS
  <2>2. D = {x}
    BY <2>1 DEF CallsOneServer
  <2>3. Cardinality({x}) = 1
    BY FS_Singleton
  <2> HIDE DEF D
  <2> QED
    BY <2>2, <2>3
<1>9. IsFiniteSet(requests') /\ Cardinality(requests') = Cardinality(D)
  <2> DEFINE f == [s \in D |-> Req(s)]
  <2>1. f \in Bijection(D, requests')
    <3>1. \A s, u \in D : f[s] = f[u] => s = u
      OBVIOUS
    <3>2. \A r \in requests' : \E s \in D : f[s] = r
      BY <1>3
    <3>3. f \in [D -> requests']
      BY <1>3
    <3> HIDE DEF f, D
    <3> QED
      BY <3>1, <3>2, <3>3 DEF Bijection, Injection, Surjection, IsInjective
  <2>2. ExistsBijection(D, requests')
    BY <2>1 DEF ExistsBijection
  <2> QED
    BY <1>7, <2>2, FS_Bijection
<1>10. PartsCounted'
  <2>1. ~Busy'
    BY <1>1, <1>2 DEF Busy
  <2>2. \A r, q \in requests' : r.server = q.server => r = q
    <3>1. \A s : Req(s).server = s
      OBVIOUS
    <3> HIDE DEF Req
    <3> QED
      BY <1>3, <3>1
  <2>3. IsFiniteSet(replies') /\ Cardinality(replies') = 0
    BY <1>1, <1>2, FS_EmptySet
  <2>4. call' # None
    BY <1>4 DEF None
  <2>5. pending' = Cardinality(requests') + Cardinality(replies') + (IF Busy' THEN 1 ELSE 0)
    BY <1>3, <1>7, <1>9, <2>1, <2>3
  <2>6. CallsOneServer => pending' <= 1
    BY <1>3, <1>8
  <2>7. \A u, v \in Threads : thread'[u] # Idle /\ thread'[v] # Idle => u = v
    BY <1>1, <1>2
  <2>8. \A r \in requests', q \in replies' : r.server # q.server
    BY <1>1, <1>2
  <2> QED
    BY <1>9, <2>2, <2>3, <2>4, <2>5, <2>6, <2>7, <2>8 DEF PartsCounted
<1>11. \A r \in requests' : PartOK(r, call', server')
  <2> SUFFICES ASSUME NEW s \in D PROVE PartOK(Req(s), call', server')
    BY <1>3
  <2>1. \A i \in DOMAIN Part(s) : i \in DOMAIN keys /\ Part(s)[i] = keys[i] /\ s = Owner(keys[i])
    BY <1>6 DEF Owner
  <2> HIDE DEF Part
  <2> QED
    BY <1>4, <2>1 DEF PartOK
<1>12. \A t \in Threads :
         Fetched(thread'[t].entries, call', server') /\ SearchOK(thread'[t], worker')
  BY <1>1, <1>2, IdleIs, EmptyEntries
<1>13. \A i \in DOMAIN keys : \E r \in requests' : i \in DOMAIN r.keys
  <2> SUFFICES ASSUME NEW i \in DOMAIN keys PROVE \E r \in requests' : i \in DOMAIN r.keys
    OBVIOUS
  <2>1. PICK s \in D : s = keys[i] % NumServers
    OBVIOUS
  <2>2. Req(s) \in requests' /\ i \in DOMAIN Req(s).keys
    BY <1>3, <1>6, <2>1
  <2> QED
    BY <2>2
<1>14. Good(worker') /\ Crowd(worker') /\ thread' = [t \in Threads |-> thread'[t]]
  BY <1>1 DEF WorkerInv
<1> QED
  BY <1>1, <1>2, <1>4, <1>10, <1>11, <1>12, <1>13, <1>14 DEF WorkerInv

\* A thread takes an answer.
LEMMA ReceiveStep ==
  ASSUME CopiesInTurn, WorkerInv, NEW t \in Threads, Receive(t)
  PROVE  WorkerInv'
<1>1. /\ thread[t] = Idle /\ UNCHANGED <<server, worker, call, requests>>
      /\ thread = [u \in Threads |-> thread[u]]
  BY DEF Receive, WorkerInv
<1>2. PICK r \in replies :
        /\ replies' = replies \ {r}
        /\ thread' = [thread EXCEPT ![t].entries = r.entries]
        /\ pending' = IF r.entries = << >> THEN pending - 1 ELSE pending
  BY DEF Receive
<1>3. PICK e, x : e = r.entries /\ x = [Idle EXCEPT !.entries = e]
  OBVIOUS
<1>4. thread' = [thread EXCEPT ![t] = x]
  BY <1>1, <1>2, <1>3
<1>5. x.entries = r.entries /\ (x = Idle <=> r.entries = << >>) /\ SearchOK(x, worker)
  <2>1. x = [Idle EXCEPT !.entries = e]
    BY <1>3
  <2>2. /\ x.entries = e /\ (x = Idle <=> e = << >>)
        /\ \A w : SearchOK(x, w)
    BY ONLY <2>1, TakenAnswer
  <2> QED
    BY <1>3, <2>2
<1>6. thread'[t] = x /\ \A u \in Threads \ {t} : thread'[u] = thread[u]
  BY <1>1, <1>4
<1>7. /\ IsFiniteSet(replies') /\ Cardinality(replies') = Cardinality(replies) - 1
      /\ Cardinality(replies) \in Nat \ {0} /\ Cardinality(requests) \in Nat
  BY <1>2, FS_RemoveElement, FS_CardinalityType, FS_EmptySet DEF WorkerInv, PartsCounted
<1>8. ~Busy
  <2>1. CASE CallsOneServer
    BY <1>7, <2>1 DEF WorkerInv, PartsCounted
  <2>2. CASE \A u, v \in Threads : u = v
    BY <1>1, <2>2 DEF Busy
  <2> QED
    BY <2>1, <2>2 DEF CopiesInTurn
<1>9. Busy' <=> r.entries # << >>
  BY <1>5, <1>6, <1>8 DEF Busy
<1>10. PartsCounted'
  <2>1. pending' = Cardinality(requests') + Cardinality(replies') + (IF Busy' THEN 1 ELSE 0)
    BY <1>1, <1>2, <1>7, <1>8, <1>9 DEF WorkerInv, PartsCounted
  <2>2. \A u, v \in Threads : thread'[u] # Idle /\ thread'[v] # Idle => u = v
    BY <1>6, <1>8 DEF Busy
  <2>3. pending \in Nat \ {0} /\ pending' <= pending
    BY <1>2, <1>7, <1>8 DEF WorkerInv, PartsCounted
  <2>4. call' # None /\ pending' \in Nat
    BY <1>1, <1>2, <2>3 DEF WorkerInv, PartsCounted
  <2>5. CallsOneServer => pending' <= 1
    BY <2>3, <2>4 DEF WorkerInv, PartsCounted
  <2>6. /\ IsFiniteSet(requests') /\ IsFiniteSet(replies')
        /\ \A p, q \in requests' : p.server = q.server => p = q
        /\ \A p \in requests', q \in replies' : p.server # q.server
    BY <1>1, <1>2, <1>7 DEF WorkerInv, PartsCounted
  <2> QED
    BY <2>1, <2>2, <2>4, <2>5, <2>6 DEF PartsCounted
<1>11. \A u \in Threads :
         Fetched(thread'[u].entries, call', server') /\ SearchOK(thread'[u], worker')
  BY <1>1, <1>5, <1>6 DEF WorkerInv
<1>12. ASSUME call.op = "Get", NEW i \in DOMAIN call.keys
       PROVE  \/ \E q \in requests' : i \in DOMAIN q.keys
              \/ \E q \in replies' : i \in DOMAIN q.entries
              \/ \E u \in Threads : i \in DOMAIN thread'[u].entries
              \/ Copied(worker', server', call.keys[i])
  <2>1. CASE \E u \in Threads : i \in DOMAIN thread[u].entries
    BY <1>8, <2>1, IdleIs, EmptyEntries DEF Busy
  <2>2. CASE i \in DOMAIN r.entries
    BY <1>5, <1>6, <2>2
  <2> QED
    BY <1>1, <1>2, <1>12, <2>1, <2>2 DEF WorkerInv
<1>13. thread' = [u \in Threads |-> thread'[u]] /\ \A q \in replies' : q \in replies
  BY <1>1, <1>2, <1>4
<1> QED
  BY <1>1, <1>10, <1>11, <1>12, <1>13 DEF WorkerInv

\* The next entry of an answer that a thread copies.
LEMMA NextEntry ==
  ASSUME ServerInv, WorkerInv, NEW t \in Threads, NEW e, e = thread[t].entries, e # << >>
  PROVE  \E i \in DOMAIN e, key \in Nat, val \in Val :
           /\ i = NextPlace(e) /\ e[i].key = key /\ e[i].val = val /\ NextKey(e) = key
           /\ call.op = "Get" /\ i \in DOMAIN call.keys /\ key = call.keys[i]
           /\ OwnerHas(server, key) /\ val = Owned(server, key)
<1>1. Fetched(e, call, server)
  BY DEF WorkerInv
<1>2. DOMAIN e # {}
  BY <1>1, EmptyEntries DEF Fetched
<1>3. call.op = "Get" /\ DOMAIN e \subseteq DOMAIN call.keys
  BY <1>1, <1>2 DEF Fetched
<1>4. DOMAIN e \subseteq Nat
  BY <1>3, CallKeys
<1>5. PICK i \in DOMAIN e : i = NextPlace(e)
  BY <1>2, <1>4, LeastOne DEF NextPlace
<1>6. PICK key \in Nat : key = call.keys[i] /\ Owner(key) \in Servers
  BY <1>3, <1>5, CallKeys
<1>7. OwnerHas(server, key) /\ e[i] = [key |-> key, val |-> Owned(server, key)]
  BY <1>1, <1>5, <1>6 DEF Fetched
<1>8. Owned(server, key) \in Val
  BY <1>6, <1>7, FoundIsHeld DEF ServerInv, ServerStore, OwnerHas, Owned
<1> QED
  BY <1>3, <1>5, <1>6, <1>7, <1>8 DEF NextKey

\* The search of a Set: LOG_FATAL, or what was found is remembered.
LEMMA SearchStep ==
  ASSUME ServerInv, WorkerInv, NEW t \in Threads, Search(t)
  PROVE  WorkerInv'
<1>1. /\ thread[t].entries # << >> /\ thread[t].slot = -1
      /\ UNCHANGED <<server, call, requests, replies, pending>>
      /\ thread = [u \in Threads |-> thread[u]]
  BY DEF Search, WorkerInv
<1>0. PICK e : e = thread[t].entries
  OBVIOUS
<1>2. PICK key \in Nat : key = NextKey(e)
  BY <1>1, <1>0, NextEntry
<1>3. thread[t] # Idle /\ \A u \in Threads \ {t} : thread[u] = Idle
  <2>1. thread[t] # Idle
    BY <1>1, IdleIs
  <2> QED
    BY <2>1 DEF WorkerInv, PartsCounted
<1>4. CASE TooCrowded(worker, key)
  <2>1. worker' = [worker EXCEPT !.fatal = TRUE] /\ UNCHANGED thread
    BY <1>0, <1>2, <1>4 DEF Search, NextKey
  <2>2. PICK w : w = worker'
    OBVIOUS
  <2>3. /\ Good(w) /\ w.node = worker.node /\ w.data = worker.data
        /\ w.node_size = worker.node_size
        /\ \A k \in Nat : (Has(w, k) <=> Has(worker, k)) /\ SlotOf(w, k) = SlotOf(worker, k)
    BY <2>1, <2>2, FatalKeeps DEF WorkerInv
  <2>4. Crowd(w)
    <3>1. worker.node_size >= Min({MaxProbe, Capacity})
      BY <1>4, CrowdedIsFull DEF WorkerInv, Good
    <3> QED
      BY <2>3, <3>1 DEF Crowd
  <2>5. \A u \in Threads : SearchOK(thread[u], w)
    BY <1>1, <1>3, IdleIs DEF SearchOK
  <2>6. \A k \in Nat : Value(w, k) = Value(worker, k)
    BY <2>3 DEF Value, Entry
  <2>7. \A k \in Nat : Copied(worker, server, k) => Copied(w, server, k)
    BY <2>3, <2>6 DEF Copied
  <2>8. PartsCounted'
    BY <1>1, <2>1 DEF WorkerInv, PartsCounted, Busy
  <2>9. call.op = "Get" => \A i \in DOMAIN call.keys : call.keys[i] \in Nat
    BY CallKeys
  <2> QED
    BY <1>1, <2>1, <2>2, <2>3, <2>4, <2>5, <2>7, <2>8, <2>9 DEF WorkerInv
<1>5. CASE ~TooCrowded(worker, key)
  <2>0. PICK new \in BOOLEAN : new = (~Has(worker, key))
    BY DEF Has
  <2>1. PICK x : x = [entries |-> e, slot |-> SlotOf(worker, key),
                      offset |-> IF Has(worker, key) THEN Entry(worker, key).offset
                                                     ELSE worker.data_size,
                      new |-> new]
    OBVIOUS
  <2>2. thread' = [thread EXCEPT ![t] = x] /\ UNCHANGED worker
    BY <1>0, <1>2, <1>5, <2>0, <2>1 DEF Search, NextKey
  <2>3. /\ x.entries = e /\ x.slot = SlotOf(worker, key) /\ (x.new <=> ~Has(worker, key))
        /\ x.offset = IF Has(worker, key) THEN Entry(worker, key).offset ELSE worker.data_size
    BY <2>0, <2>1
  <2>4. x # Idle /\ SearchOK(x, worker)
    BY <1>0, <1>1, <1>2, <1>5, <2>3, IdleIs DEF SearchOK
  <2>5. thread'[t] = x /\ \A u \in Threads \ {t} : thread'[u] = thread[u]
    BY <1>1, <2>2
  <2>6. Busy /\ Busy'
    BY <1>3, <2>4, <2>5 DEF Busy
  <2>7. PartsCounted'
    BY <1>1, <1>3, <2>5, <2>6 DEF WorkerInv, PartsCounted
  <2>8. \A u \in Threads : thread'[u].entries = thread[u].entries
    BY <1>0, <2>3, <2>5
  <2>9. \A u \in Threads : SearchOK(thread'[u], worker)
    BY <2>4, <2>5 DEF WorkerInv
  <2>10. thread' = [u \in Threads |-> thread'[u]]
    BY <1>1, <2>2
  <2> QED
    BY <1>1, <2>2, <2>7, <2>8, <2>9, <2>10 DEF WorkerInv
<1> QED
  BY <1>4, <1>5

\* The rest of a Set: the worker has the key with its owner's value.
LEMMA FillStep ==
  ASSUME ServerInv, WorkerInv, NEW t \in Threads, Fill(t)
  PROVE  WorkerInv'
<1>1. PICK r, e : r = thread[t] /\ e = r.entries
  OBVIOUS
<1>2. /\ r.slot # -1 /\ SearchOK(r, worker) /\ Fetched(e, call, server)
      /\ UNCHANGED <<server, call, requests, replies>>
      /\ thread = [u \in Threads |-> thread[u]]
  BY <1>1 DEF Fill, WorkerInv
<1>3. e # << >>
  BY <1>1, <1>2 DEF SearchOK
<1>4. PICK i \in DOMAIN e, key \in Nat, val \in Val :
        /\ i = NextPlace(e) /\ e[i].key = key /\ e[i].val = val /\ NextKey(e) = key
        /\ call.op = "Get" /\ i \in DOMAIN call.keys /\ key = call.keys[i]
        /\ OwnerHas(server, key) /\ val = Owned(server, key)
  BY <1>1, <1>3, NextEntry
<1>5. /\ ~TooCrowded(worker, key) /\ r.slot = SlotOf(worker, key)
      /\ r.new <=> ~Has(worker, key)
      /\ r.offset = IF Has(worker, key) THEN Entry(worker, key).offset ELSE worker.data_size
  BY <1>1, <1>2, <1>4 DEF SearchOK
<1>0. PICK no \in BOOLEAN : no = FALSE
  OBVIOUS
<1>6. PICK w, u : /\ u = IF Has(worker, key) THEN worker ELSE Claim(worker, key, r.slot, r.offset)
                  /\ w = Write(u, r.slot, r.offset, val, no)
  OBVIOUS
<1>7. worker' = w
  BY <1>1, <1>4, <1>5, <1>0, <1>6 DEF Fill
<1>8. /\ Good(w) /\ (w.fatal <=> worker.fatal) /\ Value(w, key) = val
      /\ \A k \in Nat : Has(w, k) <=> (Has(worker, k) \/ k = key)
      /\ \A k \in Nat \ {key} : Has(worker, k) => Value(w, k) = Value(worker, k)
  <2>1. Good(worker)
    BY DEF WorkerInv
  <2>2. PICK old, slot, offset : old = worker /\ slot = r.slot /\ offset = r.offset
    OBVIOUS
  <2>3. /\ Good(old) /\ ~TooCrowded(old, key) /\ slot = SlotOf(old, key)
        /\ offset = (IF Has(old, key) THEN Entry(old, key).offset ELSE old.data_size)
        /\ u = (IF Has(old, key) THEN old ELSE Claim(old, key, slot, offset))
        /\ w = Write(u, slot, offset, val, no)
    BY <1>5, <1>6, <2>1, <2>2
  <2>4. /\ Good(w) /\ (w.fatal <=> old.fatal) /\ Value(w, key) = val
        /\ \A k \in Nat : Has(w, k) <=> (Has(old, k) \/ k = key)
        /\ \A k \in Nat \ {key} : Has(old, k) => Value(w, k) = Value(old, k)
    BY ONLY <2>3, key \in Nat, val \in Val, no \in BOOLEAN, InsertSets
  <2> QED
    BY <2>2, <2>4
<1>9. Crowd(w)
  BY <1>8 DEF Crowd, Fill, Running
<1>10. PICK f, x : f = Without(e, i) /\ x = [Idle EXCEPT !.entries = f]
  OBVIOUS
<1>11. /\ DOMAIN f = DOMAIN e \ {i} /\ f = [j \in DOMAIN f |-> f[j]]
       /\ \A j \in DOMAIN f : f[j] = e[j]
  BY <1>10 DEF Without, Restrict
<1>12. /\ x.entries = f /\ (x = Idle <=> DOMAIN e = {i}) /\ SearchOK(x, w)
  <2>1. x = [Idle EXCEPT !.entries = f]
    BY <1>10
  <2>2. x.entries = f /\ (x = Idle <=> f = << >>) /\ \A v : SearchOK(x, v)
    BY ONLY <2>1, TakenAnswer
  <2>3. f = << >> <=> DOMAIN e = {i}
    BY <1>4, <1>11, EmptyEntries
  <2> QED
    BY <2>2, <2>3
<1>13. /\ thread' = [thread EXCEPT ![t] = x]
       /\ pending' = IF DOMAIN e = {i} THEN pending - 1 ELSE pending
  BY <1>1, <1>4, <1>10 DEF Fill
<1>14. thread[t] # Idle /\ \A v \in Threads \ {t} : thread[v] = Idle
  <2>1. thread[t] # Idle
    BY <1>1, <1>3, IdleIs
  <2> QED
    BY <2>1 DEF WorkerInv, PartsCounted
<1>15. thread'[t] = x /\ \A v \in Threads \ {t} : thread'[v] = Idle
  BY <1>2, <1>13, <1>14
<1>16. PartsCounted'
  <2>1. Busy /\ (Busy' <=> DOMAIN e # {i})
    BY <1>12, <1>14, <1>15 DEF Busy
  <2>2. Cardinality(requests) \in Nat /\ Cardinality(replies) \in Nat
    BY FS_CardinalityType DEF WorkerInv, PartsCounted
  <2>3. pending \in Nat \ {0} /\ pending' <= pending /\ pending' \in Nat
    BY <1>13, <2>1, <2>2 DEF WorkerInv, PartsCounted
  <2>4. pending' = Cardinality(requests') + Cardinality(replies') + (IF Busy' THEN 1 ELSE 0)
    BY <1>2, <1>13, <2>1, <2>2 DEF WorkerInv, PartsCounted
  <2>5. call' # None /\ (CallsOneServer => pending' <= 1)
    BY <1>2, <2>3 DEF WorkerInv, PartsCounted
  <2>6. \A v, y \in Threads : thread'[v] # Idle /\ thread'[y] # Idle => v = y
    BY <1>15
  <2>7. /\ IsFiniteSet(requests') /\ IsFiniteSet(replies')
        /\ \A p, q \in requests' : p.server = q.server => p = q
        /\ \A p \in requests', q \in replies' : p.server # q.server
    BY <1>2 DEF WorkerInv, PartsCounted
  <2> QED
    BY <2>4, <2>5, <2>6, <2>7 DEF PartsCounted
<1>17. \A v \in Threads :
         Fetched(thread'[v].entries, call, server) /\ SearchOK(thread'[v], w)
  <2>1. Fetched(f, call, server)
    BY <1>2, <1>11 DEF Fetched
  <2> QED
    BY <1>12, <1>15, <2>1, IdleIs, EmptyEntries
<1>18. \A k \in Nat : Copied(worker, server, k) \/ k = key => Copied(w, server, k)
  BY <1>4, <1>8 DEF Copied
<1>19. ASSUME NEW j \in DOMAIN call.keys
       PROVE  \/ \E q \in requests' : j \in DOMAIN q.keys
              \/ \E q \in replies' : j \in DOMAIN q.entries
              \/ \E v \in Threads : j \in DOMAIN thread'[v].entries
              \/ Copied(w, server, call.keys[j])
  <2>1. call.keys[j] \in Nat
    BY <1>4, CallKeys
  <2>2. CASE \E v \in Threads : j \in DOMAIN thread[v].entries
    <3>1. j \in DOMAIN e
      BY <1>1, <1>14, <2>2, IdleIs, EmptyEntries
    <3>2. CASE j = i
      BY <1>4, <1>18, <2>1, <3>2
    <3>3. CASE j # i
      BY <1>11, <1>12, <1>15, <3>1, <3>3
    <3> QED
      BY <3>2, <3>3
  <2>3. CASE Copied(worker, server, call.keys[j])
    BY <1>18, <2>1, <2>3
  <2> QED
    BY <1>2, <1>4, <2>2, <2>3 DEF WorkerInv
<1>20. thread' = [v \in Threads |-> thread'[v]]
  BY <1>2, <1>13
<1> QED
  BY <1>2, <1>7, <1>8, <1>9, <1>16, <1>17, <1>19, <1>20 DEF WorkerInv

\* A server handles a key: what has been fetched from the servers stays so.
LEMMA ServeStep ==
  ASSUME ServerInv, WorkerInv, NEW s \in Servers, Serve(s)
  PROVE  WorkerInv'
<1>1. PICK r \in requests, i \in Nat :
        /\ i \in r.left /\ r.server = s /\ i \in DOMAIN r.keys /\ r.keys[i] \in Nat
        /\ ServerStore(server[s]) /\ ~server[s].fatal
        /\ server' = [server EXCEPT ![s] = server'[s]]
        /\ r.op = "Get" => server'[s] = GetKey(server[s], r.keys[i])
        /\ requests' = (requests \ {r}) \cup
             {[op |-> r.op, server |-> s, keys |-> r.keys, left |-> r.left \ {i}]}
  BY ServeHandles
<1>2. PICK q : q = [op |-> r.op, server |-> s, keys |-> r.keys, left |-> r.left \ {i}]
  OBVIOUS
<1>3. q.op = r.op /\ q.server = s /\ q.keys = r.keys /\ q.left = r.left \ {i}
  BY <1>2
<1>4. /\ requests' = (requests \ {r}) \cup {q}
      /\ UNCHANGED <<worker, call, replies, pending, thread>>
  BY <1>1, <1>2 DEF Serve
<1>5. PICK st, t : st = server[s] /\ t = server'[s]
  OBVIOUS
<1>6. \A u \in Servers \ {s} : server'[u] = server[u]
  BY <1>1 DEF ServerInv
<1>7. PartOK(r, call, server) /\ r.op = call.op
  BY DEF WorkerInv, PartOK
<1>8. r.op = "Get" =>
        /\ ~t.fatal => Has(t, r.keys[i])
        /\ \A k \in Nat : Has(st, k) => Has(t, k) /\ Value(t, k) = Value(st, k)
  <2> SUFFICES ASSUME r.op = "Get"
               PROVE  /\ ~t.fatal => Has(t, r.keys[i])
                      /\ \A k \in Nat : Has(st, k) => Has(t, k) /\ Value(t, k) = Value(st, k)
    OBVIOUS
  <2>1. PICK key \in Nat : key = r.keys[i]
    BY <1>1
  <2>2. ServerStore(st) /\ ~st.fatal /\ t = GetKey(st, key)
    BY <1>1, <1>5, <2>1
  <2>3. /\ t.fatal => \A k \in Nat : (Has(t, k) <=> Has(st, k)) /\ Value(t, k) = Value(st, k)
        /\ ~t.fatal =>
             /\ \A k \in Nat : Has(t, k) <=> (Has(st, k) \/ k = key)
             /\ \A k \in Nat : Has(st, k) => Value(t, k) = Value(st, k)
    BY <2>2, GetKeyServes
  <2> QED
    BY <2>1, <2>3
<1>9. ASSUME call.op = "Get", NEW k \in Nat, Owner(k) \in Servers, OwnerHas(server, k)
      PROVE  OwnerHas(server', k) /\ Owned(server', k) = Owned(server, k)
  BY <1>5, <1>6, <1>7, <1>8, <1>9 DEF OwnerHas, Owned
<1>10. ASSUME NEW e, Fetched(e, call, server)
       PROVE  Fetched(e, call, server')
  BY <1>9, <1>10, CallKeys DEF Fetched
<1>11. ASSUME NEW p \in requests' PROVE PartOK(p, call, server')
  <2>1. CASE p = q
    <3>1. \A j \in DOMAIN r.keys :
            j \in DOMAIN call.keys /\ r.keys[j] = call.keys[j] /\ s = Owner(call.keys[j])
      BY <1>1, <1>7 DEF PartOK
    <3>2. ASSUME r.op = "Get", NEW j \in DOMAIN r.keys \ (r.left \ {i})
          PROVE  t.fatal \/ OwnerHas(server', call.keys[j])
      <4>1. call.keys[j] \in Nat
        BY <1>7, <3>1, <3>2, CallKeys
      <4>2. CASE j = i
        BY <1>5, <1>8, <3>1, <3>2, <4>2 DEF OwnerHas
      <4>3. CASE j # i
        <5>1. OwnerHas(server, call.keys[j])
          BY <1>1, <1>7, <3>2, <4>3 DEF PartOK
        <5> QED
          BY <1>5, <1>8, <3>1, <3>2, <4>1, <5>1 DEF OwnerHas
      <4> QED
        BY <4>2, <4>3
    <3> QED
      BY <1>3, <1>5, <1>7, <2>1, <3>1, <3>2 DEF PartOK
  <2>2. CASE p \in requests /\ p # r
    <3>1. PartOK(p, call, server) /\ p.server \in Servers \ {s}
      BY <1>1, <2>2 DEF WorkerInv, PartsCounted, ServerInv, RequestOK
    <3> QED
      BY <1>6, <3>1 DEF PartOK, OwnerHas
  <2> QED
    BY <1>4, <2>1, <2>2
<1>12. PartsCounted'
  <2>1. /\ IsFiniteSet(requests \ {r}) /\ Cardinality(requests \ {r}) = Cardinality(requests) - 1
        /\ Cardinality(requests) \in Nat
    BY FS_RemoveElement, FS_CardinalityType DEF WorkerInv, PartsCounted
  <2>2. q \notin requests \ {r}
    BY <1>1, <1>3 DEF WorkerInv, PartsCounted
  <2>3. IsFiniteSet(requests') /\ Cardinality(requests') = Cardinality(requests)
    BY <1>4, <2>1, <2>2, FS_AddElement, SMTT(30)
  <2>4. \A p, v \in requests' : p.server = v.server => p = v
    BY <1>1, <1>3, <1>4 DEF WorkerInv, PartsCounted
  <2>5. \A p \in requests', v \in replies : p.server # v.server
    BY <1>1, <1>3, <1>4 DEF WorkerInv, PartsCounted
  <2>6. Busy' <=> Busy
    BY <1>4 DEF Busy
  <2> QED
    BY <1>4, <2>3, <2>4, <2>5, <2>6 DEF WorkerInv, PartsCounted
<1>13. ASSUME call.op = "Get", NEW j \in DOMAIN call.keys
       PROVE  \/ \E p \in requests' : j \in DOMAIN p.keys
              \/ \E p \in replies : j \in DOMAIN p.entries
              \/ \E v \in Threads : j \in DOMAIN thread[v].entries
              \/ Copied(worker, server', call.keys[j])
  <2>1. CASE \E p \in requests : j \in DOMAIN p.keys
    BY <1>3, <1>4, <2>1
  <2>2. CASE Copied(worker, server, call.keys[j])
    BY <1>9, <1>13, <2>2, CallKeys DEF Copied
  <2> QED
    BY <1>13, <2>1, <2>2 DEF WorkerInv
<1> QED
  BY <1>4, <1>10, <1>11, <1>12, <1>13 DEF WorkerInv

\* A server answers: all keys of a Get are there.
LEMMA AnswerStep ==
  ASSUME ServerInv, WorkerInv, NEW s \in Servers, Answer(s)
  PROVE  WorkerInv'
<1>1. PICK r \in requests :
        /\ r.server = s /\ r.left = {} /\ requests' = requests \ {r}
        /\ replies' = replies \cup
             {[server |-> s,
               entries |-> IF r.op = "Get"
                 THEN [i \in DOMAIN r.keys |->
                         [key |-> r.keys[i], val |-> Value(server[s], r.keys[i])]]
                 ELSE << >>]}
  BY DEF Answer
<1>2. PICK e : e = IF r.op = "Get"
                 THEN [i \in DOMAIN r.keys |->
                         [key |-> r.keys[i], val |-> Value(server[s], r.keys[i])]]
                 ELSE << >>
  OBVIOUS
<1>3. PICK n : n = [server |-> s, entries |-> e]
  OBVIOUS
<1>4. /\ replies' = replies \cup {n} /\ n.server = s /\ n.entries = e
      /\ UNCHANGED <<server, worker, call, pending, thread>> /\ ~server[s].fatal
  BY <1>1, <1>2, <1>3 DEF Answer, Running
<1>5. PartOK(r, call, server)
  BY DEF WorkerInv
<1>6. Fetched(e, call, server) /\ (r.op = "Get" => DOMAIN e = DOMAIN r.keys)
  <2>1. CASE r.op = "Get"
    <3>1. e = [i \in DOMAIN r.keys |-> [key |-> r.keys[i], val |-> Value(server[s], r.keys[i])]]
      BY <1>2, <2>1
    <3>2. \A i \in DOMAIN r.keys :
            /\ i \in DOMAIN call.keys /\ r.keys[i] = call.keys[i] /\ s = Owner(call.keys[i])
            /\ OwnerHas(server, call.keys[i]) /\ call.op = "Get"
      BY <1>1, <1>4, <1>5, <2>1 DEF PartOK
    <3> QED
      BY <3>1, <3>2 DEF Fetched, Owned
  <2>2. CASE r.op # "Get"
    BY <1>2, <2>2, EmptyEntries
  <2> QED
    BY <2>1, <2>2
<1>7. PartsCounted'
  <2>1. /\ IsFiniteSet(requests') /\ Cardinality(requests') = Cardinality(requests) - 1
        /\ Cardinality(requests) \in Nat /\ Cardinality(replies) \in Nat
    BY <1>1, FS_RemoveElement, FS_CardinalityType DEF WorkerInv, PartsCounted
  <2>2. n \notin replies
    BY <1>1, <1>4 DEF WorkerInv, PartsCounted
  <2>3. IsFiniteSet(replies') /\ Cardinality(replies') = Cardinality(replies) + 1
    BY <1>4, <2>2, FS_AddElement DEF WorkerInv, PartsCounted
  <2>4. \A p, q \in requests' : p.server = q.server => p = q
    BY <1>1 DEF WorkerInv, PartsCounted
  <2>5. \A p \in requests', q \in replies' : p.server # q.server
    BY <1>1, <1>4 DEF WorkerInv, PartsCounted
  <2>6. Busy' <=> Busy
    BY <1>4 DEF Busy
  <2> QED
    BY <1>4, <2>1, <2>3, <2>4, <2>5, <2>6 DEF WorkerInv, PartsCounted
<1>8. ASSUME call.op = "Get", NEW j \in DOMAIN call.keys
      PROVE  \/ \E p \in requests' : j \in DOMAIN p.keys
             \/ \E p \in replies' : j \in DOMAIN p.entries
             \/ \E v \in Threads : j \in DOMAIN thread[v].entries
             \/ Copied(worker, server, call.keys[j])
  <2>1. CASE j \in DOMAIN r.keys
    BY <1>4, <1>5, <1>6, <1>8, <2>1 DEF PartOK
  <2>2. CASE j \notin DOMAIN r.keys
    BY <1>1, <1>4, <1>8, <2>2 DEF WorkerInv
  <2> QED
    BY <2>1, <2>2
<1>9. \A p \in replies' : Fetched(p.entries, call, server)
  BY <1>4, <1>6 DEF WorkerInv
<1>10. \A p \in requests' : PartOK(p, call, server)
  BY <1>1 DEF WorkerInv
<1> QED
  BY <1>4, <1>7, <1>8, <1>9, <1>10 DEF WorkerInv

LEMMA WorkerNext ==
  ASSUME CopiesInTurn, ServerInv, WorkerInv, [Next]_vars
  PROVE  WorkerInv'
<1>1. CASE UNCHANGED <<server, worker, call, requests, replies, pending, thread>>
  BY <1>1 DEF WorkerInv, PartsCounted, Busy
<1>2. ASSUME NEW s \in Servers, StoreModel(s) PROVE WorkerInv'
  BY <1>1, <1>2 DEF StoreModel
<1>3. ASSUME NEW s \in Servers, LoadModel(s) PROVE WorkerInv'
  <2>1. pending = 0
    BY <1>3 DEF LoadModel, WorkerInv, PartsCounted
  <2> QED
    BY <1>3, <2>1, AtRest DEF LoadModel
<1>4. CASE Return
  BY <1>4, AtRest DEF Return
<1>5. CASE Ended \/ UNCHANGED vars
  BY <1>1, <1>5 DEF Ended, vars
<1> QED
  BY <1>2, <1>3, <1>4, <1>5, CallStep, ReceiveStep, SearchStep, FillStep, ServeStep,
     AnswerStep DEF Next

-----------------------------------------------------------------------------
(* Theorems.                                                                 *)

\* The servers' stores stay sound, and a store that met LOG_FATAL was crowded,
\* whatever keys the client asks for (kv_table.h:106-149, kvstore.cc:41-112).
THEOREM ServersStaySound == ASSUME SavesPacked PROVE Spec => []ServerInv
<1>1. ServerInv /\ [Next]_vars => ServerInv'
  BY ServerNext
<1> QED
  BY <1>1, ServerInit, PTL DEF Spec

\* A KVTable is a map, whatever keys the client asks for, when checkpoints are
\* taken of packed stores (kv_table.h:23, kvstore.cc:139-169).
THEOREM TableIsMap == ASSUME SavesPacked PROVE Spec => IsMap
<1>1. ServerInv /\ [Next]_vars => [Map!Next]_<<Maps, Saved>>
  BY MapNext
<1>2. Spec => Map!Init /\ [][Map!Next]_<<Maps, Saved>>
  BY <1>1, MapInit, ServersStaySound, PTL DEF Spec
<1> QED
  BY <1>2, PTL DEF IsMap, Map!Spec, Maps, Saved

\* Both invariants together.
THEOREM TableInvariant ==
  ASSUME SavesPacked, CopiesInTurn
  PROVE  Spec => [](ServerInv /\ WorkerInv)
<1>1. ServerInv /\ WorkerInv /\ [Next]_vars => ServerInv' /\ WorkerInv'
  BY ServerNext, WorkerNext
<1> QED
  BY <1>1, ServerInit, WorkerInit, PTL DEF Spec

\* Every store stays sound, the worker's too, when the answers to a call are
\* copied one after the other (kvstore.cc:41-112, kv_table.h:84-96).
THEOREM StoresStaySound ==
  ASSUME SavesPacked, CopiesInTurn
  PROVE  Spec => []StoresSound
<1>1. ServerInv /\ WorkerInv => StoresSound
  BY DEF ServerInv, WorkerInv, ServerStore, Good, StoresSound
<1> QED
  BY <1>1, TableInvariant, PTL

\* LOG_FATAL of kvstore.cc:76 is met only by a store with kMaxProbeNum entries, or
\* with one server's share of the capacity (kv_table.h:163).
THEOREM FatalOnlyInCrowd ==
  ASSUME SavesPacked, CopiesInTurn
  PROVE  Spec => []FatalNeedsCrowd
<1>1. ASSUME NEW st, Crowd(st), st.node_size \in Nat, st.fatal
      PROVE  st.node_size >= Min({MaxProbe, InitCapacity \div NumServers})
  <2>1. Share \in Nat /\ Capacity \in Nat /\ MaxProbe \in Nat /\ Share <= Capacity
    BY KVStoreAssumption, ShareAssumption
  <2>2. /\ Min({MaxProbe, Capacity}) \in {MaxProbe, Capacity}
        /\ Min({MaxProbe, Share}) \in Nat
        /\ Min({MaxProbe, Share}) <= MaxProbe /\ Min({MaxProbe, Share}) <= Share
    BY <2>1, LeastOne
  <2>3. st.node_size >= Min({MaxProbe, Capacity})
    BY <1>1 DEF Crowd
  <2>4. st.node_size >= Min({MaxProbe, Share})
    BY <1>1, <2>1, <2>2, <2>3
  <2> QED
    BY <2>4 DEF Share
<1>2. ServerInv /\ WorkerInv => FatalNeedsCrowd
  <2>1. ServerInv /\ WorkerInv =>
          \A st \in {worker} \cup {server[s] : s \in Servers} :
             Crowd(st) /\ st.node_size \in Nat
    BY DEF ServerInv, WorkerInv, ServerStore, Good, StoreOK
  <2> QED
    BY <1>1, <2>1 DEF FatalNeedsCrowd
<1> QED
  BY <1>2, TableInvariant, PTL

\* A Get that returns has brought every key, with its server's value, into the
\* worker's copy (kv_table.h:52-96).
THEOREM GetsBringValues ==
  ASSUME SavesPacked, CopiesInTurn
  PROVE  Spec => []GetBringsValues
<1>1. ServerInv /\ WorkerInv => GetBringsValues
  <2> SUFFICES ASSUME WorkerInv, call.op = "Get", pending = 0
               PROVE  GetFromLocal(call.keys) =
                        [i \in DOMAIN call.keys |->
                           Value(server[call.keys[i] % NumServers], call.keys[i])]
    BY DEF GetBringsValues
  <2>1. requests = {} /\ replies = {} /\ \A t \in Threads : thread[t] = Idle
    BY NothingPending
  <2>2. \A i \in DOMAIN call.keys : Copied(worker, server, call.keys[i])
    BY <2>1, IdleIs, EmptyEntries DEF WorkerInv
  <2>3. \A i \in DOMAIN call.keys :
          /\ Has(worker, call.keys[i])
          /\ Value(worker, call.keys[i]) = Value(server[call.keys[i] % NumServers], call.keys[i])
    BY <2>2 DEF Copied, Owned, Owner
  <2> QED
    BY <2>3 DEF GetFromLocal
<1> QED
  BY <1>1, TableInvariant, PTL
=============================================================================
