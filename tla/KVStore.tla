------------------------------ MODULE KVStore ------------------------------
(* KVStore (hpps/kvstore/kvstore.cc): an open-addressing hash table whose    *)
(* slots point into one array of values. A store is a record; a value fills  *)
(* one place of the array (value_len_ = 1), and a slot keeps the immutable   *)
(* mask of its offset as a field.                                            *)
EXTENDS Integers, FiniteSetsExt

CONSTANTS InitCapacity, \* init_capacity, as the application asks for it
          NumServers,
          MaxProbe      \* kMaxProbeNum

\* Mutant of Share: divided once in the option and once again in the table.
ShareTwice == (InitCapacity \div NumServers) \div NumServers

\* KVTableOption divides the capacity among the servers. The worker's store, which
\* holds keys of all servers, is given the same share.
Share == InitCapacity \div NumServers

\* node_capacity_, and data_capacity_: doubled until it is not below the share.
Capacity == Min({c \in {2^k : k \in 0..Share} : c >= Share})

ASSUME KVStoreAssumption ==
  /\ Capacity \in Nat \ {0}
  /\ MaxProbe \in Nat \ {0}

\* What the doubling gives: powers of two grow past any share.
ASSUME ShareAssumption == InitCapacity \in Nat /\ Share \in Nat /\ Share <= Capacity

Slots == 0..(Capacity - 1)
Empty == [key |-> -1, offset |-> -1, immutable |-> FALSE]

\* The values the model tells apart: the key a value was made for, what it
\* started from and how many updates it has had. AlignMalloc leaves the array
\* uninitialised, so a new entry starts from garbage.
Fresh(base, key) == [base |-> base, key |-> key, adds |-> 0]

-----------------------------------------------------------------------------
\* The slots Get looks at, in order: key & (node_capacity_ - 1) and the next
\* ones, wrapping at the end.
ProbeSlots(key) == [i \in 0..(MaxProbe - 1) |-> (key + i) % Capacity]

\* Mutant of Stops: a slot taken by another key ends the search.
StopsAnywhere(s, key) == DOMAIN ProbeSlots(key)

\* The probes at which the search stops: at a free slot or at the key's own.
Stops(s, key) ==
  {i \in DOMAIN ProbeSlots(key) : s.node[ProbeSlots(key)[i]].key \in {-1, key}}

\* The slot the search ends in; a search that never stops is LOG_FATAL.
SlotOf(s, key) == ProbeSlots(key)[Min(Stops(s, key))]
TooCrowded(s, key) == Stops(s, key) = {}
Has(s, key) == ~TooCrowded(s, key) /\ s.node[SlotOf(s, key)].key = key

\* A new entry: the slot, the next place of the array, both sizes.
Claim(s, key, slot, offset) ==
  [s EXCEPT !.node[slot] = [key |-> key, offset |-> offset, immutable |-> FALSE],
            !.data = [o \in DOMAIN s.data \cup {offset} |->
                        IF o = offset THEN Fresh("garbage", key) ELSE s.data[o]],
            !.data_size = s.data_size + 1,
            !.node_size = s.node_size + 1]

\* Get with immutable = false: the entry is there afterwards, or the process
\* has exited.
Find(s, key) ==
  IF TooCrowded(s, key) THEN [s EXCEPT !.fatal = TRUE]
  ELSE IF Has(s, key) THEN s ELSE Claim(s, key, SlotOf(s, key), s.data_size)

\* The entry of a key that the store has, and its value.
Entry(s, key) == s.node[SlotOf(s, key)]
Value(s, key) == s.data[Entry(s, key).offset]

\* memcpy into the entry's place, and the mask set or cleared.
Write(s, slot, offset, val, immutable) ==
  [s EXCEPT !.data[offset] = val, !.node[slot].immutable = immutable]

\* KVStore::Set.
Set(s, key, val, immutable) ==
  LET t == Find(s, key)
  IN  IF t.fatal THEN t ELSE Write(t, SlotOf(t, key), Entry(t, key).offset, val, immutable)

\* The constructor, with AddBlackList.
New ==
  Set([node |-> [i \in Slots |-> Empty], node_size |-> 0,
       data |-> << >>, data_size |-> 0, fatal |-> FALSE], 0, Fresh("zero", 0), TRUE)

\* Store writes the first node_size_ slots and the used part of the array.
Store(s) ==
  [node |-> [i \in 0..(s.node_size - 1) |-> s.node[i]], node_size |-> s.node_size,
   data |-> s.data, data_size |-> s.data_size]

\* Load reads them back into a table of free slots.
Load(image) ==
  [node |-> [i \in Slots |-> IF i < image.node_size THEN image.node[i] ELSE Empty],
   node_size |-> image.node_size,
   data |-> image.data, data_size |-> image.data_size, fatal |-> FALSE]

-----------------------------------------------------------------------------
\* What a caller can find in the store: the map it stands for.
HeldKeys(s) == {s.node[i].key : i \in Slots} \ {-1}
Contents(s) == [key \in {k \in HeldKeys(s) : Has(s, k)} |-> Value(s, key)]

\* A store is sound when a search for the key of any entry ends in that entry,
\* two entries never share a place of the array, and the array is large enough.
Sound(s) ==
  /\ \A i \in Slots : s.node[i] # Empty =>
       /\ Has(s, s.node[i].key) /\ SlotOf(s, s.node[i].key) = i
       /\ s.node[i].offset \in 0..(s.data_size - 1)
  /\ \A i, j \in Slots :
       s.node[i].offset = s.node[j].offset => i = j \/ s.node[i] = Empty
  /\ s.data_size <= Capacity
=============================================================================
