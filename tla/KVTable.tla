------------------------------ MODULE KVTable ------------------------------
(* A KVTable (hpps/table/kv_table.h, kv_table.cc): the servers' stores, one  *)
(* worker process with its local copy, and a client thread that makes        *)
(* blocking calls. Key k belongs to server k % NumServers. Waiting for the   *)
(* answers is modelled in detail by WorkerTable; here a call is under way    *)
(* until every part of it has been answered. A process that runs into        *)
(* LOG_FATAL ends the job.                                                   *)
EXTENDS KVStore, Sequences

CONSTANTS Threads,      \* threads of the worker actor
          Asks,         \* the sequences of keys the client asks for
          SaveUnpacked, \* may a checkpoint be taken of a store with gaps
          MaxCalls      \* bound on the number of calls and checkpoints

Servers == 0..(NumServers - 1)

ASSUME KVTableAssumption ==
  /\ NumServers \in Nat \ {0} /\ MaxCalls \in Nat
  /\ Asks \subseteq Seq(Nat) /\ SaveUnpacked \in BOOLEAN

VARIABLES
  server,    \* server[s]: the store of server s
  worker,    \* the worker's store
  call,      \* the client's call, or None
  requests,  \* parts of the call that a server has not answered
  replies,   \* answers in the worker's mailbox
  pending,   \* how many parts are not answered yet
  thread,    \* thread[t]: the answer it copies, and how far it is
  image,     \* image[s]: the checkpoint of server s, or None
  calls      \* calls made so far

vars == <<server, worker, call, requests, replies, pending, thread, image, calls>>

None == [op |-> "none", keys |-> << >>]
Idle == [entries |-> << >>, slot |-> -1, offset |-> -1, new |-> FALSE]

Init ==
  /\ server = [s \in Servers |-> New] /\ worker = New
  /\ call = None /\ requests = {} /\ replies = {} /\ pending = 0
  /\ thread = [t \in Threads |-> Idle]
  /\ image = [s \in Servers |-> None] /\ calls = 0

Running == ~worker.fatal /\ \A s \in Servers : ~server[s].fatal

-----------------------------------------------------------------------------
(* The worker process.                                                       *)

\* A part of a call is a function on places of the call's keys: Partition keeps
\* the keys in their order, so the next one is at the least place.
NextPlace(f) == Min(DOMAIN f)
Without(f, i) == Restrict(f, DOMAIN f \ {i})

\* KVWorkerTable::Partition: every server that owns one of the keys gets its
\* own, in their order.
Partition(keys) ==
  LET Owner(i) == keys[i] % NumServers
  IN  [s \in {Owner(i) : i \in DOMAIN keys} |->
         Restrict(keys, {i \in DOMAIN keys : Owner(i) = s})]

\* Get and Add: the parts go out, and the client waits for all of them.
Call(op, keys) ==
  LET parts == Partition(keys) IN
  /\ Running /\ call = None /\ calls < MaxCalls
  /\ call' = [op |-> op, keys |-> keys] /\ calls' = calls + 1
  /\ requests' = {[op |-> op, server |-> s, keys |-> parts[s], left |-> DOMAIN parts[s]] :
                     s \in DOMAIN parts}
  /\ pending' = Cardinality(DOMAIN parts)
  /\ UNCHANGED <<server, worker, replies, thread, image>>

\* A thread takes an answer from the mailbox; that of an Add only counts.
Receive(t) ==
  /\ Running /\ thread[t] = Idle
  /\ \E r \in replies :
       /\ replies' = replies \ {r}
       /\ thread' = [thread EXCEPT ![t].entries = r.entries]
       /\ pending' = IF r.entries = << >> THEN pending - 1 ELSE pending
  /\ UNCHANGED <<server, worker, call, requests, image, calls>>

\* ProcessReplyGet calls Set for each key, without a lock. The search is a step
\* of its own: it reads the slots and, for a new entry, the array's size ...
Search(t) ==
  LET r   == thread[t]
      key == r.entries[NextPlace(r.entries)].key IN
  /\ Running /\ r.entries # << >> /\ r.slot = -1
  /\ IF TooCrowded(worker, key)
     THEN worker' = [worker EXCEPT !.fatal = TRUE] /\ UNCHANGED thread
     ELSE /\ thread' = [thread EXCEPT ![t] =
               [entries |-> r.entries,
                slot    |-> SlotOf(worker, key),
                offset  |-> IF Has(worker, key) THEN Entry(worker, key).offset
                                                ELSE worker.data_size,
                new     |-> ~Has(worker, key)]]
          /\ UNCHANGED worker
  /\ UNCHANGED <<server, call, requests, replies, pending, image, calls>>

\* ... and what it found is used in the next. After the last key comes Notify.
Fill(t) ==
  LET r == thread[t]
      i == NextPlace(r.entries)
      w == IF r.new THEN Claim(worker, r.entries[i].key, r.slot, r.offset) ELSE worker IN
  /\ Running /\ r.slot # -1
  /\ worker' = Write(w, r.slot, r.offset, r.entries[i].val, FALSE)
  /\ thread' = [thread EXCEPT ![t] = [Idle EXCEPT !.entries = Without(r.entries, i)]]
  /\ pending' = IF DOMAIN r.entries = {i} THEN pending - 1 ELSE pending
  /\ UNCHANGED <<server, call, requests, replies, image, calls>>

\* GetFromLocal: a key the store does not have is read through a null pointer.
Null == Fresh("null", -1)
GetFromLocal(keys) ==
  [i \in DOMAIN keys |-> IF Has(worker, keys[i]) THEN Value(worker, keys[i]) ELSE Null]

\* The call is complete: the client has its answer and goes on.
Return ==
  /\ Running /\ call # None /\ pending = 0
  /\ call' = None
  /\ UNCHANGED <<server, worker, requests, replies, pending, thread, image, calls>>

-----------------------------------------------------------------------------
(* The servers. One thread runs the handlers of a server.                    *)

\* One key of ProcessGet: a new entry gets a random value.
GetKey(s, key) ==
  LET t == Find(s, key)
  IN  IF t.fatal \/ Has(s, key) THEN t
      ELSE [t EXCEPT !.data[Entry(t, key).offset] = Fresh("random", key)]

\* Mutant of AddKey: the immutable mask is ignored.
AddKeyAnyway(s, key) ==
  LET t == Find(s, key)
  IN  IF t.fatal THEN t ELSE [t EXCEPT !.data[Entry(t, key).offset].adds = @ + 1]

\* One key of ProcessAdd: the default updater adds to what is there.
AddKey(s, key) ==
  LET t == Find(s, key)
  IN  IF t.fatal \/ Entry(t, key).immutable THEN t
      ELSE [t EXCEPT !.data[Entry(t, key).offset].adds = @ + 1]

\* The loop of ProcessGet and ProcessAdd handles the next key of a request,
\* unless the key ends the process.
Serve(s) ==
  /\ Running
  /\ \E r \in requests :
       LET i == Min(r.left) IN
       /\ r.server = s /\ r.left # {}
       /\ server' = [server EXCEPT ![s] =
            IF r.op = "Get" THEN GetKey(server[s], r.keys[i]) ELSE AddKey(server[s], r.keys[i])]
       /\ requests' = (requests \ {r}) \cup {[r EXCEPT !.left = r.left \ {i}]}
  /\ UNCHANGED <<worker, call, replies, pending, thread, image, calls>>

\* ProcessGet answers with the keys and the values that its loop has copied,
\* ProcessAdd with nothing. They are the values of now: the handler has the only
\* request for this server that is under way.
Answer(s) ==
  /\ Running
  /\ \E r \in requests :
       /\ r.server = s /\ r.left = {}
       /\ requests' = requests \ {r}
       /\ replies' = replies \cup
            {[server |-> s,
              entries |-> IF r.op = "Get"
                THEN [i \in DOMAIN r.keys |->
                        [key |-> r.keys[i], val |-> Value(server[s], r.keys[i])]]
                ELSE << >>]}
  /\ UNCHANGED <<server, worker, call, pending, thread, image, calls>>

\* The entries fill the first slots: consecutive keys from 0 on one server.
Packed(s) == {i \in Slots : s.node[i] # Empty} = 0..(s.node_size - 1)

\* KVServerTable::Store and Load, between two calls of the client.
StoreModel(s) ==
  /\ Running /\ call = None /\ calls < MaxCalls
  /\ SaveUnpacked \/ Packed(server[s])
  /\ image' = [image EXCEPT ![s] = Store(server[s])] /\ calls' = calls + 1
  /\ UNCHANGED <<server, worker, call, requests, replies, pending, thread>>
LoadModel(s) ==
  /\ Running /\ call = None /\ image[s] # None /\ calls < MaxCalls
  /\ server' = [server EXCEPT ![s] = Load(image[s])] /\ calls' = calls + 1
  /\ UNCHANGED <<worker, call, requests, replies, pending, thread, image>>

\* The job has ended, or the client makes no more calls.
Ended == (~Running \/ call = None) /\ UNCHANGED vars

Next ==
  \/ \E keys \in Asks : Call("Get", keys) \/ Call("Add", keys)
  \/ \E t \in Threads : Receive(t) \/ Search(t) \/ Fill(t)
  \/ \E s \in Servers : Serve(s) \/ Answer(s) \/ StoreModel(s) \/ LoadModel(s)
  \/ Return \/ Ended

Spec == Init /\ [][Next]_vars

-----------------------------------------------------------------------------
\* Every store stays sound (kvstore.cc:41-112): whatever the collisions, a key
\* has one entry that a search finds, and no two keys share memory.
StoresSound == Sound(worker) /\ \A s \in Servers : Sound(server[s])

\* LOG_FATAL (kvstore.cc:76) needs a crowd: a store with fewer than kMaxProbeNum
\* entries, and fewer than one server's share of the capacity that was asked for
\* (kv_table.h:163), takes any key. That is all the worker's store has, too.
FatalNeedsCrowd ==
  \A st \in {worker} \cup {server[s] : s \in Servers} :
    st.fatal => st.node_size >= Min({MaxProbe, InitCapacity \div NumServers})

\* When a Get returns the worker's copy has every key that was asked for (the
\* test's EXPECT_TRUE(data != nullptr), zoo_kv_test.cc:75), each with the value
\* its server has.
GetBringsValues ==
  call.op = "Get" /\ pending = 0 =>
    GetFromLocal(call.keys) =
      [i \in DOMAIN call.keys |-> Value(server[call.keys[i] % NumServers], call.keys[i])]

\* What Store writes and Load reads back (kvstore.cc:139-169) is the map that the
\* store holds ("Load and Save KVStore", kvstore.h:49).
LoadRestores ==
  \A s \in Servers : Contents(Load(Store(server[s]))) = Contents(server[s])

\* A KVTable is a map from keys to values, and a checkpoint holds that map.
KeySets == UNION {SUBSET Range(keys) : keys \in Asks}
Map == INSTANCE KVMap WITH
  Requests <- KeySets, Unsaved <- << >>,
  map <- [s \in Servers |-> Contents(server[s])],
  saved <- [s \in Servers |-> IF image[s] = None THEN << >> ELSE Contents(Load(image[s]))]
IsMap == Map!Spec
=============================================================================
