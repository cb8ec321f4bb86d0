----------------------------- MODULE SyncServer -----------------------------
(* The state one SyncScheduler keeps for one table on one server, and what   *)
(* its handlers do to it (hpps/frame/scheduler/sync_scheduler.cc).           *)
(*                                                                           *)
(* A request is [src, k]: the k-th request of the program of worker src. The *)
(* table is abstracted to how many Adds of each worker it has absorbed: Add  *)
(* requests of the default updater commute, so that vector identifies the    *)
(* parameters a Get returns.                                                 *)
(*                                                                           *)
(* The server actor has one thread, so a handler runs alone; but it answers  *)
(* cached requests one at a time, and each answer leaves the server at once. *)
(* The loops that drain the caches are therefore steps of their own, and     *)
(* server.draining is the thread's place in the handler: while it is not     *)
(* "no", the thread takes no new message.                                    *)
EXTENDS VectorClock, Sequences

CONSTANT Workers

ASSUME WorkersAssumption == Workers # {} /\ IsFiniteSet(Workers)

Op      == {"Get", "Add"}
Message == [src : Workers, k : Nat]
Clock   == [local : [Workers -> Nat], global : Nat]
Reply   == [src : Workers, k : Nat, params : [Workers -> Nat]]
Server  ==
  [add : Clock, get : Clock, waited : [Workers -> Int],
   addCache : Seq(Message), getCache : Seq(Message),
   draining : {"no", "gets", "adds"}, failed : BOOLEAN,
   params : [Workers -> Nat], answered : [Workers -> SUBSET Nat],
   replies : SUBSET Reply]

InitServer ==
  [add      |-> New(Workers),               \* worker_add_clocks_
   get      |-> New(Workers),               \* worker_get_clocks_
   waited   |-> [w \in Workers |-> 0],      \* num_waited_add_
   addCache |-> << >>,                      \* msg_add_cache_
   getCache |-> << >>,                      \* msg_get_cache_
   draining |-> "no",                       \* place in the running handler
   failed   |-> FALSE,                      \* a CHECK failed: exit(1)
   params   |-> [w \in Workers |-> 0],      \* Adds absorbed by the table
   answered |-> [w \in Workers |-> {}],     \* requests replied to
   replies  |-> {}]                         \* what every Reply_Get carried

\* Scheduler::ProcessAdd and the clock update that follows it. Every request of a
\* table carries data, so its test for an empty message is always passed.
ApplyAdd(s, m) ==
  [s EXCEPT !.params[m.src]   = @ + 1,
            !.answered[m.src] = @ \cup {m.k},
            !.add             = Update(@, m.src)]

\* Scheduler::ProcessGet, with the same test, and its clock update.
ServeGet(s, m) ==
  [s EXCEPT !.replies         = @ \cup {[src |-> m.src, k |-> m.k, params |-> s.params]},
            !.answered[m.src] = @ \cup {m.k},
            !.get             = Update(@, m.src)]

\* Mutants of AddMustWait: no Add waits; an Add may run one Get ahead.
AddNeverWaits(s, w) == FALSE
AddMayBeOneAhead(s, w) == s.get.local[w] > s.get.global + 1

\* An Add waits while its worker is ahead of another worker's Gets.
AddMustWait(s, w) == s.get.local[w] > s.get.global

\* Mutant of GetMustWait: Gets do not wait for the Adds of others.
GetIgnoresAdds(s, w) == s.waited[w] > 0

\* A Get waits while its worker is ahead of another worker's Adds, or has an
\* Add waiting.
GetMustWait(s, w) == s.add.local[w] > s.add.global \/ s.waited[w] > 0

\* Mutant of CacheAdd: the waiting Add is not counted.
CacheAddUncounted(s, m) == [s EXCEPT !.addCache = Append(@, m)]

CacheAdd(s, m) ==
  [s EXCEPT !.addCache = Append(@, m), !.waited[m.src] = @ + 1]

CacheGet(s, m) == [s EXCEPT !.getCache = Append(@, m)]

\* Mutant of StartDrainingGets and StartDrainingAdds: the cache is not drained.
LeaveCached(s) == [s EXCEPT !.draining = "no"]

\* Enter the loop over the cached Gets (or Adds), if there is anything in it.
StartDrainingGets(s) ==
  [s EXCEPT !.draining = IF s.getCache = << >> THEN "no" ELSE "gets"]
StartDrainingAdds(s) ==
  [s EXCEPT !.draining = IF s.addCache = << >> THEN "no" ELSE "adds"]

ProcessAdd(s, m) ==
  IF AddMustWait(s, m.src) THEN CacheAdd(s, m)
  ELSE IF ~UpdateReturns(s.add, m.src) THEN ApplyAdd(s, m)
  ELSE IF s.addCache # << >> THEN [ApplyAdd(s, m) EXCEPT !.failed = TRUE]
  ELSE StartDrainingGets(ApplyAdd(s, m))

ProcessGet(s, m) ==
  IF GetMustWait(s, m.src) THEN CacheGet(s, m)
  ELSE IF ~UpdateReturns(s.get, m.src) THEN ServeGet(s, m)
  ELSE StartDrainingAdds(ServeGet(s, m))

\* One round of "while (!msg_get_cache_.Empty())".
DrainGet(s) ==
  LET m == Head(s.getCache)
      t == ServeGet([s EXCEPT !.getCache = Tail(@)], m)
  IN  IF UpdateReturns(s.get, m.src) THEN [t EXCEPT !.failed = TRUE]
      ELSE StartDrainingGets(t)

\* One round of "while (!msg_add_cache_.Empty())".
DrainAdd(s) ==
  LET m == Head(s.addCache)
      t == ApplyAdd([s EXCEPT !.addCache = Tail(@)], m)
  IN  IF UpdateReturns(s.add, m.src) THEN [t EXCEPT !.failed = TRUE]
      ELSE StartDrainingAdds([t EXCEPT !.waited[m.src] = @ - 1])

\* Mutant of FinishAdds: the Gets that waited for the worker are left.
FinishAddsOnly(s, w) == [s EXCEPT !.add = FinishTrain(@, w)]

\* The two halves of ProcessFinishTrain.
FinishAdds(s, w) ==
  LET t == [s EXCEPT !.add = FinishTrain(@, w)] IN
  IF ~FinishTrainReturns(s.add, w) THEN t
  ELSE IF s.addCache # << >> THEN [t EXCEPT !.failed = TRUE]
  ELSE StartDrainingGets(t)
FinishGets(s, w) ==
  LET t == [s EXCEPT !.get = FinishTrain(@, w)] IN
  IF ~FinishTrainReturns(s.get, w) THEN t
  ELSE IF s.getCache # << >> THEN [t EXCEPT !.failed = TRUE]
  ELSE StartDrainingAdds(t)
=============================================================================
