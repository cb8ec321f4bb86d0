---------------------------- MODULE VectorClock ----------------------------
(* SyncScheduler::VectorClock (hpps/frame/scheduler/sync_scheduler.h): one   *)
(* logical clock per worker and a global clock that follows the slowest one. *)
(* A clock is a record [local, global]; Update gives the new record, and the *)
(* Boolean the method returns is an operator of its own on the clock before  *)
(* the call.                                                                 *)
EXTENDS Integers, FiniteSets

\* std::numeric_limits<int>::max(): the local clock of a finished worker.
MaxInt == 2147483647

\* Mutant of New: the global clock starts one behind the workers.
NewBehind(W) == [local |-> [w \in W |-> 0], global |-> -1]

New(W) == [local |-> [w \in W |-> 0], global |-> 0]

\* The global clock is behind every local clock: global_clock_ < min_element().
GlobalIsBehind(c) == \A w \in DOMAIN c.local : c.global < c.local[w]

\* global_clock_ == max_element(), where the maximum starts at the global
\* clock and leaves finished workers out.
GlobalIsLargest(c) ==
  \A w \in DOMAIN c.local : c.local[w] # MaxInt => c.local[w] <= c.global

\* ++local_clock_[w], and then ++global_clock_ if every worker is past it.
Tick(c, w) == [c EXCEPT !.local[w] = @ + 1]
Update(c, w) ==
  IF GlobalIsBehind(Tick(c, w))
  THEN [Tick(c, w) EXCEPT !.global = @ + 1]
  ELSE Tick(c, w)

\* What Update(w) returns when it is called on c.
UpdateReturns(c, w) == GlobalIsBehind(Tick(c, w)) /\ GlobalIsLargest(Update(c, w))

\* VectorClock::FinishTrain: the worker's clock no longer holds others back,
\* and the global clock jumps to the slowest of the rest.
Stopped(c, w) == [c EXCEPT !.local[w] = MaxInt]
FinishTrain(c, w) ==
  IF GlobalIsBehind(Stopped(c, w))
  THEN [Stopped(c, w) EXCEPT
          !.global = CHOOSE n \in {Stopped(c, w).local[v] : v \in DOMAIN c.local} :
                       \A v \in DOMAIN c.local : n <= Stopped(c, w).local[v]]
  ELSE Stopped(c, w)

\* What FinishTrain(w) returns when it is called on c.
FinishTrainReturns(c, w) ==
  GlobalIsBehind(Stopped(c, w)) /\ GlobalIsLargest(FinishTrain(c, w))
=============================================================================
