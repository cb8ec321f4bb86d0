------------------------------ MODULE BulkSync ------------------------------
(* What a synchronous table promises its workers, without clocks or caches:  *)
(* bulk-synchronous training. Each worker's requests are granted in order;   *)
(* a request is granted once every other worker has been granted everything  *)
(* before the phase it belongs to, a phase being a run of Gets or of Adds;   *)
(* and what a Get returns is fixed by its place in the program alone.        *)
EXTENDS Integers, Sequences, FiniteSets

CONSTANTS Workers, Prog

VARIABLES answered,  \* answered[w]: the requests of w that were granted
          replies    \* what each granted Get returned

vars == <<answered, replies>>

AddsBefore(w, k) == Cardinality({j \in 1..k : Prog[w][j] = "Add"})

Init ==
  /\ answered = [w \in Workers |-> {}]
  /\ replies  = {}

\* Nobody is still owed a request from before the phase of w's k-th request.
PhaseReached(w, k) ==
  \A v \in Workers : \A j \in 1..k : j \notin answered[v] => Prog[w][j] = Prog[w][k]

GrantAdd(w, k) ==
  /\ Prog[w][k] = "Add"
  /\ UNCHANGED replies

GrantGet(w, k) ==
  /\ Prog[w][k] = "Get"
  /\ replies' = replies \cup
       {[src |-> w, k |-> k, params |-> [v \in Workers |-> AddsBefore(w, k)]]}

Grant(w) ==
  \E k \in 1..Len(Prog[w]) :
    /\ answered[w] = 1..(k - 1)
    /\ PhaseReached(w, k)
    /\ answered' = [answered EXCEPT ![w] = @ \cup {k}]
    /\ GrantAdd(w, k) \/ GrantGet(w, k)

Next == \E w \in Workers : Grant(w)

SafetySpec == Init /\ [][Next]_vars

Spec == SafetySpec /\ \A w \in Workers : WF_vars(Grant(w))
=============================================================================
