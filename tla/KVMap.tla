------------------------------- MODULE KVMap -------------------------------
(* What a KVTable promises its users ("A distributed shared                  *)
(* std::unordered_map<Key, Val> table", hpps/table/kv_table.h:23): each      *)
(* server keeps a map. A Get creates a key with an initial value, an Add     *)
(* updates the values of its keys except that of the black-listed key 0, and *)
(* a Load brings back the map that was stored.                               *)
EXTENDS Integers

CONSTANTS Servers,
          Requests,  \* the sets of keys one request can be about
          Unsaved

VARIABLES map,    \* map[s]: the values server s has
          saved   \* saved[s]: the map that its last checkpoint holds, or Unsaved

\* A value: the key it is for, what it started from, its updates so far.
Fresh(base, key) == [base |-> base, key |-> key, adds |-> 0]

Init ==
  /\ map = [s \in Servers |-> [k \in {0} |-> Fresh("zero", 0)]]
  /\ saved = [s \in Servers |-> Unsaved]

\* m with the keys ks, the new ones with a fresh value.
With(m, ks, base) ==
  [k \in DOMAIN m \cup ks |-> IF k \in DOMAIN m THEN m[k] ELSE Fresh(base, k)]

Get(s, ks) ==
  /\ map' = [map EXCEPT ![s] = With(@, ks, "random")]
  /\ UNCHANGED saved

\* A key that is new to an Add starts from whatever the memory held.
Add(s, ks) ==
  LET m == With(map[s], ks, "garbage") IN
  /\ map' = [map EXCEPT ![s] =
       [k \in DOMAIN m |-> IF k \in ks \ {0} THEN [m[k] EXCEPT !.adds = @ + 1] ELSE m[k]]]
  /\ UNCHANGED saved

Save(s)    == saved' = [saved EXCEPT ![s] = map[s]] /\ UNCHANGED map
Restore(s) == saved[s] # Unsaved /\ map' = [map EXCEPT ![s] = saved[s]] /\ UNCHANGED saved

Next == \E s \in Servers :
  \/ \E ks \in Requests : Get(s, ks) \/ Add(s, ks)
  \/ Save(s) \/ Restore(s)

Spec == Init /\ [][Next]_<<map, saved>>
=============================================================================
