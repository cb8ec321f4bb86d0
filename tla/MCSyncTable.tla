---------------------------- MODULE MCSyncTable ----------------------------
(* Instances of SyncTable for TLC.                                           *)
EXTENDS SyncTableProofs

Get(to) == [op |-> "Get", to |-> to]
Add(to) == [op |-> "Add", to |-> to]
Same(p) == [w \in Workers |-> p]

\* An ArrayTable, and a KVTable whose keys are on different servers from call
\* to call; every worker makes the same calls. FinishTrain is sent or not.
OneOf == CHOOSE s \in Servers : TRUE
ArrayProg == <<Add(Servers), Get(Servers), Get(Servers), Add(Servers), Add(Servers), Get(Servers)>>
KVProg == <<Get(Servers), Add({OneOf}), Get(Servers \ {OneOf}), Get({OneOf}), Add(Servers), Get(Servers)>>
EqualPlans == {Same(ArrayProg), Same(KVProg)} \X BOOLEAN

Last == CHOOSE w \in Workers : TRUE

\* One worker trains longer, and waits for others that leave by FinishTrain.
Leaving ==
  <<[w \in Workers |-> IF w = Last
                       THEN <<Get(Servers), Add(Servers), Add(Servers), Get(Servers), Get(Servers)>>
                       ELSE <<Get(Servers), Add(Servers)>>], TRUE>>
SomePlans == EqualPlans \cup {Leaving}

\* Equally many calls of each kind, for keys on different servers.
OwnKeys ==
  {<<[w \in Workers |-> LET s == CHOOSE f \in [Workers -> Servers] : \E v, u \in Workers : f[v] # f[u]
                        IN  <<Get({s[w]}), Add({s[w]}), Get({s[w]})>>], FALSE>>}

\* The worker that trains longer has an Add waiting when another one leaves.
OneLonger ==
  {<<[w \in Workers |-> IF w = Last
                        THEN <<Get(Servers), Add(Servers), Get(Servers), Add(Servers)>>
                        ELSE <<Get(Servers), Add(Servers)>>], TRUE>>}
=============================================================================
