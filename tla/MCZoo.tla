------------------------------- MODULE MCZoo -------------------------------
(* Instances of Zoo for TLC.                                                 *)
EXTENDS ZooProofs

\* Rank 0 has both actors, rank 1 is a worker and the last rank a server.
MixedRoles ==
  [r \in Ranks |-> IF r = 0 THEN {"server", "worker"}
                   ELSE IF r = N - 1 THEN {"server"} ELSE {"worker"}]

\* ps_role "default": every rank is a worker and a server.
DefaultRoles == [r \in Ranks |-> {"server", "worker"}]
=============================================================================
