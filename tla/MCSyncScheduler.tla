-------------------------- MODULE MCSyncScheduler --------------------------
(* Instances of SyncScheduler for TLC.                                       *)
EXTENDS SyncSchedulerProofs

\* Every worker runs the same program.
Same(p) == [w \in Workers |-> p]

\* Every pattern of three consecutive requests, so every way a phase of Gets or
\* Adds can begin, go on and end, for both kinds.
ProgMixed ==
  Same(<<"Add", "Get", "Add", "Add", "Add", "Get", "Get", "Get", "Add", "Get">>)

\* Equal numbers of Gets and Adds, in different orders: one worker adds first,
\* the others get first.
ProgCrossed ==
  LET first == CHOOSE w \in Workers : TRUE
  IN  [w \in Workers |-> IF w = first THEN <<"Add", "Get">> ELSE <<"Get", "Add">>]
=============================================================================
