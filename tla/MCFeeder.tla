------------------------------ MODULE MCFeeder ------------------------------
(* Instances of Feeder for TLC.                                              *)
EXTENDS FeederProofs

\* Items smaller than a batch and larger, cut across items and twice in one.
SomeCounts == [r \in Records |-> CASE r = "r1" -> <<3, 5>>
                                   [] r = "r2" -> <<1, 3>>
                                   [] OTHER    -> <<5>>]

\* A source with two records, and one with a single record.
TwoPlans == <<<<"r1", "r2">>, <<"r3">>>>

\* Two sources with a record each.
ShortPlans == <<<<"r2">>, <<"r3">>>>
=============================================================================
