---------------------------- MODULE MCAllocator ----------------------------
(* Instances of Allocator for TLC.                                           *)
EXTENDS Allocator, TLC

\* No action tells threads, blobs or blocks apart.
Alike == Permutations(Threads) \cup Permutations(Blobs) \cup Permutations(Blocks)
=============================================================================
