---------------------------- MODULE MCAllreduce ----------------------------
(* Instances of Allreduce for TLC.                                           *)
EXTENDS Allreduce

\* One machine; powers of two; other numbers, with one pair and with two; the
\* gathering path; blocks of different and of no length. ZeroMQ tells no
\* senders apart: two machines.
SomeJobs ==
  {<<n, count, "mpi">> : <<n, count>> \in
     {<<1, 3>>, <<2, 3>>, <<3, 1>>, <<3, 4>>, <<4, 2>>, <<4, 5>>, <<5, 6>>, <<6, 6>>}}
  \cup {<<2, 1, "zmq">>, <<2, 4, "zmq">>}
ThreeMachines == {<<3, 3, "zmq">>}
=============================================================================
