----------------------------- MODULE Allreduce -----------------------------
(* AllreduceEngine (hpps/net/allreduce_engine.cc, allreduce_topo.cc): every  *)
(* rank ends with the reduction of all inputs. Small inputs are gathered by  *)
(* Bruck's algorithm and reduced locally; larger ones are reduced by         *)
(* recursive halving, one block per rank, and the blocks are gathered. The   *)
(* elements are numbers and the reducer adds them. Each rank runs a fixed    *)
(* sequence of sends, receives and local steps; a message stays in the       *)
(* channel of its sender and receiver, in order.                             *)
EXTENDS Integers, Sequences, SequencesExt, FiniteSetsExt

CONSTANTS Jobs,      \* triples: how many machines, how many elements, which network
          SmallSize  \* inputs with fewer elements than this are gathered

ASSUME AllreduceAssumption ==
  /\ Jobs \subseteq (Nat \ {0}) \X (Nat \ {0}) \X {"mpi", "zmq"}
  /\ SmallSize \in Nat

VARIABLES
  job,       \* <<num_machines_, count, net>>
  program,   \* program[r]: the steps of rank r, from the maps Init constructs
  pc,        \* pc[r]: the step it is at
  input, output,  \* the two arrays of each rank
  received,  \* received[r]: elements the current receive has so far
  channel,   \* channel[<<s, r>>]: messages from s to r
  truncated  \* a message was longer than the receive had room for

vars == <<job, program, pc, input, output, received, channel, truncated>>

Ranks == 0..(job[1] - 1)

-----------------------------------------------------------------------------
(* BruckMap.                                                                 *)

\* The number of rounds: the least k with 2^k >= n.
BruckRounds(n) == CHOOSE k \in 0..n : 2^k >= n /\ (k = 0 \/ 2^(k - 1) < n)
InRank(n, r, i)  == (r + 2^i) % n

\* Mutant of OutRank: the distance of the next round.
OutRankTooFar(n, r, i) == (r - 2^(i + 1) + 2 * n) % n

OutRank(n, r, i) == (r - 2^i + n) % n

-----------------------------------------------------------------------------
(* RecursiveHalvingMap. When n is not a power of two the last ranks form     *)
(* pairs of a GroupLeader and an Other, and the groups take part.            *)

HalvingRounds(n) == CHOOSE k \in 0..n : 2^k <= n /\ n < 2^(k + 1)
Pairs(n)   == n - 2^HalvingRounds(n)
Leaders(n) == {n - 2 * i - 2 : i \in 0..(Pairs(n) - 1)}
Others(n)  == {n - 2 * i - 1 : i \in 0..(Pairs(n) - 1)}

\* node_to_group and group_to_node.
GroupOf(n, r) == Cardinality((0..r) \ Others(n)) - 1
NodeOf(n, g)  == CHOOSE r \in (0..(n - 1)) \ Others(n) : GroupOf(n, r) = g

\* Round i of group g: the group it exchanges with, and the blocks of the d
\* groups on either side.
Distance(n, i) == 2^(HalvingRounds(n) - 1 - i)
PeerGroup(n, g, i) ==
  IF (g \div Distance(n, i)) % 2 = 0 THEN g + Distance(n, i) ELSE g - Distance(n, i)

SideOf(n, g, i) ==
  {r \in 0..(n - 1) : GroupOf(n, r) \div Distance(n, i) = g \div Distance(n, i)}

-----------------------------------------------------------------------------
(* AllreduceEngine: blocks and steps.                                        *)

\* block_start_ and block_len_ of Allreduce, and of AllreduceByAllGather.
Blocks(n, count) ==
  LET step == (count + n - 1) \div n
      Start(i) == Min({i * step, count})
  IN  [i \in 0..(n - 1) |->
         [start |-> Start(i),
          len |-> IF i = n - 1 THEN count - Start(i) ELSE Start(i + 1) - Start(i)]]
EqualBlocks(n, count) == [i \in 0..(n - 1) |-> [start |-> i * count, len |-> count]]
LenOf(blocks, S) == MapThenSumSet(LAMBDA i : blocks[i].len, S)

\* SendTo, and the send of SendRecv.
SendTo(to, buf, start, len)   == [op |-> "send", to |-> to, buf |-> buf, start |-> start, len |-> len]
SendOf(to, buf, start, len)   == [SendTo(to, buf, start, len) EXCEPT !.op = "isend"]
\* Into output at start; the result is then added to input at "reduce", unless -1.
RecvFrom(from, start, len, reduce) ==
  [op |-> "recv", from |-> from, start |-> start, len |-> len, reduce |-> reduce]
\* memcpy from input to the start of output.
Copy(start, len) == [op |-> "copy", start |-> start, len |-> len]

\* Mutant of Rotation: one block too little.
RotationOneLess(r, blocks) ==
  [op |-> "rotate", by |-> IF r = 0 THEN 0 ELSE blocks[r - 1].start, all |-> LenOf(blocks, DOMAIN blocks)]

\* The three reversals at the end of Allgather: a rotation to the right.
Rotation(r, blocks) ==
  [op |-> "rotate", by |-> blocks[r].start, all |-> LenOf(blocks, DOMAIN blocks)]

\* Mutant of SentBlocks: not limited to the blocks that are missing.
SentTooMany(n, r, i) == {(r + j) % n : j \in 0..(2^i - 1)}

\* The blocks that round i of Allgather sends, and those it waits for.
RoundSize(n, i) == Min({2^i, n - 2^i})
SentBlocks(n, r, i)   == {(r + j) % n : j \in 0..(RoundSize(n, i) - 1)}
ComingBlocks(n, r, i) == {(r + 2^i + j) % n : j \in 0..(RoundSize(n, i) - 1)}

\* Allgather, after the copy of the own block.
Allgather(n, r, blocks) ==
  LET Held(i) == {(r + j) % n : j \in 0..(2^i - 1)}
      Round(i) == <<SendOf(OutRank(n, r, i), "output", 0, LenOf(blocks, SentBlocks(n, r, i))),
                    RecvFrom(InRank(n, r, i), LenOf(blocks, Held(i)),
                             LenOf(blocks, ComingBlocks(n, r, i)), -1)>>
  IN  FlattenSeq([i \in 1..BruckRounds(n) |-> Round(i - 1)]) \o <<Rotation(r, blocks)>>

\* ReduceScatter.
ReduceScatter(n, r, blocks, count) ==
  LET g == GroupOf(n, r)
      Start(S) == blocks[Min(S)].start
      Round(i) ==
        LET peer == PeerGroup(n, g, i)
            send == SideOf(n, peer, i)
            recv == SideOf(n, g, i)
        IN  <<SendOf(NodeOf(n, peer), "input", Start(send), LenOf(blocks, send)),
              RecvFrom(NodeOf(n, peer), 0, LenOf(blocks, recv), Start(recv))>>
      Halving == FlattenSeq([i \in 1..HalvingRounds(n) |-> Round(i - 1)])
      Own == <<Copy(blocks[r].start, blocks[r].len)>>
  IN  CASE r \in Others(n) ->
             <<SendTo(r - 1, "input", 0, count), RecvFrom(r - 1, 0, blocks[r].len, -1)>>
        [] r \in Leaders(n) ->
             <<RecvFrom(r + 1, 0, count, 0)>> \o Halving \o
             <<SendTo(r + 1, "input", blocks[r + 1].start, blocks[r + 1].len)>> \o Own
        [] OTHER -> Halving \o Own

\* Allreduce, and AllreduceByAllGather with its local reduction.
Gathers(n, count) == count < n \/ count < SmallSize
Steps(n, r, count) ==
  IF Gathers(n, count)
  THEN <<Copy(0, count)>> \o Allgather(n, r, EqualBlocks(n, count)) \o <<[op |-> "sum"]>>
  ELSE ReduceScatter(n, r, Blocks(n, count), count) \o Allgather(n, r, Blocks(n, count))

-----------------------------------------------------------------------------
\* The input of rank r: a number that tells ranks and elements apart.
Input(r, u) == (u + 1) * 10^r

\* output has room for everything Allgather collects, and is uninitialised.
Init ==
  /\ job \in Jobs
  /\ program = [r \in Ranks |-> Steps(job[1], r, job[2])]
  /\ pc = [r \in Ranks |-> 1]
  /\ input = [r \in Ranks |-> [u \in 0..(job[2] - 1) |-> Input(r, u)]]
  /\ output = [r \in Ranks |-> [u \in 0..(job[1] * job[2] - 1) |-> -1]]
  /\ received = [r \in Ranks |-> << >>]
  /\ channel = [p \in Ranks \X Ranks |-> << >>]
  /\ truncated = FALSE

Done(r) == pc[r] > Len(program[r])
At(r, ops) == ~truncated /\ ~Done(r) /\ program[r][pc[r]].op \in ops
Advance(r) == pc' = [pc EXCEPT ![r] = @ + 1]

\* a with the elements of the sequence s from place start on.
Overwrite(a, start, s) ==
  [u \in DOMAIN a |-> IF u \in start..(start + Len(s) - 1) THEN s[u - start + 1] ELSE a[u]]
Part(a, start, len) == [k \in 1..len |-> a[start + k - 1]]

\* MPI's SendTo and ZeroMQ send no empty message, MPI's SendRecv does.
Sends(st) == st.len > 0 \/ (st.op = "isend" /\ job[3] = "mpi")

Send(r) ==
  LET st == program[r][pc[r]]
      data == Part(IF st.buf = "input" THEN input[r] ELSE output[r], st.start, st.len) IN
  /\ At(r, {"send", "isend"}) /\ Advance(r)
  /\ channel' = IF Sends(st) THEN [channel EXCEPT ![<<r, st.to>>] = Append(@, data)] ELSE channel
  /\ UNCHANGED <<job, program, input, output, received, truncated>>

\* The loop of RecvFrom ends when len elements are there.
Complete(st, all) == Len(all) = st.len

\* ZeroMQ's RecvFrom does not use the rank it is given.
AnySource == job[3] = "zmq"

\* One message of a receive, and after the last one the reduction.
Receive(r) ==
  LET st == program[r][pc[r]] IN
  /\ At(r, {"recv"}) /\ st.len > 0
  /\ \E s \in Ranks :
       LET all == received[r] \o Head(channel[<<s, r>>]) IN
       /\ AnySource \/ s = st.from
       /\ channel[<<s, r>>] # << >>
       /\ channel' = [channel EXCEPT ![<<s, r>>] = Tail(@)]
       /\ truncated' = (Len(all) > st.len)
       /\ output' = [output EXCEPT ![r] = Overwrite(@, st.start, all)]
       /\ IF Complete(st, all)
          THEN /\ Advance(r) /\ received' = [received EXCEPT ![r] = << >>]
               /\ input' = IF st.reduce = -1 THEN input
                           ELSE [input EXCEPT ![r] = Overwrite(@, st.reduce,
                                  [k \in 1..Len(all) |-> @[st.reduce + k - 1] + all[k]])]
          ELSE received' = [received EXCEPT ![r] = all] /\ UNCHANGED <<pc, input>>
  /\ UNCHANGED <<job, program>>

\* A receive of nothing does not look at the channel.
ReceiveNothing(r) ==
  /\ At(r, {"recv"}) /\ program[r][pc[r]].len = 0 /\ Advance(r)
  /\ UNCHANGED <<job, program, input, output, received, channel, truncated>>

\* The steps that touch only the rank's own arrays.
Rotated(a, by, all) ==
  [u \in DOMAIN a |-> IF u < all THEN a[(u + all - by) % all] ELSE a[u]]
Summed(a) ==
  [u \in DOMAIN a |-> IF u >= job[2] THEN a[u]
                      ELSE MapThenSumSet(LAMBDA i : a[i * job[2] + u], Ranks)]
Local(r) ==
  LET st == program[r][pc[r]] IN
  /\ At(r, {"copy", "rotate", "sum"}) /\ Advance(r)
  /\ output' = [output EXCEPT ![r] =
       CASE st.op = "copy"   -> Overwrite(@, 0, Part(input[r], st.start, st.len))
         [] st.op = "rotate" -> Rotated(@, st.by, st.all)
         [] OTHER            -> Summed(@)]
  /\ UNCHANGED <<job, program, input, received, channel, truncated>>

Step(r) == Send(r) \/ Receive(r) \/ ReceiveNothing(r) \/ Local(r)
Ended == (truncated \/ \A r \in Ranks : Done(r)) /\ UNCHANGED vars
Next == (\E r \in Ranks : Step(r)) \/ Ended

\* Some rank that can go on does.
Spec == Init /\ [][Next]_vars /\ WF_vars(\E r \in Ranks : Step(r))

-----------------------------------------------------------------------------
\* Whatever the number of machines and the order of the messages, a rank that
\* is done has the sum over all ranks, each counted once, in every element
\* (allreduce_engine.cc:35-175).
EveryoneGetsTheSum ==
  \A r \in Ranks : Done(r) =>
    \A u \in 0..(job[2] - 1) : output[r][u] = MapThenSumSet(LAMBDA s : Input(s, u), Ranks)

\* Both ends of every exchange compute the same lengths, uneven and empty blocks
\* included: no message is longer than what its receiver waits for (MPI aborts
\* on one), and when all are done no element is left in a channel for a later
\* call.
LengthsAgree ==
  /\ ~truncated
  /\ (\A r \in Ranks : Done(r)) =>
       \A p \in Ranks \X Ranks : \A k \in DOMAIN channel[p] : channel[p][k] = << >>

\* Nobody waits for a message that is never sent.
AllFinish == <>(\A r \in Ranks : Done(r))
=============================================================================
