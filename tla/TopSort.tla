------------------------------ MODULE TopSort ------------------------------
(***************************************************************************)
(* topSort() of basics.cc: Kahn's algorithm on the fanout lists of the     *)
(* network.  The first loop enters every node of net->nodes in             *)
(* indegree_list with its number of input pins and queues the nodes that   *)
(* have none (Seed, one node per step).  The second loop takes a node from *)
(* the queue, appends it to sort_list (Pop), and decrements the indegree   *)
(* of the node behind each of its fanout entries, queueing a node when its *)
(* indegree becomes zero (Visit, one entry per step).                      *)
(*                                                                         *)
(* sort_queue is the sequence that module FifoQueue specifies and          *)
(* LinkedQueue implements.  The C locals nd (list pointer) and i (fanout   *)
(* index) are the counters seeded and fo.                                  *)
(***************************************************************************)
EXTENDS Bnet

CONSTANT Networks       \* the networks the pass may be called with

ASSUME NetworksWellFormed == \A net \in Networks : WellFormed(net)

VARIABLES
    net,            \* the network, which the pass only reads
    seeded,         \* how many nodes of the list have been entered
    indegree_list,  \* node -> fanin pins not yet seen as sorted
    sort_queue,     \* nodes whose fanins are all sorted
    sort_list,      \* the result
    fo              \* next fanout entry of the node popped last

topVars == <<net, seeded, indegree_list, sort_queue, sort_list, fo>>

-----------------------------------------------------------------------------
Sorted == {sort_list[i] : i \in DOMAIN sort_list}
Queued == {sort_queue[i] : i \in DOMAIN sort_queue}

\* The fanouts of the node in hand, pnode: the one appended to sort_list last.
CurFanouts == IF sort_list = <<>> THEN <<>>
              ELSE net.fanouts[sort_list[Len(sort_list)]]

Seeding == seeded < Len(net.nodes)
Visiting == fo <= Len(CurFanouts)

TopInit ==
    /\ net \in Networks
    /\ seeded = 0
    /\ indegree_list = [n \in {} |-> 0]
    /\ sort_queue = <<>>
    /\ sort_list = <<>>
    /\ fo = 1

\* Mutant of Seed: indegree counts the distinct fanins, not the pins.
SeedDistinct ==
    /\ Seeding
    /\ LET nd == net.nodes[seeded + 1]
           ninp == Cardinality({net.inputs[nd][p] : p \in DOMAIN net.inputs[nd]})
       IN  /\ indegree_list' = [n \in DOMAIN indegree_list \cup {nd} |->
                                   IF n = nd THEN ninp ELSE indegree_list[n]]
           /\ sort_queue' = IF ninp = 0 THEN Append(sort_queue, nd) ELSE sort_queue
    /\ seeded' = seeded + 1
    /\ UNCHANGED <<net, sort_list, fo>>

Seed ==
    /\ Seeding
    /\ LET nd == net.nodes[seeded + 1]
           ninp == Len(net.inputs[nd])
       IN  /\ indegree_list' = [n \in DOMAIN indegree_list \cup {nd} |->
                                   IF n = nd THEN ninp ELSE indegree_list[n]]
           /\ sort_queue' = IF ninp = 0 THEN Append(sort_queue, nd) ELSE sort_queue
    /\ seeded' = seeded + 1
    /\ UNCHANGED <<net, sort_list, fo>>

Pop ==
    /\ ~Seeding
    /\ ~Visiting
    /\ sort_queue # <<>>
    /\ sort_list' = Append(sort_list, Head(sort_queue))
    /\ sort_queue' = Tail(sort_queue)
    /\ fo' = 1
    /\ UNCHANGED <<net, seeded, indegree_list>>

\* Mutants of Visit: a fanout entry is acted on only if the condition holds of
\* it, or a node is queued whenever it is visited.
VisitOnlyIf(cond) ==
    /\ ~Seeding
    /\ Visiting
    /\ LET auxnd == CurFanouts[fo]
       IN  IF cond
           THEN /\ indegree_list' = [indegree_list EXCEPT ![auxnd] = @ - 1]
                /\ sort_queue' = IF indegree_list[auxnd] = 1
                                 THEN Append(sort_queue, auxnd) ELSE sort_queue
           ELSE UNCHANGED <<indegree_list, sort_queue>>
    /\ fo' = fo + 1
    /\ UNCHANGED <<net, seeded, sort_list>>

VisitSkipsRepeats == VisitOnlyIf(\A i \in 1 .. fo - 1 : CurFanouts[i] # CurFanouts[fo])

VisitQueuesAlways ==
    /\ ~Seeding
    /\ Visiting
    /\ indegree_list' = [indegree_list EXCEPT ![CurFanouts[fo]] = @ - 1]
    /\ sort_queue' = Append(sort_queue, CurFanouts[fo])
    /\ fo' = fo + 1
    /\ UNCHANGED <<net, seeded, sort_list>>

Visit ==
    /\ ~Seeding
    /\ Visiting
    /\ LET auxnd == CurFanouts[fo]
       IN  /\ indegree_list' = [indegree_list EXCEPT ![auxnd] = @ - 1]
           /\ sort_queue' = IF indegree_list[auxnd] = 1
                            THEN Append(sort_queue, auxnd) ELSE sort_queue
    /\ fo' = fo + 1
    /\ UNCHANGED <<net, seeded, sort_list>>

TopNext == Seed \/ Pop \/ Visit

\* The pass is one thread that never blocks: it always takes its next step.
TopSpec == TopInit /\ [][TopNext]_topVars /\ WF_topVars(TopNext)

TopDone == ~Seeding /\ ~Visiting /\ sort_queue = <<>>

-----------------------------------------------------------------------------
(***************************************************************************)
(* Properties.                                                             *)
(***************************************************************************)
\* Types: every local of topSort() holds names of the network's nodes, and the
\* network stays the one the reader built.
TopTypeOK ==
    /\ WellFormed(net)
    /\ seeded \in 0 .. Len(net.nodes)
    /\ DOMAIN indegree_list = {net.nodes[i] : i \in 1 .. seeded}
    /\ indegree_list \in [DOMAIN indegree_list -> Nat]
    /\ sort_queue \in Seq(NodesOf(net))
    /\ sort_list \in Seq(NodesOf(net))
    /\ fo \in Nat \ {0}

\* indegree_list counts exactly the input pins whose driver is not sorted yet,
\* or whose entry among the fanouts of the node in hand is still to be visited.
OpenPins(n) == {p \in DOMAIN net.inputs[n] : net.inputs[n][p] \notin Sorted}
AheadPins(n) == {i \in DOMAIN CurFanouts : i >= fo /\ CurFanouts[i] = n}

IndegreeCounts ==
    \A n \in DOMAIN indegree_list :
        indegree_list[n] = Cardinality(OpenPins(n)) + Cardinality(AheadPins(n))

\* A node is in the queue or the list exactly when its indegree has reached
\* zero: none is queued early, none forgotten.
ReadyNodes ==
    Sorted \cup Queued = {n \in DOMAIN indegree_list : indegree_list[n] = 0}

\* Every fanin of a node stands before it in sort_list, whatever the network
\* (cycles, self-loops and repeated pins included): get_MFFC exits, or gives
\* a wrong TFI, when it does not.
FaninsFirst ==
    \A k \in DOMAIN sort_list : \A p \in DOMAIN net.inputs[sort_list[k]] :
        \E i \in 1 .. k - 1 : sort_list[i] = net.inputs[sort_list[k]][p]

\* No node is queued or sorted twice, although a fanout may be listed twice.
NoDuplicates ==
    /\ \A i, j \in DOMAIN sort_list : sort_list[i] = sort_list[j] => i = j
    /\ \A i, j \in DOMAIN sort_queue : sort_queue[i] = sort_queue[j] => i = j
    /\ Sorted \cap Queued = {}

\* When the pass ends, a node that is missing from sort_list reads a node that
\* is missing too: only nodes on a cycle, or behind one, are ever lost.
LeftoverIsStuck ==
    TopDone => \A n \in NodesOf(net) \ Sorted :
                   \E p \in DOMAIN net.inputs[n] : net.inputs[n][p] \notin Sorted
=============================================================================
