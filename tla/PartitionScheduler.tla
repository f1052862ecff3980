------------------------ MODULE PartitionScheduler ------------------------
(***************************************************************************)
(* One PartitionScheduler (zkml/src/graph/partition.rs) per colour, on the *)
(* partitions of one graph, and a caller that runs them as it likes and    *)
(* carries their PartitionOutputs to the schedulers they are for, late, in *)
(* any order and possibly more than once.                                  *)
(***************************************************************************)
EXTENDS Partitioning

CONSTANT Graphs    \* the graphs that are partitioned

ASSUME GraphsAssumption ==
    \A g \in Graphs : IsGraph(g) /\ PartitionOk(g)

VARIABLES
    graph,     \* the graph that was partitioned
    queue,     \* partitions of each scheduler
    pending,   \* pending_child_outputs of each scheduler
    net,       \* PartitionOutputs on their way to another scheduler
    results,   \* outputs with `to: None`
    state      \* "up", or how a call of the scheduler ended badly

vars == <<graph, queue, pending, net, results, state>>

TypeOK ==
    /\ graph.color \in [graph.nodes -> Color]
    /\ \A c \in Color :
        /\ \A i \in DOMAIN queue[c] : \A n \in queue[c][i].nodes : graph.color[n] = c
        /\ DOMAIN pending[c] \subseteq Color \ {c}
    /\ \A o \in net : o.from \in Color /\ o.to \in Color \ {o.from}
    /\ state \in [Color -> {"up", "refused", "failed", "hung"}]

Init ==
    /\ graph \in Graphs
    /\ queue = [c \in Color |-> PartitionsOf(graph, c)]
    /\ pending = [c \in Color |-> <<>>]
    /\ net = {} /\ results = {}
    /\ state = [c \in Color |-> "up"]

IsSourcePartition(part) == part.inputs # {}

BugReady(c) ==          \* one child output is enough
    /\ queue[c] # <<>>
    /\ \/ IsSourcePartition(Head(queue[c]))
       \/ DOMAIN Head(queue[c]).children \cap DOMAIN pending[c] # {}

\* Only the first partition of the queue is ever considered.
Ready(c) ==
    /\ queue[c] # <<>>
    /\ \/ IsSourcePartition(Head(queue[c]))
       \/ DOMAIN Head(queue[c]).children \subseteq DOMAIN pending[c]

\* The data the head partition is run on.
Given(c) ==
    LET part == Head(queue[c])
        kids == {k \in DOMAIN part.children : k \in DOMAIN pending[c]}
    IN  IF IsSourcePartition(part) THEN RawInputs(part.inputs)
        ELSE [x \in {part.children[k] : k \in kids} |->
                pending[c][CHOOSE k \in kids : part.children[k] = x]]

BugToParents(c, out) == \* a port goes to one parent only
    LET part == Head(queue[c])
    IN  {[from |-> c, to |-> k, output |-> out[part.parents[k]]] :
            k \in {d \in DOMAIN part.parents :
                     \A b \in DOMAIN part.parents : part.parents[b] = part.parents[d] => d <= b}}

ToParents(c, out) ==
    LET part == Head(queue[c])
    IN  {[from |-> c, to |-> k, output |-> out[part.parents[k]]] : k \in DOMAIN part.parents}

BugGraphOutputs(c, out) ==     \* every output of a partition without parents, only
    LET part == Head(queue[c])
    IN  IF DOMAIN part.parents # {} THEN {} ELSE {out[x] : x \in DOMAIN out}

\* Outputs of the partition that no parent receives.
GraphOutputs(c, out) ==
    LET part == Head(queue[c])
    IN  {out[x] : x \in {y \in DOMAIN out : \A k \in DOMAIN part.parents : part.parents[k] # y}}

(***************************************************************************)
(* try_run_partition on a ready partition: it leaves the queue and takes   *)
(* its inputs along, whatever the executor then does: run all of it, fail  *)
(* at a node, or, left with a source without data, never return.           *)
(***************************************************************************)
TryRunPartition(c) ==
    /\ state[c] = "up" /\ Ready(c)
    /\ LET part == Head(queue[c])
           out == Outputs(graph, part.nodes, Given(c))
           stuck == Executed(graph, part.nodes, Given(c)) # part.nodes
       IN  /\ queue' = [queue EXCEPT ![c] = Tail(@)]
           /\ pending' = [pending EXCEPT ![c] =
                 [k \in DOMAIN @ \ DOMAIN part.children |-> @[k]]]
           /\ \/ /\ ~stuck
                 /\ net' = net \cup ToParents(c, out)
                 /\ results' = results \cup GraphOutputs(c, out)
                 /\ UNCHANGED state
              \/ /\ state' = [state EXCEPT ![c] = IF stuck THEN "hung" ELSE "failed"]
                 /\ UNCHANGED <<net, results>>
    /\ UNCHANGED graph

BugExpected(o) ==       \* any partition of the queue may expect it
    \E i \in DOMAIN queue[o.to] : o.from \in DOMAIN queue[o.to][i].children

\* The head partition of o.to waits for an output of that colour.
Expected(o) == queue[o.to] # <<>> /\ o.from \in DOMAIN Head(queue[o.to]).children

BugAcceptOutput(o) ==   \* files it under the receiver's colour
    /\ Expected(o)
    /\ pending' = [pending EXCEPT ![o.to] =
          [k \in DOMAIN @ \cup {o.to} |-> IF k = o.to THEN o.output ELSE @[k]]]
    /\ UNCHANGED state

\* set_child_output keeps the output (over an earlier one of that colour) ...
AcceptOutput(o) ==
    /\ Expected(o)
    /\ pending' = [pending EXCEPT ![o.to] =
          [k \in DOMAIN @ \cup {o.from} |-> IF k = o.from THEN o.output ELSE @[k]]]
    /\ UNCHANGED state

BugIgnoreOutput(o) ==   \* partitions.first().unwrap(), unchecked
    /\ queue[o.to] = <<>> /\ state' = [state EXCEPT ![o.to] = "refused"]
    /\ UNCHANGED pending

\* ... ignores it when no partition is left, and fails otherwise.
IgnoreOutput(o) ==
    queue[o.to] = <<>> /\ UNCHANGED <<pending, state>>

RefuseOutput(o) ==
    /\ queue[o.to] # <<>> /\ ~Expected(o)
    /\ state' = [state EXCEPT ![o.to] = "refused"]
    /\ UNCHANGED pending

SetChildOutput(o) ==
    /\ o \in net /\ state[o.to] = "up"
    /\ net' \in {net, net \ {o}}
    /\ AcceptOutput(o) \/ IgnoreOutput(o) \/ RefuseOutput(o)
    /\ UNCHANGED <<graph, queue, results>>

IsDone(c) == queue[c] = <<>>
AllDone == net = {} /\ \A c \in Color : IsDone(c) /\ state[c] = "up"
Next ==
    \/ \E c \in Color : TryRunPartition(c)
    \/ \E o \in net : SetChildOutput(o)

Fairness == WF_vars(Next)
Spec == Init /\ [][Next]_vars
FairSpec == Spec /\ Fairness

---------------------------------------------------------------------------
(* Properties. *)

\* Cutting the graph up changes nothing: what the schedulers report as final
\* outputs (to: None) are outputs of the graph, computed from the right data,
\* whatever the order in which partitions ran and outputs arrived.
ResultsOfGraph == results \subseteq WholeOutputs(graph)

\* Once every queue has been run, no output of the graph is missing.
NothingLost == AllDone => results = WholeOutputs(graph)

\* What a scheduler keeps in pending_child_outputs is what the graph carries
\* on an edge into the partition it runs next; nothing is left over from an
\* earlier partition of the queue.
PendingIsHeads ==
    \A c \in Color : \A k \in DOMAIN pending[c] :
        /\ queue[c] # <<>> /\ k \in DOMAIN Head(queue[c]).children
        /\ LET x == Head(queue[c]).children[k]
               e == CHOOSE e \in Into(graph, x[1]) : graph.to[e] = x[2]
               whole == Arguments(graph, graph.nodes, RawInputs(graph.fed))
           IN  pending[c][k] = Value(e[1], graph.from[e], whole[e[1]])

\* Every partition is run, unless a node fails or the caller handed an output
\* to a scheduler that was not there yet.  In particular the queues, each run strictly in
\* order, never wait for one another.
AllRunOrError == <>(AllDone \/ \E c \in Color : state[c] \in {"refused", "failed"})
===========================================================================
