--------------------------- MODULE Partitioning ---------------------------
(***************************************************************************)
(* partition_by of zkml/src/graph/partition.rs, as operators on a graph,   *)
(* and what running a graph, or one partition of it, computes.             *)
(*                                                                         *)
(* A graph is a record as in GraphScheduler, with `nodes`, and `fed` for   *)
(* the nodes the caller feeds (always on port 0).  Node n computes on port *)
(* p the value Value(n, p, a), where `a` are its arguments: a value is its *)
(* own history, so two values are equal only when they were computed by    *)
(* the same nodes from the same data.                                      *)
(***************************************************************************)
EXTENDS Integers, FiniteSets, Sequences

CONSTANT Color    \* colours

Value(n, p, a) == [node |-> n, port |-> p, args |-> a]
Raw(n) == [raw |-> n]

\* The i-th lowest number of S.
Nth(S, i) == CHOOSE x \in S : Cardinality({y \in S : y < x}) = i - 1

---------------------------------------------------------------------------
(* The parts of a graph. *)

Inner(g, P) == {e \in g.edges : e[1] \in P /\ e[2] \in P}
Into(g, n) == {e \in g.edges : e[2] = n}
From(g, n) == {e \in g.edges : e[1] = n}
SourcesOf(g, P) == {n \in P : \A e \in Inner(g, P) : e[2] # n}
SinksOf(g, P) == {n \in P : \A e \in Inner(g, P) : e[1] # n}

\* No set of nodes in which each has a predecessor: "a DAG" (graph.rs:483).
Acyclic(g) ==
    \A S \in SUBSET g.nodes :
        S # {} => \E n \in S : \A e \in g.edges : e[2] = n => e[1] \notin S

\* No two edges enter a node by one port (graph.rs:796); outs[n] counts the
\* outputs of a run of n.
IsGraph(g) ==
    /\ g.nodes \subseteq Nat /\ IsFiniteSet(g.nodes)
    /\ g.edges \subseteq g.nodes \X g.nodes /\ Acyclic(g)
    /\ g.fed \subseteq g.nodes
    /\ g.color \in [g.nodes -> Color]
    /\ g.outs \in [g.nodes -> Nat]
    /\ g.from \in [g.edges -> Nat] /\ g.to \in [g.edges -> Nat]
    /\ \A e \in g.edges : g.from[e] < g.outs[e[1]]
    /\ \A d, e \in g.edges : d[2] = e[2] /\ g.to[d] = g.to[e] => d = e

\* dag_order::<true>: the lowest node whose predecessors have been visited.
Forward(g) ==
    LET at[i \in 1 .. Cardinality(g.nodes)] ==
            LET seen == {at[j] : j \in 1 .. i - 1}
                next == {n \in g.nodes \ seen : {e[1] : e \in Into(g, n)} \subseteq seen}
            IN  CHOOSE n \in next : \A m \in next : n <= m
    IN  at

\* The nodes the search of partition_by reaches from n: those connected to it,
\* whatever the direction of the edges, through nodes of its colour.
Component(g, n) ==
    LET same == {e \in g.edges : g.color[e[1]] = g.color[e[2]]}
        closed(S) == \A e \in same : e[1] \in S <=> e[2] \in S
    IN  {m \in g.nodes : \A S \in SUBSET g.nodes : n \in S /\ closed(S) => m \in S}

Components(g, c) == {Component(g, n) : n \in {m \in g.nodes : g.color[m] = c}}

\* When partition_by starts a search for colour c: at a node that no search has
\* visited.
Starts(g, c) ==
    LET at == Forward(g)
    IN  {i \in DOMAIN at :
            /\ g.color[at[i]] = c
            /\ \A j \in 1 .. i - 1 : at[j] \notin Component(g, at[i])}

---------------------------------------------------------------------------
(* The partitions. *)

(***************************************************************************)
(* child_partition: for a partition without raw inputs, the edges into its *)
(* only source, by the colour they come from.  Of two edges from one       *)
(* colour the one inserted later wins; edges into a node are inserted in   *)
(* the order of its ports.                                                 *)
(***************************************************************************)
Children(g, P) ==
    IF P \cap g.fed # {} THEN <<>>
    ELSE LET s == CHOOSE s \in SourcesOf(g, P) : TRUE
             of(k) == {e \in Into(g, s) : g.color[e[1]] = k}
             last(k) == CHOOSE e \in of(k) : \A d \in of(k) : g.to[d] <= g.to[e]
         IN  [k \in {g.color[e[1]] : e \in Into(g, s)} |-> <<s, g.to[last(k)]>>]

Root(g, P) == CHOOSE n \in SinksOf(g, P) : TRUE

\* parent_partitions: the output each parent colour receives.
Parents(g, P) ==
    LET out(k) == CHOOSE e \in From(g, Root(g, P)) : g.color[e[2]] = k
    IN  [k \in {g.color[e[2]] : e \in From(g, Root(g, P))} |->
            <<Root(g, P), g.from[out(k)]>>]

MakePartition(g, P) ==
    [nodes |-> P, children |-> Children(g, P), parents |-> Parents(g, P),
     inputs |-> P \cap g.fed]

\* One colour's partitions in the order they were found.
PartitionsOf(g, c) ==
    LET at == Forward(g)
        starts == Starts(g, c)
    IN  [i \in 1 .. Cardinality(starts) |->
            MakePartition(g, Component(g, at[Nth(starts, i)]))]

\* partition_by returns Ok.
PartitionOk(g) ==
    /\ Cardinality(SinksOf(g, g.nodes)) = 1
    /\ \A P \in UNION {Components(g, c) : c \in Color} :
        /\ P \cap g.fed = {} =>
            /\ Cardinality(SourcesOf(g, P)) = 1
            /\ \A s \in SourcesOf(g, P) : Into(g, s) # {}
        /\ Cardinality(SinksOf(g, P)) = 1
        /\ From(g, Root(g, P)) \cap g.multi = {}
        /\ \A d, e \in From(g, Root(g, P)) : g.color[d[2]] = g.color[e[2]] => d = e

(***************************************************************************)
(* What partition_by relies on and does not check: an edge to another      *)
(* colour leaves from the root of a partition and enters another one by    *)
(* its source, where no raw input does, and no two edges join the same     *)
(* two colours in the same direction (the colours are all that a           *)
(* PartitionOutput says about its route).                                  *)
(***************************************************************************)
Crossing(g) == {e \in g.edges : g.color[e[1]] # g.color[e[2]]}

Rooted(g) == \A e \in Crossing(g) : e[1] = Root(g, Component(g, e[1]))
Entered(g) ==
    \A e \in Crossing(g) : LET P == Component(g, e[2])
                           IN  P \cap g.fed = {} /\ e[2] \in SourcesOf(g, P)
Unambiguous(g) ==
    \A d, e \in Crossing(g) :
        g.color[d[1]] = g.color[e[1]] /\ g.color[d[2]] = g.color[e[2]] => d = e

Supported(g) == PartitionOk(g) /\ Rooted(g) /\ Entered(g) /\ Unambiguous(g)

---------------------------------------------------------------------------
(* Execution of the subgraph P on the data `given` at NodeInputs. *)

InPortOrder(m) == [i \in 1 .. Cardinality(DOMAIN m) |-> m[Nth(DOMAIN m, i)]]

\* The arguments of node n, when the others have the arguments `args`.
ArgumentsOf(g, P, given, args, n) ==
    LET into == {e \in Inner(g, P) : e[2] = n}
        of(p) == CHOOSE e \in into : g.to[e] = p
        ports == {g.to[e] : e \in into} \cup {i[2] : i \in {j \in DOMAIN given : j[1] = n}}
    IN  InPortOrder([p \in ports |->
            IF <<n, p>> \in DOMAIN given THEN given[<<n, p>>]
            ELSE Value(of(p)[1], g.from[of(p)], args[of(p)[1]])])

Arguments(g, P, given) ==
    LET args[n \in P] == ArgumentsOf(g, P, given, args, n) IN args

\* The nodes that run: a source needs data, any other node its predecessors.
Executed(g, P, given) ==
    LET runs[n \in P] ==
            LET into == {e \in Inner(g, P) : e[2] = n}
            IN  IF into = {} THEN \E i \in DOMAIN given : i[1] = n
                ELSE \A e \in into : runs[e[1]]
    IN  {n \in P : runs[n]}

\* The output ports that no edge inside P carries.
Loose(g, P) ==
    {x \in UNION {{n} \X (0 .. g.outs[n] - 1) : n \in P} :
        \A e \in Inner(g, P) : e[1] = x[1] => g.from[e] # x[2]}

\* What the executor returns.
Outputs(g, P, given) ==
    LET args == Arguments(g, P, given)
    IN  [x \in Loose(g, P) |-> Value(x[1], x[2], args[x[1]])]

RawInputs(S) == [x \in S \X {0} |-> Raw(x[1])]

\* The outputs of the graph run as a whole.
WholeOutputs(g) == LET o == Outputs(g, g.nodes, RawInputs(g.fed)) IN {o[x] : x \in DOMAIN o}
===========================================================================
