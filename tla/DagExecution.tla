--------------------------- MODULE DagExecution ---------------------------
(***************************************************************************)
(* What the execution of a computational graph promises, whatever runs it: *)
(* a node starts once, after every node that feeds it has finished, and an *)
(* output port of a finished node that feeds no other node is a result of  *)
(* the whole graph.  zkml/src/graph/scheduler.rs is shown to implement it. *)
(***************************************************************************)
EXTENDS Naturals

CONSTANTS Node,     \* the node ids of the graph
          Graphs    \* the graphs the execution may be asked to run

VARIABLES graph,    \* the graph being run
          started,  \* nodes whose inputs were handed to a runner
          finished, \* nodes whose outputs were handed back
          results,  \* output ports <<node, port>> delivered as graph results
          failed    \* the graph turned out to be one that cannot be run

dagVars == <<graph, started, finished, results, failed>>

Preds(n) == {m \in Node : <<m, n>> \in graph.edges}

\* The output ports of n that feed no other node.
ResultPorts(n) ==
    {<<n, p>> : p \in 0 .. graph.outs[n] - 1} \
        {<<e[1], graph.from[e]>> : e \in graph.edges}

DagInit ==
    /\ graph \in Graphs
    /\ started = {} /\ finished = {} /\ results = {}
    /\ failed = FALSE

Start(S) ==
    /\ ~failed
    /\ S # {}
    /\ S \cap started = {}
    /\ \A n \in S : Preds(n) \subseteq finished
    /\ started' = started \cup S
    /\ UNCHANGED <<graph, finished, results, failed>>

Finish(n) ==
    /\ ~failed
    /\ n \in started \ finished
    /\ finished' = finished \cup {n}
    /\ results' = results \cup ResultPorts(n)
    /\ UNCHANGED <<graph, started, failed>>

Abort(n) ==
    /\ ~failed
    /\ n \in started \ finished
    /\ failed' = TRUE
    /\ finished' = finished \cup {n}
    /\ UNCHANGED <<graph, started, results>>

DagNext ==
    \/ \E S \in SUBSET Node : Start(S)
    \/ \E n \in Node : Finish(n) \/ Abort(n)

DagSpec == DagInit /\ [][DagNext]_dagVars
===========================================================================
