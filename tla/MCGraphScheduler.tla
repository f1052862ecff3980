------------------------- MODULE MCGraphScheduler -------------------------
(***************************************************************************)
(* Every DAG over four nodes (edges go from a lower to a higher id, which  *)
(* is no restriction up to renaming), every two-colouring of it.  Output   *)
(* ports: an edge leaves its source by port 1 if the target is odd, by     *)
(* port 0 otherwise, and every node has a port 2 that feeds nothing; so    *)
(* ports are shared by edges, unused, or results of the graph.  Input      *)
(* ports are numbered in the order of the sources.                         *)
(***************************************************************************)
EXTENDS GraphScheduler

Lower(g, e) == Cardinality({d \in g : d[2] = e[2] /\ d[1] < e[1]})

MkGraph(E, c, m, f) ==
    [edges |-> E, multi |-> m, color |-> c,
     outs |-> [n \in Node |-> 3],
     from |-> [e \in E |-> e[2] % 2],
     to |-> [e \in E |-> Lower(E, e)],
     feeds |-> f]

Sources(E) == {n \in Node : \A e \in E : e[2] # n}
InDegree(E, n) == Cardinality({e \in E : e[2] = n})

\* Each source gets one datum; node 4 always gets one from the caller, next
\* to those its predecessors send.
Feeds(E) == {<<n, 0>> : n \in Sources(E)} \cup {<<4, InDegree(E, 4)>>}

Ascending == {e \in Node \X Node : e[1] < e[2]}

MCGraphs ==
    {MkGraph(E, c, {}, Feeds(E)) : E \in SUBSET Ascending, c \in [Node -> Color]}

\* Chains, forks and joins with an edge of several links, or an unfed source.
BadGraphs ==
    {MkGraph(E, [n \in Node |-> n % 2], m, Feeds(E)) :
        E \in {{<<1, 2>>, <<1, 3>>, <<2, 4>>, <<3, 4>>}, {<<1, 2>>, <<1, 3>>, <<1, 4>>}},
        m \in {{<<1, 2>>}, {<<1, 2>>, <<1, 3>>}}}
AllGraphs == MCGraphs \cup BadGraphs

ASSUME \A g \in AllGraphs : ConsecutivePorts(g)
===========================================================================
