----------------------- MODULE MCPartitionScheduler -----------------------
(***************************************************************************)
(* Graphs to partition: the prover's, and every DAG with one sink over     *)
(* four nodes, with every colouring its users may rely on.                 *)
(* An edge leaves by port 1 if its target is odd, by port 0 otherwise, and *)
(* every node has a port 2 that nothing uses, as Inference has for         *)
(* ModelIO.  Input ports follow the order of the sources.  Every source    *)
(* node is fed.                                                            *)
(***************************************************************************)
EXTENDS ProverGraph

MkGraph(N, E, c) ==
    [nodes |-> N, edges |-> E, multi |-> {}, color |-> c,
     outs |-> [n \in N |-> 3],
     from |-> [e \in E |-> e[2] % 2],
     to |-> [e \in E |-> Cardinality({d \in E : d[2] = e[2] /\ d[1] < e[1]})],
     fed |-> {n \in N : \A e \in E : e[2] # n}]

N == 1 .. 4
Ascending == {e \in N \X N : e[1] < e[2]}

OneSink(E) == Cardinality({n \in N : \A e \in E : e[1] # n}) = 1

AllDrawn ==
    {MkGraph(N, E, c) : E \in {F \in SUBSET Ascending : OneSink(F)}, c \in [N -> 0 .. 2]}

SupportedGraphs == {g \in AllDrawn \cup {ExecGraph} : Supported(g)}

ASSUME Supported(ExecGraph)
===========================================================================
