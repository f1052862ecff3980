-------------------------- MODULE GraphScheduler --------------------------
(***************************************************************************)
(* The GraphScheduler of zkml/src/graph/scheduler.rs, driven by any caller *)
(* of its operations: with_release_policy, and then init_nodes, mark_done  *)
(* and next_ready_nodes.                                                   *)
(*                                                                         *)
(* The payload on an edge is abstracted to where it comes from: Out(n, p)  *)
(* is whatever node n returned on port p, In(n, p) what the caller of      *)
(* init_nodes supplied for port p of n.  Two payloads are then equal only  *)
(* when they are the same datum, so a wrongly routed value is visible.     *)
(***************************************************************************)
EXTENDS Naturals, FiniteSets, Sequences

CONSTANTS
    Node,     \* node ids
    Color,    \* colours (the worker a node is assigned to)
    Graphs,   \* the graphs the scheduler may be created with
    NoData    \* an empty edge weight (None)

(***************************************************************************)
(* A graph: `edges` are (source, target) pairs, at most one per pair, as   *)
(* add_edges_raw enforces; edge e carries output port from[e] of its       *)
(* source to input port to[e] of its target; `multi` are the edges that    *)
(* hold more than one link; node n returns outs[n] outputs; `feeds` are    *)
(* the NodeInputs the caller supplies data for.                            *)
(***************************************************************************)
IsGraph(g) ==
    /\ g.edges \subseteq Node \X Node
    /\ g.multi \subseteq g.edges
    /\ g.color \in [Node -> Color]
    /\ g.outs \in [Node -> Nat]
    /\ g.from \in [g.edges -> Nat]
    /\ g.to \in [g.edges -> Nat]
    /\ g.feeds \subseteq Node \X Nat
    /\ \A e \in g.edges : g.from[e] < g.outs[e[1]]

\* check_consistency (graph.rs:796), with the caller's data for a node on the
\* ports behind those of its edges: the input ports of a node are 0, 1, and so
\* on.
InputPorts(g, n) ==
    {g.to[e] : e \in {d \in g.edges : d[2] = n}} \cup {f[2] : f \in {x \in g.feeds : x[1] = n}}
ConsecutivePorts(g) ==
    \A n \in Node : LET ports == InputPorts(g, n)
                   IN  IsFiniteSet(ports) /\ ports = 0 .. Cardinality(ports) - 1

ASSUME GraphsAssumption == \A g \in Graphs : IsGraph(g)

ReleasePolicy == {"All", "UniqueColoring"}

\* Operators named Bug... are mistakes one could make in the definition that
\* follows them; the properties must tell them from the real one.
BugOutFromOne(n, p) == [kind |-> "out", node |-> n, port |-> p - 1]

In(n, p) == [kind |-> "in", node |-> n, port |-> p]
Out(n, p) == [kind |-> "out", node |-> n, port |-> p]
Data == [kind : {"in", "out"}, node : Node, port : Nat]

ASSUME NoDataAssumption == NoData \notin Data

VARIABLES
    graph,     \* the ExecGraph (its shape)
    weight,    \* edge.weight
    waiting,   \* waiting_input_data: NodeInputs whose datum is kept back
    running,   \* running_nodes
    done,      \* done_nodes
    policy,    \* release_policy
    failed,    \* an operation returned Err; its caller drops the scheduler
    given,     \* the inputs of each ReadyNode handed out (history)
    outputs    \* graph outputs returned by mark_done so far (history)

vars == <<graph, weight, waiting, running, done, policy, failed, given, outputs>>

---------------------------------------------------------------------------
Incoming(n) == {e \in graph.edges : e[2] = n}
Outgoing(n) == {e \in graph.edges : e[1] = n}
IsSource(n) == Incoming(n) = {}
Started == running \cup done

FeedPorts(n) == {f[2] : f \in {x \in graph.feeds : x[1] = n}}
WaitingPorts(n) == {f[2] : f \in {x \in waiting : x[1] = n}}
EdgePorts(n) == {graph.to[e] : e \in Incoming(n)}
EdgeInto(n, p) == CHOOSE e \in Incoming(n) : graph.to[e] = p

\* BTreeMap::into_values().collect(): the payloads in port order, with
\* the port numbers themselves lost.
IntoValues(m) ==
    [i \in 1 .. Cardinality(DOMAIN m) |->
        m[CHOOSE p \in DOMAIN m :
              Cardinality({q \in DOMAIN m : q < p}) = i - 1]]

BugReadyInputs(n) ==    \* forgets waiting_input_data
    IntoValues([p \in EdgePorts(n) |-> weight[EdgeInto(n, p)]])

\* The payload of a node released by next_ready_nodes: the data on its
\* edges, overwritten by what init_nodes kept back for it.
ReadyInputs(n) ==
    IntoValues([p \in EdgePorts(n) \cup WaitingPorts(n) |->
        IF p \in WaitingPorts(n) THEN In(n, p)
                                 ELSE weight[EdgeInto(n, p)]])

Init ==
    /\ graph \in Graphs
    /\ weight = [e \in graph.edges |-> NoData]
    /\ waiting = {} /\ running = {} /\ done = {}
    /\ policy = "UniqueColoring"
    /\ failed = FALSE
    /\ given = [n \in Node |-> <<>>]
    /\ outputs = {}

\* with_release_policy: replaces the default of new().  Its callers call it on
\* a scheduler they have not yet given input to.
WithReleasePolicy(p) ==
    /\ running = {} /\ done = {}
    /\ policy' = p
    /\ UNCHANGED <<graph, weight, waiting, running, done, failed, given, outputs>>

(***************************************************************************)
(* init_nodes: every fed source node is released at once (the release      *)
(* policy is not consulted), the other feeds are kept for later.           *)
(***************************************************************************)
InitNodes ==
    LET fed == {n \in Node : IsSource(n) /\ FeedPorts(n) # {}}
    IN  /\ ~failed
        /\ running = {} /\ done = {} /\ waiting = {}
        /\ waiting' = {f \in graph.feeds : ~IsSource(f[1])}
        /\ running' = fed
        /\ given' = [n \in Node |->
                        IF n \in fed
                        THEN IntoValues([p \in FeedPorts(n) |-> In(n, p)])
                        ELSE given[n]]
        /\ UNCHANGED <<graph, weight, done, policy, failed, outputs>>

BugFilled(n) ==         \* fills an edge only when its target becomes ready
    {e \in Outgoing(n) : \A d \in Incoming(e[2]) : d[1] \in done \cup {n}}

\* The outgoing edges mark_done(n) fills: those of nodes not yet started.
Filled(n) ==
    {e \in Outgoing(n) : e[2] \notin (running \ {n}) \cup done \cup {n}}

BugDatum(n, e) == Out(n, graph.to[e])   \* takes the target's port number

\* The output of n that edge e carries.
Datum(n, e) == Out(n, graph.from[e])

\* graph_outputs: the output ports of n that no filled edge carries.
Unlinked(n) ==
    (0 .. graph.outs[n] - 1) \ {graph.from[e] : e \in Filled(n)}

(***************************************************************************)
(* mark_done: fill the outgoing edges and return, as outputs of the graph, *)
(* the output ports that filled none.                                      *)
(***************************************************************************)
MarkDone(n) ==
    /\ ~failed
    /\ n \in running /\ n \notin done
    /\ Filled(n) \cap graph.multi = {}
    /\ running' = running \ {n}
    /\ done' = done \cup {n}
    /\ weight' = [e \in graph.edges |->
                     IF e \in Filled(n) THEN Datum(n, e) ELSE weight[e]]
    /\ outputs' = outputs \cup {Out(n, p) : p \in Unlinked(n)}
    /\ UNCHANGED <<graph, waiting, policy, failed, given>>

(***************************************************************************)
(* mark_done on a node with an edge of several links: the call fails after *)
(* the node was moved to done and some of its other edges were filled.     *)
(***************************************************************************)
MarkDoneErr(n) ==
    /\ ~failed
    /\ n \in running /\ n \notin done
    /\ Filled(n) \cap graph.multi # {}
    /\ running' = running \ {n}
    /\ done' = done \cup {n}
    /\ failed' = TRUE
    /\ \E S \in SUBSET (Filled(n) \ graph.multi) :
          weight' = [e \in graph.edges |->
                        IF e \in S THEN Datum(n, e) ELSE weight[e]]
    /\ UNCHANGED <<graph, waiting, policy, given, outputs>>

BugCandidates ==        \* ready as soon as one edge is filled
    {n \in Node \ running : \E e \in Incoming(n) : weight[e] # NoData}

\* Nodes with incoming edges, all of them filled, that are not running.
Candidates ==
    {n \in Node \ running :
        Incoming(n) # {} /\ \A e \in Incoming(n) : weight[e] # NoData}

BugAccepted(R) ==       \* asks the policy about all candidates beforehand
    R = {a \in Candidates :
            \A b \in running : graph.color[a] # graph.color[b]}

\* A set that ReleasePolicy::accept can let through when it is asked about
\* the candidates one after the other, in the (unspecified) order of a
\* HashMap: under UniqueColoring, no two share a colour with one another or
\* with a running node, and every candidate left out does.
Accepted(R) ==
    \/ /\ policy = "All"
       /\ R = Candidates
    \/ /\ policy = "UniqueColoring"
       /\ R \subseteq Candidates
       /\ \A a \in R : \A b \in (R \cup running) \ {a} :
             graph.color[a] # graph.color[b]
       /\ \A a \in Candidates \ R : \E b \in R \cup running :
             graph.color[a] = graph.color[b]

(***************************************************************************)
(* next_ready_nodes: move the accepted candidates to running and take the  *)
(* data that was waiting for them.                                         *)
(***************************************************************************)
NextReady(R) ==
    /\ ~failed
    /\ R # {}
    /\ Accepted(R)
    /\ running' = running \cup R
    /\ given' = [n \in Node |-> IF n \in R THEN ReadyInputs(n) ELSE given[n]]
    /\ weight' = [e \in graph.edges |->
                     IF e[2] \in R THEN NoData ELSE weight[e]]
    /\ waiting' = {f \in waiting : f[1] \notin R}
    /\ UNCHANGED <<graph, done, policy, failed, outputs>>

IsDone == running = {} /\ Cardinality(done) = Cardinality(Node)

\* Nothing is left to call: every node ran, or the scheduler was dropped.
Stop == (IsDone \/ failed) /\ UNCHANGED vars

Execute ==
    \/ InitNodes
    \/ \E n \in Node : MarkDone(n) \/ MarkDoneErr(n)
    \/ \E R \in SUBSET Node : NextReady(R)

Next ==
    \/ \E p \in ReleasePolicy : WithReleasePolicy(p)
    \/ Execute
    \/ Stop

Spec == Init /\ [][Next]_vars

\* The callers (SequentialExecutor, ThreadPoolExecutor) keep calling until
\* is_done, so some enabled operation of an execution is eventually performed.
FairSpec == Spec /\ WF_vars(Execute)
---------------------------------------------------------------------------
(***************************************************************************)
(* Properties.                                                             *)
(***************************************************************************)

\* The scheduler's fields keep their types (scheduler.rs:280).
TypeOK ==
    /\ graph \in Graphs
    /\ weight \in [graph.edges -> Data \cup {NoData}]
    /\ waiting \subseteq graph.feeds
    /\ running \subseteq Node
    /\ done \subseteq Node
    /\ policy \in ReleasePolicy
    /\ failed \in BOOLEAN
    /\ DOMAIN given = Node
    /\ outputs \subseteq Data

\* A node runs only after every node that feeds it completed, and is never
\* both running and completed (the scheduler's "Dependency tracking").
DependencyOrder ==
    /\ running \cap done = {}
    /\ \A e \in graph.edges : e[2] \in Started => e[1] \in done

\* An edge holds data exactly between the completion of its source and the
\* release of its target, and it is the datum of the port it comes from:
\* nothing a node produced is lost, taken twice or delivered to another edge.
EdgeHoldsItsDatum ==
    ~failed => \A e \in graph.edges :
        weight[e] = IF e[1] \in done /\ e[2] \notin Started
                    THEN Out(e[1], graph.from[e]) ELSE NoData

\* What must reach input port p of n: the caller's datum when there is one,
\* else the output port that is linked to it.
Expected(n, p) ==
    IF <<n, p>> \in graph.feeds
    THEN In(n, p)
    ELSE LET e == EdgeInto(n, p) IN Out(e[1], graph.from[e])

ExpectedPorts(n) == EdgePorts(n) \cup FeedPorts(n)
ExpectedInputs(n) == IntoValues([p \in ExpectedPorts(n) |-> Expected(n, p)])

\* Every node is released with the right datum on each of its input ports,
\* whichever of its feeds came from the caller, from an edge, or were kept
\* in waiting_input_data meanwhile.
ArgumentsRouted == \A n \in Started : given[n] = ExpectedInputs(n)

\* The payload is a Vec indexed by position, so the datum of input port p
\* must be its element p (p + 1 here): ports are consecutive from 0.
ArgumentsInPlace ==
    \A n \in Started : \A p \in ExpectedPorts(n) :
        /\ Len(given[n]) = Cardinality(ExpectedPorts(n))
        /\ given[n][p + 1] = Expected(n, p)

\* mark_done hands back as outputs of the graph exactly the output ports of
\* completed nodes that feed no node at all.
OutputsExact ==
    ~failed =>
        outputs = UNION {{Out(n, p) : p \in (0 .. graph.outs[n] - 1) \
                              {graph.from[e] : e \in Outgoing(n)}} : n \in done}

\* Under UniqueColoring, two nodes of one colour run together only if
\* init_nodes released both: next_ready_nodes never adds a second one.
ColorExclusion ==
    policy = "UniqueColoring" =>
        \A a, b \in running :
            a # b /\ graph.color[a] = graph.color[b] =>
                IsSource(a) /\ IsSource(b)

\* A completed node is never released again and never uncompleted, and a
\* running node stays running until it is marked done.
NoReexecution ==
    [][ /\ done \subseteq done'
        /\ running' \cap done = {}
        /\ running \subseteq running' \cup done' ]_vars

\* The scheduler executes its graph as DagExecution promises: running and
\* done nodes are the started ones, its outputs are the graph's results.
Dag == INSTANCE DagExecution WITH
          started <- Started,
          finished <- done,
          results <- {<<o.node, o.port>> : o \in outputs}

ImplementsDag == Dag!DagSpec

\* A graph every source of which was fed, with no multi-link edge, runs to
\* completion whatever order nodes finish in (executor loops, executor.rs).
SourcesFed == \A n \in Node : IsSource(n) => FeedPorts(n) # {}
Runnable == graph.multi = {} /\ SourcesFed

Completes == Runnable ~> IsDone
===========================================================================
