----------------------- MODULE GraphSchedulerProofs -----------------------
(***************************************************************************)
(* For every graph, colouring, feed and release policy: the scheduler of   *)
(* GraphScheduler keeps its safety invariants, never re-executes a node    *)
(* and implements DagExecution.                                            *)
(***************************************************************************)
EXTENDS GraphScheduler, FiniteSetTheorems, TLAPS

\* The data init_nodes kept back is exactly that of the fed nodes with
\* predecessors that have not been released yet (once anything started).
WaitingExact ==
    ~failed /\ Started # {} =>
        waiting = {f \in graph.feeds : ~IsSource(f[1]) /\ f[1] \notin Started}

\* The inductive invariant: each safety property of the scheduler leans on
\* the others (a released node's arguments on the edges' data, the edges'
\* data on the dependency order), plus WaitingExact.
IInv ==
    /\ TypeOK
    /\ DependencyOrder
    /\ EdgeHoldsItsDatum
    /\ WaitingExact
    /\ ArgumentsRouted
    /\ OutputsExact
    /\ ColorExclusion

---------------------------------------------------------------------------
\* The payload kinds are data, and never the empty weight.
LEMMA DataFacts ==
    ASSUME NEW n \in Node, NEW p \in Nat
    PROVE  /\ In(n, p) \in Data /\ Out(n, p) \in Data
           /\ In(n, p) # NoData /\ Out(n, p) # NoData
BY NoDataAssumption DEF In, Out, Data

\* The shape of the graph being run.
LEMMA GraphFacts ==
    ASSUME TypeOK
    PROVE  IsGraph(graph)
BY GraphsAssumption DEF TypeOK

\* mark_done fills every outgoing edge: no target of a running node can have
\* started, so the filter of scheduler.rs:441 never hides an edge.
LEMMA FilledIsOutgoing ==
    ASSUME TypeOK, DependencyOrder, NEW n \in running
    PROVE  Filled(n) = Outgoing(n)
<1>1. ASSUME NEW e \in Outgoing(n)
      PROVE  e[2] \notin Started
  <2>1. e \in graph.edges /\ e[1] = n
    BY DEF Outgoing
  <2>2. n \notin done
    BY DEF DependencyOrder
  <2>. QED
    BY <2>1, <2>2 DEF DependencyOrder
<1>2. n \in Started
  BY DEF Started
<1>. QED
  BY <1>1, <1>2 DEF Filled, Outgoing, Started

\* A candidate of next_ready_nodes has predecessors, all of them completed,
\* and has never been released.
LEMMA CandidateFacts ==
    ASSUME TypeOK, EdgeHoldsItsDatum, ~failed, NEW n \in Candidates
    PROVE  /\ n \in Node /\ ~IsSource(n) /\ n \notin Started
           /\ done # {}
           /\ \A e \in Incoming(n) : e[1] \in done
                                     /\ weight[e] = Out(e[1], graph.from[e])
<1>1. n \in Node /\ Incoming(n) # {} /\ \A e \in Incoming(n) : weight[e] # NoData
  BY DEF Candidates
<1>2. ASSUME NEW e \in Incoming(n)
      PROVE  /\ e[1] \in done /\ n \notin Started
             /\ weight[e] = Out(e[1], graph.from[e])
  BY <1>1 DEF EdgeHoldsItsDatum, Incoming
<1>. QED
  BY <1>1, <1>2 DEF IsSource

LEMMA AcceptedAreCandidates ==
    ASSUME NEW R, Accepted(R)
    PROVE  R \subseteq Candidates
BY DEF Accepted

\* A released node gets, on each input port, the datum meant for it.
LEMMA ReadyInputsExact ==
    ASSUME TypeOK, EdgeHoldsItsDatum, WaitingExact, ~failed,
           NEW n \in Candidates
    PROVE  ReadyInputs(n) = ExpectedInputs(n)
<1>1. /\ n \in Node /\ ~IsSource(n) /\ n \notin Started /\ Started # {}
      /\ \A e \in Incoming(n) : weight[e] = Out(e[1], graph.from[e])
  BY CandidateFacts DEF Started
<1>2. graph.feeds \subseteq Node \X Nat
  BY GraphFacts DEF IsGraph
<1>3. WaitingPorts(n) = FeedPorts(n)
  BY <1>1 DEF WaitingPorts, FeedPorts, WaitingExact
<1>4. ASSUME NEW p
      PROVE  p \in FeedPorts(n) <=> <<n, p>> \in graph.feeds
  BY <1>2 DEF FeedPorts
<1>5. ASSUME NEW p \in EdgePorts(n)
      PROVE  weight[EdgeInto(n, p)] =
               Out(EdgeInto(n, p)[1], graph.from[EdgeInto(n, p)])
  <2>1. EdgeInto(n, p) \in Incoming(n)
    BY DEF EdgePorts, EdgeInto
  <2>. QED
    BY <1>1, <2>1
<1>6. ASSUME NEW p \in EdgePorts(n) \cup WaitingPorts(n)
      PROVE  (IF p \in WaitingPorts(n) THEN In(n, p) ELSE weight[EdgeInto(n, p)])
               = Expected(n, p)
  BY <1>3, <1>4, <1>5 DEF Expected
<1>7. EdgePorts(n) \cup WaitingPorts(n) = ExpectedPorts(n)
  BY <1>3 DEF ExpectedPorts
<1>8. [p \in EdgePorts(n) \cup WaitingPorts(n) |->
          IF p \in WaitingPorts(n) THEN In(n, p) ELSE weight[EdgeInto(n, p)]]
        = [p \in ExpectedPorts(n) |-> Expected(n, p)]
  BY <1>6, <1>7
<1>. QED
  BY <1>8 DEF ReadyInputs, ExpectedInputs
\* What a node should be given depends on the graph alone.
LEMMA ExpectedInputsStable ==
    ASSUME graph' = graph, NEW n
    PROVE  ExpectedInputs(n)' = ExpectedInputs(n)
<1>1. Incoming(n)' = Incoming(n)
  BY DEF Incoming
<1>2. ExpectedPorts(n)' = ExpectedPorts(n)
  BY <1>1 DEF ExpectedPorts, EdgePorts, FeedPorts
<1>3. ASSUME NEW p
      PROVE  Expected(n, p)' = Expected(n, p)
  BY <1>1 DEF Expected, EdgeInto, In, Out
<1>4. [p \in ExpectedPorts(n) |-> Expected(n, p)]'
        = [p \in ExpectedPorts(n) |-> Expected(n, p)]
  BY <1>2, <1>3
<1>. QED
  BY <1>4 DEF ExpectedInputs, IntoValues

---------------------------------------------------------------------------
LEMMA InitEstablishes == Init => IInv
<1>. SUFFICES ASSUME Init PROVE IInv
  OBVIOUS
<1>1. Started = {} /\ running = {} /\ done = {} /\ outputs = {}
  BY DEF Init, Started
<1>2. TypeOK
  BY DEF Init, TypeOK, ReleasePolicy
<1>3. DependencyOrder /\ ArgumentsRouted /\ WaitingExact /\ ColorExclusion
  BY <1>1 DEF DependencyOrder, ArgumentsRouted, WaitingExact, ColorExclusion
<1>4. EdgeHoldsItsDatum
  BY <1>1 DEF Init, EdgeHoldsItsDatum
<1>5. OutputsExact
  BY <1>1 DEF OutputsExact
<1>. QED
  BY <1>2, <1>3, <1>4, <1>5 DEF IInv

\* init_nodes releases the fed sources, with their feeds as arguments, and
\* no edge holds anything yet.
LEMMA InitNodesPreserves == IInv /\ InitNodes => IInv'
<1>. SUFFICES ASSUME IInv, InitNodes PROVE IInv'
  OBVIOUS
<1>. DEFINE fed == {n \in Node : IsSource(n) /\ FeedPorts(n) # {}}
<1>1. /\ graph' = graph /\ weight' = weight /\ done' = done
      /\ ~failed /\ failed' = failed /\ policy' = policy /\ outputs' = outputs
      /\ running = {} /\ done = {} /\ waiting = {}
      /\ running' = fed
      /\ waiting' = {f \in graph.feeds : ~IsSource(f[1])}
      /\ given' = [n \in Node |-> IF n \in fed
                     THEN IntoValues([p \in FeedPorts(n) |-> In(n, p)])
                     ELSE given[n]]
  BY DEF InitNodes
<1>2. fed \subseteq Node /\ Started = {} /\ Started' = fed
  BY <1>1 DEF Started
<1>3. TypeOK'
  <2>1. TypeOK
    BY DEF IInv
  <2>. QED
    BY <1>1, <1>2, <2>1 DEF TypeOK
<1>4. \A n \in fed : \A e \in graph.edges : e[2] # n
  BY DEF IsSource, Incoming
<1>5. DependencyOrder'
  BY <1>1, <1>2, <1>4 DEF DependencyOrder
<1>6. EdgeHoldsItsDatum'
  <2>1. \A e \in graph.edges : weight[e] = NoData
    BY <1>1 DEF IInv, EdgeHoldsItsDatum
  <2>. QED
    BY <1>1, <2>1 DEF EdgeHoldsItsDatum
<1>7. WaitingExact'
  <2>1. \A f \in graph.feeds : ~IsSource(f[1]) => f[1] \notin fed
    OBVIOUS
  <2>2. \A n : IsSource(n)' <=> IsSource(n)
    BY <1>1 DEF IsSource, Incoming
  <2>. QED
    BY <1>1, <1>2, <2>1, <2>2 DEF WaitingExact
<1>8. ArgumentsRouted'
  <2>1. ASSUME NEW n \in fed
        PROVE  given'[n] = ExpectedInputs(n)'
    <3>1. n \in Node /\ Incoming(n) = {}
      BY DEF IsSource
    <3>2. ExpectedPorts(n)' = FeedPorts(n)
      BY <1>1, <3>1 DEF ExpectedPorts, EdgePorts, FeedPorts, Incoming
    <3>3. graph.feeds \subseteq Node \X Nat
      BY GraphFacts DEF IInv, IsGraph
    <3>4. ASSUME NEW p \in FeedPorts(n)
          PROVE  Expected(n, p)' = In(n, p)
      <4>1. <<n, p>> \in graph.feeds
        BY <3>3 DEF FeedPorts
      <4>. QED
        BY <1>1, <4>1 DEF Expected, In
    <3>5. [p \in ExpectedPorts(n) |-> Expected(n, p)]' = [p \in FeedPorts(n) |-> In(n, p)]
      BY <3>2, <3>4
    <3>6. given'[n] = IntoValues([p \in FeedPorts(n) |-> In(n, p)])
      BY <1>1, <3>1
    <3>. QED
      BY <3>5, <3>6 DEF ExpectedInputs, IntoValues
  <2>. QED
    BY <1>2, <2>1 DEF ArgumentsRouted
<1>9. OutputsExact'
  BY <1>1 DEF IInv, OutputsExact
<1>10. ColorExclusion'
  <2>1. \A n \in running' : IsSource(n)'
    BY <1>1 DEF IsSource, Incoming
  <2>. QED
    BY <2>1 DEF ColorExclusion
<1>. QED
  BY <1>3, <1>5, <1>6, <1>7, <1>8, <1>9, <1>10 DEF IInv

\* mark_done: the completed node's data moves to its outgoing edges, whose
\* targets have not started, and its unlinked ports to the outputs.
LEMMA MarkDonePreserves ==
    ASSUME IInv, NEW n \in Node, MarkDone(n)
    PROVE  IInv'
<1>1. /\ graph' = graph /\ waiting' = waiting /\ given' = given
      /\ ~failed /\ failed' = failed /\ policy' = policy
      /\ n \in running /\ n \notin done
      /\ running' = running \ {n} /\ done' = done \cup {n}
  BY DEF MarkDone
<1>2. Started' = Started
  BY <1>1 DEF Started
<1>3. Filled(n) = Outgoing(n)
  BY <1>1, FilledIsOutgoing DEF IInv
<1>4. /\ weight' = [e \in graph.edges |->
                IF e[1] = n THEN Out(n, graph.from[e]) ELSE weight[e]]
      /\ outputs' = outputs \cup {Out(n, p) : p \in
             (0 .. graph.outs[n] - 1) \ {graph.from[e] : e \in Outgoing(n)}}
  BY <1>3 DEF MarkDone, Outgoing, Datum, Unlinked
<1>5. IsGraph(graph) /\ TypeOK
  BY GraphFacts DEF IInv
<1>6. TypeOK'
  <2>1. graph.from \in [graph.edges -> Nat] /\ graph.outs[n] \in Nat
    BY <1>5 DEF IsGraph
  <2>2. weight' \in [graph.edges -> Data \cup {NoData}]
    BY <1>4, <1>5, <2>1, DataFacts DEF TypeOK
  <2>3. outputs' \subseteq Data
    BY <1>4, <1>5, <2>1, DataFacts DEF TypeOK
  <2>. QED
    BY <1>1, <1>5, <2>2, <2>3 DEF TypeOK
<1>7. DependencyOrder'
  BY <1>1, <1>2 DEF IInv, DependencyOrder
<1>8. EdgeHoldsItsDatum'
  <2>1. ASSUME NEW e \in graph.edges, e[1] = n
        PROVE  e[2] \notin Started
    BY <1>1, <2>1 DEF IInv, DependencyOrder
  <2>. QED
    BY <1>1, <1>2, <1>4, <2>1 DEF IInv, EdgeHoldsItsDatum
<1>9. WaitingExact'
  <2>1. Started # {} /\ \A m : IsSource(m)' <=> IsSource(m)
    BY <1>1 DEF Started, IsSource, Incoming
  <2>. QED
    BY <1>1, <1>2, <2>1 DEF IInv, WaitingExact
<1>10. ArgumentsRouted'
  BY <1>1, <1>2, ExpectedInputsStable DEF IInv, ArgumentsRouted
<1>11. OutputsExact'
  BY <1>1, <1>4 DEF IInv, OutputsExact, Outgoing
<1>12. ColorExclusion'
  BY <1>1 DEF IInv, ColorExclusion, IsSource, Incoming
<1>. QED
  BY <1>6, <1>7, <1>8, <1>9, <1>10, <1>11, <1>12 DEF IInv

\* A failed mark_done: the scheduler is dropped, what remains true of it is
\* what does not speak of the edges' data.
LEMMA MarkDoneErrPreserves ==
    ASSUME IInv, NEW n \in Node, MarkDoneErr(n)
    PROVE  IInv'
<1>1. /\ graph' = graph /\ waiting' = waiting /\ given' = given
      /\ failed' = TRUE /\ policy' = policy /\ outputs' = outputs
      /\ n \in running
      /\ running' = running \ {n} /\ done' = done \cup {n}
  BY DEF MarkDoneErr
<1>2. Started' = Started
  BY <1>1 DEF Started
<1>3. IsGraph(graph) /\ TypeOK
  BY GraphFacts DEF IInv
<1>4. TypeOK'
  <2>1. weight' \in [graph.edges -> Data \cup {NoData}]
    <3>1. PICK S \in SUBSET (Filled(n) \ graph.multi) :
             weight' = [e \in graph.edges |->
                IF e \in S THEN Out(n, graph.from[e]) ELSE weight[e]]
      BY DEF MarkDoneErr, Datum
    <3>2. graph.from \in [graph.edges -> Nat]
      BY <1>3 DEF IsGraph
    <3>. QED
      BY <1>3, <3>1, <3>2, DataFacts DEF TypeOK
  <2>. QED
    BY <1>1, <1>3, <2>1 DEF TypeOK
<1>5. DependencyOrder'
  BY <1>1, <1>2 DEF IInv, DependencyOrder
<1>6. ArgumentsRouted'
  BY <1>1, <1>2, ExpectedInputsStable DEF IInv, ArgumentsRouted
<1>7. ColorExclusion'
  BY <1>1 DEF IInv, ColorExclusion, IsSource, Incoming
<1>8. EdgeHoldsItsDatum' /\ WaitingExact' /\ OutputsExact'
  BY <1>1 DEF EdgeHoldsItsDatum, WaitingExact, OutputsExact
<1>. QED
  BY <1>4, <1>5, <1>6, <1>7, <1>8 DEF IInv

\* next_ready_nodes: the released nodes' predecessors are all done, so the
\* data taken from their edges and from waiting_input_data is complete.
LEMMA NextReadyPreserves ==
    ASSUME IInv, NEW R \in SUBSET Node, NextReady(R)
    PROVE  IInv'
<1>1. /\ graph' = graph /\ done' = done /\ outputs' = outputs
      /\ ~failed /\ failed' = failed /\ policy' = policy
      /\ Accepted(R) /\ R # {}
      /\ running' = running \cup R
      /\ given' = [n \in Node |-> IF n \in R THEN ReadyInputs(n) ELSE given[n]]
      /\ weight' = [e \in graph.edges |->
                       IF e[2] \in R THEN NoData ELSE weight[e]]
      /\ waiting' = {f \in waiting : f[1] \notin R}
  BY DEF NextReady
<1>2. TypeOK /\ DependencyOrder /\ EdgeHoldsItsDatum /\ WaitingExact
      /\ ArgumentsRouted /\ OutputsExact /\ ColorExclusion
  BY DEF IInv
<1>3. \A n \in R :
          /\ n \in Candidates /\ ~IsSource(n) /\ n \notin Started /\ done # {}
          /\ \A e \in Incoming(n) : e[1] \in done
  BY <1>1, <1>2, AcceptedAreCandidates, CandidateFacts
<1>4. Started' = Started \cup R
  BY <1>1 DEF Started
<1>5. TypeOK'
  BY <1>1, <1>2 DEF TypeOK
<1>6. DependencyOrder'
  BY <1>1, <1>2, <1>3, <1>4 DEF DependencyOrder, Started, Incoming
<1>7. EdgeHoldsItsDatum'
  BY <1>1, <1>2, <1>4 DEF EdgeHoldsItsDatum
<1>8. WaitingExact'
  <2>1. Started # {}
    BY <1>1, <1>3 DEF Started
  <2>2. \A n : IsSource(n)' <=> IsSource(n)
    BY <1>1 DEF IsSource, Incoming
  <2>. QED
    BY <1>1, <1>2, <1>4, <2>1, <2>2 DEF WaitingExact
<1>9. ArgumentsRouted'
  <2>1. \A n \in R : ReadyInputs(n) = ExpectedInputs(n)
    BY <1>1, <1>2, <1>3, ReadyInputsExact
  <2>2. Started \subseteq Node
    BY <1>2 DEF TypeOK, Started
  <2>3. ASSUME NEW n \in Started'
        PROVE  given'[n] = ExpectedInputs(n)
    BY <1>1, <1>2, <1>4, <2>1, <2>2, <2>3 DEF ArgumentsRouted
  <2>. QED
    BY <1>1, <2>3, ExpectedInputsStable DEF ArgumentsRouted
<1>10. OutputsExact'
  BY <1>1, <1>2 DEF OutputsExact, Outgoing
<1>11. ColorExclusion'
  <2>1. ASSUME policy = "UniqueColoring",
               NEW a \in running', NEW b \in running', a # b,
               graph.color[a] = graph.color[b]
        PROVE  IsSource(a) /\ IsSource(b)
    <3>1. a \notin R /\ b \notin R
      BY <1>1, <2>1 DEF Accepted
    <3>. QED
      BY <1>1, <1>2, <2>1, <3>1 DEF ColorExclusion
  <2>2. \A n : IsSource(n)' <=> IsSource(n)
    BY <1>1 DEF IsSource, Incoming
  <2>. QED
    BY <1>1, <2>1, <2>2 DEF ColorExclusion
<1>. QED
  BY <1>5, <1>6, <1>7, <1>8, <1>9, <1>10, <1>11 DEF IInv

LEMMA StutterPreserves == IInv /\ UNCHANGED vars => IInv'
<1>. SUFFICES ASSUME IInv, UNCHANGED vars PROVE IInv'
  OBVIOUS
<1>1. /\ graph' = graph /\ weight' = weight /\ waiting' = waiting
      /\ running' = running /\ done' = done /\ failed' = failed
      /\ policy' = policy /\ given' = given /\ outputs' = outputs
  BY DEF vars
<1>2. TypeOK' /\ DependencyOrder' /\ EdgeHoldsItsDatum'
  BY <1>1 DEF IInv, TypeOK, DependencyOrder, EdgeHoldsItsDatum, Started, Out
<1>3. WaitingExact' /\ ColorExclusion'
  BY <1>1 DEF IInv, WaitingExact, ColorExclusion, IsSource, Incoming, Started
<1>4. ArgumentsRouted'
  BY <1>1, ExpectedInputsStable DEF IInv, ArgumentsRouted, Started
<1>5. OutputsExact'
  BY <1>1 DEF IInv, OutputsExact, Outgoing
<1>. QED
  BY <1>2, <1>3, <1>4, <1>5 DEF IInv

\* with_release_policy: nothing runs yet, so no colours can clash.
LEMMA WithReleasePolicyPreserves ==
    ASSUME IInv, NEW p \in ReleasePolicy, WithReleasePolicy(p)
    PROVE  IInv'
<1>1. /\ graph' = graph /\ weight' = weight /\ waiting' = waiting
      /\ running' = running /\ done' = done /\ failed' = failed
      /\ policy' = p /\ given' = given /\ outputs' = outputs /\ running = {}
  BY DEF WithReleasePolicy
<1>2. TypeOK' /\ DependencyOrder' /\ EdgeHoldsItsDatum'
  BY <1>1 DEF IInv, TypeOK, DependencyOrder, EdgeHoldsItsDatum, Started, Out
<1>3. WaitingExact' /\ ColorExclusion'
  BY <1>1 DEF IInv, WaitingExact, ColorExclusion, IsSource, Incoming, Started
<1>4. ArgumentsRouted'
  BY <1>1, ExpectedInputsStable DEF IInv, ArgumentsRouted, Started
<1>5. OutputsExact'
  BY <1>1 DEF IInv, OutputsExact, Outgoing
<1>. QED
  BY <1>2, <1>3, <1>4, <1>5 DEF IInv

LEMMA NextPreserves == IInv /\ [Next]_vars => IInv'
BY InitNodesPreserves, MarkDonePreserves, MarkDoneErrPreserves,
   NextReadyPreserves, WithReleasePolicyPreserves, StutterPreserves DEF Next, Execute, Stop

\* Every reachable state of the scheduler satisfies the inductive invariant.
THEOREM Invariance == Spec => []IInv
BY InitEstablishes, NextPreserves, PTL DEF Spec

\* The scheduler's fields keep their types.
THEOREM TypeCorrectness == Spec => []TypeOK
<1>1. IInv => TypeOK
  BY DEF IInv
<1>. QED
  BY <1>1, Invariance, PTL

\* Nodes run after their dependencies, on the right data; edges and outputs
\* hold exactly what they should; colours exclude each other after init.
THEOREM SchedulerSafety ==
    Spec => [](/\ DependencyOrder /\ EdgeHoldsItsDatum /\ ArgumentsRouted
               /\ OutputsExact /\ ColorExclusion)
<1>1. IInv => /\ DependencyOrder /\ EdgeHoldsItsDatum /\ ArgumentsRouted
              /\ OutputsExact /\ ColorExclusion
  BY DEF IInv
<1>. QED
  BY <1>1, Invariance, PTL

\* Under UniqueColoring next_ready_nodes never adds a second running node of a
\* colour, whatever it is asked in between; only init_nodes does.
THEOREM ColorsExclude == Spec => []ColorExclusion
<1>1. IInv => ColorExclusion
  BY DEF IInv
<1>. QED
  BY <1>1, Invariance, PTL

(***************************************************************************)
(* The ports of a node's inputs are lost in the payload it is released     *)
(* with, but not their meaning: into_values keeps their order.             *)
(***************************************************************************)
\* The ports below p of ports numbered from 0.
LEMMA PortsBelow ==
    ASSUME NEW k \in Int, NEW p \in 0 .. k - 1
    PROVE  Cardinality({q \in 0 .. k - 1 : q < p}) = p
<1>1. {q \in 0 .. k - 1 : q < p} = 0 .. p - 1
  OBVIOUS
<1>2. Cardinality(0 .. p - 1) = p
  BY FS_Interval
<1>. QED
  BY <1>1, <1>2

\* into_values of a map from the ports 0 .. k - 1 puts port p at position p.
LEMMA IntoValuesInPlace ==
    ASSUME NEW m, NEW k \in Nat, DOMAIN m = 0 .. k - 1
    PROVE  /\ Len(IntoValues(m)) = k
           /\ \A p \in DOMAIN m : IntoValues(m)[p + 1] = m[p]
<1>1. Cardinality(DOMAIN m) = k
  BY FS_Interval
<1>. DEFINE port(i) == CHOOSE p \in DOMAIN m :
                          Cardinality({q \in DOMAIN m : q < p}) = i - 1
<1>2. IntoValues(m) = [i \in 1 .. k |-> m[port(i)]]
  BY <1>1 DEF IntoValues
<1>3. Len(IntoValues(m)) = k
  BY <1>2
<1>4. ASSUME NEW p \in DOMAIN m
      PROVE  IntoValues(m)[p + 1] = m[p]
  <2>1. p \in 0 .. k - 1 /\ p \in Nat /\ p + 1 \in 1 .. k
    OBVIOUS
  <2>2. \A r \in DOMAIN m : Cardinality({q \in DOMAIN m : q < r}) = r
    BY PortsBelow
  <2>3. port(p + 1) = p
    <3>1. p \in DOMAIN m /\ Cardinality({q \in DOMAIN m : q < p}) = (p + 1) - 1
      BY <2>1, <2>2
    <3>2. port(p + 1) \in DOMAIN m
          /\ Cardinality({q \in DOMAIN m : q < port(p + 1)}) = (p + 1) - 1
      BY <3>1
    <3>3. port(p + 1) = (p + 1) - 1
      BY <2>2, <3>2
    <3>4. (p + 1) - 1 = p
      BY <2>1
    <3>. QED
      BY Zenon, <3>3, <3>4
  <2>. HIDE DEF port
  <2>. QED
    BY <1>2, <2>1, <2>3
<1>. QED
  BY <1>3, <1>4

\* On a graph whose input ports are numbered as check_consistency wants, the
\* element p of a released node's inputs is the datum of its port p.
THEOREM PayloadsInPlace ==
    ASSUME \A g \in Graphs : ConsecutivePorts(g)
    PROVE  Spec => []ArgumentsInPlace
<1>1. IInv => ArgumentsInPlace
  <2>. SUFFICES ASSUME IInv, NEW n \in Started, NEW p \in ExpectedPorts(n)
                PROVE  /\ Len(given[n]) = Cardinality(ExpectedPorts(n))
                       /\ given[n][p + 1] = Expected(n, p)
    BY DEF ArgumentsInPlace
  <2>1. n \in Node /\ graph \in Graphs
    BY DEF IInv, TypeOK, Started
  <2>2. ExpectedPorts(n) = InputPorts(graph, n)
    BY DEF ExpectedPorts, EdgePorts, FeedPorts, InputPorts, Incoming
  <2>3. PICK S : S = ExpectedPorts(n)
    OBVIOUS
  <2>4. PICK m : m = [q \in S |-> Expected(n, q)]
    OBVIOUS
  <2>5. IsFiniteSet(S) /\ S = 0 .. Cardinality(S) - 1
    BY <2>1, <2>2, <2>3 DEF ConsecutivePorts
  <2>6. given[n] = IntoValues(m)
    BY <2>3, <2>4 DEF IInv, ArgumentsRouted, ExpectedInputs
  <2>7. PICK k \in Nat : k = Cardinality(S) /\ S = 0 .. k - 1
    BY <2>5, FS_CardinalityType
  <2>8. k = Cardinality(S)
    BY <2>7
  <2>9. DOMAIN m = S /\ m[p] = Expected(n, p)
    BY <2>3, <2>4
  <2>10. Len(IntoValues(m)) = k /\ \A q \in DOMAIN m : IntoValues(m)[q + 1] = m[q]
    BY <2>7, <2>9, IntoValuesInPlace
  <2>. QED
    BY <2>3, <2>6, <2>8, <2>9, <2>10
<1>. QED
  BY <1>1, Invariance, PTL

---------------------------------------------------------------------------
\* No node is executed twice or forgotten while it runs.
THEOREM NeverReexecutes == Spec => NoReexecution
<1>. DEFINE Step == /\ done \subseteq done'
                    /\ running' \cap done = {}
                    /\ running \subseteq running' \cup done'
<1>1. IInv /\ [Next]_vars => [Step]_vars
  <2>. SUFFICES ASSUME IInv, Next PROVE Step \/ UNCHANGED vars
    OBVIOUS
  <2>1. ASSUME InitNodes PROVE Step
    BY <2>1 DEF InitNodes
  <2>2. ASSUME NEW n \in Node, MarkDone(n) \/ MarkDoneErr(n) PROVE Step
    BY <2>2 DEF MarkDone, MarkDoneErr, IInv, DependencyOrder
  <2>3. ASSUME NEW R \in SUBSET Node, NextReady(R) PROVE Step
    <3>1. ~failed /\ Accepted(R) /\ done' = done /\ running' = running \cup R
      BY <2>3 DEF NextReady
    <3>2. \A n \in R : n \notin done
      BY <3>1, AcceptedAreCandidates, CandidateFacts DEF IInv, Started
    <3>. QED
      BY <3>1, <3>2 DEF IInv, DependencyOrder
  <2>4. ASSUME NEW p \in ReleasePolicy, WithReleasePolicy(p) PROVE Step
    BY <2>4 DEF WithReleasePolicy
  <2>. QED
    BY <2>1, <2>2, <2>3, <2>4 DEF Next, Execute, Stop
<1>. QED
  BY <1>1, Invariance, PTL DEF Spec, NoReexecution

(***************************************************************************)
(* Refinement: under the mapping of GraphScheduler, each step is a step of *)
(* DagExecution or leaves it unchanged.                                    *)
(***************************************************************************)
Mapped(O) == {<<o.node, o.port>> : o \in O}

\* What mark_done(n) adds to the outputs are the result ports of n.
LEMMA NewOutputsMapped ==
    ASSUME NEW n \in Node
    PROVE  Mapped({Out(n, p) : p \in (0 .. graph.outs[n] - 1) \
                                  {graph.from[e] : e \in Outgoing(n)}})
             = Dag!ResultPorts(n)
<1>1. \A p : Out(n, p).node = n /\ Out(n, p).port = p
  BY DEF Out
<1>2. Mapped({Out(n, p) : p \in (0 .. graph.outs[n] - 1) \
                                  {graph.from[e] : e \in Outgoing(n)}})
        = {<<n, p>> : p \in (0 .. graph.outs[n] - 1) \
                                  {graph.from[e] : e \in Outgoing(n)}}
  BY <1>1 DEF Mapped
<1>. QED
  BY <1>2 DEF Dag!ResultPorts, Outgoing

LEMMA MappedUnion ==
    ASSUME NEW A, NEW B
    PROVE  Mapped(A \cup B) = Mapped(A) \cup Mapped(B)
BY DEF Mapped

LEMMA StepsImplement == IInv /\ [Next]_vars => [Dag!DagNext]_(Dag!dagVars)
<1>. SUFFICES ASSUME IInv, [Next]_vars
              PROVE  Dag!DagNext \/ UNCHANGED Dag!dagVars
  OBVIOUS
<1>1. CASE InitNodes
  <2>. DEFINE fed == {n \in Node : IsSource(n) /\ FeedPorts(n) # {}}
  <2>1. /\ ~failed /\ failed' = failed /\ graph' = graph /\ outputs' = outputs
        /\ running = {} /\ done = {} /\ done' = done /\ running' = fed
    BY <1>1 DEF InitNodes
  <2>2. Started = {} /\ Started' = fed
    BY <2>1 DEF Started
  <2>3. \A n \in fed : Dag!Preds(n) = {}
    BY DEF Dag!Preds, IsSource, Incoming
  <2>4. CASE fed = {}
    BY <2>1, <2>2, <2>4 DEF Dag!dagVars
  <2>5. CASE fed # {}
    <3>1. Dag!Start(fed)
      BY <2>1, <2>2, <2>3, <2>5 DEF Dag!Start
    <3>. QED
      BY <3>1 DEF Dag!DagNext
  <2>. QED
    BY <2>4, <2>5
<1>2. ASSUME NEW n \in Node, MarkDone(n)
      PROVE  Dag!DagNext
  <2>1. /\ ~failed /\ failed' = failed /\ graph' = graph
        /\ n \in running /\ n \notin done
        /\ running' = running \ {n} /\ done' = done \cup {n}
        /\ outputs' = outputs \cup {Out(n, p) : p \in
               (0 .. graph.outs[n] - 1) \ {graph.from[e] : e \in Outgoing(n)}}
    BY <1>2, FilledIsOutgoing DEF MarkDone, IInv, Unlinked
  <2>2. Started' = Started /\ n \in Started \ done
    BY <2>1 DEF Started
  <2>3. Mapped(outputs') = Mapped(outputs) \cup Dag!ResultPorts(n)
    <3>. DEFINE new == {Out(n, p) : p \in (0 .. graph.outs[n] - 1) \
                                     {graph.from[e] : e \in Outgoing(n)}}
    <3>1. outputs' = outputs \cup new
      BY <2>1
    <3>2. Mapped(new) = Dag!ResultPorts(n)
      BY NewOutputsMapped
    <3>. HIDE DEF new
    <3>3. Mapped(outputs \cup new) = Mapped(outputs) \cup Mapped(new)
      BY MappedUnion
    <3>. QED
      BY <3>1, <3>2, <3>3
  <2>4. Dag!Finish(n)
    BY <2>1, <2>2, <2>3 DEF Dag!Finish, Mapped
  <2>. QED
    BY <2>4 DEF Dag!DagNext
<1>3. ASSUME NEW n \in Node, MarkDoneErr(n)
      PROVE  Dag!DagNext
  <2>1. /\ ~failed /\ failed' = TRUE /\ graph' = graph /\ outputs' = outputs
        /\ n \in running /\ n \notin done
        /\ running' = running \ {n} /\ done' = done \cup {n}
    BY <1>3 DEF MarkDoneErr
  <2>2. Started' = Started /\ n \in Started \ done
    BY <2>1 DEF Started
  <2>3. Dag!Abort(n)
    BY <2>1, <2>2 DEF Dag!Abort
  <2>. QED
    BY <2>3 DEF Dag!DagNext
<1>4. ASSUME NEW R \in SUBSET Node, NextReady(R)
      PROVE  Dag!DagNext
  <2>1. /\ ~failed /\ failed' = failed /\ graph' = graph /\ outputs' = outputs
        /\ R # {} /\ Accepted(R)
        /\ done' = done /\ running' = running \cup R
    BY <1>4 DEF NextReady
  <2>2. \A n \in R : n \notin Started /\ \A e \in Incoming(n) : e[1] \in done
    BY <2>1, AcceptedAreCandidates, CandidateFacts DEF IInv
  <2>3. Started' = Started \cup R
    BY <2>1 DEF Started
  <2>4. \A n \in R : Dag!Preds(n) \subseteq done
    BY <2>2 DEF Dag!Preds, Incoming
  <2>5. Dag!Start(R)
    BY <2>1, <2>2, <2>3, <2>4 DEF Dag!Start
  <2>. QED
    BY <2>5 DEF Dag!DagNext
<1>5. CASE UNCHANGED vars
  BY <1>5 DEF vars, Dag!dagVars, Started
<1>6. ASSUME NEW p \in ReleasePolicy, WithReleasePolicy(p)
      PROVE  UNCHANGED Dag!dagVars
  BY <1>6 DEF WithReleasePolicy, Dag!dagVars, Started
<1>. QED
  BY <1>1, <1>2, <1>3, <1>4, <1>5, <1>6 DEF Next, Execute, Stop

\* The scheduler executes every graph as DagExecution promises.
THEOREM Refinement == Spec => ImplementsDag
<1>1. Init => Dag!DagInit
  BY DEF Init, Dag!DagInit, Started
<1>. QED
  BY <1>1, Invariance, StepsImplement, PTL DEF Spec, ImplementsDag, Dag!DagSpec
===========================================================================
