-------------------------- MODULE PartitionProofs --------------------------
(***************************************************************************)
(* For every graph that partition_by accepts, and for every number of      *)
(* colours and partitions.                                                 *)
(***************************************************************************)
EXTENDS ProverGraph, FiniteSetTheorems, TLAPS

---------------------------------------------------------------------------
(* Numbers. *)

\* Every set of numbers that is not empty has a least element: induction over
\* data, below, looks at the least (or a minimal) element that breaks a claim.
LEMMA Least ==
    ASSUME NEW T \in SUBSET Nat, T # {}
    PROVE  \E m \in T : \A k \in T : m <= k
<1>. DEFINE R == {ss \in Nat \X Nat : ss[1] < ss[2]}
<1>1. OpToRel(<, Nat) = R
  BY DEF OpToRel
<1>2. IsWellFoundedOn(R, Nat)
  BY <1>1, NatLessThanWellFounded, Zenon
<1>3. \E x \in T : \A y \in T : ~ (<<y, x>> \in R)
  <2>. HIDE DEF R
  <2>. QED
    BY <1>2, WFMin
<1>4. PICK x \in T : \A y \in T : ~ (<<y, x>> \in R)
  BY <1>3
<1>5. \A y \in T : y \in Nat /\ x \in Nat /\ ~(y < x)
  BY <1>4
<1>. QED
  BY <1>5

Below(S, x) == {y \in S : y < x}

\* The numbers below x are fewer than those below a higher one.
LEMMA BelowGrows ==
    ASSUME NEW S \in SUBSET Nat, IsFiniteSet(S), NEW x \in S, NEW y \in S, x < y
    PROVE  Cardinality(Below(S, x)) < Cardinality(Below(S, y))
<1>1. Below(S, x) \subseteq Below(S, y) /\ x \in Below(S, y) /\ x \notin Below(S, x)
  <2>1. x \in Nat /\ y \in Nat /\ \A z \in S : z \in Nat
    OBVIOUS
  <2>2. \A z \in S : z < x => z < y
    BY <2>1
  <2>3. ~(x < x)
    BY <2>1
  <2>. QED
    BY <2>2, <2>3 DEF Below
<1>2. IsFiniteSet(Below(S, x)) /\ IsFiniteSet(Below(S, y))
  BY FS_Subset DEF Below
<1>. QED
  BY <1>1, <1>2, FS_Subset, FS_CardinalityType

\* The number of numbers below it numbers the elements of S.
LEMMA BelowNumbers ==
    ASSUME NEW S \in SUBSET Nat, IsFiniteSet(S)
    PROVE  /\ \A x \in S : Cardinality(Below(S, x)) + 1 \in 1 .. Cardinality(S)
           /\ \A x, y \in S : Cardinality(Below(S, x)) = Cardinality(Below(S, y)) => x = y
           /\ \A i \in 1 .. Cardinality(S) : \E x \in S : Cardinality(Below(S, x)) = i - 1
<1>1. Cardinality(S) \in Nat
  BY FS_CardinalityType
<1>2. \A x \in S : Cardinality(Below(S, x)) \in Nat /\ Cardinality(Below(S, x)) < Cardinality(S)
  <2>. TAKE x \in S
  <2>1. Below(S, x) \subseteq S /\ x \notin Below(S, x)
    BY DEF Below
  <2>. QED
    BY <2>1, FS_Subset, FS_CardinalityType
<1>3. \A x, y \in S : Cardinality(Below(S, x)) = Cardinality(Below(S, y)) => x = y
  <2>. TAKE x, y \in S
  <2>1. x < y \/ y < x \/ x = y
    OBVIOUS
  <2>. QED
    BY <2>1, <1>2, BelowGrows
<1>. DEFINE rank == [x \in S |-> Cardinality(Below(S, x)) + 1]
<1>4. rank \in Injection(S, 1 .. Cardinality(S))
  BY <1>1, <1>2, <1>3 DEF Injection, IsInjective
<1>5. IsFiniteSet(1 .. Cardinality(S)) /\ Cardinality(1 .. Cardinality(S)) = Cardinality(S)
  BY <1>1, FS_Interval
<1>6. rank \in Surjection(S, 1 .. Cardinality(S))
  <2>. HIDE DEF rank
  <2>. QED
    BY <1>4, <1>5, FS_Injection
<1>7. \A i \in 1 .. Cardinality(S) : \E x \in S : Cardinality(Below(S, x)) + 1 = i
  BY <1>6 DEF Surjection
<1>. QED
  BY <1>1, <1>2, <1>3, <1>7

\* Nth enumerates a finite set of numbers.
LEMMA NthEnumerates ==
    ASSUME NEW S \in SUBSET Nat, IsFiniteSet(S)
    PROVE  /\ \A i \in 1 .. Cardinality(S) :
                 Nth(S, i) \in S /\ Cardinality(Below(S, Nth(S, i))) = i - 1
           /\ \A x \in S : \E i \in 1 .. Cardinality(S) : Nth(S, i) = x
<1>1. \A i \in 1 .. Cardinality(S) :
         Nth(S, i) \in S /\ Cardinality(Below(S, Nth(S, i))) = i - 1
  <2>. TAKE i \in 1 .. Cardinality(S)
  <2>1. \E x \in S : Cardinality(Below(S, x)) = i - 1
    BY BelowNumbers
  <2>2. Nth(S, i) = CHOOSE x \in S : Cardinality(Below(S, x)) = i - 1
    BY DEF Nth, Below
  <2>. QED
    BY <2>1, <2>2
<1>2. ASSUME NEW x \in S
      PROVE  \E i \in 1 .. Cardinality(S) : Nth(S, i) = x
  <2>1. PICK i \in 1 .. Cardinality(S) : i = Cardinality(Below(S, x)) + 1
    BY BelowNumbers
  <2>2. Cardinality(Below(S, x)) \in Nat
    BY FS_Subset, FS_CardinalityType DEF Below
  <2>3. Nth(S, i) \in S /\ Cardinality(Below(S, Nth(S, i))) = Cardinality(Below(S, x))
    BY <1>1, <2>1, <2>2
  <2>4. \A y, z \in S : Cardinality(Below(S, y)) = Cardinality(Below(S, z)) => y = z
    BY BelowNumbers
  <2>5. Nth(S, i) = x
    BY <2>3, <2>4
  <2>. QED
    BY <2>5
<1>. QED
  BY <1>1, <1>2

\* The i-th of the numbers from 0.
LEMMA NthFromZero ==
    ASSUME NEW k \in Nat, NEW i \in 1 .. k
    PROVE  Nth(0 .. k - 1, i) = i - 1
<1>. DEFINE S == 0 .. k - 1
<1>1. S \in SUBSET Nat /\ IsFiniteSet(S) /\ Cardinality(S) = k
  BY FS_Interval
<1>2. Nth(S, i) \in S /\ Cardinality(Below(S, Nth(S, i))) = i - 1
  <2>. HIDE DEF S
  <2>. QED
    BY <1>1, NthEnumerates
<1>3. PICK x \in S : x = Nth(S, i)
  BY <1>2
<1>4. Below(S, x) = 0 .. x - 1
  BY DEF Below
<1>5. Cardinality(0 .. x - 1) = x
  BY <1>3, FS_Interval
<1>. QED
  BY <1>2, <1>3, <1>4, <1>5

---------------------------------------------------------------------------
(* The searches of partition_by. *)

Closed(g, S) ==
    \A e \in g.edges : g.color[e[1]] = g.color[e[2]] => (e[1] \in S <=> e[2] \in S)

LEMMA ComponentDef ==
    ASSUME NEW g, NEW n
    PROVE  Component(g, n) =
             {m \in g.nodes : \A S \in SUBSET g.nodes : n \in S /\ Closed(g, S) => m \in S}
BY DEF Component, Closed

\* A search finds what is connected to its start in its colour: the result is
\* closed, of one colour, and the same from each of its nodes.
LEMMA SearchIsClosed ==
    ASSUME NEW g, IsGraph(g), NEW n \in g.nodes
    PROVE  /\ n \in Component(g, n) /\ Component(g, n) \subseteq g.nodes
           /\ Closed(g, Component(g, n))
           /\ \A m \in Component(g, n) : g.color[m] = g.color[n]
<1>1. n \in Component(g, n) /\ Component(g, n) \subseteq g.nodes
  BY ComponentDef
<1>2. ASSUME NEW e \in g.edges, g.color[e[1]] = g.color[e[2]]
      PROVE  e[1] \in Component(g, n) <=> e[2] \in Component(g, n)
  <2>1. e[1] \in g.nodes /\ e[2] \in g.nodes
    BY DEF IsGraph
  <2>2. \A S \in SUBSET g.nodes : Closed(g, S) => (e[1] \in S <=> e[2] \in S)
    BY <1>2 DEF Closed
  <2>. QED
    BY <2>1, <2>2, ComponentDef
<1>3. ASSUME NEW m \in Component(g, n)
      PROVE  g.color[m] = g.color[n]
  <2>. DEFINE S == {x \in g.nodes : g.color[x] = g.color[n]}
  <2>1. \A e \in g.edges : e[1] \in g.nodes /\ e[2] \in g.nodes
    BY DEF IsGraph
  <2>2. Closed(g, S) /\ n \in S /\ S \in SUBSET g.nodes
    BY <2>1 DEF Closed
  <2>3. m \in S
    <3>. HIDE DEF S
    <3>. QED
      BY <2>2, ComponentDef
  <2>. QED
    BY <2>3
<1>. QED
  BY <1>1, <1>2, <1>3 DEF Closed

LEMMA SearchFromAnyNode ==
    ASSUME NEW g, IsGraph(g), NEW n \in g.nodes, NEW m \in Component(g, n)
    PROVE  Component(g, m) = Component(g, n)
<1>1. m \in g.nodes /\ Closed(g, Component(g, n)) /\ Component(g, n) \subseteq g.nodes
  BY SearchIsClosed
<1>2. Component(g, m) \subseteq Component(g, n)
  BY <1>1, ComponentDef
<1>3. n \in Component(g, m)
  <2>. SUFFICES ASSUME n \notin Component(g, m)
                PROVE  FALSE
    OBVIOUS
  <2>. DEFINE S == g.nodes \ Component(g, m)
  <2>1. \A e \in g.edges : e[1] \in g.nodes /\ e[2] \in g.nodes
    BY DEF IsGraph
  <2>2. Closed(g, Component(g, m)) /\ m \in Component(g, m)
    BY <1>1, SearchIsClosed
  <2>3. Closed(g, S) /\ n \in S /\ S \in SUBSET g.nodes
    BY <2>1, <2>2 DEF Closed
  <2>4. m \in S
    <3>. HIDE DEF S
    <3>. QED
      BY <2>3, ComponentDef
  <2>. QED
    BY <2>2, <2>4
<1>4. Component(g, n) \subseteq Component(g, m)
  <2>1. Closed(g, Component(g, m)) /\ Component(g, m) \in SUBSET g.nodes
    BY <1>1, SearchIsClosed
  <2>. QED
    BY <1>3, <2>1, ComponentDef
<1>. QED
  BY <1>2, <1>4

\* What is known of the nodes of a partition of colour c.
LEMMA PartitionNodes ==
    ASSUME NEW g, IsGraph(g), NEW c, NEW P \in Components(g, c)
    PROVE  /\ P # {} /\ P \subseteq g.nodes
           /\ \A n \in P : g.color[n] = c /\ Component(g, n) = P
           /\ Closed(g, P)
<1>1. PICK n \in g.nodes : g.color[n] = c /\ P = Component(g, n)
  BY DEF Components
<1>. QED
  BY <1>1, SearchIsClosed, SearchFromAnyNode

\* Every node is in a partition of its colour.
LEMMA NodeHasPartition ==
    ASSUME NEW g, IsGraph(g), NEW n \in g.nodes
    PROVE  Component(g, n) \in Components(g, g.color[n]) /\ n \in Component(g, n)
BY SearchIsClosed DEF Components

\* An edge between nodes of one colour is inside each partition it touches.
LEMMA EdgesOfPartition ==
    ASSUME NEW g, IsGraph(g), NEW c, NEW P \in Components(g, c), NEW e \in g.edges
    PROVE  /\ e[1] \in P /\ e[2] \notin P => e \in Crossing(g) /\ g.color[e[1]] = c /\ g.color[e[2]] # c
           /\ e[2] \in P /\ e[1] \notin P => e \in Crossing(g) /\ g.color[e[2]] = c /\ g.color[e[1]] # c
           /\ e[1] \in P /\ e[2] \in P => e \in Inner(g, P) /\ e \notin Crossing(g)
BY PartitionNodes DEF Closed, Crossing, Inner

---------------------------------------------------------------------------
(* What runs on what: Arguments satisfies the equation it is defined by. *)

\* Of a set of nodes, one has no predecessor in the set.
LEMMA HasMinimal ==
    ASSUME NEW g, IsGraph(g), NEW T \in SUBSET g.nodes, T # {}
    PROVE  \E n \in T : \A e \in g.edges : e[2] = n => e[1] \notin T
BY DEF IsGraph, Acyclic

\* The arguments of a node are a function of those of its predecessors.
LEMMA ArgumentsOfStable ==
    ASSUME NEW g, NEW P, NEW given, NEW X, DOMAIN given \in SUBSET (X \X Nat),
           NEW n, NEW a, NEW b,
           \A e \in Inner(g, P) : e[2] = n => a[e[1]] = b[e[1]]
    PROVE  ArgumentsOf(g, P, given, a, n) = ArgumentsOf(g, P, given, b, n)
<1>. DEFINE into == {e \in Inner(g, P) : e[2] = n}
            of(p) == CHOOSE e \in into : g.to[e] = p
            ports == {g.to[e] : e \in into} \cup {i[2] : i \in {j \in DOMAIN given : j[1] = n}}
            datum(f, p) == IF <<n, p>> \in DOMAIN given THEN given[<<n, p>>]
                           ELSE Value(of(p)[1], g.from[of(p)], f[of(p)[1]])
<1>1. ASSUME NEW p \in ports
      PROVE  datum(a, p) = datum(b, p)
  <2>1. CASE <<n, p>> \in DOMAIN given
    BY <2>1
  <2>2. CASE <<n, p>> \notin DOMAIN given
    <3>1. \A i \in DOMAIN given : i = <<i[1], i[2]>>
      OBVIOUS
    <3>2. \E e \in into : g.to[e] = p
      BY <2>2, <3>1
    <3>3. of(p) \in into
      BY <3>2
    <3>4. a[of(p)[1]] = b[of(p)[1]]
      BY <3>3
    <3>. QED
      BY <2>2, <3>4
  <2>. QED
    BY <2>1, <2>2
<1>2. [p \in ports |-> datum(a, p)] = [p \in ports |-> datum(b, p)]
  BY <1>1
<1>3. /\ ArgumentsOf(g, P, given, a, n) = InPortOrder([p \in ports |-> datum(a, p)])
      /\ ArgumentsOf(g, P, given, b, n) = InPortOrder([p \in ports |-> datum(b, p)])
  BY DEF ArgumentsOf
<1>. HIDE DEF datum, ports
<1>. QED
  BY <1>2, <1>3

\* f gives the nodes of S the arguments the definition wants.
Solves(g, P, given, S, f) == f = [n \in S |-> ArgumentsOf(g, P, given, f, n)]

\* The sets of nodes of P, with all their predecessors, that have arguments.
Solvable(g, P, given) ==
    {S \in SUBSET P : /\ \A e \in Inner(g, P) : e[2] \in S => e[1] \in S
                      /\ \E f : Solves(g, P, given, S, f)}

\* Arguments for S can be had for one more node.
LEMMA OneMoreNode ==
    ASSUME NEW g, IsGraph(g), NEW P \in SUBSET g.nodes,
           NEW given, DOMAIN given \in SUBSET (g.nodes \X Nat),
           NEW S \in Solvable(g, P, given), NEW n \in P \ S,
           \A e \in Inner(g, P) : e[2] = n => e[1] \in S
    PROVE  S \cup {n} \in Solvable(g, P, given)
<1>. DEFINE S2 == S \cup {n}
<1>1. PICK f : Solves(g, P, given, S, f)
  BY DEF Solvable
<1>2. PICK f2 : f2 = [m \in S2 |-> ArgumentsOf(g, P, given, f, m)]
  OBVIOUS
<1>3. \A m \in S : f2[m] = f[m]
  BY <1>1, <1>2 DEF Solves
<1>4. \A e \in Inner(g, P) : e[2] \in S2 => e[1] \in S
  BY DEF Solvable
<1>5. ASSUME NEW m \in S2
      PROVE  ArgumentsOf(g, P, given, f, m) = ArgumentsOf(g, P, given, f2, m)
  <2>1. \A e \in Inner(g, P) : e[2] = m => f[e[1]] = f2[e[1]]
    BY <1>3, <1>4
  <2>. QED
    BY <2>1, ArgumentsOfStable
<1>6. Solves(g, P, given, S2, f2)
  BY <1>2, <1>5 DEF Solves
<1>. QED
  BY <1>4, <1>6 DEF Solvable

LEMMA AllSolvable ==
    ASSUME NEW g, IsGraph(g), NEW P \in SUBSET g.nodes,
           NEW given, DOMAIN given \in SUBSET (g.nodes \X Nat)
    PROVE  P \in Solvable(g, P, given)
<1>. DEFINE Left == {P \ S : S \in Solvable(g, P, given)}
<1>1. {} \in Solvable(g, P, given)
  <2>1. PICK f : f = [n \in {} |-> ArgumentsOf(g, P, given, {}, n)]
    OBVIOUS
  <2>2. f = [n \in {} |-> ArgumentsOf(g, P, given, f, n)]
    BY <2>1
  <2>. QED
    BY <2>2 DEF Solvable, Solves
<1>2. IsFiniteSet(P)
  BY FS_Subset DEF IsGraph
<1>3. Left \subseteq FiniteSubsetsOf(P) /\ Left # {}
  <2>1. \A S : P \ S \in SUBSET P /\ IsFiniteSet(P \ S)
    BY <1>2, FS_Subset
  <2>. QED
    BY <1>1, <2>1 DEF FiniteSubsetsOf
<1>4. PICK L \in Left : \A K \in Left : <<K, L>> \notin StrictSubsetOrdering(P)
  <2>. HIDE DEF Left
  <2>. QED
    BY <1>3, FS_StrictSubsetOrderingWellFounded, WFMin
<1>5. PICK S \in Solvable(g, P, given) : L = P \ S
  OBVIOUS
<1>6. ASSUME L # {}
      PROVE  FALSE
  <2>1. PICK n \in L : \A e \in g.edges : e[2] = n => e[1] \notin L
    BY <1>5, <1>6, HasMinimal
  <2>2. n \in P \ S /\ \A e \in Inner(g, P) : e[2] = n => e[1] \in S
    BY <1>5, <2>1 DEF Inner
  <2>3. S \cup {n} \in Solvable(g, P, given)
    BY <2>2, OneMoreNode
  <2>4. P \ (S \cup {n}) \in Left
    BY <2>3
  <2>5. <<P \ (S \cup {n}), L>> \in StrictSubsetOrdering(P)
    BY <1>5, <2>2 DEF StrictSubsetOrdering
  <2>. QED
    BY <1>4, <2>4, <2>5
<1>7. S = P
  BY <1>5, <1>6 DEF Solvable
<1>. QED
  BY <1>7

LEMMA ArgumentsEquation ==
    ASSUME NEW g, IsGraph(g), NEW P \in SUBSET g.nodes,
           NEW given, DOMAIN given \in SUBSET (g.nodes \X Nat)
    PROVE  \A n \in P : Arguments(g, P, given)[n]
                          = ArgumentsOf(g, P, given, Arguments(g, P, given), n)
<1>1. \E f : f = [n \in P |-> ArgumentsOf(g, P, given, f, n)]
  BY AllSolvable DEF Solvable, Solves
<1>2. Arguments(g, P, given) = CHOOSE f : f = [n \in P |-> ArgumentsOf(g, P, given, f, n)]
  BY DEF Arguments
<1>3. Arguments(g, P, given)
        = [n \in P |-> ArgumentsOf(g, P, given, Arguments(g, P, given), n)]
  BY <1>1, <1>2
<1>. QED
  BY <1>3

---------------------------------------------------------------------------
(* Cutting a graph up does not change what its nodes are run on. *)

\* The edges of the subgraph P into n, the ports its data come in by, and the
\* datum of one.
EdgesInto(g, P, n) == {e \in Inner(g, P) : e[2] = n}
GivenPorts(given, n) == {i[2] : i \in {j \in DOMAIN given : j[1] = n}}
PortsInto(g, P, given, n) == {g.to[e] : e \in EdgesInto(g, P, n)} \cup GivenPorts(given, n)
EdgeAt(g, P, n, p) == CHOOSE e \in EdgesInto(g, P, n) : g.to[e] = p
DatumAt(g, P, given, args, n, p) ==
    IF <<n, p>> \in DOMAIN given THEN given[<<n, p>>]
    ELSE Value(EdgeAt(g, P, n, p)[1], g.from[EdgeAt(g, P, n, p)], args[EdgeAt(g, P, n, p)[1]])

LEMMA ArgumentsOfDef ==
    ASSUME NEW g, NEW P, NEW given, NEW args, NEW n
    PROVE  ArgumentsOf(g, P, given, args, n) =
             InPortOrder([p \in PortsInto(g, P, given, n) |-> DatumAt(g, P, given, args, n, p)])
BY DEF ArgumentsOf, PortsInto, GivenPorts, EdgesInto, DatumAt, EdgeAt

LEMMA SameArguments ==
    ASSUME NEW g, NEW n, NEW P, NEW given, NEW args, NEW Q, NEW other, NEW args2,
           PortsInto(g, P, given, n) = PortsInto(g, Q, other, n),
           \A p \in PortsInto(g, P, given, n) :
              DatumAt(g, P, given, args, n, p) = DatumAt(g, Q, other, args2, n, p)
    PROVE  ArgumentsOf(g, P, given, args, n) = ArgumentsOf(g, Q, other, args2, n)
<1>1. [p \in PortsInto(g, P, given, n) |-> DatumAt(g, P, given, args, n, p)]
        = [p \in PortsInto(g, Q, other, n) |-> DatumAt(g, Q, other, args2, n, p)]
  OBVIOUS
<1>. QED
  BY <1>1, ArgumentsOfDef

\* The data of NodeInputs.
LEMMA RawInputsDomain ==
    ASSUME NEW S
    PROVE  DOMAIN RawInputs(S) = S \X {0}
BY DEF RawInputs

LEMMA RawInputsTyped ==
    ASSUME NEW N, NEW S \in SUBSET N
    PROVE  DOMAIN RawInputs(S) \in SUBSET (N \X Nat)
<1>1. S \X {0} \in SUBSET (N \X Nat)
  OBVIOUS
<1>. QED
  BY <1>1, RawInputsDomain, Zenon

LEMMA FedNodeInput ==
    ASSUME NEW S, NEW n \in S
    PROVE  /\ \A p : <<n, p>> \in DOMAIN RawInputs(S) <=> p = 0
           /\ GivenPorts(RawInputs(S), n) = {0}
           /\ RawInputs(S)[<<n, 0>>] = Raw(n)
<1>1. \A p : <<n, p>> \in DOMAIN RawInputs(S) <=> p = 0
  <2>1. \A p : <<n, p>> \in S \X {0} <=> p = 0
    OBVIOUS
  <2>. QED
    BY <2>1, RawInputsDomain, Zenon
<1>2. \A j \in S \X {0} : j[2] = 0
  OBVIOUS
<1>3. <<n, 0>> \in S \X {0}
  OBVIOUS
<1>4. GivenPorts(RawInputs(S), n) = {0}
  BY <1>2, <1>3, RawInputsDomain DEF GivenPorts
<1>5. RawInputs(S)[<<n, 0>>] = Raw(n)
  BY <1>3 DEF RawInputs
<1>. QED
  BY <1>1, <1>4, <1>5

LEMMA OtherNodeInput ==
    ASSUME NEW S, NEW n, n \notin S
    PROVE  /\ \A p : <<n, p>> \notin DOMAIN RawInputs(S)
           /\ GivenPorts(RawInputs(S), n) = {}
<1>1. \A j \in S \X {0} : j[1] \in S
  OBVIOUS
<1>2. \A p : <<n, p>> \notin S \X {0}
  OBVIOUS
<1>3. \A p : <<n, p>> \notin DOMAIN RawInputs(S)
  BY <1>2, RawInputsDomain, Zenon
<1>4. {j \in S \X {0} : j[1] = n} = {}
  BY <1>1
<1>5. GivenPorts(RawInputs(S), n) = {i[2] : i \in {j \in S \X {0} : j[1] = n}}
  BY RawInputsDomain DEF GivenPorts
<1>. QED
  BY <1>3, <1>4, <1>5

\* The arguments of the nodes when the graph is run as a whole, and what an
\* edge of it then carries.
WholeArguments(g) == Arguments(g, g.nodes, RawInputs(g.fed))
Carried(g, e) == Value(e[1], g.from[e], WholeArguments(g)[e[1]])

Entering(g, P) == {e \in g.edges : e[2] \in P /\ e[1] \notin P}

\* `given` are the data the graph has for the partition P.
GivenOf(g, P, given) ==
    \/ P \cap g.fed # {} /\ given = RawInputs(P \cap g.fed)
    \/ /\ P \cap g.fed = {}
       /\ DOMAIN given = {<<e[2], g.to[e]>> : e \in Entering(g, P)}
       /\ \A e \in Entering(g, P) : given[<<e[2], g.to[e]>>] = Carried(g, e)

\* The edges into a node of a partition are all inside it or all enter it.
LEMMA EdgesIntoNode ==
    ASSUME NEW g, IsGraph(g), Entered(g), NEW c, NEW P \in Components(g, c), NEW n \in P
    PROVE  /\ EdgesInto(g, g.nodes, n) = {e \in g.edges : e[2] = n}
           /\ \/ /\ EdgesInto(g, P, n) = EdgesInto(g, g.nodes, n)
                 /\ \A e \in Entering(g, P) : e[2] # n
              \/ /\ EdgesInto(g, P, n) = {} /\ P \cap g.fed = {}
                 /\ \A e \in g.edges : e[2] = n => e \in Entering(g, P)
<1>1. EdgesInto(g, g.nodes, n) = {e \in g.edges : e[2] = n}
  BY DEF IsGraph, EdgesInto, Inner
<1>2. CASE \E e \in Entering(g, P) : e[2] = n
  <2>1. PICK d \in Entering(g, P) : d[2] = n
    BY <1>2
  <2>2. d \in Crossing(g) /\ Component(g, n) = P
    BY <2>1, EdgesOfPartition, PartitionNodes DEF Entering
  <2>3. P \cap g.fed = {} /\ n \in SourcesOf(g, P)
    BY <2>1, <2>2 DEF Entered
  <2>4. EdgesInto(g, P, n) = {}
    BY <2>3 DEF SourcesOf, EdgesInto
  <2>5. \A e \in g.edges : e[2] = n => e \in Entering(g, P)
    BY <2>4, EdgesOfPartition DEF Entering, EdgesInto
  <2>. QED
    BY <1>1, <2>3, <2>4, <2>5
<1>3. CASE \A e \in Entering(g, P) : e[2] # n
  <2>1. \A e \in g.edges : e[2] = n => e \in Inner(g, P)
    BY <1>3, EdgesOfPartition DEF Entering
  <2>2. EdgesInto(g, P, n) = EdgesInto(g, g.nodes, n)
    BY <1>1, <2>1 DEF EdgesInto, Inner
  <2>. QED
    BY <1>1, <1>3, <2>2
<1>. QED
  BY <1>2, <1>3

\* The data of NodeInputs come to a fed node of a partition as to the graph's.
LEMMA FedNodeAgrees ==
    ASSUME NEW g, IsGraph(g), NEW P \in SUBSET g.nodes, NEW n \in P, NEW args,
           EdgesInto(g, P, n) = EdgesInto(g, g.nodes, n),
           \A e \in EdgesInto(g, P, n) : args[e[1]] = WholeArguments(g)[e[1]]
    PROVE  ArgumentsOf(g, P, RawInputs(P \cap g.fed), args, n)
             = ArgumentsOf(g, g.nodes, RawInputs(g.fed), WholeArguments(g), n)
<1>. DEFINE given == RawInputs(P \cap g.fed)
            raw == RawInputs(g.fed)
<1>1. /\ GivenPorts(given, n) = GivenPorts(raw, n)
      /\ \A p : <<n, p>> \in DOMAIN given <=> <<n, p>> \in DOMAIN raw
      /\ \A p : <<n, p>> \in DOMAIN raw => n \in g.fed /\ p = 0 /\ given[<<n, p>>] = raw[<<n, p>>]
  <2>1. CASE n \in g.fed
    <3>1. n \in P \cap g.fed
      BY <2>1
    <3>2. /\ \A p : <<n, p>> \in DOMAIN given <=> p = 0
          /\ GivenPorts(given, n) = {0} /\ given[<<n, 0>>] = Raw(n)
      BY <3>1, FedNodeInput
    <3>3. /\ \A p : <<n, p>> \in DOMAIN raw <=> p = 0
          /\ GivenPorts(raw, n) = {0} /\ raw[<<n, 0>>] = Raw(n)
      BY <2>1, FedNodeInput
    <3>. HIDE DEF given, raw
    <3>. QED
      BY <2>1, <3>2, <3>3
  <2>2. CASE n \notin g.fed
    <3>1. n \notin P \cap g.fed
      BY <2>2
    <3>2. (\A p : <<n, p>> \notin DOMAIN given) /\ GivenPorts(given, n) = {}
      BY <3>1, OtherNodeInput
    <3>3. (\A p : <<n, p>> \notin DOMAIN raw) /\ GivenPorts(raw, n) = {}
      BY <2>2, OtherNodeInput
    <3>. HIDE DEF given, raw
    <3>. QED
      BY <2>2, <3>2, <3>3
  <2>. QED
    BY <2>1, <2>2
<1>2. \A p : <<n, p>> \notin DOMAIN raw => p \notin GivenPorts(raw, n)
  <2>1. CASE n \in g.fed
    <3>1. (\A p : <<n, p>> \in DOMAIN raw <=> p = 0) /\ GivenPorts(raw, n) = {0}
      BY <2>1, FedNodeInput
    <3>. HIDE DEF raw
    <3>. QED
      BY <3>1
  <2>2. CASE n \notin g.fed
    <3>1. GivenPorts(raw, n) = {}
      BY <2>2, OtherNodeInput
    <3>. HIDE DEF raw
    <3>. QED
      BY <3>1
  <2>. QED
    BY <2>1, <2>2
<1>. HIDE DEF given, raw
<1>3. PortsInto(g, P, given, n) = PortsInto(g, g.nodes, raw, n)
  BY <1>1 DEF PortsInto
<1>4. ASSUME NEW p \in PortsInto(g, P, given, n)
      PROVE  DatumAt(g, P, given, args, n, p) = DatumAt(g, g.nodes, raw, WholeArguments(g), n, p)
  <2>1. CASE <<n, p>> \in DOMAIN raw
    BY <1>1, <2>1 DEF DatumAt
  <2>2. CASE <<n, p>> \notin DOMAIN raw
    <3>1. \E e \in EdgesInto(g, P, n) : g.to[e] = p
      BY <1>1, <1>2, <2>2 DEF PortsInto
    <3>2. EdgeAt(g, P, n, p) \in EdgesInto(g, P, n)
      BY <3>1 DEF EdgeAt
    <3>3. EdgeAt(g, P, n, p) = EdgeAt(g, g.nodes, n, p)
      BY DEF EdgeAt
    <3>. QED
      BY <1>1, <2>2, <3>2, <3>3 DEF DatumAt
  <2>. QED
    BY <2>1, <2>2
<1>5. ArgumentsOf(g, P, given, args, n)
        = ArgumentsOf(g, g.nodes, raw, WholeArguments(g), n)
  BY <1>3, <1>4, SameArguments
<1>. QED
  BY <1>5 DEF given, raw

\* Data that other partitions computed come to the node of a partition they
\* are for as over the edges of the graph, and to no other one.
LEMMA NodeWithoutFeedAgrees ==
    ASSUME NEW g, IsGraph(g), Entered(g), NEW c, NEW P \in Components(g, c), NEW n \in P,
           NEW given, P \cap g.fed = {}, GivenOf(g, P, given), NEW args,
           \A e \in EdgesInto(g, P, n) : args[e[1]] = WholeArguments(g)[e[1]]
    PROVE  ArgumentsOf(g, P, given, args, n)
             = ArgumentsOf(g, g.nodes, RawInputs(g.fed), WholeArguments(g), n)
<1>. DEFINE raw == RawInputs(g.fed)
            E == {e \in g.edges : e[2] = n}
<1>1. GivenPorts(raw, n) = {} /\ \A p : <<n, p>> \notin DOMAIN raw
  <2>1. n \notin g.fed
    OBVIOUS
  <2>. QED
    BY <2>1, OtherNodeInput
<1>2. DOMAIN given = {<<e[2], g.to[e]>> : e \in Entering(g, P)}
      /\ \A e \in Entering(g, P) : given[<<e[2], g.to[e]>>] = Carried(g, e)
  BY DEF GivenOf
<1>3. EdgesInto(g, g.nodes, n) = E /\ E \subseteq g.edges
  BY EdgesIntoNode
<1>. HIDE DEF raw
<1>4. PortsInto(g, g.nodes, raw, n) = {g.to[e] : e \in E}
  BY <1>1, <1>3 DEF PortsInto
<1>5. CASE /\ EdgesInto(g, P, n) = E
           /\ \A e \in Entering(g, P) : e[2] # n
  <2>1. GivenPorts(given, n) = {} /\ \A p : <<n, p>> \notin DOMAIN given
    BY <1>2, <1>5 DEF GivenPorts
  <2>2. PortsInto(g, P, given, n) = {g.to[e] : e \in E}
    BY <2>1, <1>5 DEF PortsInto
  <2>3. ASSUME NEW p \in {g.to[e] : e \in E}
        PROVE  DatumAt(g, P, given, args, n, p)
                 = DatumAt(g, g.nodes, raw, WholeArguments(g), n, p)
    <3>1. EdgeAt(g, P, n, p) \in E /\ EdgeAt(g, P, n, p) = EdgeAt(g, g.nodes, n, p)
      BY <1>3, <1>5 DEF EdgeAt
    <3>. QED
      BY <1>1, <1>5, <2>1, <3>1 DEF DatumAt
  <2>4. PortsInto(g, P, given, n) = PortsInto(g, g.nodes, raw, n)
    BY <1>4, <2>2
  <2>5. ArgumentsOf(g, P, given, args, n)
          = ArgumentsOf(g, g.nodes, raw, WholeArguments(g), n)
    BY <2>2, <2>3, <2>4, SameArguments
  <2>. QED
    BY <2>5 DEF raw
<1>6. CASE /\ EdgesInto(g, P, n) = {}
           /\ \A e \in g.edges : e[2] = n => e \in Entering(g, P)
  <2>1. GivenPorts(given, n) = {g.to[e] : e \in E}
    <3>1. \A x \in DOMAIN given : x[1] = n => \E e \in E : x = <<n, g.to[e]>>
      BY <1>2 DEF Entering
    <3>2. \A e \in E : <<n, g.to[e]>> \in DOMAIN given
      BY <1>2, <1>6
    <3>3. GivenPorts(given, n) \subseteq {g.to[e] : e \in E}
      <4>1. ASSUME NEW x \in DOMAIN given, x[1] = n
            PROVE  x[2] \in {g.to[e] : e \in E}
        <5>1. PICK e \in E : x = <<n, g.to[e]>>
          BY <3>1, <4>1
        <5>. QED
          BY <5>1
      <4>. QED
        BY <4>1 DEF GivenPorts
    <3>4. ASSUME NEW e \in E
          PROVE  g.to[e] \in GivenPorts(given, n)
      <4>1. PICK x : x = <<n, g.to[e]>>
        OBVIOUS
      <4>2. x \in DOMAIN given /\ x[1] = n /\ x[2] = g.to[e]
        BY <3>2, <4>1
      <4>. QED
        BY <4>2 DEF GivenPorts
    <3>. QED
      BY <3>3, <3>4
  <2>2. PortsInto(g, P, given, n) = {g.to[e] : e \in E}
    BY <2>1, <1>6 DEF PortsInto
  <2>3. ASSUME NEW p \in {g.to[e] : e \in E}
        PROVE  DatumAt(g, P, given, args, n, p)
                 = DatumAt(g, g.nodes, raw, WholeArguments(g), n, p)
    <3>1. PICK e \in E : g.to[e] = p
      OBVIOUS
    <3>2. <<n, p>> \in DOMAIN given /\ given[<<n, p>>] = Carried(g, e)
      BY <1>2, <1>6, <3>1
    <3>3. \A d \in E : g.to[d] = p => d = e
      BY <3>1 DEF IsGraph
    <3>4. EdgeAt(g, g.nodes, n, p) = e
      BY <1>3, <3>1, <3>3 DEF EdgeAt
    <3>. QED
      BY <1>1, <3>2, <3>4 DEF DatumAt, Carried
  <2>4. PortsInto(g, P, given, n) = PortsInto(g, g.nodes, raw, n)
    BY <1>4, <2>2
  <2>5. ArgumentsOf(g, P, given, args, n)
          = ArgumentsOf(g, g.nodes, raw, WholeArguments(g), n)
    BY <2>2, <2>3, <2>4, SameArguments
  <2>. QED
    BY <2>5 DEF raw
<1>. QED
  BY <1>3, <1>5, <1>6, EdgesIntoNode

\* Run on the data the graph has for it, a partition gives each of its nodes
\* the arguments that running the whole graph gives it.
LEMMA PartitionAgrees ==
    ASSUME NEW g, IsGraph(g), Entered(g), NEW c, NEW P \in Components(g, c),
           NEW given, GivenOf(g, P, given)
    PROVE  \A n \in P : Arguments(g, P, given)[n] = WholeArguments(g)[n]
<1>. DEFINE T == {n \in P : Arguments(g, P, given)[n] # WholeArguments(g)[n]}
<1>1. P \subseteq g.nodes
  BY PartitionNodes
<1>2. DOMAIN given \in SUBSET (g.nodes \X Nat)
  <2>1. DOMAIN RawInputs(P \cap g.fed) \in SUBSET (g.nodes \X Nat)
    BY <1>1, RawInputsTyped
  <2>2. \A e \in Entering(g, P) : <<e[2], g.to[e]>> \in g.nodes \X Nat
    BY <1>1 DEF Entering, IsGraph
  <2>. QED
    BY <1>1, <2>1, <2>2 DEF GivenOf
<1>3. DOMAIN RawInputs(g.fed) \in SUBSET (g.nodes \X Nat) /\ g.nodes \in SUBSET g.nodes
  BY RawInputsTyped DEF IsGraph
<1>4. SUFFICES ASSUME T # {} PROVE FALSE
  OBVIOUS
<1>5. PICK n \in T : \A e \in g.edges : e[2] = n => e[1] \notin T
  BY <1>1, <1>4, HasMinimal
<1>6. n \in P /\ Arguments(g, P, given)[n] # WholeArguments(g)[n]
  OBVIOUS
<1>7. \A e \in EdgesInto(g, P, n) : Arguments(g, P, given)[e[1]] = WholeArguments(g)[e[1]]
  BY <1>5 DEF EdgesInto, Inner
<1>. HIDE DEF T
<1>8. Arguments(g, P, given)[n] = ArgumentsOf(g, P, given, Arguments(g, P, given), n)
  BY <1>1, <1>2, <1>6, ArgumentsEquation
<1>9. WholeArguments(g)[n] = ArgumentsOf(g, g.nodes, RawInputs(g.fed), WholeArguments(g), n)
  BY <1>1, <1>3, <1>6, ArgumentsEquation DEF WholeArguments
<1>10. CASE P \cap g.fed # {}
  <2>1. given = RawInputs(P \cap g.fed)
    BY <1>10 DEF GivenOf
  <2>2. EdgesInto(g, P, n) = EdgesInto(g, g.nodes, n)
    BY <1>6, <1>10, EdgesIntoNode
  <2>. QED
    BY <1>1, <1>6, <1>7, <1>8, <1>9, <2>1, <2>2, FedNodeAgrees
<1>11. CASE P \cap g.fed = {}
  BY <1>6, <1>7, <1>8, <1>9, <1>11, NodeWithoutFeedAgrees
<1>. QED
  BY <1>10, <1>11

---------------------------------------------------------------------------
(* The routes of a partition. *)

\* A set of nodes of which there is one.
LEMMA OnlyNode ==
    ASSUME NEW g, IsGraph(g), NEW S \in SUBSET g.nodes, Cardinality(S) = 1
    PROVE  \E n \in S : S = {n} /\ n = CHOOSE m \in S : TRUE
<1>1. IsFiniteSet(S)
  BY FS_Subset DEF IsGraph
<1>2. PICK n : S = {n}
  BY <1>1, FS_Singleton
<1>. QED
  BY <1>2

\* r is where the outputs of a partition P of colour c leave it.
LeavesAt(g, c, P, r) ==
    /\ r \in P /\ \A e \in Inner(g, P) : e[1] # r
    /\ \A e \in From(g, r) :
          /\ e \in Crossing(g) /\ e[1] = r
          /\ g.color[e[1]] = c /\ g.color[e[2]] \in Color \ {c}
    /\ DOMAIN Parents(g, P) = {g.color[e[2]] : e \in From(g, r)}
    /\ \A e \in From(g, r) : Parents(g, P)[g.color[e[2]]] = <<r, g.from[e]>>

LEMMA RootFacts ==
    ASSUME NEW g, IsGraph(g), PartitionOk(g), NEW c \in Color, NEW P \in Components(g, c)
    PROVE  LeavesAt(g, c, P, Root(g, P))
<1>1. P \in UNION {Components(g, d) : d \in Color} /\ P \subseteq g.nodes
  BY PartitionNodes
<1>2. Cardinality(SinksOf(g, P)) = 1 /\ SinksOf(g, P) \in SUBSET g.nodes
      /\ \A d, e \in From(g, Root(g, P)) : g.color[d[2]] = g.color[e[2]] => d = e
  BY <1>1 DEF PartitionOk, SinksOf
<1>3. PICK r : r = Root(g, P)
  OBVIOUS
<1>4. r \in SinksOf(g, P)
  BY <1>2, <1>3, OnlyNode DEF Root
<1>5. r \in P /\ \A e \in Inner(g, P) : e[1] # r
  BY <1>4 DEF SinksOf
<1>6. ASSUME NEW e \in From(g, r)
      PROVE  e \in Crossing(g) /\ e[1] = r /\ g.color[e[1]] = c /\ g.color[e[2]] \in Color \ {c}
  <2>1. e \in g.edges /\ e[1] = r /\ e[2] \in g.nodes
    BY DEF From, IsGraph
  <2>2. e[2] \notin P
    BY <1>5, <2>1 DEF Inner
  <2>. QED
    BY <1>5, <2>1, <2>2, EdgesOfPartition DEF IsGraph
<1>7. PICK f : f = Parents(g, P)
  OBVIOUS
<1>8. f = [k \in {g.color[e[2]] : e \in From(g, r)} |->
             <<r, g.from[CHOOSE e \in From(g, r) : g.color[e[2]] = k]>>]
  BY <1>3, <1>7 DEF Parents
<1>9. ASSUME NEW e \in From(g, r)
      PROVE  f[g.color[e[2]]] = <<r, g.from[e]>>
  <2>1. \A d \in From(g, r) : g.color[d[2]] = g.color[e[2]] => d = e
    BY <1>2, <1>3
  <2>2. (CHOOSE d \in From(g, r) : g.color[d[2]] = g.color[e[2]]) = e
    BY <2>1
  <2>. QED
    BY <1>8, <2>2
<1>10. DOMAIN f = {g.color[e[2]] : e \in From(g, r)}
  BY <1>8
<1>11. LeavesAt(g, c, P, r)
  BY <1>5, <1>6, <1>7, <1>9, <1>10 DEF LeavesAt
<1>. QED
  BY <1>3, <1>11

\* Each parent stands for an edge from the root.
LEMMA ParentEdge ==
    ASSUME NEW g, IsGraph(g), PartitionOk(g), NEW c \in Color, NEW P \in Components(g, c),
           NEW k \in DOMAIN Parents(g, P)
    PROVE  \E e \in From(g, Root(g, P)) :
              /\ k = g.color[e[2]] /\ g.color[e[2]] \in Color \ {c}
              /\ Parents(g, P)[k] = <<Root(g, P), g.from[e]>>
<1>1. PICK r : r = Root(g, P)
  OBVIOUS
<1>2. LeavesAt(g, c, P, r)
  BY <1>1, RootFacts
<1>3. PICK e \in From(g, r) : k = g.color[e[2]]
  BY <1>2 DEF LeavesAt
<1>. QED
  BY <1>1, <1>2, <1>3 DEF LeavesAt

\* s is where the data of a partition P of colour c come from.
EntersAt(g, c, P, s) ==
    /\ SourcesOf(g, P) = {s}
    /\ Into(g, s) \subseteq Entering(g, P) /\ Into(g, s) # {}
    /\ \A e \in Into(g, s) : g.color[e[1]] \in Color \ {c}
    /\ DOMAIN Children(g, P) = {g.color[e[1]] : e \in Into(g, s)}
    /\ \A e \in Into(g, s) :
          (\A d \in Into(g, s) : g.color[d[1]] = g.color[e[1]] => d = e)
            => Children(g, P)[g.color[e[1]]] = <<s, g.to[e]>>

LEMMA ChildrenFacts ==
    ASSUME NEW g, IsGraph(g), PartitionOk(g), NEW c \in Color, NEW P \in Components(g, c),
           P \cap g.fed = {}
    PROVE  \E s \in P : EntersAt(g, c, P, s)
<1>1. P \in UNION {Components(g, d) : d \in Color} /\ P \subseteq g.nodes
  BY PartitionNodes
<1>2. Cardinality(SourcesOf(g, P)) = 1 /\ SourcesOf(g, P) \in SUBSET g.nodes
      /\ \A s \in SourcesOf(g, P) : Into(g, s) # {}
  BY <1>1 DEF PartitionOk, SourcesOf
<1>3. PICK s \in SourcesOf(g, P) : SourcesOf(g, P) = {s} /\ s = CHOOSE m \in SourcesOf(g, P) : TRUE
  BY <1>2, OnlyNode
<1>4. s \in P /\ \A e \in Inner(g, P) : e[2] # s
  BY <1>3 DEF SourcesOf
<1>5. ASSUME NEW e \in Into(g, s)
      PROVE  e \in Entering(g, P) /\ g.color[e[1]] \in Color \ {c}
  <2>1. e \in g.edges /\ e[2] = s /\ e[1] \in g.nodes
    BY DEF Into, IsGraph
  <2>2. e[1] \notin P
    BY <1>4, <2>1 DEF Inner
  <2>. QED
    BY <1>4, <2>1, <2>2, EdgesOfPartition DEF IsGraph, Entering
<1>6. PICK f : f = Children(g, P)
  OBVIOUS
<1>. DEFINE of(k) == {e \in Into(g, s) : g.color[e[1]] = k}
            last(k) == CHOOSE e \in of(k) : \A d \in of(k) : g.to[d] <= g.to[e]
<1>7. f = [k \in {g.color[e[1]] : e \in Into(g, s)} |-> <<s, g.to[last(k)]>>]
  BY <1>3, <1>6 DEF Children
<1>8. ASSUME NEW e \in Into(g, s),
             \A d \in Into(g, s) : g.color[d[1]] = g.color[e[1]] => d = e
      PROVE  f[g.color[e[1]]] = <<s, g.to[e]>>
  <2>. DEFINE k == g.color[e[1]]
  <2>1. of(k) = {e}
    BY <1>8
  <2>2. g.to[e] \in Nat
    BY DEF Into, IsGraph
  <2>3. last(k) = e
    BY <2>1, <2>2
  <2>. QED
    BY <1>7, <2>3
<1>9. DOMAIN f = {g.color[e[1]] : e \in Into(g, s)}
  BY <1>7
<1>. HIDE DEF of, last
<1>. QED
  BY <1>2, <1>3, <1>4, <1>5, <1>6, <1>8, <1>9 DEF EntersAt

\* f has, for each colour that feeds the partition P of colour c, where the one
\* edge from that colour enters.
OneEdgeEach(g, c, P, f) ==
    /\ \A e \in Entering(g, P) :
          /\ e \in Crossing(g) /\ SourcesOf(g, P) = {e[2]} /\ g.color[e[2]] = c
          /\ g.color[e[1]] \in DOMAIN f /\ f[g.color[e[1]]] = <<e[2], g.to[e]>>
    /\ \A k \in DOMAIN f : \E e \in Entering(g, P) : g.color[e[1]] = k
    /\ \A d, e \in Entering(g, P) : g.color[d[1]] = g.color[e[1]] => d = e

\* When no two edges join the same two colours, the output of a colour is that
\* of one edge.
LEMMA ChildIsAnEdge ==
    ASSUME NEW g, IsGraph(g), Supported(g), NEW c \in Color, NEW P \in Components(g, c),
           P \cap g.fed = {}
    PROVE  OneEdgeEach(g, c, P, Children(g, P))
<1>1. PartitionOk(g) /\ Entered(g) /\ Unambiguous(g)
  BY DEF Supported
<1>2. PICK s \in P : EntersAt(g, c, P, s)
  BY <1>1, ChildrenFacts
<1>3. \A e \in Entering(g, P) : e \in Crossing(g) /\ g.color[e[2]] = c
  BY EdgesOfPartition DEF Entering
<1>4. \A e \in Entering(g, P) : e[2] = s /\ e \in Into(g, s)
  <2>. TAKE e \in Entering(g, P)
  <2>1. e \in g.edges /\ e[2] \in P /\ Component(g, e[2]) = P
    BY PartitionNodes DEF Entering
  <2>2. e[2] \in SourcesOf(g, P)
    BY <1>1, <1>3, <2>1 DEF Entered
  <2>. QED
    BY <1>2, <2>1, <2>2 DEF Into, EntersAt
<1>5. \A d, e \in Entering(g, P) : g.color[d[1]] = g.color[e[1]] => d = e
  BY <1>1, <1>3 DEF Unambiguous
<1>6. ASSUME NEW e \in Entering(g, P)
      PROVE  /\ g.color[e[1]] \in DOMAIN Children(g, P)
             /\ Children(g, P)[g.color[e[1]]] = <<e[2], g.to[e]>>
  <2>1. e \in Into(g, s) /\ e[2] = s
    BY <1>4
  <2>2. g.color[e[1]] \in DOMAIN Children(g, P)
    BY <1>2, <2>1 DEF EntersAt
  <2>3. \A d \in Into(g, s) : g.color[d[1]] = g.color[e[1]] => d = e
    BY <1>2, <1>5 DEF EntersAt
  <2>. QED
    BY <1>2, <2>1, <2>2, <2>3 DEF EntersAt
<1>7. \A k \in DOMAIN Children(g, P) : \E e \in Entering(g, P) : g.color[e[1]] = k
  BY <1>2 DEF EntersAt
<1>8. SourcesOf(g, P) = {s}
  BY <1>2 DEF EntersAt
<1>. QED
  BY <1>3, <1>4, <1>5, <1>6, <1>7, <1>8 DEF OneEdgeEach

---------------------------------------------------------------------------
(* The partitions are found. *)

\* The node dag_order takes after f[1], ..., f[i - 1].
Following(g, f, i) ==
    LET seen == {f[j] : j \in 1 .. i - 1}
        next == {n \in g.nodes \ seen : {e[1] : e \in Into(g, n)} \subseteq seen}
    IN  CHOOSE n \in next : \A m \in next : n <= m

LEMMA FollowingStable ==
    ASSUME NEW g, NEW i \in Nat, NEW a, NEW b, \A j \in 1 .. i - 1 : a[j] = b[j]
    PROVE  Following(g, a, i) = Following(g, b, i)
<1>1. {a[j] : j \in 1 .. i - 1} = {b[j] : j \in 1 .. i - 1}
  OBVIOUS
<1>. QED
  BY <1>1 DEF Following

LEMMA ForwardEquation ==
    ASSUME NEW g, IsGraph(g)
    PROVE  /\ DOMAIN Forward(g) = 1 .. Cardinality(g.nodes)
           /\ \A i \in 1 .. Cardinality(g.nodes) : Forward(g)[i] = Following(g, Forward(g), i)
<1>. DEFINE T == {k \in Nat : ~ \E f : f = [i \in 1 .. k |-> Following(g, f, i)]}
<1>1. ASSUME T # {}
      PROVE  FALSE
  <2>1. PICK k \in T : \A j \in T : k <= j
    BY <1>1, Least
  <2>2. k # 0
    <3>1. PICK f : f = [i \in 1 .. 0 |-> Following(g, <<>>, i)]
      OBVIOUS
    <3>2. f = [i \in 1 .. 0 |-> Following(g, f, i)]
      BY <3>1
    <3>. QED
      BY <3>2
  <2>3. k \in Nat /\ k - 1 \in Nat /\ k - 1 \notin T
    BY <2>1, <2>2
  <2>4. PICK f : f = [i \in 1 .. k - 1 |-> Following(g, f, i)]
    BY <2>3
  <2>5. PICK h : h = [i \in 1 .. k |-> Following(g, f, i)]
    OBVIOUS
  <2>6. \A i \in 1 .. k - 1 : h[i] = f[i]
    BY <2>3, <2>4, <2>5
  <2>7. ASSUME NEW i \in 1 .. k
        PROVE  Following(g, f, i) = Following(g, h, i)
    <3>1. i \in Nat /\ \A j \in 1 .. i - 1 : f[j] = h[j]
      BY <2>3, <2>6
    <3>. QED
      BY <3>1, FollowingStable
  <2>8. h = [i \in 1 .. k |-> Following(g, h, i)]
    BY <2>5, <2>7
  <2>. QED
    BY <2>1, <2>8
<1>2. PICK N : N = Cardinality(g.nodes)
  OBVIOUS
<1>3. N \in Nat
  BY <1>2, FS_CardinalityType DEF IsGraph
<1>4. \E f : f = [i \in 1 .. N |-> Following(g, f, i)]
  BY <1>1, <1>3
<1>5. Forward(g) = CHOOSE f : f = [i \in 1 .. N |-> Following(g, f, i)]
  BY <1>2 DEF Forward, Following
<1>6. Forward(g) = [i \in 1 .. N |-> Following(g, Forward(g), i)]
  BY <1>4, <1>5
<1>. QED
  BY <1>2, <1>6

\* dag_order visits every node, and none twice.
LEMMA ForwardVisitsAll ==
    ASSUME NEW g, IsGraph(g)
    PROVE  /\ \A i \in DOMAIN Forward(g) :
                 /\ Forward(g)[i] \in g.nodes
                 /\ \A e \in g.edges : e[2] = Forward(g)[i] =>
                       \E j \in 1 .. i - 1 : Forward(g)[j] = e[1]
           /\ \A n \in g.nodes : \E i \in DOMAIN Forward(g) : Forward(g)[i] = n
<1>1. PICK N : N = Cardinality(g.nodes) /\ N \in Nat
  BY FS_CardinalityType DEF IsGraph
<1>2. PICK at : at = Forward(g)
  OBVIOUS
<1>3. DOMAIN at = 1 .. N /\ \A i \in 1 .. N : at[i] = Following(g, at, i)
  BY <1>1, <1>2, ForwardEquation
<1>4. ASSUME NEW i \in 1 .. N
      PROVE  /\ at[i] \in g.nodes /\ \A j \in 1 .. i - 1 : at[j] # at[i]
             /\ \A e \in g.edges : e[2] = at[i] => \E j \in 1 .. i - 1 : at[j] = e[1]
  <2>. DEFINE seen == {at[j] : j \in 1 .. i - 1}
              next == {n \in g.nodes \ seen : {e[1] : e \in Into(g, n)} \subseteq seen}
  <2>1. i - 1 \in Nat /\ i - 1 < N
    BY <1>1
  <2>2. g.nodes \ seen # {}
    <3>. SUFFICES ASSUME g.nodes \subseteq seen
                  PROVE  FALSE
      OBVIOUS
    <3>. DEFINE f == [j \in 1 .. i - 1 |-> at[j]]
    <3>1. f \in Surjection(1 .. i - 1, seen)
      BY DEF Surjection
    <3>2. ExistsSurjection(1 .. i - 1, seen)
      BY <3>1 DEF ExistsSurjection
    <3>3. IsFiniteSet(seen) /\ Cardinality(seen) <= i - 1
      <4>. HIDE DEF seen
      <4>. QED
        BY <2>1, <3>2, FS_NatSurjection, FS_SurjCardinalityBound
    <3>4. N <= Cardinality(seen) /\ Cardinality(seen) \in Nat
      <4>. HIDE DEF seen
      <4>. QED
        BY <1>1, <3>3, FS_Subset, FS_CardinalityType
    <3>. QED
      BY <1>1, <2>1, <3>3, <3>4
  <2>3. PICK n \in g.nodes \ seen : \A e \in g.edges : e[2] = n => e[1] \notin g.nodes \ seen
    BY <2>2, HasMinimal
  <2>4. n \in next
    BY <2>3 DEF Into, IsGraph
  <2>5. next \in SUBSET Nat
    BY DEF IsGraph
  <2>6. \E m \in next : \A k \in next : m <= k
    <3>. HIDE DEF next
    <3>. QED
      BY <2>4, <2>5, Least
  <2>7. at[i] = CHOOSE m \in next : \A k \in next : m <= k
    BY <1>3 DEF Following
  <2>8. at[i] \in next
    <3>. HIDE DEF next
    <3>. QED
      BY <2>6, <2>7
  <2>9. \A e \in g.edges : e[2] = at[i] => e[1] \in seen
    BY <2>8 DEF Into
  <2>. QED
    BY <2>8, <2>9
<1>5. \A i, j \in 1 .. N : at[i] = at[j] => i = j
  <2>. TAKE i, j \in 1 .. N
  <2>1. i < j \/ j < i \/ i = j
    OBVIOUS
  <2>2. i < j => i \in 1 .. j - 1
    OBVIOUS
  <2>3. j < i => j \in 1 .. i - 1
    OBVIOUS
  <2>. QED
    BY <1>4, <2>1, <2>2, <2>3
<1>. DEFINE f == [i \in 1 .. N |-> at[i]]
<1>6. f \in Injection(1 .. N, g.nodes)
  BY <1>4, <1>5 DEF Injection, IsInjective
<1>7. IsFiniteSet(g.nodes) /\ Cardinality(1 .. N) = N
  BY <1>1, FS_Interval DEF IsGraph
<1>8. f \in Surjection(1 .. N, g.nodes)
  <2>. HIDE DEF f
  <2>. QED
    BY <1>1, <1>6, <1>7, FS_Injection
<1>9. \A n \in g.nodes : \E i \in 1 .. N : at[i] = n
  BY <1>8 DEF Surjection
<1>. QED
  BY <1>2, <1>3, <1>4, <1>9

\* A colour's queue holds its partitions, and each of them.
LEMMA QueueOfPartitions ==
    ASSUME NEW g, IsGraph(g), NEW c \in Color
    PROVE  /\ PartitionsOf(g, c) \in Seq({MakePartition(g, P) : P \in Components(g, c)})
           /\ \A P \in Components(g, c) :
                 \E i \in DOMAIN PartitionsOf(g, c) : PartitionsOf(g, c)[i] = MakePartition(g, P)
<1>1. PICK at : at = Forward(g)
  OBVIOUS
<1>2. PICK S : S = Starts(g, c)
  OBVIOUS
<1>3. DOMAIN at \subseteq Nat /\ IsFiniteSet(DOMAIN at) /\ \A i \in DOMAIN at : i - 1 \in Nat
  <2>1. PICK N \in Nat : DOMAIN at = 1 .. N
    BY <1>1, ForwardEquation, FS_CardinalityType DEF IsGraph
  <2>2. IsFiniteSet(1 .. N)
    BY FS_Interval
  <2>3. 1 .. N \subseteq Nat /\ \A i \in 1 .. N : i - 1 \in Nat
    OBVIOUS
  <2>. QED
    BY <2>1, <2>2, <2>3, Zenon
<1>4. S = {i \in DOMAIN at : /\ g.color[at[i]] = c
                             /\ \A j \in 1 .. i - 1 : at[j] \notin Component(g, at[i])}
  BY <1>1, <1>2 DEF Starts
<1>5. S \in SUBSET Nat /\ IsFiniteSet(S) /\ Cardinality(S) \in Nat
  BY <1>3, <1>4, FS_Subset, FS_CardinalityType
<1>6. PartitionsOf(g, c) =
        [i \in 1 .. Cardinality(S) |-> MakePartition(g, Component(g, at[Nth(S, i)]))]
  BY <1>1, <1>2 DEF PartitionsOf
<1>7. \A i \in S : Component(g, at[i]) \in Components(g, c)
  BY <1>1, <1>4, ForwardVisitsAll DEF Components
<1>8. \A i \in 1 .. Cardinality(S) : Component(g, at[Nth(S, i)]) \in Components(g, c)
  BY <1>5, <1>7, NthEnumerates
<1>9. ASSUME NEW P \in Components(g, c)
      PROVE  \E i \in 1 .. Cardinality(S) : Component(g, at[Nth(S, i)]) = P
  <2>. DEFINE T == {i \in DOMAIN at : at[i] \in P}
  <2>1. T # {} /\ T \in SUBSET Nat
    BY <1>1, <1>3, ForwardVisitsAll, PartitionNodes
  <2>2. PICK i \in T : \A j \in T : i <= j
    BY <2>1, Least
  <2>3. at[i] \in P /\ g.color[at[i]] = c /\ Component(g, at[i]) = P
    BY <2>2, PartitionNodes
  <2>4. \A j \in 1 .. i - 1 : at[j] \notin P
    <3>. TAKE j \in 1 .. i - 1
    <3>1. i \in 1 .. Cardinality(g.nodes) /\ Cardinality(g.nodes) \in Nat
      BY <1>1, ForwardEquation, FS_CardinalityType DEF IsGraph
    <3>2. j \in DOMAIN at /\ ~(i <= j)
      BY <1>1, <3>1, ForwardEquation
    <3>. QED
      BY <2>2, <3>2
  <2>5. i \in S
    BY <1>4, <2>3, <2>4
  <2>. QED
    BY <1>5, <2>3, <2>5, NthEnumerates
<1>10. PartitionsOf(g, c) \in Seq({MakePartition(g, P) : P \in Components(g, c)})
  BY <1>5, <1>6, <1>8
<1>. QED
  BY <1>6, <1>9, <1>10

---------------------------------------------------------------------------
(* The schedulers: what is in their queues, types. *)

MyPartitions(c) == {MakePartition(graph, P) : P \in Components(graph, c)}

IsOutput(o) ==
    /\ o.from \in Color /\ o.to \in Color \ {o.from}
    /\ o = [from |-> o.from, to |-> o.to, output |-> o.output]

\* Outputs are kept for the head partition only (partition.rs:511).
Shape ==
    /\ graph \in Graphs
    /\ DOMAIN queue = Color /\ \A c \in Color : queue[c] \in Seq(MyPartitions(c))
    /\ DOMAIN pending = Color
    /\ \A c \in Color : \A k \in DOMAIN pending[c] :
          queue[c] # <<>> /\ k \in DOMAIN Head(queue[c]).children
    /\ \A o \in net : IsOutput(o)
    /\ state \in [Color -> {"up", "refused", "failed", "hung"}]

LEMMA GraphFacts ==
    ASSUME graph \in Graphs
    PROVE  IsGraph(graph) /\ PartitionOk(graph)
BY GraphsAssumption

\* The head of a queue is a partition of the graph.
LEMMA HeadIsPartition ==
    ASSUME Shape, NEW c \in Color, queue[c] # <<>>
    PROVE  /\ \E P \in Components(graph, c) : Head(queue[c]) = MakePartition(graph, P)
           /\ Tail(queue[c]) \in Seq(MyPartitions(c))
<1>1. queue[c] \in Seq(MyPartitions(c))
  BY DEF Shape
<1>. QED
  BY <1>1 DEF MyPartitions

\* Outputs come from other colours and go to other colours.
LEMMA ChildColours ==
    ASSUME graph \in Graphs, NEW c \in Color, NEW P \in Components(graph, c)
    PROVE  DOMAIN Children(graph, P) \subseteq Color \ {c}
<1>1. CASE P \cap graph.fed # {}
  <2>1. Children(graph, P) = <<>>
    BY <1>1 DEF Children
  <2>. QED
    BY <2>1
<1>2. CASE P \cap graph.fed = {}
  <2>1. PICK s \in P : EntersAt(graph, c, P, s)
    BY <1>2, GraphFacts, ChildrenFacts
  <2>. QED
    BY <2>1 DEF EntersAt
<1>. QED
  BY <1>1, <1>2

LEMMA ShapeTypes ==
    ASSUME Shape
    PROVE  TypeOK
<1>1. graph.color \in [graph.nodes -> Color]
  BY GraphFacts DEF Shape, IsGraph
<1>2. ASSUME NEW c \in Color, NEW i \in DOMAIN queue[c], NEW n \in queue[c][i].nodes
      PROVE  graph.color[n] = c
  <2>1. queue[c][i] \in MyPartitions(c)
    BY DEF Shape
  <2>2. PICK P \in Components(graph, c) : queue[c][i] = MakePartition(graph, P)
    BY <2>1 DEF MyPartitions
  <2>3. n \in P
    BY <2>2 DEF MakePartition
  <2>. QED
    BY <2>3, GraphFacts, PartitionNodes DEF Shape
<1>3. ASSUME NEW c \in Color, NEW k \in DOMAIN pending[c]
      PROVE  k \in Color \ {c}
  <2>1. queue[c] # <<>> /\ k \in DOMAIN Head(queue[c]).children
    BY DEF Shape
  <2>2. PICK P \in Components(graph, c) : Head(queue[c]) = MakePartition(graph, P)
    BY <2>1, HeadIsPartition
  <2>. QED
    BY <2>1, <2>2, ChildColours DEF MakePartition, Shape
<1>4. /\ \A o \in net : o.from \in Color /\ o.to \in Color \ {o.from}
      /\ state \in [Color -> {"up", "refused", "failed", "hung"}]
  BY DEF Shape, IsOutput
<1>. QED
  BY <1>1, <1>2, <1>3, <1>4 DEF TypeOK

LEMMA ShapeInit ==
    ASSUME Init
    PROVE  Shape
<1>1. IsGraph(graph)
  BY GraphFacts DEF Init
<1>2. \A c \in Color : queue[c] \in Seq(MyPartitions(c))
  BY <1>1, QueueOfPartitions DEF Init, MyPartitions
<1>. QED
  BY <1>2 DEF Init, Shape

\* Once the head partition is taken, nothing is kept.
LEMMA PendingTaken ==
    ASSUME Shape, NEW c \in Color, queue[c] # <<>>, TryRunPartition(c)
    PROVE  /\ DOMAIN pending' = Color
           /\ \A k : k \notin DOMAIN pending'[c]
           /\ \A d \in Color \ {c} : pending'[d] = pending[d]
<1>1. pending' = [pending EXCEPT ![c] =
                     [k \in DOMAIN @ \ DOMAIN Head(queue[c]).children |-> @[k]]]
  BY DEF TryRunPartition
<1>2. DOMAIN pending = Color
      /\ \A k \in DOMAIN pending[c] : k \in DOMAIN Head(queue[c]).children
  BY DEF Shape
<1>3. pending'[c] = [k \in DOMAIN pending[c] \ DOMAIN Head(queue[c]).children |-> pending[c][k]]
  BY <1>1, <1>2
<1>4. DOMAIN pending'[c] = DOMAIN pending[c] \ DOMAIN Head(queue[c]).children
  BY <1>3
<1>. QED
  BY <1>1, <1>2, <1>4

\* Where the outputs of the head partition go.
LEMMA ParentColours ==
    ASSUME Shape, NEW c \in Color, queue[c] # <<>>, NEW out, NEW o \in ToParents(c, out)
    PROVE  IsOutput(o)
<1>1. PICK P \in Components(graph, c) : Head(queue[c]) = MakePartition(graph, P)
  BY HeadIsPartition
<1>2. PICK k \in DOMAIN Parents(graph, P) :
         o = [from |-> c, to |-> k, output |-> out[Parents(graph, P)[k]]]
  BY <1>1 DEF ToParents, MakePartition
<1>3. \E e \in From(graph, Root(graph, P)) : k = graph.color[e[2]] /\ graph.color[e[2]] \in Color \ {c}
  <2>1. IsGraph(graph) /\ PartitionOk(graph)
    BY GraphFacts DEF Shape
  <2>. QED
    BY <1>2, <2>1, ParentEdge
<1>. QED
  BY <1>2, <1>3 DEF IsOutput

LEMMA ShapeRun ==
    ASSUME Shape, NEW c \in Color, TryRunPartition(c)
    PROVE  Shape'
<1>1. queue[c] # <<>>
  BY DEF TryRunPartition, Ready
<1>2. queue' = [queue EXCEPT ![c] = Tail(@)] /\ graph' = graph
      /\ state' \in [Color -> {"up", "refused", "failed", "hung"}]
  BY DEF TryRunPartition, Shape
<1>3. DOMAIN queue' = Color /\ \A d \in Color : queue'[d] \in Seq(MyPartitions(d))
  BY <1>1, <1>2, HeadIsPartition DEF Shape
<1>4. \A d : MyPartitions(d)' = MyPartitions(d)
  BY <1>2 DEF MyPartitions
<1>5. \A o \in net' : IsOutput(o)
  <2>1. \E out : net' \subseteq net \cup ToParents(c, out)
    BY DEF TryRunPartition
  <2>. QED
    BY <1>1, <2>1, ParentColours DEF Shape
<1>6. \A d \in Color \ {c} : queue'[d] = queue[d]
  BY <1>2 DEF Shape
<1>7. \A d \in Color : \A k \in DOMAIN pending'[d] :
          queue'[d] # <<>> /\ k \in DOMAIN Head(queue'[d]).children
  BY <1>1, <1>6, PendingTaken DEF Shape
<1>8. DOMAIN pending' = Color
  BY <1>1, PendingTaken
<1>. QED
  BY <1>2, <1>3, <1>4, <1>5, <1>7, <1>8 DEF Shape

LEMMA ShapeSet ==
    ASSUME Shape, NEW o \in net, SetChildOutput(o)
    PROVE  Shape'
<1>1. queue' = queue /\ graph' = graph /\ net' \subseteq net
  BY DEF SetChildOutput
<1>2. state' \in [Color -> {"up", "refused", "failed", "hung"}]
  BY DEF SetChildOutput, AcceptOutput, IgnoreOutput, RefuseOutput, Shape
<1>3. o.to \in Color
  BY DEF Shape, IsOutput
<1>4. /\ DOMAIN pending' = Color
      /\ \A c \in Color : \A k \in DOMAIN pending'[c] :
            queue'[c] # <<>> /\ k \in DOMAIN Head(queue'[c]).children
  <2>1. CASE AcceptOutput(o)
    BY <1>1, <1>3, <2>1 DEF AcceptOutput, Expected, Shape
  <2>2. CASE pending' = pending
    BY <1>1, <2>2 DEF Shape
  <2>. QED
    BY <2>1, <2>2 DEF SetChildOutput, IgnoreOutput, RefuseOutput
<1>. QED
  BY <1>1, <1>2, <1>4 DEF Shape, MyPartitions

\* TypeOK: each queue has partitions of its own colour (partition.rs:397), and
\* outputs are kept, and sent, for another colour than that of the sender.
THEOREM PartitionTypeOK == Spec => []TypeOK
<1>1. Init => Shape
  BY ShapeInit
<1>2. Shape /\ [Next]_vars => Shape'
  <2>. SUFFICES ASSUME Shape, [Next]_vars
                PROVE  Shape'
    OBVIOUS
  <2>1. CASE UNCHANGED vars
    BY <2>1 DEF vars, Shape, MyPartitions
  <2>. QED
    BY <2>1, ShapeRun, ShapeSet DEF Next
<1>3. Shape => TypeOK
  BY ShapeTypes
<1>. QED
  BY <1>1, <1>2, <1>3, PTL DEF Spec

---------------------------------------------------------------------------
(* What is sent, kept and reported is what the graph carries. *)

\* `output` is what the graph carries on an edge from colour a to colour b.
Crosses(g, a, b, output) ==
    \E e \in Crossing(g) : g.color[e[1]] = a /\ g.color[e[2]] = b /\ output = Carried(g, e)

Routed ==
    /\ \A o \in net : Crosses(graph, o.from, o.to, o.output)
    /\ \A c \in Color : \A k \in DOMAIN pending[c] : Crosses(graph, k, c, pending[c][k])

\* The data of a partition, put together from what is kept for it: every port
\* of its source node has what the graph carries there.
LEMMA GivenFromChildren ==
    ASSUME NEW g, IsGraph(g), Supported(g), NEW c \in Color, NEW P \in Components(g, c),
           P \cap g.fed = {}, NEW kept,
           \A k \in DOMAIN Children(g, P) : Crosses(g, k, c, kept[k])
    PROVE  GivenOf(g, P, [x \in {Children(g, P)[k] : k \in DOMAIN Children(g, P)} |->
                             kept[CHOOSE k \in DOMAIN Children(g, P) : Children(g, P)[k] = x]])
<1>1. PICK f : f = Children(g, P)
  OBVIOUS
<1>2. PICK D : D = DOMAIN f
  OBVIOUS
<1>3. PICK given : given = [x \in {f[k] : k \in D} |-> kept[CHOOSE k \in D : f[k] = x]]
  OBVIOUS
<1>4a. OneEdgeEach(g, c, P, f)
  BY <1>1, ChildIsAnEdge
<1>4. /\ \A e \in Entering(g, P) :
           /\ e \in Crossing(g) /\ g.color[e[1]] \in D /\ g.color[e[2]] = c
           /\ f[g.color[e[1]]] = <<e[2], g.to[e]>>
      /\ \A k \in D : \E e \in Entering(g, P) : g.color[e[1]] = k
  BY <1>2, <1>4a DEF OneEdgeEach
<1>5. DOMAIN given = {<<e[2], g.to[e]>> : e \in Entering(g, P)}
  <2>1. DOMAIN given = {f[k] : k \in D}
    BY <1>3
  <2>2. \A k \in D : \E e \in Entering(g, P) : f[k] = <<e[2], g.to[e]>>
    BY <1>4
  <2>3. \A e \in Entering(g, P) : \E k \in D : f[k] = <<e[2], g.to[e]>>
    BY <1>4
  <2>4. {f[k] : k \in D} \subseteq {<<e[2], g.to[e]>> : e \in Entering(g, P)}
    BY <2>2
  <2>5. {<<e[2], g.to[e]>> : e \in Entering(g, P)} \subseteq {f[k] : k \in D}
    <3>1. ASSUME NEW e \in Entering(g, P)
          PROVE  <<e[2], g.to[e]>> \in {f[k] : k \in D}
      <4>1. PICK k \in D : f[k] = <<e[2], g.to[e]>>
        BY <2>3
      <4>. QED
        BY <4>1, Zenon
    <3>. QED
      BY <3>1
  <2>. QED
    BY <2>1, <2>4, <2>5, Zenon
<1>6. ASSUME NEW e \in Entering(g, P)
      PROVE  given[<<e[2], g.to[e]>>] = Carried(g, e)
  <2>1. PICK x : x = <<e[2], g.to[e]>>
    OBVIOUS
  <2>2. PICK k : k = CHOOSE j \in D : f[j] = x
    OBVIOUS
  <2>3. k \in D /\ f[k] = x
    BY <1>4, <2>1, <2>2
  <2>4. PICK d \in Entering(g, P) : g.color[d[1]] = k
    BY <1>4, <2>3
  <2>5. d = e
    <3>1. f[k] = <<d[2], g.to[d]>>
      BY <1>4, <2>4
    <3>2. d[2] = e[2] /\ g.to[d] = g.to[e]
      BY <2>1, <2>3, <3>1
    <3>3. d \in g.edges /\ e \in g.edges
      BY DEF Entering
    <3>. QED
      BY <3>2, <3>3 DEF IsGraph
  <2>6. given[x] = kept[k]
    BY <1>3, <2>2, <2>3
  <2>7. Crosses(g, k, c, kept[k])
    BY <1>1, <1>2, <2>3
  <2>8. PICK b \in Crossing(g) : g.color[b[1]] = k /\ g.color[b[2]] = c /\ kept[k] = Carried(g, b)
    BY <2>7 DEF Crosses
  <2>9. b = e
    BY <1>4, <2>4, <2>5, <2>8 DEF Supported, Unambiguous
  <2>. QED
    BY <2>1, <2>6, <2>8, <2>9
<1>7. GivenOf(g, P, given)
  BY <1>5, <1>6 DEF GivenOf
<1>. QED
  BY <1>1, <1>2, <1>3, <1>7

LEMMA GivenIsOfGraph ==
    ASSUME Supported(graph), Shape, Routed, NEW c \in Color, Ready(c),
           NEW P \in Components(graph, c), Head(queue[c]) = MakePartition(graph, P)
    PROVE  GivenOf(graph, P, Given(c))
<1>1. PICK part : part = Head(queue[c])
  OBVIOUS
<1>2. part.inputs = P \cap graph.fed /\ part.children = Children(graph, P)
  BY <1>1 DEF MakePartition
<1>3. CASE P \cap graph.fed # {}
  <2>1. Given(c) = RawInputs(P \cap graph.fed)
    BY <1>1, <1>2, <1>3 DEF Given, IsSourcePartition
  <2>. QED
    BY <1>3, <2>1 DEF GivenOf
<1>4. CASE P \cap graph.fed = {}
  <2>1. DOMAIN part.children \subseteq DOMAIN pending[c]
    BY <1>1, <1>2, <1>4 DEF Ready, IsSourcePartition
  <2>2. PICK kids : kids = {k \in DOMAIN part.children : k \in DOMAIN pending[c]}
    OBVIOUS
  <2>3. Given(c) = IF IsSourcePartition(part) THEN RawInputs(part.inputs)
                   ELSE [x \in {part.children[k] : k \in kids} |->
                            pending[c][CHOOSE k \in kids : part.children[k] = x]]
    BY <1>1, <2>2 DEF Given
  <2>4. ~IsSourcePartition(part)
    BY <1>2, <1>4 DEF IsSourcePartition
  <2>5. kids = DOMAIN Children(graph, P)
    BY <1>2, <2>1, <2>2
  <2>6. \A k \in DOMAIN Children(graph, P) : Crosses(graph, k, c, pending[c][k])
    BY <1>2, <2>1 DEF Routed
  <2>7. IsGraph(graph)
    BY GraphFacts DEF Shape
  <2>8. PICK kept : kept = pending[c]
    OBVIOUS
  <2>9. PICK given : given = Given(c)
    OBVIOUS
  <2>10. given = [x \in {Children(graph, P)[k] : k \in DOMAIN Children(graph, P)} |->
                    kept[CHOOSE k \in DOMAIN Children(graph, P) : Children(graph, P)[k] = x]]
    <3>1. given = [x \in {part.children[k] : k \in kids} |->
                      pending[c][CHOOSE k \in kids : part.children[k] = x]]
      BY <2>3, <2>4, <2>9
    <3>. QED
      BY <1>2, <2>5, <2>8, <3>1
  <2>11. GivenOf(graph, P, given)
    <3>1. \A k \in DOMAIN Children(graph, P) : Crosses(graph, k, c, kept[k])
      BY <2>6, <2>8
    <3>. QED
      BY <1>4, <2>7, <2>10, <3>1, GivenFromChildren
  <2>. QED
    BY <2>9, <2>11
<1>. QED
  BY <1>3, <1>4

\* The ports that no edge inside a partition carries.
LEMMA LoosePorts ==
    ASSUME NEW g, NEW P, NEW x
    PROVE  x \in Loose(g, P) <=>
             \E n \in P : \E q \in 0 .. g.outs[n] - 1 :
                x = <<n, q>> /\ \A e \in Inner(g, P) : e[1] = n => g.from[e] # q
<1>1. PICK Ports : Ports = UNION {{n} \X (0 .. g.outs[n] - 1) : n \in P}
  OBVIOUS
<1>2. x \in Ports <=> \E n \in P : x \in {n} \X (0 .. g.outs[n] - 1)
  BY <1>1, Zenon
<1>3. \A n : x \in {n} \X (0 .. g.outs[n] - 1) <=> \E q \in 0 .. g.outs[n] - 1 : x = <<n, q>>
  OBVIOUS
<1>4. x \in Ports <=> \E n \in P : \E q \in 0 .. g.outs[n] - 1 : x = <<n, q>>
  BY <1>2, <1>3
<1>5. Loose(g, P) = {y \in Ports : \A e \in Inner(g, P) : e[1] = y[1] => g.from[e] # y[2]}
  BY <1>1 DEF Loose
<1>. QED
  BY <1>4, <1>5

WholeValue(g, x) == Value(x[1], x[2], WholeArguments(g)[x[1]])

\* Run on the data the graph has for it, a partition gives what the graph gives.
LEMMA PartitionOutputs ==
    ASSUME NEW g, IsGraph(g), Supported(g), NEW c \in Color, NEW P \in Components(g, c),
           NEW given, GivenOf(g, P, given)
    PROVE  /\ DOMAIN Outputs(g, P, given) = Loose(g, P)
           /\ \A x \in Loose(g, P) : Outputs(g, P, given)[x] = WholeValue(g, x)
<1>1. PICK args : args = Arguments(g, P, given)
  OBVIOUS
<1>2. \A n \in P : args[n] = WholeArguments(g)[n]
  BY <1>1, PartitionAgrees DEF Supported
<1>3. PICK out : out = Outputs(g, P, given)
  OBVIOUS
<1>4. out = [x \in Loose(g, P) |-> Value(x[1], x[2], args[x[1]])]
  BY <1>1, <1>3 DEF Outputs
<1>5. \A x \in Loose(g, P) : x[1] \in P
  BY LoosePorts
<1>6. DOMAIN out = Loose(g, P) /\ \A x \in Loose(g, P) : out[x] = WholeValue(g, x)
  BY <1>2, <1>4, <1>5 DEF WholeValue
<1>. QED
  BY <1>3, <1>6

\* The outputs of the graph that come from P.
Contribution(g, P) == {WholeValue(g, x) : x \in {y \in Loose(g, g.nodes) : y[1] \in P}}

LEMMA WholeOutputsAre ==
    ASSUME NEW g, IsGraph(g)
    PROVE  WholeOutputs(g) = {WholeValue(g, x) : x \in Loose(g, g.nodes)}
<1>1. PICK o : o = Outputs(g, g.nodes, RawInputs(g.fed))
  OBVIOUS
<1>2. o = [x \in Loose(g, g.nodes) |-> WholeValue(g, x)]
  BY <1>1 DEF Outputs, WholeValue, WholeArguments
<1>3. WholeOutputs(g) = {o[x] : x \in DOMAIN o}
  BY <1>1 DEF WholeOutputs
<1>4. DOMAIN o = Loose(g, g.nodes) /\ \A x \in Loose(g, g.nodes) : o[x] = WholeValue(g, x)
  BY <1>2
<1>. QED
  BY <1>3, <1>4

\* The outputs of a graph are those that come from its partitions.
LEMMA ContributionsAreAll ==
    ASSUME NEW g, IsGraph(g)
    PROVE  /\ \A P : Contribution(g, P) \subseteq WholeOutputs(g)
           /\ \A v \in WholeOutputs(g) :
                 \E c \in Color : \E P \in Components(g, c) : v \in Contribution(g, P)
<1>1. PICK L : L = Loose(g, g.nodes)
  OBVIOUS
<1>2. WholeOutputs(g) = {WholeValue(g, x) : x \in L}
  BY <1>1, WholeOutputsAre
<1>3. \A P : Contribution(g, P) = {WholeValue(g, x) : x \in {y \in L : y[1] \in P}}
  BY <1>1 DEF Contribution
<1>4. ASSUME NEW x \in L
      PROVE  \E c \in Color : \E P \in Components(g, c) : x[1] \in P
  <2>1. x[1] \in g.nodes
    BY <1>1, LoosePorts
  <2>. QED
    BY <2>1, NodeHasPartition DEF IsGraph
<1>5. ASSUME NEW v \in WholeOutputs(g)
      PROVE  \E c \in Color : \E P \in Components(g, c) : v \in Contribution(g, P)
  <2>1. PICK x \in L : v = WholeValue(g, x)
    BY <1>2
  <2>2. PICK c \in Color : \E P \in Components(g, c) : x[1] \in P
    BY <1>4
  <2>3. PICK P \in Components(g, c) : x[1] \in P
    BY <2>2
  <2>. QED
    BY <1>3, <2>1, <2>3
<1>6. \A P : Contribution(g, P) \subseteq WholeOutputs(g)
  BY <1>2, <1>3
<1>. QED
  BY <1>5, <1>6

\* What try_run_partition sends on is what the graph carries there.
LEMMA SentIsCarried ==
    ASSUME NEW g, IsGraph(g), Supported(g), NEW c \in Color, NEW P \in Components(g, c),
           NEW out, DOMAIN out = Loose(g, P), \A x \in Loose(g, P) : out[x] = WholeValue(g, x),
           NEW k \in DOMAIN Parents(g, P)
    PROVE  Crosses(g, c, k, out[Parents(g, P)[k]])
<1>1. PICK r : r = Root(g, P)
  OBVIOUS
<1>2. LeavesAt(g, c, P, r)
  BY <1>1, RootFacts DEF Supported
<1>3. PICK e \in From(g, r) : k = g.color[e[2]] /\ Parents(g, P)[k] = <<r, g.from[e]>>
  BY <1>1, ParentEdge DEF Supported
<1>4. e \in Crossing(g) /\ e[1] = r /\ g.color[e[1]] = c /\ r \in P
      /\ \A d \in Inner(g, P) : d[1] # r
  BY <1>2 DEF LeavesAt
<1>5. g.from[e] \in 0 .. g.outs[r] - 1
  <2>1. e \in g.edges /\ r \in g.nodes
    BY <1>4, PartitionNodes DEF Crossing
  <2>2. g.from[e] \in Nat /\ g.outs[r] \in Nat /\ g.from[e] < g.outs[r]
    BY <1>4, <2>1 DEF IsGraph
  <2>. QED
    BY <2>2
<1>6. PICK x : x = <<r, g.from[e]>>
  OBVIOUS
<1>7. x \in Loose(g, P)
  BY <1>4, <1>5, <1>6, LoosePorts
<1>8. out[x] = Carried(g, e)
  BY <1>4, <1>6, <1>7 DEF WholeValue, Carried
<1>. QED
  BY <1>3, <1>4, <1>6, <1>8 DEF Crosses

\* The ports of P that no parent receives are those the graph leaves loose.
LEMMA LooseOfPartition ==
    ASSUME NEW g, IsGraph(g), Supported(g), NEW c \in Color, NEW P \in Components(g, c), NEW x
    PROVE  x \in Loose(g, P) /\ (\A k \in DOMAIN Parents(g, P) : Parents(g, P)[k] # x)
             <=> x \in Loose(g, g.nodes) /\ x[1] \in P
<1>1. PICK r : r = Root(g, P)
  OBVIOUS
<1>2. LeavesAt(g, c, P, r)
  BY <1>1, RootFacts DEF Supported
<1>3. P \subseteq g.nodes /\ Inner(g, g.nodes) = g.edges /\ Inner(g, P) \subseteq g.edges
  BY PartitionNodes DEF IsGraph, Inner
<1>4. ASSUME x \in Loose(g, P), \A k \in DOMAIN Parents(g, P) : Parents(g, P)[k] # x
      PROVE  x \in Loose(g, g.nodes) /\ x[1] \in P
  <2>0. PICK n \in P : \E q \in 0 .. g.outs[n] - 1 :
           x = <<n, q>> /\ \A e \in Inner(g, P) : e[1] = n => g.from[e] # q
    BY <1>4, LoosePorts
  <2>1. PICK q \in 0 .. g.outs[n] - 1 :
           x = <<n, q>> /\ \A e \in Inner(g, P) : e[1] = n => g.from[e] # q
    BY <2>0
  <2>2. ASSUME NEW e \in g.edges, e[1] = n, g.from[e] = q
        PROVE  FALSE
    <3>1. e \notin Inner(g, P)
      BY <2>1, <2>2
    <3>2. e \in Crossing(g) /\ Component(g, n) = P
      BY <2>2, <3>1, EdgesOfPartition, PartitionNodes DEF Inner
    <3>3. e[1] = r
      BY <1>1, <2>2, <3>2 DEF Supported, Rooted
    <3>4. e \in From(g, r)
      BY <3>3 DEF From
    <3>5. g.color[e[2]] \in DOMAIN Parents(g, P) /\ Parents(g, P)[g.color[e[2]]] = <<r, g.from[e]>>
      BY <1>2, <3>4 DEF LeavesAt
    <3>6. x = <<r, g.from[e]>>
      BY <2>1, <2>2, <3>3
    <3>. QED
      BY <1>4, <3>5, <3>6
  <2>3. \A e \in Inner(g, g.nodes) : e[1] = n => g.from[e] # q
    BY <1>3, <2>2
  <2>. QED
    BY <1>3, <2>1, <2>3, LoosePorts
<1>5. ASSUME x \in Loose(g, g.nodes), x[1] \in P
      PROVE  x \in Loose(g, P) /\ \A k \in DOMAIN Parents(g, P) : Parents(g, P)[k] # x
  <2>0. PICK n \in g.nodes : \E q \in 0 .. g.outs[n] - 1 :
           x = <<n, q>> /\ \A e \in Inner(g, g.nodes) : e[1] = n => g.from[e] # q
    BY <1>5, LoosePorts
  <2>1. PICK q \in 0 .. g.outs[n] - 1 :
           x = <<n, q>> /\ \A e \in Inner(g, g.nodes) : e[1] = n => g.from[e] # q
    BY <2>0
  <2>2. x \in Loose(g, P)
    BY <1>3, <1>5, <2>1, LoosePorts
  <2>3. ASSUME NEW k \in DOMAIN Parents(g, P)
        PROVE  Parents(g, P)[k] # x
    <3>1. PICK e \in From(g, r) : Parents(g, P)[k] = <<r, g.from[e]>>
      BY <1>1, ParentEdge DEF Supported
    <3>2. e \in g.edges /\ e[1] = r
      BY DEF From
    <3>. QED
      BY <1>3, <2>1, <3>1, <3>2
  <2>. QED
    BY <2>2, <2>3
<1>. QED
  BY <1>4, <1>5

LEMMA ReportedIsContribution ==
    ASSUME NEW g, IsGraph(g), Supported(g), NEW c \in Color, NEW P \in Components(g, c),
           NEW out, DOMAIN out = Loose(g, P), \A x \in Loose(g, P) : out[x] = WholeValue(g, x)
    PROVE  {out[x] : x \in {y \in DOMAIN out : \A k \in DOMAIN Parents(g, P) : Parents(g, P)[k] # y}}
             = Contribution(g, P)
<1>1. PICK S : S = {y \in DOMAIN out : \A k \in DOMAIN Parents(g, P) : Parents(g, P)[k] # y}
  OBVIOUS
<1>2. PICK L : L = {y \in Loose(g, g.nodes) : y[1] \in P}
  OBVIOUS
<1>3. \A x : x \in S <=> x \in L
  BY <1>1, <1>2, LooseOfPartition
<1>4. S = L
  BY <1>3
<1>5. \A x \in S : out[x] = WholeValue(g, x)
  BY <1>1
<1>6. {out[x] : x \in S} = {WholeValue(g, x) : x \in L}
  BY <1>4, <1>5
<1>. QED
  BY <1>1, <1>2, <1>6 DEF Contribution

\* A partition that is no longer in the queue of its colour has given all its
\* outputs of the graph, unless it ended badly.
NothingMissing ==
    \A c \in Color : \A P \in Components(graph, c) :
        \/ \E i \in DOMAIN queue[c] : queue[c][i] = MakePartition(graph, P)
        \/ state[c] # "up"
        \/ Contribution(graph, P) \subseteq results

IInv == Shape /\ Routed /\ ResultsOfGraph /\ NothingMissing

LEMMA IInvInit ==
    ASSUME Init, Supported(graph)
    PROVE  IInv
<1>1. IsGraph(graph)
  BY GraphFacts DEF Init
<1>2. \A c \in Color : \A P \in Components(graph, c) :
         \E i \in DOMAIN queue[c] : queue[c][i] = MakePartition(graph, P)
  BY <1>1, QueueOfPartitions DEF Init
<1>3. Routed /\ ResultsOfGraph
  BY DEF Init, Routed, ResultsOfGraph
<1>. QED
  BY <1>2, <1>3, ShapeInit DEF IInv, NothingMissing

\* What a run of the head partition adds.
LEMMA RunAdds ==
    ASSUME IInv, Supported(graph), NEW c \in Color, TryRunPartition(c),
           NEW P \in Components(graph, c), Head(queue[c]) = MakePartition(graph, P)
    PROVE  /\ \A o \in net' : o \in net \/ Crosses(graph, o.from, o.to, o.output)
           /\ \/ state'[c] # "up" /\ results' = results
              \/ results' = results \cup Contribution(graph, P)
<1>1. PICK out : out = Outputs(graph, P, Given(c))
  OBVIOUS
<1>2. IsGraph(graph)
  BY GraphFacts DEF IInv, Shape
<1>3. GivenOf(graph, P, Given(c))
  BY GivenIsOfGraph DEF IInv, TryRunPartition
<1>4. DOMAIN out = Loose(graph, P) /\ \A x \in Loose(graph, P) : out[x] = WholeValue(graph, x)
  BY <1>1, <1>2, <1>3, PartitionOutputs
<1>5. ASSUME NEW o \in ToParents(c, out)
      PROVE  Crosses(graph, o.from, o.to, o.output)
  <2>1. PICK k \in DOMAIN Parents(graph, P) :
           o = [from |-> c, to |-> k, output |-> out[Parents(graph, P)[k]]]
    BY DEF ToParents, MakePartition
  <2>2. Crosses(graph, c, k, out[Parents(graph, P)[k]])
    BY <1>2, <1>4, SentIsCarried
  <2>. QED
    BY <2>1, <2>2
<1>6. GraphOutputs(c, out) = Contribution(graph, P)
  <2>1. GraphOutputs(c, out) =
          {out[x] : x \in {y \in DOMAIN out : \A k \in DOMAIN Parents(graph, P) :
                                                 Parents(graph, P)[k] # y}}
    BY DEF GraphOutputs, MakePartition
  <2>2. {out[x] : x \in {y \in DOMAIN out : \A k \in DOMAIN Parents(graph, P) :
                                               Parents(graph, P)[k] # y}}
          = Contribution(graph, P)
    BY <1>2, <1>4, ReportedIsContribution
  <2>. QED
    BY <2>1, <2>2
<1>7. Head(queue[c]).nodes = P
  BY DEF MakePartition
<1>8. \/ net' = net \cup ToParents(c, out) /\ results' = results \cup GraphOutputs(c, out)
      \/ /\ \E end \in {"hung", "failed"} : state' = [state EXCEPT ![c] = end]
         /\ net' = net /\ results' = results
  BY <1>1, <1>7 DEF TryRunPartition
<1>9. state \in [Color -> {"up", "refused", "failed", "hung"}]
  BY DEF IInv, Shape
<1>. QED
  BY <1>5, <1>6, <1>8, <1>9

LEMMA IInvRun ==
    ASSUME IInv, Supported(graph), NEW c \in Color, TryRunPartition(c)
    PROVE  IInv'
<1>1. queue[c] # <<>> /\ graph' = graph /\ Shape
  BY DEF TryRunPartition, Ready, IInv
<1>2. PICK P \in Components(graph, c) : Head(queue[c]) = MakePartition(graph, P)
  BY <1>1, HeadIsPartition
<1>3. /\ \A o \in net' : o \in net \/ Crosses(graph, o.from, o.to, o.output)
      /\ \/ state'[c] # "up" /\ results' = results
         \/ results' = results \cup Contribution(graph, P)
  BY <1>2, RunAdds
<1>4. Shape'
  BY <1>1, ShapeRun
<1>5. Routed'
  <2>1. \A d \in Color \ {c} : pending'[d] = pending[d]
    BY <1>1, PendingTaken
  <2>2. \A k : k \notin DOMAIN pending'[c]
    BY <1>1, PendingTaken
  <2>. QED
    BY <1>1, <1>3, <2>1, <2>2 DEF IInv, Routed
<1>6. ResultsOfGraph'
  <2>1. Contribution(graph, P) \subseteq WholeOutputs(graph)
    BY <1>1, GraphFacts, ContributionsAreAll DEF Shape
  <2>. QED
    BY <1>1, <1>3, <2>1 DEF IInv, ResultsOfGraph
<1>7. NothingMissing'
  <2>. SUFFICES ASSUME NEW d \in Color, NEW Q \in Components(graph, d)
                PROVE  \/ \E i \in DOMAIN queue'[d] : queue'[d][i] = MakePartition(graph, Q)
                       \/ state'[d] # "up"
                       \/ Contribution(graph, Q) \subseteq results'
    BY <1>1 DEF NothingMissing
  <2>1. \/ \E i \in DOMAIN queue[d] : queue[d][i] = MakePartition(graph, Q)
        \/ state[d] # "up"
        \/ Contribution(graph, Q) \subseteq results
    BY DEF IInv, NothingMissing
  <2>2. results \subseteq results'
    BY <1>3
  <2>3. queue' = [queue EXCEPT ![c] = Tail(@)] /\ state[c] = "up"
        /\ state' \in {state, [state EXCEPT ![c] = "hung"], [state EXCEPT ![c] = "failed"]}
    BY DEF TryRunPartition
  <2>4. DOMAIN queue = Color /\ queue[c] \in Seq(MyPartitions(c))
        /\ state \in [Color -> {"up", "refused", "failed", "hung"}]
    BY <1>1 DEF Shape
  <2>5. CASE d # c
    BY <2>1, <2>2, <2>3, <2>4, <2>5
  <2>6. CASE d = c
    <3>1. CASE Contribution(graph, Q) \subseteq results
      BY <2>2, <3>1
    <3>2. CASE \E i \in DOMAIN queue[c] : queue[c][i] = MakePartition(graph, Q)
      <4>1. PICK i \in DOMAIN queue[c] : queue[c][i] = MakePartition(graph, Q)
        BY <3>2
      <4>2. queue'[c] = Tail(queue[c])
        BY <2>3, <2>4
      <4>3. CASE i = 1
        <5>1. MakePartition(graph, Q) = MakePartition(graph, P)
          BY <1>1, <1>2, <4>1, <4>3
        <5>2. Q = P
          BY <5>1 DEF MakePartition
        <5>. QED
          BY <1>3, <2>6, <5>2
      <4>4. CASE i # 1
        <5>1. i - 1 \in DOMAIN Tail(queue[c]) /\ Tail(queue[c])[i - 1] = queue[c][i]
          BY <1>1, <2>4, <4>1, <4>4
        <5>. QED
          BY <2>6, <4>1, <4>2, <5>1
      <4>. QED
        BY <4>3, <4>4
    <3>. QED
      BY <2>1, <2>3, <2>6, <3>1, <3>2
  <2>. QED
    BY <2>5, <2>6
<1>. QED
  BY <1>4, <1>5, <1>6, <1>7 DEF IInv

LEMMA IInvSet ==
    ASSUME IInv, NEW o \in net, SetChildOutput(o)
    PROVE  IInv'
<1>1. queue' = queue /\ graph' = graph /\ net' \subseteq net /\ results' = results
  BY DEF SetChildOutput
<1>2. Shape'
  BY ShapeSet DEF IInv
<1>3. Routed'
  <2>1. o.to \in Color /\ DOMAIN pending = Color
    BY DEF IInv, Shape, IsOutput
  <2>2. Crosses(graph, o.from, o.to, o.output)
    BY DEF IInv, Routed
  <2>3. ASSUME NEW c \in Color, NEW k \in DOMAIN pending'[c]
        PROVE  Crosses(graph, k, c, pending'[c][k])
    <3>1. CASE AcceptOutput(o)
      <4>1. pending' = [pending EXCEPT ![o.to] =
               [j \in DOMAIN pending[o.to] \cup {o.from} |->
                   IF j = o.from THEN o.output ELSE pending[o.to][j]]]
        BY <3>1 DEF AcceptOutput
      <4>2. CASE c # o.to
        BY <2>1, <4>1, <4>2 DEF IInv, Routed
      <4>3. CASE c = o.to
        <5>1. pending'[c] = [j \in DOMAIN pending[c] \cup {o.from} |->
                   IF j = o.from THEN o.output ELSE pending[c][j]]
          BY <2>1, <4>1, <4>3
        <5>2. CASE k = o.from
          BY <2>2, <4>3, <5>1, <5>2
        <5>3. CASE k # o.from
          BY <5>1, <5>3 DEF IInv, Routed
        <5>. QED
          BY <5>2, <5>3
      <4>. QED
        BY <4>2, <4>3
    <3>2. CASE pending' = pending
      BY <3>2 DEF IInv, Routed
    <3>. QED
      BY <3>1, <3>2 DEF SetChildOutput, IgnoreOutput, RefuseOutput
  <2>. QED
    BY <1>1, <2>3 DEF IInv, Routed
<1>4. ResultsOfGraph'
  BY <1>1 DEF IInv, ResultsOfGraph
<1>5. NothingMissing'
  <2>1. \A c \in Color : state[c] # "up" => state'[c] # "up"
    BY DEF SetChildOutput, AcceptOutput, IgnoreOutput, RefuseOutput, IInv, Shape
  <2>. QED
    BY <1>1, <2>1 DEF IInv, NothingMissing
<1>. QED
  BY <1>2, <1>3, <1>4, <1>5 DEF IInv

\* The invariant holds of every graph that is as partition_by relies on.
LEMMA IInvAlways == Spec => [](Supported(graph) => IInv)
<1>. DEFINE I == graph \in Graphs /\ (Supported(graph) => IInv)
<1>1. Init => I
  BY IInvInit DEF Init
<1>2. I /\ [Next]_vars => I'
  <2>. SUFFICES ASSUME I, [Next]_vars
                PROVE  I'
    OBVIOUS
  <2>1. graph' = graph
    BY DEF Next, TryRunPartition, SetChildOutput, vars
  <2>2. CASE ~Supported(graph)
    BY <2>1, <2>2
  <2>3. CASE Supported(graph) /\ UNCHANGED vars
    BY <2>3 DEF vars, IInv, Shape, MyPartitions, Routed, ResultsOfGraph, NothingMissing
  <2>4. CASE Supported(graph) /\ Next
    BY <2>1, <2>4, IInvRun, IInvSet DEF Next
  <2>. QED
    BY <2>2, <2>3, <2>4
<1>. QED
  BY <1>1, <1>2, PTL DEF Spec

LEMMA GraphAlways == Spec => [](graph \in Graphs)
<1>1. Init => graph \in Graphs
  BY DEF Init
<1>2. graph \in Graphs /\ [Next]_vars => (graph \in Graphs)'
  BY DEF Next, TryRunPartition, SetChildOutput, vars
<1>. QED
  BY <1>1, <1>2, PTL DEF Spec

\* What is kept is for the head partition, from the edge its children name.
LEMMA KeptIsHeads ==
    ASSUME IInv, Supported(graph)
    PROVE  PendingIsHeads
<1>. SUFFICES ASSUME NEW c \in Color, NEW k \in DOMAIN pending[c]
              PROVE  /\ queue[c] # <<>> /\ k \in DOMAIN Head(queue[c]).children
                     /\ LET x == Head(queue[c]).children[k]
                            e == CHOOSE e \in Into(graph, x[1]) : graph.to[e] = x[2]
                            whole == Arguments(graph, graph.nodes, RawInputs(graph.fed))
                        IN  pending[c][k] = Value(e[1], graph.from[e], whole[e[1]])
  BY DEF PendingIsHeads
<1>1. IsGraph(graph) /\ Shape
  BY GraphFacts DEF IInv, Shape
<1>2. queue[c] # <<>> /\ k \in DOMAIN Head(queue[c]).children
  BY <1>1 DEF Shape
<1>3. PICK P \in Components(graph, c) : Head(queue[c]) = MakePartition(graph, P)
  BY <1>1, <1>2, HeadIsPartition
<1>4. PICK f : f = Children(graph, P)
  OBVIOUS
<1>5. Head(queue[c]).children = f
  BY <1>3, <1>4 DEF MakePartition
<1>6. P \cap graph.fed = {}
  <2>1. CASE P \cap graph.fed # {}
    <3>1. f = <<>>
      BY <1>4, <2>1 DEF Children
    <3>. QED
      BY <1>2, <1>5, <3>1
  <2>. QED
    BY <2>1
<1>7. OneEdgeEach(graph, c, P, f)
  BY <1>1, <1>4, <1>6, ChildIsAnEdge
<1>8. PICK e \in Entering(graph, P) : graph.color[e[1]] = k
  BY <1>2, <1>5, <1>7 DEF OneEdgeEach
<1>9. e \in Crossing(graph) /\ graph.color[e[2]] = c /\ f[k] = <<e[2], graph.to[e]>> /\ e \in graph.edges
  BY <1>7, <1>8 DEF OneEdgeEach, Entering
<1>10. Crosses(graph, k, c, pending[c][k])
  BY DEF IInv, Routed
<1>11. PICK d \in Crossing(graph) :
          graph.color[d[1]] = k /\ graph.color[d[2]] = c /\ pending[c][k] = Carried(graph, d)
  BY <1>10 DEF Crosses
<1>12. d = e
  BY <1>8, <1>9, <1>11 DEF Supported, Unambiguous
<1>13. PICK x : x = f[k]
  OBVIOUS
<1>14. x[1] = e[2] /\ x[2] = graph.to[e]
  BY <1>9, <1>13
<1>15. (CHOOSE b \in Into(graph, x[1]) : graph.to[b] = x[2]) = e
  <2>1. e \in Into(graph, x[1])
    BY <1>9, <1>14 DEF Into
  <2>2. \A b \in Into(graph, x[1]) : graph.to[b] = x[2] => b = e
    BY <1>1, <1>9, <1>14 DEF Into, IsGraph
  <2>. QED
    BY <1>14, <2>1, <2>2
<1>16. pending[c][k] = Value(e[1], graph.from[e], WholeArguments(graph)[e[1]])
  BY <1>11, <1>12 DEF Carried
<1>. QED
  BY <1>2, <1>5, <1>13, <1>15, <1>16 DEF WholeArguments

\* When all queues are empty, all outputs have been reported.
LEMMA AllReported ==
    ASSUME IInv, AllDone
    PROVE  results = WholeOutputs(graph)
<1>1. IsGraph(graph)
  BY GraphFacts DEF IInv, Shape
<1>2. \A c \in Color : \A P \in Components(graph, c) : Contribution(graph, P) \subseteq results
  BY DEF IInv, NothingMissing, AllDone, IsDone
<1>3. WholeOutputs(graph) \subseteq results
  BY <1>1, <1>2, ContributionsAreAll
<1>. QED
  BY <1>3 DEF IInv, ResultsOfGraph

\* ResultsOfGraph: on the graphs partition_by relies on, whatever a scheduler
\* reports with `to: None` (partition.rs:465) is an output of the graph run whole.
THEOREM PartitionResults ==
    ASSUME \A g \in Graphs : Supported(g)
    PROVE  Spec => []ResultsOfGraph
<1>1. graph \in Graphs /\ (Supported(graph) => IInv) => ResultsOfGraph
  BY DEF IInv
<1>. QED
  BY <1>1, GraphAlways, IInvAlways, PTL

\* PendingIsHeads: what set_child_output keeps (partition.rs:511) is what the
\* graph carries on the edge that the head partition's children name.
THEOREM PartitionPending ==
    ASSUME \A g \in Graphs : Supported(g)
    PROVE  Spec => []PendingIsHeads
<1>1. graph \in Graphs /\ (Supported(graph) => IInv) => PendingIsHeads
  BY KeptIsHeads
<1>. QED
  BY <1>1, GraphAlways, IInvAlways, PTL

\* NothingLost: when all queues are empty, mark_done (partition.rs:445) has
\* reported every output of the graph.
THEOREM PartitionNothingLost ==
    ASSUME \A g \in Graphs : Supported(g)
    PROVE  Spec => []NothingLost
<1>1. graph \in Graphs /\ (Supported(graph) => IInv) => NothingLost
  BY AllReported DEF NothingLost
<1>. QED
  BY <1>1, GraphAlways, IInvAlways, PTL

---------------------------------------------------------------------------
(* The graph of the prover, for every number of chunks. *)

\* The graph field by field.
IsExec(g) ==
    /\ g.nodes = 0 .. NumChunks + 2 /\ g.fed = {NumChunks + 2} /\ g.multi = {}
    /\ \A e : e \in g.edges <=>
          \/ e = <<NumChunks + 2, 0>>
          \/ \E p \in 2 .. NumChunks + 1 : e = <<0, p>> \/ e = <<p, 1>>
    /\ g.color \in [g.nodes -> Color]
    /\ g.color[0] = 0 /\ g.color[1] = 0 /\ g.color[NumChunks + 2] = 0
    /\ \A p \in 2 .. NumChunks + 1 : g.color[p] = p - 1
    /\ g.outs \in [g.nodes -> Nat]
    /\ g.outs[0] = NumChunks /\ g.outs[1] = 1 /\ g.outs[NumChunks + 2] = 2
    /\ \A p \in 2 .. NumChunks + 1 : g.outs[p] = 1
    /\ g.from \in [g.edges -> Nat] /\ g.to \in [g.edges -> Nat]
    /\ g.from[<<NumChunks + 2, 0>>] = 0 /\ g.to[<<NumChunks + 2, 0>>] = 0
    /\ \A p \in 2 .. NumChunks + 1 :
          /\ g.from[<<0, p>>] = p - 2 /\ g.to[<<0, p>>] = 0
          /\ g.from[<<p, 1>>] = 0 /\ g.to[<<p, 1>>] = p - 2

LEMMA ExecFields == IsExec(ExecGraph)
<1>. USE ProverAssumption
<1>1. PICK k \in Nat \ {0} : k = NumChunks
  OBVIOUS
<1>2. \A p : p \in Provers <=> p \in 2 .. k + 1
  <2>1. Provers = {i + 2 : i \in 0 .. k - 1}
    BY <1>1 DEF Provers, Chunks, ChunkProver
  <2>2. \A p \in 2 .. k + 1 : p - 2 \in 0 .. k - 1 /\ p = (p - 2) + 2
    BY <1>1
  <2>. QED
    BY <1>1, <2>1, <2>2
<1>3. Provers = 2 .. k + 1
  BY <1>2
<1>4. PICK E : E = Links \cup {<<Inference, Split>>}
  OBVIOUS
<1>5. PICK N : N = {Split, Final, Inference} \cup Provers
  OBVIOUS
<1>6. N = 0 .. k + 2
  BY <1>1, <1>3, <1>5 DEF Split, Final, Inference
<1>7. \A e : e \in E <=> \/ e = <<k + 2, 0>>
                         \/ \E p \in 2 .. k + 1 : e = <<0, p>> \/ e = <<p, 1>>
  BY <1>1, <1>3, <1>4 DEF Links, Split, Final, Inference
<1>8. PICK g : g = ExecGraph
  OBVIOUS
<1>9. /\ g.nodes = N /\ g.edges = E /\ g.multi = {} /\ g.fed = {k + 2}
      /\ g.color = [n \in N |-> IF n \in Provers THEN n - 1 ELSE 0]
      /\ g.outs = [n \in N |-> IF n = Inference THEN 2 ELSE IF n = Split THEN NumChunks ELSE 1]
      /\ g.from = [e \in E |-> IF e[1] = Inference THEN 0 ELSE Link[e][1]]
      /\ g.to = [e \in E |-> IF e[1] = Inference THEN 0 ELSE Link[e][2]]
  BY <1>1, <1>4, <1>5, <1>8 DEF ExecGraph, Inference
<1>10. /\ g.color \in [N -> 0 .. k]
       /\ g.color[0] = 0 /\ g.color[1] = 0 /\ g.color[k + 2] = 0
       /\ \A p \in 2 .. k + 1 : g.color[p] = p - 1
  BY <1>1, <1>3, <1>6, <1>9
<1>11. /\ g.outs \in [N -> Nat]
       /\ g.outs[0] = k /\ g.outs[1] = 1 /\ g.outs[k + 2] = 2
       /\ \A p \in 2 .. k + 1 : g.outs[p] = 1
  BY <1>1, <1>6, <1>9 DEF Inference, Split
<1>12. g.from[<<k + 2, 0>>] = 0 /\ g.to[<<k + 2, 0>>] = 0
  BY <1>1, <1>7, <1>9 DEF Inference
<1>13. ASSUME NEW p \in 2 .. k + 1
       PROVE  /\ g.from[<<0, p>>] = p - 2 /\ g.to[<<0, p>>] = 0
              /\ g.from[<<p, 1>>] = 0 /\ g.to[<<p, 1>>] = p - 2
  <2>1. PICK d : d = <<0, p>>
    OBVIOUS
  <2>2. PICK e : e = <<p, 1>>
    OBVIOUS
  <2>3. d \in Links /\ d \in E /\ e \in Links /\ e \in E
    BY <1>3, <1>4, <2>1, <2>2 DEF Links, Split, Final
  <2>4. Link[d] = <<p - 2, 0>> /\ Link[e] = <<0, p - 2>>
    BY <1>1, <2>1, <2>2, <2>3 DEF Link, Split
  <2>5. d[1] # Inference /\ e[1] # Inference
    BY <1>1, <2>1, <2>2 DEF Inference
  <2>6. g.from[d] = p - 2 /\ g.to[d] = 0 /\ g.from[e] = 0 /\ g.to[e] = p - 2
    BY <1>9, <2>3, <2>4, <2>5
  <2>. QED
    BY <2>1, <2>2, <2>6
<1>14. g.from \in [E -> Nat] /\ g.to \in [E -> Nat]
  <2>1. ASSUME NEW e \in E
        PROVE  g.from[e] \in Nat /\ g.to[e] \in Nat
    <3>1. CASE e = <<k + 2, 0>>
      BY <1>12, <3>1
    <3>2. CASE \E p \in 2 .. k + 1 : e = <<0, p>> \/ e = <<p, 1>>
      <4>1. PICK p \in 2 .. k + 1 : e = <<0, p>> \/ e = <<p, 1>>
        BY <3>2
      <4>2. p - 2 \in Nat /\ 0 \in Nat
        BY <1>1
      <4>. QED
        BY <1>13, <4>1, <4>2
    <3>. QED
      BY <1>7, <3>1, <3>2
  <2>2. g.from = [e \in E |-> g.from[e]] /\ g.to = [e \in E |-> g.to[e]]
    BY <1>9
  <2>. QED
    BY <2>1, <2>2
<1>15. IsExec(g)
  <2>1. /\ g.nodes = 0 .. k + 2 /\ g.fed = {k + 2} /\ g.multi = {}
        /\ \A e : e \in g.edges <=> \/ e = <<k + 2, 0>>
                                   \/ \E p \in 2 .. k + 1 : e = <<0, p>> \/ e = <<p, 1>>
    BY <1>6, <1>7, <1>9
  <2>2. g.color \in [g.nodes -> Color] /\ g.outs \in [g.nodes -> Nat]
        /\ g.from \in [g.edges -> Nat] /\ g.to \in [g.edges -> Nat]
    BY <1>1, <1>9, <1>10, <1>11, <1>14
  <2>. QED
    BY <1>1, <1>10, <1>11, <1>12, <1>13, <2>1, <2>2 DEF IsExec
<1>. QED
  BY <1>8, <1>15

LEMMA ExecIsGraph ==
    ASSUME NEW g, IsExec(g)
    PROVE  IsGraph(g)
<1>. USE ProverAssumption
<1>1. PICK k \in Nat \ {0} : k = NumChunks
  OBVIOUS
<1>2. \A e : e \in g.edges <=> \/ e = <<k + 2, 0>>
                               \/ \E p \in 2 .. k + 1 : e = <<0, p>> \/ e = <<p, 1>>
  BY <1>1 DEF IsExec
<1>3. g.nodes = 0 .. k + 2 /\ g.fed = {k + 2}
  BY <1>1 DEF IsExec
<1>4. g.nodes \subseteq Nat /\ IsFiniteSet(g.nodes) /\ g.fed \subseteq g.nodes
  <2>1. 0 .. k + 2 \subseteq Nat /\ k + 2 \in 0 .. k + 2 /\ 0 \in Int /\ k + 2 \in Int
    OBVIOUS
  <2>2. IsFiniteSet(0 .. k + 2)
    BY <2>1, FS_Interval
  <2>. QED
    BY <1>3, <2>1, <2>2
<1>5. g.edges \subseteq g.nodes \X g.nodes
  BY <1>2, <1>3
<1>6. Acyclic(g)
  <2>. SUFFICES ASSUME NEW S \in SUBSET g.nodes, S # {}
                PROVE  \E n \in S : \A e \in g.edges : e[2] = n => e[1] \notin S
    BY DEF Acyclic
  <2>1. \A e \in g.edges : e[2] # k + 2 /\ (e[2] = 0 => e[1] = k + 2)
                           /\ (e[2] \in 2 .. k + 1 => e[1] = 0)
                           /\ (e[2] = 1 => e[1] \in 2 .. k + 1)
    BY <1>2
  <2>2. CASE k + 2 \in S
    BY <2>1, <2>2
  <2>3. CASE k + 2 \notin S /\ 0 \in S
    BY <2>1, <2>3
  <2>4. CASE k + 2 \notin S /\ 0 \notin S /\ \E p \in 2 .. k + 1 : p \in S
    BY <2>1, <2>4
  <2>5. CASE k + 2 \notin S /\ 0 \notin S /\ \A p \in 2 .. k + 1 : p \notin S
    <3>1. 1 \in S
      <4>1. \A n \in 0 .. k + 2 : n = 0 \/ n = 1 \/ n \in 2 .. k + 1 \/ n = k + 2
        OBVIOUS
      <4>. QED
        BY <1>3, <2>5, <4>1
    <3>. QED
      BY <2>1, <2>5, <3>1
  <2>. QED
    BY <2>2, <2>3, <2>4, <2>5
<1>7. \A e \in g.edges : g.from[e] < g.outs[e[1]]
  <2>. SUFFICES ASSUME NEW e \in g.edges PROVE g.from[e] < g.outs[e[1]]
    OBVIOUS
  <2>1. CASE e = <<k + 2, 0>>
    BY <1>1, <2>1 DEF IsExec
  <2>2. ASSUME NEW p \in 2 .. k + 1, e = <<0, p>>
        PROVE  g.from[e] < g.outs[e[1]]
    <3>1. g.from[e] = p - 2 /\ g.outs[0] = k /\ e[1] = 0
      BY <1>1, <2>2 DEF IsExec
    <3>2. p - 2 < k
      OBVIOUS
    <3>. QED
      BY <3>1, <3>2
  <2>3. ASSUME NEW p \in 2 .. k + 1, e = <<p, 1>>
        PROVE  g.from[e] < g.outs[e[1]]
    <3>1. g.from[e] = 0 /\ g.outs[p] = 1 /\ e[1] = p
      BY <1>1, <2>3 DEF IsExec
    <3>. QED
      BY <3>1
  <2>. QED
    BY <1>2, <2>1, <2>2, <2>3
<1>8. \A d, e \in g.edges : d[2] = e[2] /\ g.to[d] = g.to[e] => d = e
  <2>. SUFFICES ASSUME NEW d \in g.edges, NEW e \in g.edges, d[2] = e[2], g.to[d] = g.to[e]
                PROVE  d = e
    OBVIOUS
  <2>1. CASE d = <<k + 2, 0>>
    BY <1>2, <2>1
  <2>2. ASSUME NEW p \in 2 .. k + 1, d = <<0, p>>
        PROVE  d = e
    BY <1>2, <2>2
  <2>3. ASSUME NEW p \in 2 .. k + 1, d = <<p, 1>>
        PROVE  d = e
    <3>1. PICK q \in 2 .. k + 1 : e = <<q, 1>>
      BY <1>2, <2>3
    <3>2. g.to[d] = p - 2 /\ g.to[e] = q - 2
      BY <1>1, <2>3, <3>1 DEF IsExec
    <3>3. p - 2 = q - 2
      BY <3>2
    <3>4. p = q
      BY ONLY <3>3, p \in 2 .. k + 1, q \in 2 .. k + 1, k \in Nat \ {0}
    <3>. QED
      BY <2>3, <3>1, <3>4
  <2>. QED
    BY <1>2, <2>1, <2>2, <2>3
<1>9. /\ g.color \in [g.nodes -> Color] /\ g.outs \in [g.nodes -> Nat]
      /\ g.from \in [g.edges -> Nat] /\ g.to \in [g.edges -> Nat]
  BY DEF IsExec
<1>. QED
  BY <1>4, <1>5, <1>6, <1>7, <1>8, <1>9 DEF IsGraph

Source == {0, NumChunks + 2}

\* The inference and Split are one partition; every other node is alone.
LEMMA ExecComponents ==
    ASSUME NEW g, IsExec(g)
    PROVE  /\ Component(g, 0) = Source /\ Component(g, NumChunks + 2) = Source
           /\ Component(g, 1) = {1}
           /\ \A p \in 2 .. NumChunks + 1 : Component(g, p) = {p}
<1>. USE ProverAssumption
<1>1. PICK k \in Nat \ {0} : k = NumChunks
  OBVIOUS
<1>2. \A e \in g.edges : \/ e = <<k + 2, 0>>
                         \/ \E p \in 2 .. k + 1 : e = <<0, p>> \/ e = <<p, 1>>
  BY <1>1 DEF IsExec
<1>3. g.nodes = 0 .. k + 2 /\ IsGraph(g)
  BY <1>1, ExecIsGraph DEF IsExec
<1>4. g.color[0] = 0 /\ g.color[1] = 0 /\ g.color[k + 2] = 0
      /\ \A p \in 2 .. k + 1 : g.color[p] = p - 1
  BY <1>1 DEF IsExec
<1>5. \A e \in g.edges : g.color[e[1]] = g.color[e[2]] => e = <<k + 2, 0>>
  BY <1>2, <1>4
<1>6. \A n \in g.nodes : \A S \in SUBSET g.nodes :
         n \in S /\ Closed(g, S) => Component(g, n) \subseteq S
  BY ComponentDef
<1>7. <<k + 2, 0>> \in g.edges
  BY <1>1 DEF IsExec
<1>8. \A n \in g.nodes : n \in Component(g, n) /\ Closed(g, Component(g, n))
  BY <1>3, SearchIsClosed
<1>9. \A S \in SUBSET g.nodes : Closed(g, S) <=> (k + 2 \in S <=> 0 \in S)
  BY <1>4, <1>5, <1>7 DEF Closed
<1>10. 0 \in g.nodes /\ 1 \in g.nodes /\ k + 2 \in g.nodes /\ \A p \in 2 .. k + 1 : p \in g.nodes
  BY <1>3
<1>11. ASSUME NEW n \in {0, k + 2}
       PROVE  Component(g, n) = {0, k + 2}
  <2>1. Component(g, n) \subseteq {0, k + 2}
    <3>1. PICK S : S = {0, k + 2}
      OBVIOUS
    <3>2. S \in SUBSET g.nodes /\ n \in S /\ n \in g.nodes
      BY <1>10, <3>1
    <3>3. Closed(g, S)
      BY <1>9, <3>1, <3>2
    <3>. QED
      BY <1>6, <3>1, <3>2, <3>3
  <2>2. Component(g, n) \in SUBSET g.nodes
    BY <1>10, <2>1
  <2>3. n \in Component(g, n) /\ Closed(g, Component(g, n))
    BY <1>8, <1>10
  <2>. QED
    BY <1>9, <2>1, <2>2, <2>3
<1>12. ASSUME NEW n \in 1 .. k + 1
       PROVE  Component(g, n) = {n}
  <2>1. n \in g.nodes /\ n # 0 /\ n # k + 2
    BY <1>3
  <2>2. Component(g, n) \subseteq {n}
    BY <1>6, <1>9, <2>1
  <2>. QED
    BY <1>8, <2>1, <2>2
<1>13. 1 \in 1 .. k + 1 /\ \A p \in 2 .. k + 1 : p \in 1 .. k + 1
  OBVIOUS
<1>. QED
  BY <1>1, <1>11, <1>12, <1>13 DEF Source

LEMMA ExecPartition ==
    ASSUME NEW g, IsExec(g), NEW c \in Color, NEW P \in Components(g, c)
    PROVE  \/ c = 0 /\ P = Source
           \/ c = 0 /\ P = {1}
           \/ c \in 1 .. NumChunks /\ P = {c + 1}
<1>. USE ProverAssumption
<1>1. PICK k \in Nat \ {0} : k = NumChunks
  OBVIOUS
<1>2. PICK n \in g.nodes : g.color[n] = c /\ P = Component(g, n)
  BY DEF Components
<1>3. n = 0 \/ n = 1 \/ n = k + 2 \/ n \in 2 .. k + 1
  <2>1. n \in 0 .. k + 2
    BY <1>1 DEF IsExec
  <2>. QED
    BY <2>1
<1>4. g.color[0] = 0 /\ g.color[1] = 0 /\ g.color[k + 2] = 0
      /\ \A p \in 2 .. k + 1 : g.color[p] = p - 1
  BY <1>1 DEF IsExec
<1>5. CASE n = 0 \/ n = k + 2
  BY <1>1, <1>2, <1>4, <1>5, ExecComponents
<1>6. CASE n = 1
  BY <1>2, <1>4, <1>6, ExecComponents
<1>7. CASE n \in 2 .. k + 1
  <2>1. P = {n}
    BY <1>1, <1>2, <1>7, ExecComponents
  <2>2. c = n - 1
    BY <1>2, <1>4, <1>7
  <2>. QED
    BY <1>1, <1>7, <2>1, <2>2
<1>. QED
  BY <1>3, <1>5, <1>6, <1>7

\* Where its partitions begin and end.
LEMMA ExecEnds ==
    ASSUME NEW g, IsExec(g)
    PROVE  /\ SinksOf(g, g.nodes) = {1}
           /\ SinksOf(g, Source) = {0} /\ Root(g, Source) = 0
           /\ \A n \in 1 .. NumChunks + 1 :
                 /\ SinksOf(g, {n}) = {n} /\ SourcesOf(g, {n}) = {n} /\ Root(g, {n}) = n
                 /\ Into(g, n) # {} /\ {n} \cap g.fed = {}
           /\ Source \cap g.fed # {}
<1>. USE ProverAssumption
<1>1. PICK k \in Nat \ {0} : k = NumChunks
  OBVIOUS
<1>2. \A e : e \in g.edges <=> \/ e = <<k + 2, 0>>
                               \/ \E p \in 2 .. k + 1 : e = <<0, p>> \/ e = <<p, 1>>
  BY <1>1 DEF IsExec
<1>3. g.nodes = 0 .. k + 2 /\ g.fed = {k + 2}
  BY <1>1 DEF IsExec
<1>4. SinksOf(g, g.nodes) = {1}
  <2>1. \A e \in g.edges : e[1] # 1 /\ e[1] \in g.nodes /\ e[2] \in g.nodes
    BY <1>2, <1>3
  <2>2. \A n \in g.nodes : n # 1 => \E e \in g.edges : e[1] = n
    <3>. TAKE n \in g.nodes
    <3>. HAVE n # 1
    <3>1. CASE n = k + 2
      <4>1. <<k + 2, 0>> \in g.edges /\ <<k + 2, 0>>[1] = k + 2
        BY <1>2
      <4>. QED
        BY <3>1, <4>1
    <3>2. CASE n = 0
      <4>1. <<0, 2>> \in g.edges /\ <<0, 2>>[1] = 0
        BY <1>2
      <4>. QED
        BY <3>2, <4>1
    <3>3. CASE n \in 2 .. k + 1
      <4>1. <<n, 1>> \in g.edges /\ <<n, 1>>[1] = n
        BY <1>2, <3>3
      <4>. QED
        BY <4>1
    <3>. QED
      BY <1>3, <3>1, <3>2, <3>3
  <2>3. Inner(g, g.nodes) = g.edges /\ 1 \in g.nodes
    BY <1>3, <2>1 DEF Inner
  <2>. QED
    BY <2>1, <2>2, <2>3 DEF SinksOf
<1>5. \A e \in g.edges : e[1] # e[2]
  BY <1>2
<1>6. ASSUME NEW n \in 1 .. k + 1
      PROVE  /\ SinksOf(g, {n}) = {n} /\ SourcesOf(g, {n}) = {n} /\ Root(g, {n}) = n
             /\ Into(g, n) # {} /\ {n} \cap g.fed = {}
  <2>1. Inner(g, {n}) = {}
    BY <1>5 DEF Inner
  <2>2. SinksOf(g, {n}) = {n} /\ SourcesOf(g, {n}) = {n}
    BY <2>1 DEF SinksOf, SourcesOf
  <2>3. Root(g, {n}) = n
    BY <2>2 DEF Root
  <2>4. \E e \in g.edges : e[2] = n
    <3>1. CASE n = 1
      <4>1. <<2, 1>> \in g.edges /\ <<2, 1>>[2] = 1
        BY <1>2
      <4>. QED
        BY <3>1, <4>1
    <3>2. CASE n \in 2 .. k + 1
      <4>1. <<0, n>> \in g.edges /\ <<0, n>>[2] = n
        BY <1>2, <3>2
      <4>. QED
        BY <4>1
    <3>. QED
      BY <3>1, <3>2
  <2>5. Into(g, n) # {}
    BY <2>4 DEF Into
  <2>6. {n} \cap g.fed = {}
    BY <1>3
  <2>. QED
    BY <2>2, <2>3, <2>5, <2>6
<1>7. SinksOf(g, Source) = {0}
  <2>1. Inner(g, Source) = {<<k + 2, 0>>}
    BY <1>1, <1>2 DEF Inner, Source
  <2>2. PICK b : b = <<k + 2, 0>>
    OBVIOUS
  <2>3. Inner(g, Source) = {b} /\ b[1] = k + 2 /\ Source = {0, k + 2}
    BY <1>1, <2>1, <2>2 DEF Source
  <2>4. SinksOf(g, Source) = {n \in {0, k + 2} : k + 2 # n}
    BY <2>3 DEF SinksOf
  <2>. QED
    BY <2>4
<1>8. Root(g, Source) = 0
  BY <1>7 DEF Root
<1>. QED
  BY <1>1, <1>3, <1>4, <1>6, <1>7, <1>8 DEF Source

\* The graph of the prover is one that partition_by can be relied on for.
LEMMA ExecSupported ==
    ASSUME NEW g, IsExec(g)
    PROVE  Supported(g)
<1>. USE ProverAssumption
<1>1. PICK k \in Nat \ {0} : k = NumChunks
  OBVIOUS
<1>2. \A e : e \in g.edges <=> \/ e = <<k + 2, 0>>
                               \/ \E p \in 2 .. k + 1 : e = <<0, p>> \/ e = <<p, 1>>
  BY <1>1 DEF IsExec
<1>3. g.nodes = 0 .. k + 2 /\ g.fed = {k + 2} /\ g.multi = {}
  BY <1>1 DEF IsExec
<1>4. g.color[0] = 0 /\ g.color[1] = 0 /\ g.color[k + 2] = 0
      /\ \A p \in 2 .. k + 1 : g.color[p] = p - 1
  BY <1>1 DEF IsExec
<1>5. \A e \in Crossing(g) : \E p \in 2 .. k + 1 : e = <<0, p>> \/ e = <<p, 1>>
  <2>. TAKE e \in Crossing(g)
  <2>1. e \in g.edges /\ g.color[e[1]] # g.color[e[2]]
    BY DEF Crossing
  <2>2. e # <<k + 2, 0>>
    BY <1>4, <2>1
  <2>. QED
    BY <1>2, <2>1, <2>2
<1>6. \A e \in Crossing(g) : /\ e[1] \in {0} \cup 2 .. k + 1 /\ e[2] \in 1 .. k + 1
                             /\ e[1] = 0 => e[2] \in 2 .. k + 1
                             /\ e[1] # 0 => e[2] = 1
                             /\ e = <<e[1], e[2]>>
  BY <1>5
<1>7. Component(g, 0) = Source /\ \A n \in 1 .. k + 1 : Component(g, n) = {n}
  <2>1. \A n \in 1 .. k + 1 : n = 1 \/ n \in 2 .. k + 1
    OBVIOUS
  <2>. QED
    BY <1>1, <2>1, ExecComponents
<1>8. /\ Root(g, Source) = 0
      /\ \A n \in 1 .. k + 1 : Root(g, {n}) = n /\ SourcesOf(g, {n}) = {n} /\ {n} \cap g.fed = {}
      /\ SinksOf(g, Source) = {0} /\ \A n \in 1 .. k + 1 : SinksOf(g, {n}) = {n} /\ Into(g, n) # {}
      /\ Source \cap g.fed # {}
  BY <1>1, ExecEnds
<1>9. Rooted(g)
  <2>. SUFFICES ASSUME NEW e \in Crossing(g)
                PROVE  e[1] = Root(g, Component(g, e[1]))
    BY DEF Rooted
  <2>1. e[1] = 0 \/ e[1] \in 1 .. k + 1
    BY <1>6
  <2>. QED
    BY <1>7, <1>8, <2>1
<1>10. Entered(g)
  <2>. SUFFICES ASSUME NEW e \in Crossing(g)
                PROVE  Component(g, e[2]) \cap g.fed = {} /\ e[2] \in SourcesOf(g, Component(g, e[2]))
    BY DEF Entered
  <2>1. PICK n \in 1 .. k + 1 : e[2] = n
    BY <1>6
  <2>2. Component(g, n) = {n} /\ SourcesOf(g, {n}) = {n} /\ {n} \cap g.fed = {}
    BY <1>7, <1>8
  <2>. QED
    BY <2>1, <2>2
<1>11. Unambiguous(g)
  <2>. SUFFICES ASSUME NEW d \in Crossing(g), NEW e \in Crossing(g),
                       g.color[d[1]] = g.color[e[1]], g.color[d[2]] = g.color[e[2]]
                PROVE  d = e
    BY DEF Unambiguous
  <2>1. PICK p \in 2 .. k + 1 : d = <<0, p>> \/ d = <<p, 1>>
    BY <1>5
  <2>2. PICK q \in 2 .. k + 1 : e = <<0, q>> \/ e = <<q, 1>>
    BY <1>5
  <2>3. g.color[p] = p - 1 /\ g.color[q] = q - 1 /\ p - 1 \in Nat \ {0} /\ q - 1 \in Nat \ {0}
    BY <1>4
  <2>4. p - 1 = q - 1 => p = q
    OBVIOUS
  <2>5. CASE d = <<0, p>>
    BY <1>4, <2>2, <2>3, <2>4, <2>5
  <2>6. CASE d = <<p, 1>>
    BY <1>4, <2>2, <2>3, <2>4, <2>6
  <2>. QED
    BY <2>1, <2>5, <2>6
<1>12. PartitionOk(g)
  <2>1. Cardinality(SinksOf(g, g.nodes)) = 1
    BY ExecEnds, FS_Singleton
  <2>2. ASSUME NEW P \in UNION {Components(g, c) : c \in Color}
        PROVE  /\ P \cap g.fed = {} => /\ Cardinality(SourcesOf(g, P)) = 1
                                       /\ \A s \in SourcesOf(g, P) : Into(g, s) # {}
               /\ Cardinality(SinksOf(g, P)) = 1
               /\ From(g, Root(g, P)) \cap g.multi = {}
               /\ \A d, e \in From(g, Root(g, P)) : g.color[d[2]] = g.color[e[2]] => d = e
    <3>1. PICK c \in Color : P \in Components(g, c)
      OBVIOUS
    <3>2. P = Source \/ \E n \in 1 .. k + 1 : P = {n}
      <4>1. c \in 1 .. k => c + 1 \in 1 .. k + 1
        OBVIOUS
      <4>2. 1 \in 1 .. k + 1
        OBVIOUS
      <4>. QED
        BY <1>1, <3>1, <4>1, <4>2, ExecPartition
    <3>3. \A n : Cardinality({n}) = 1
      BY FS_Singleton
    <3>4. \A d, e \in From(g, Root(g, P)) : g.color[d[2]] = g.color[e[2]] => d = e
      <4>1. CASE P = Source
        <5>1. Root(g, P) = 0
          BY <1>8, <4>1
        <5>2. \A e \in From(g, 0) : \E p \in 2 .. k + 1 : e = <<0, p>>
          BY <1>2 DEF From
        <5>3. \A p, q \in 2 .. k + 1 : p - 1 = q - 1 => p = q
          OBVIOUS
        <5>. QED
          BY <1>4, <5>1, <5>2, <5>3
      <4>2. ASSUME NEW n \in 1 .. k + 1, P = {n}
            PROVE  \A d, e \in From(g, Root(g, P)) : d = e
        <5>1. Root(g, P) = n
          BY <1>8, <4>2
        <5>2. \A e \in From(g, n) : e = <<n, 1>>
          BY <1>2 DEF From
        <5>. QED
          BY <5>1, <5>2
      <4>. QED
        BY <3>2, <4>1, <4>2
    <3>5. Cardinality(SinksOf(g, P)) = 1
      <4>1. SinksOf(g, P) = {0} \/ \E n \in 1 .. k + 1 : SinksOf(g, P) = {n}
        BY <1>8, <3>2
      <4>. QED
        BY <3>3, <4>1
    <3>6. P \cap g.fed = {} => /\ Cardinality(SourcesOf(g, P)) = 1
                               /\ \A s \in SourcesOf(g, P) : Into(g, s) # {}
      <4>1. CASE P = Source
        BY <1>8, <4>1
      <4>2. ASSUME NEW n \in 1 .. k + 1, P = {n}
            PROVE  /\ Cardinality(SourcesOf(g, P)) = 1
                   /\ \A s \in SourcesOf(g, P) : Into(g, s) # {}
        <5>1. SourcesOf(g, P) = {n} /\ Into(g, n) # {}
          BY <1>8, <4>2
        <5>. QED
          BY <3>3, <5>1
      <4>. QED
        BY <3>2, <4>1, <4>2
    <3>. QED
      BY <1>3, <3>4, <3>5, <3>6
  <2>. QED
    BY <2>1, <2>2 DEF PartitionOk
<1>. QED
  BY <1>9, <1>10, <1>11, <1>12 DEF Supported

---------------------------------------------------------------------------
(* What the graph of the prover computes. *)

LEMMA PortsFromZero ==
    ASSUME NEW k \in Nat, NEW m, DOMAIN m = 0 .. k - 1
    PROVE  InPortOrder(m) = [i \in 1 .. k |-> m[i - 1]]
<1>1. Cardinality(0 .. k - 1) = k
  <2>1. 0 \in Int /\ k - 1 \in Int
    OBVIOUS
  <2>. QED
    BY <2>1, FS_Interval
<1>2. InPortOrder(m) = [i \in 1 .. k |-> m[Nth(0 .. k - 1, i)]]
  BY <1>1 DEF InPortOrder
<1>3. \A i \in 1 .. k : Nth(0 .. k - 1, i) = i - 1
  BY NthFromZero
<1>. QED
  BY <1>2, <1>3

\* ed[q] is the edge into port q of n, and there are k ports.
EdgesInOrder(g, n, k, ed) ==
    /\ \A q \in 0 .. k - 1 : ed[q] \in g.edges /\ ed[q][2] = n /\ g.to[ed[q]] = q
    /\ \A e \in g.edges : e[2] = n => g.to[e] \in 0 .. k - 1

\* The arguments of a node that is not fed, from its edges in port order.
LEMMA FromEdges ==
    ASSUME NEW g, IsGraph(g), NEW n \in g.nodes \ g.fed, NEW k \in Nat, NEW ed,
           EdgesInOrder(g, n, k, ed)
    PROVE  WholeArguments(g)[n] = [i \in 1 .. k |-> Carried(g, ed[i - 1])]
<1>0. /\ \A q \in 0 .. k - 1 : ed[q] \in g.edges /\ ed[q][2] = n /\ g.to[ed[q]] = q
      /\ \A e \in g.edges : e[2] = n => g.to[e] \in 0 .. k - 1
  BY DEF EdgesInOrder
<1>1. PICK raw : raw = RawInputs(g.fed)
  OBVIOUS
<1>2. PICK W : W = WholeArguments(g)
  OBVIOUS
<1>3. GivenPorts(raw, n) = {} /\ \A p : <<n, p>> \notin DOMAIN raw
  BY <1>1, OtherNodeInput
<1>4. DOMAIN raw \in SUBSET (g.nodes \X Nat) /\ g.nodes \in SUBSET g.nodes
  BY <1>1, RawInputsTyped DEF IsGraph
<1>5. W[n] = ArgumentsOf(g, g.nodes, raw, W, n)
  BY <1>1, <1>2, <1>4, ArgumentsEquation DEF WholeArguments
<1>6. EdgesInto(g, g.nodes, n) = {e \in g.edges : e[2] = n}
  BY DEF IsGraph, EdgesInto, Inner
<1>7. PortsInto(g, g.nodes, raw, n) = 0 .. k - 1
  <2>1. \A q \in 0 .. k - 1 : \E e \in EdgesInto(g, g.nodes, n) : g.to[e] = q
    BY <1>0, <1>6
  <2>2. \A e \in EdgesInto(g, g.nodes, n) : g.to[e] \in 0 .. k - 1
    BY <1>0, <1>6
  <2>. QED
    BY <1>3, <2>1, <2>2 DEF PortsInto
<1>8. ASSUME NEW q \in 0 .. k - 1
      PROVE  DatumAt(g, g.nodes, raw, W, n, q) = Carried(g, ed[q])
  <2>1. ed[q] \in EdgesInto(g, g.nodes, n) /\ g.to[ed[q]] = q
    BY <1>0, <1>6
  <2>2. \A e \in EdgesInto(g, g.nodes, n) : g.to[e] = q => e = ed[q]
    BY <1>6, <2>1 DEF IsGraph
  <2>3. EdgeAt(g, g.nodes, n, q) = ed[q]
    BY <2>1, <2>2 DEF EdgeAt
  <2>. QED
    BY <1>2, <1>3, <2>3 DEF DatumAt, Carried
<1>9. PICK m : m = [p \in PortsInto(g, g.nodes, raw, n) |-> DatumAt(g, g.nodes, raw, W, n, p)]
  OBVIOUS
<1>10. W[n] = InPortOrder(m)
  BY <1>5, <1>9, ArgumentsOfDef
<1>11. DOMAIN m = 0 .. k - 1 /\ \A q \in 0 .. k - 1 : m[q] = Carried(g, ed[q])
  BY <1>7, <1>8, <1>9
<1>12. W[n] = [i \in 1 .. k |-> m[i - 1]]
  BY <1>10, <1>11, PortsFromZero
<1>13. \A i \in 1 .. k : m[i - 1] = Carried(g, ed[i - 1])
  <2>1. \A i \in 1 .. k : i - 1 \in 0 .. k - 1
    OBVIOUS
  <2>. QED
    BY <1>11, <2>1
<1>. QED
  BY <1>2, <1>12, <1>13

\* A node that is fed and has no predecessor gets what it is fed.
LEMMA FromFeed ==
    ASSUME NEW g, IsGraph(g), NEW n \in g.fed, \A e \in g.edges : e[2] # n
    PROVE  WholeArguments(g)[n] = <<Raw(n)>>
<1>1. PICK raw : raw = RawInputs(g.fed)
  OBVIOUS
<1>2. PICK W : W = WholeArguments(g)
  OBVIOUS
<1>3. GivenPorts(raw, n) = {0} /\ <<n, 0>> \in DOMAIN raw /\ raw[<<n, 0>>] = Raw(n)
  BY <1>1, FedNodeInput
<1>4. DOMAIN raw \in SUBSET (g.nodes \X Nat) /\ g.nodes \in SUBSET g.nodes /\ n \in g.nodes
  BY <1>1, RawInputsTyped DEF IsGraph
<1>5. W[n] = ArgumentsOf(g, g.nodes, raw, W, n)
  BY <1>1, <1>2, <1>4, ArgumentsEquation DEF WholeArguments
<1>6. EdgesInto(g, g.nodes, n) = {}
  BY DEF EdgesInto, Inner
<1>7. PortsInto(g, g.nodes, raw, n) = {0}
  BY <1>3, <1>6 DEF PortsInto
<1>8. DatumAt(g, g.nodes, raw, W, n, 0) = Raw(n)
  BY <1>3 DEF DatumAt
<1>9. PICK m : m = [p \in PortsInto(g, g.nodes, raw, n) |-> DatumAt(g, g.nodes, raw, W, n, p)]
  OBVIOUS
<1>10. W[n] = InPortOrder(m)
  BY <1>5, <1>9, ArgumentsOfDef
<1>11. DOMAIN m = 0 .. 1 - 1 /\ m[0] = Raw(n)
  BY <1>7, <1>8, <1>9
<1>12. W[n] = [i \in 1 .. 1 |-> m[i - 1]]
  BY <1>10, <1>11, PortsFromZero
<1>13. W[n] = [i \in 1 .. 1 |-> Raw(n)]
  BY <1>11, <1>12
<1>. QED
  BY <1>2, <1>13

\* A node with one edge into it gets what it carries.
LEMMA FromPortZero ==
    ASSUME NEW g, IsGraph(g), NEW n \in g.nodes \ g.fed, NEW ed, EdgesInOrder(g, n, 1, ed)
    PROVE  WholeArguments(g)[n] = <<Carried(g, ed[0])>>
<1>1. PICK k \in Nat : k = 1
  OBVIOUS
<1>2. EdgesInOrder(g, n, k, ed)
  BY <1>1
<1>3. WholeArguments(g)[n] = [i \in 1 .. k |-> Carried(g, ed[i - 1])]
  BY <1>2, FromEdges
<1>4. WholeArguments(g)[n] = [i \in 1 .. 1 |-> Carried(g, ed[0])]
  BY <1>1, <1>3
<1>. QED
  BY <1>4

LEMMA FromOneEdge ==
    ASSUME NEW g, IsGraph(g), NEW e \in g.edges, e[2] \notin g.fed, g.to[e] = 0,
           \A d \in g.edges : d[2] = e[2] => d = e
    PROVE  WholeArguments(g)[e[2]] = <<Carried(g, e)>>
<1>1. PICK ed : ed = [q \in {0} |-> e]
  OBVIOUS
<1>2. e[2] \in g.nodes \ g.fed
  BY DEF IsGraph
<1>3. EdgesInOrder(g, e[2], 1, ed)
  BY <1>1 DEF EdgesInOrder
<1>4. WholeArguments(g)[e[2]] = <<Carried(g, ed[0])>>
  BY <1>2, <1>3, FromPortZero
<1>5. ed[0] = e
  BY <1>1
<1>. QED
  BY <1>4, <1>5

\* What is carried in the graph of the prover: to Split the inference's first
\* output, to each chunk its input, to Final the proof of each chunk.
LEMMA ExecCarries ==
    ASSUME NEW g, IsExec(g)
    PROVE  /\ WholeArguments(g)[NumChunks + 2] = <<Raw(Inference)>>
           /\ \A p \in 2 .. NumChunks + 1 :
                 /\ Carried(g, <<0, p>>) = ChunkInput(p - 2)
                 /\ Carried(g, <<p, 1>>) = ChunkProofOf(p - 2)
           /\ WholeArguments(g)[1] = [j \in 1 .. NumChunks |-> ChunkProofOf(j - 1)]
<1>. USE ProverAssumption
<1>1. PICK k \in Nat \ {0} : k = NumChunks
  OBVIOUS
<1>2. \A e : e \in g.edges <=> \/ e = <<k + 2, 0>>
                               \/ \E p \in 2 .. k + 1 : e = <<0, p>> \/ e = <<p, 1>>
  BY <1>1 DEF IsExec
<1>3. g.nodes = 0 .. k + 2 /\ g.fed = {k + 2} /\ IsGraph(g)
  BY <1>1, ExecIsGraph DEF IsExec
<1>4. Inference = k + 2 /\ Split = 0 /\ \A i : ChunkProver(i) = i + 2
  BY <1>1 DEF Inference, Split, ChunkProver
<1>5. PICK W : W = WholeArguments(g)
  OBVIOUS
<1>6. W[k + 2] = <<Raw(Inference)>>
  <2>1. \A e \in g.edges : e[2] # k + 2
    BY <1>2
  <2>. QED
    BY <1>3, <1>4, <1>5, <2>1, FromFeed
<1>7. W[0] = <<InferenceOut(0)>>
  <2>1. PICK e : e = <<k + 2, 0>>
    OBVIOUS
  <2>2. e \in g.edges /\ e[1] = k + 2 /\ e[2] = 0 /\ e[2] \notin g.fed
        /\ g.to[e] = 0 /\ g.from[e] = 0
    BY <1>1, <1>2, <1>3, <2>1 DEF IsExec
  <2>3. \A d \in g.edges : d[2] = 0 => d = e
    BY <1>2, <2>1
  <2>4. W[0] = <<Carried(g, e)>>
    BY <1>3, <1>5, <2>2, <2>3, FromOneEdge
  <2>5. Carried(g, e) = InferenceOut(0)
    BY <1>4, <1>5, <1>6, <2>2 DEF Carried, InferenceOut
  <2>. QED
    BY <2>4, <2>5
<1>8. ASSUME NEW p \in 2 .. k + 1
      PROVE  Carried(g, <<0, p>>) = ChunkInput(p - 2) /\ Carried(g, <<p, 1>>) = ChunkProofOf(p - 2)
  <2>1. PICK e : e = <<0, p>>
    OBVIOUS
  <2>2. PICK d : d = <<p, 1>>
    OBVIOUS
  <2>3. e \in g.edges /\ e[1] = 0 /\ e[2] = p /\ e[2] \notin g.fed /\ g.to[e] = 0 /\ g.from[e] = p - 2
    <3>1. g.to[<<0, p>>] = 0 /\ g.from[<<0, p>>] = p - 2
      BY <1>1 DEF IsExec
    <3>2. e \in g.edges
      BY <1>2, <2>1
    <3>3. p \notin g.fed
      BY <1>3
    <3>. QED
      BY <2>1, <3>1, <3>2, <3>3
  <2>4. Carried(g, e) = ChunkInput(p - 2)
    BY <1>4, <1>5, <1>7, <2>3 DEF Carried, ChunkInput
  <2>5. \A b \in g.edges : b[2] = p => b = e
    BY <1>2, <2>1
  <2>6. W[p] = <<Carried(g, e)>>
    BY <1>3, <1>5, <2>3, <2>5, FromOneEdge
  <2>7. d[1] = p /\ g.from[d] = 0
    BY <1>1, <2>2 DEF IsExec
  <2>8. ChunkProver(p - 2) = p
    BY <1>4
  <2>9. Carried(g, d) = ChunkProofOf(p - 2)
    BY <1>5, <2>4, <2>6, <2>7, <2>8 DEF Carried, ChunkProofOf
  <2>. QED
    BY <2>1, <2>2, <2>4, <2>9
<1>9. W[1] = [j \in 1 .. k |-> ChunkProofOf(j - 1)]
  <2>1. PICK ed : ed = [q \in 0 .. k - 1 |-> <<q + 2, 1>>]
    OBVIOUS
  <2>2. ASSUME NEW q \in 0 .. k - 1
        PROVE  ed[q] \in g.edges /\ ed[q][2] = 1 /\ g.to[ed[q]] = q
               /\ Carried(g, ed[q]) = ChunkProofOf(q)
    <3>1. PICK p \in 2 .. k + 1 : p = q + 2 /\ p - 2 = q
      OBVIOUS
    <3>2. ed[q] = <<p, 1>>
      BY <2>1, <3>1
    <3>3. ed[q] \in g.edges /\ ed[q][2] = 1
      BY <1>2, <3>2
    <3>4. g.to[<<p, 1>>] = p - 2
      BY <1>1 DEF IsExec
    <3>. QED
      BY <1>8, <3>1, <3>2, <3>3, <3>4
  <2>3. ASSUME NEW e \in g.edges, e[2] = 1
        PROVE  g.to[e] \in 0 .. k - 1
    <3>1. PICK p \in 2 .. k + 1 : e = <<p, 1>>
      BY <1>2, <2>3
    <3>2. g.to[e] = p - 2 /\ p - 2 \in 0 .. k - 1
      <4>1. g.to[<<p, 1>>] = p - 2
        BY <1>1 DEF IsExec
      <4>. QED
        BY <3>1, <4>1
    <3>. QED
      BY <3>2
  <2>4. 1 \in g.nodes \ g.fed
    BY <1>3
  <2>5. W[1] = [i \in 1 .. k |-> Carried(g, ed[i - 1])]
    <3>1. \A q \in 0 .. k - 1 : ed[q] \in g.edges /\ ed[q][2] = 1 /\ g.to[ed[q]] = q
      BY <2>2
    <3>2. \A e \in g.edges : e[2] = 1 => g.to[e] \in 0 .. k - 1
      BY <2>3
    <3>3. EdgesInOrder(g, 1, k, ed)
      BY <3>1, <3>2 DEF EdgesInOrder
    <3>. QED
      BY <1>3, <1>5, <2>4, <3>3, FromEdges
  <2>6. \A i \in 1 .. k : i - 1 \in 0 .. k - 1
    OBVIOUS
  <2>. QED
    BY <2>2, <2>5, <2>6
<1>. QED
  BY <1>1, <1>5, <1>6, <1>8, <1>9

\* The prover's graph meets every condition partition_by checks and relies on:
\* the theorems above are about something.
THEOREM ProverGraphSupported == IsGraph(ExecGraph) /\ Supported(ExecGraph)
BY ExecFields, ExecIsGraph, ExecSupported

\* RoutesOfProving: the scheduler of colour 0 sends each chunk its input and
\* nothing else, and a chunk's scheduler sends back its proof (partition.rs:445).
THEOREM ProverRoutes == Spec => []RoutesOfProving
<1>. USE ProverAssumption
<1>1. ASSUME IInv, graph = ExecGraph, NEW o \in net
      PROVE  \/ o \in {[from |-> 0, to |-> i + 1, output |-> ChunkInput(i)] : i \in Chunks}
             \/ o \in {[from |-> i + 1, to |-> 0, output |-> ChunkProofOf(i)] : i \in Chunks}
  <2>1. PICK k \in Nat \ {0} : k = NumChunks
    OBVIOUS
  <2>2. PICK g : g = graph
    OBVIOUS
  <2>3. IsExec(g)
    BY <1>1, <2>2, ExecFields
  <2>4. PICK e \in Crossing(g) :
           g.color[e[1]] = o.from /\ g.color[e[2]] = o.to /\ o.output = Carried(g, e)
    BY <1>1, <2>2 DEF IInv, Routed, Crosses
  <2>5. g.color[0] = 0 /\ g.color[1] = 0 /\ g.color[k + 2] = 0
        /\ \A p \in 2 .. k + 1 : g.color[p] = p - 1
    BY <2>1, <2>3 DEF IsExec
  <2>6. PICK p \in 2 .. k + 1 : e = <<0, p>> \/ e = <<p, 1>>
    <3>1. e \in g.edges /\ g.color[e[1]] # g.color[e[2]]
      BY DEF Crossing
    <3>2. e # <<k + 2, 0>>
      BY <2>5, <3>1
    <3>3. e = <<k + 2, 0>> \/ \E p \in 2 .. k + 1 : e = <<0, p>> \/ e = <<p, 1>>
      BY <2>1, <2>3, <3>1 DEF IsExec
    <3>. QED
      BY <3>2, <3>3
  <2>7. Carried(g, <<0, p>>) = ChunkInput(p - 2) /\ Carried(g, <<p, 1>>) = ChunkProofOf(p - 2)
    BY <2>1, <2>3, ExecCarries
  <2>8. PICK i \in 0 .. k - 1 : i = p - 2 /\ i + 1 = p - 1
    OBVIOUS
  <2>9. o = [from |-> o.from, to |-> o.to, output |-> o.output]
    BY <1>1 DEF IInv, Shape, IsOutput
  <2>10. Chunks = 0 .. k - 1
    BY <2>1 DEF Chunks
  <2>11. CASE e = <<0, p>>
    <3>1. o.from = 0 /\ o.to = i + 1 /\ o.output = ChunkInput(i)
      BY <2>4, <2>5, <2>7, <2>8, <2>11
    <3>2. o = [from |-> 0, to |-> i + 1, output |-> ChunkInput(i)]
      BY <2>9, <3>1
    <3>. QED
      BY <2>10, <3>2
  <2>12. CASE e = <<p, 1>>
    <3>1. o.from = i + 1 /\ o.to = 0 /\ o.output = ChunkProofOf(i)
      BY <2>4, <2>5, <2>7, <2>8, <2>12
    <3>2. o = [from |-> i + 1, to |-> 0, output |-> ChunkProofOf(i)]
      BY <2>9, <3>1
    <3>. QED
      BY <2>10, <3>2
  <2>. QED
    BY <2>6, <2>11, <2>12
<1>2. graph = ExecGraph => Supported(graph)
  BY ProverGraphSupported
<1>3. (Supported(graph) => IInv) => RoutesOfProving
  BY <1>1, <1>2 DEF RoutesOfProving
<1>. QED
  BY <1>3, IInvAlways, PTL

LEMMA ExecLoose ==
    ASSUME NEW g, IsExec(g)
    PROVE  Loose(g, g.nodes) = {<<NumChunks + 2, 1>>, <<1, 0>>}
<1>. USE ProverAssumption
<1>1. PICK k \in Nat \ {0} : k = NumChunks
  OBVIOUS
<1>2. \A e : e \in g.edges <=> \/ e = <<k + 2, 0>>
                               \/ \E p \in 2 .. k + 1 : e = <<0, p>> \/ e = <<p, 1>>
  BY <1>1 DEF IsExec
<1>3. g.nodes = 0 .. k + 2 /\ IsGraph(g)
  BY <1>1, ExecIsGraph DEF IsExec
<1>4. Inner(g, g.nodes) = g.edges
  BY <1>3 DEF Inner, IsGraph
<1>5. g.outs[0] = k /\ g.outs[1] = 1 /\ g.outs[k + 2] = 2
      /\ \A p \in 2 .. k + 1 : g.outs[p] = 1
  BY <1>1 DEF IsExec
<1>6. g.from[<<k + 2, 0>>] = 0
      /\ \A p \in 2 .. k + 1 : g.from[<<0, p>>] = p - 2 /\ g.from[<<p, 1>>] = 0
  BY <1>1 DEF IsExec
<1>7. ASSUME NEW n \in g.nodes, NEW q \in 0 .. g.outs[n] - 1,
             \A e \in g.edges : e[1] = n => g.from[e] # q
      PROVE  (n = k + 2 /\ q = 1) \/ (n = 1 /\ q = 0)
  <2>1. CASE n = 0
    <3>1. PICK p \in 2 .. k + 1 : p - 2 = q
      <4>1. q \in 0 .. k - 1
        BY <1>5, <2>1
      <4>2. q + 2 \in 2 .. k + 1 /\ (q + 2) - 2 = q
        BY <4>1
      <4>. QED
        BY <4>2
    <3>2. PICK e : e = <<0, p>>
      OBVIOUS
    <3>3. e \in g.edges /\ e[1] = 0 /\ g.from[e] = q
      BY <1>2, <1>6, <3>1, <3>2
    <3>. QED
      BY <1>7, <2>1, <3>3
  <2>2. CASE n = k + 2
    <3>1. q = 0 \/ q = 1
      BY <1>5, <2>2
    <3>2. PICK e : e = <<k + 2, 0>>
      OBVIOUS
    <3>3. e \in g.edges /\ e[1] = k + 2 /\ g.from[e] = 0
      BY <1>2, <1>6, <3>2
    <3>. QED
      BY <1>7, <2>2, <3>1, <3>3
  <2>3. CASE n = 1
    BY <1>5, <2>3
  <2>4. CASE n \in 2 .. k + 1
    <3>1. q = 0
      BY <1>5, <2>4
    <3>2. PICK e : e = <<n, 1>>
      OBVIOUS
    <3>3. e \in g.edges /\ e[1] = n /\ g.from[e] = 0
      BY <1>2, <1>6, <2>4, <3>2
    <3>. QED
      BY <1>7, <3>1, <3>3
  <2>5. n \in 0 .. k + 2
    BY <1>3
  <2>6. n = 0 \/ n = 1 \/ n = k + 2 \/ n \in 2 .. k + 1
    BY <2>5
  <2>. QED
    BY <2>1, <2>2, <2>3, <2>4, <2>6
<1>8. <<k + 2, 1>> \in Loose(g, g.nodes)
  <2>1. PICK n \in g.nodes : n = k + 2
    BY <1>3
  <2>2. PICK q \in 0 .. g.outs[n] - 1 : q = 1
    BY <1>5, <2>1
  <2>3. ASSUME NEW e \in g.edges, e[1] = n
        PROVE  g.from[e] # q
    <3>1. e = <<k + 2, 0>>
      BY <1>2, <2>1, <2>3
    <3>. QED
      BY <1>6, <2>2, <3>1
  <2>. QED
    BY <1>4, <2>1, <2>2, <2>3, LoosePorts
<1>9. <<1, 0>> \in Loose(g, g.nodes)
  <2>1. PICK n \in g.nodes : n = 1
    BY <1>3
  <2>2. PICK q \in 0 .. g.outs[n] - 1 : q = 0
    BY <1>5, <2>1
  <2>3. \A e \in g.edges : e[1] # 1
    BY <1>2
  <2>. QED
    BY <1>4, <2>1, <2>2, <2>3, LoosePorts
<1>10. ASSUME NEW x \in Loose(g, g.nodes)
       PROVE  x \in {<<k + 2, 1>>, <<1, 0>>}
  <2>1. PICK n \in g.nodes : \E q \in 0 .. g.outs[n] - 1 :
           x = <<n, q>> /\ \A e \in Inner(g, g.nodes) : e[1] = n => g.from[e] # q
    BY LoosePorts
  <2>2. PICK q \in 0 .. g.outs[n] - 1 :
           x = <<n, q>> /\ \A e \in Inner(g, g.nodes) : e[1] = n => g.from[e] # q
    BY <2>1
  <2>. QED
    BY <1>4, <1>7, <2>2
<1>. QED
  BY <1>1, <1>8, <1>9, <1>10

\* ProofAndIO: in the end there is the ModelIO of the inference and one final
\* proof, of the proofs of all chunks in order (prover.rs:217).
THEOREM ProverProofAndIO == Spec => []ProofAndIO
<1>. USE ProverAssumption
<1>1. ASSUME IInv, graph = ExecGraph, AllDone
      PROVE  results = {InferenceOut(1),
                        Value(Final, 0, [j \in 1 .. NumChunks |-> ChunkProofOf(j - 1)])}
  <2>1. PICK g : g = graph
    OBVIOUS
  <2>2. IsExec(g) /\ IsGraph(g)
    BY <1>1, <2>1, ExecFields, ExecIsGraph
  <2>3. results = WholeOutputs(g)
    BY <1>1, <2>1, AllReported
  <2>4. WholeOutputs(g) = {WholeValue(g, x) : x \in {<<NumChunks + 2, 1>>, <<1, 0>>}}
    BY <2>2, WholeOutputsAre, ExecLoose
  <2>5. WholeValue(g, <<NumChunks + 2, 1>>) = InferenceOut(1)
    BY <2>2, ExecCarries DEF WholeValue, InferenceOut, Inference
  <2>6. WholeValue(g, <<1, 0>>) =
          Value(Final, 0, [j \in 1 .. NumChunks |-> ChunkProofOf(j - 1)])
    BY <2>2, ExecCarries DEF WholeValue, Final
  <2>. QED
    BY <2>3, <2>4, <2>5, <2>6
<1>2. graph = ExecGraph => Supported(graph)
  BY ProverGraphSupported
<1>3. (Supported(graph) => IInv) => ProofAndIO
  BY <1>1, <1>2 DEF ProofAndIO
<1>. QED
  BY <1>3, IInvAlways, PTL

---------------------------------------------------------------------------
(* No scheduler of the prover refuses an output or hangs. *)

\* Whether node n runs, when `runs` says so of its predecessors.
RunsAfter(g, P, given, runs, n) ==
    IF {e \in Inner(g, P) : e[2] = n} = {} THEN \E i \in DOMAIN given : i[1] = n
    ELSE \A e \in {d \in Inner(g, P) : d[2] = n} : runs[e[1]]

\* If every source of a partition has data, all of it runs.
LEMMA AllRun ==
    ASSUME NEW g, IsGraph(g), NEW P \in SUBSET g.nodes, NEW given,
           \A n \in P : (\A e \in Inner(g, P) : e[2] # n) => \E i \in DOMAIN given : i[1] = n
    PROVE  Executed(g, P, given) = P
<1>1. \E f : f = [n \in P |-> RunsAfter(g, P, given, f, n)]
  <2>1. PICK f : f = [n \in P |-> TRUE]
    OBVIOUS
  <2>2. ASSUME NEW n \in P
        PROVE  RunsAfter(g, P, given, f, n) = TRUE
    <3>1. \A e \in Inner(g, P) : f[e[1]] = TRUE
      BY <2>1 DEF Inner
    <3>2. CASE {e \in Inner(g, P) : e[2] = n} = {}
      BY <3>2 DEF RunsAfter
    <3>3. CASE {e \in Inner(g, P) : e[2] = n} # {}
      BY <3>1, <3>3 DEF RunsAfter
    <3>. QED
      BY <3>2, <3>3
  <2>3. [n \in P |-> TRUE] = [n \in P |-> RunsAfter(g, P, given, f, n)]
    BY <2>2
  <2>. QED
    BY <2>1, <2>3
<1>2. PICK r : r = CHOOSE f : f = [n \in P |-> RunsAfter(g, P, given, f, n)]
  OBVIOUS
<1>3. r = [n \in P |-> RunsAfter(g, P, given, r, n)]
  BY <1>1, <1>2
<1>4. Executed(g, P, given) = {n \in P : r[n]}
  BY <1>2 DEF Executed, RunsAfter
<1>5. ASSUME {n \in P : ~r[n]} # {}
      PROVE  FALSE
  <2>1. PICK n \in {m \in P : ~r[m]} : \A e \in g.edges : e[2] = n => e[1] \notin {m \in P : ~r[m]}
    BY <1>5, HasMinimal
  <2>2. n \in P /\ ~r[n]
    OBVIOUS
  <2>3. \A e \in {d \in Inner(g, P) : d[2] = n} : r[e[1]]
    BY <2>1 DEF Inner
  <2>4. RunsAfter(g, P, given, r, n)
    BY <2>2, <2>3 DEF RunsAfter
  <2>5. r[n] = RunsAfter(g, P, given, r, n)
    BY <1>3, <2>2
  <2>. QED
    BY <2>2, <2>4, <2>5
<1>. QED
  BY <1>4, <1>5

\* The partitions of one colour are found once each.
LEMMA QueueWithoutRepeats ==
    ASSUME NEW g, IsGraph(g), NEW c \in Color
    PROVE  \A i, j \in DOMAIN PartitionsOf(g, c) :
              PartitionsOf(g, c)[i] = PartitionsOf(g, c)[j] => i = j
<1>1. PICK at : at = Forward(g)
  OBVIOUS
<1>2. PICK S : S = Starts(g, c)
  OBVIOUS
<1>3. DOMAIN at \subseteq Nat /\ IsFiniteSet(DOMAIN at) /\ \A i \in DOMAIN at : i - 1 \in Nat
  <2>1. PICK N \in Nat : DOMAIN at = 1 .. N
    BY <1>1, ForwardEquation, FS_CardinalityType DEF IsGraph
  <2>2. IsFiniteSet(1 .. N)
    BY FS_Interval
  <2>3. 1 .. N \subseteq Nat /\ \A i \in 1 .. N : i - 1 \in Nat
    OBVIOUS
  <2>. QED
    BY <2>1, <2>2, <2>3, Zenon
<1>4. S = {i \in DOMAIN at : /\ g.color[at[i]] = c
                             /\ \A j \in 1 .. i - 1 : at[j] \notin Component(g, at[i])}
  BY <1>1, <1>2 DEF Starts
<1>5. S \in SUBSET Nat /\ IsFiniteSet(S) /\ Cardinality(S) \in Nat
  BY <1>3, <1>4, FS_Subset, FS_CardinalityType
<1>6. PartitionsOf(g, c) =
        [i \in 1 .. Cardinality(S) |-> MakePartition(g, Component(g, at[Nth(S, i)]))]
  BY <1>1, <1>2 DEF PartitionsOf
<1>7. ASSUME NEW s \in S, NEW t \in S, Component(g, at[s]) = Component(g, at[t])
      PROVE  s = t
  <2>1. at[s] \in Component(g, at[s]) /\ at[t] \in Component(g, at[t])
    <3>1. at[s] \in g.nodes /\ at[t] \in g.nodes
      BY <1>1, <1>4, ForwardVisitsAll
    <3>. QED
      BY <3>1, SearchIsClosed
  <2>2. s \in Nat /\ t \in Nat /\ s >= 1 /\ t >= 1
    BY <1>3, <1>4
  <2>3. ~(s < t)
    <3>1. s < t => s \in 1 .. t - 1
      BY <2>2
    <3>. QED
      BY <1>4, <1>7, <2>1, <3>1
  <2>4. ~(t < s)
    <3>1. t < s => t \in 1 .. s - 1
      BY <2>2
    <3>. QED
      BY <1>4, <1>7, <2>1, <3>1
  <2>. QED
    BY <2>2, <2>3, <2>4
<1>8. \A i \in 1 .. Cardinality(S) :
         Nth(S, i) \in S /\ Cardinality(Below(S, Nth(S, i))) = i - 1
  BY <1>5, NthEnumerates
<1>9. ASSUME NEW i \in 1 .. Cardinality(S), NEW j \in 1 .. Cardinality(S),
             MakePartition(g, Component(g, at[Nth(S, i)]))
               = MakePartition(g, Component(g, at[Nth(S, j)]))
      PROVE  i = j
  <2>1. Component(g, at[Nth(S, i)]) = Component(g, at[Nth(S, j)])
    BY <1>9 DEF MakePartition
  <2>2. Nth(S, i) = Nth(S, j)
    BY <1>7, <1>8, <2>1
  <2>3. i - 1 = j - 1
    BY <1>8, <2>2
  <2>. QED
    BY <1>5, <2>3
<1>. QED
  BY <1>6, <1>9

\* No partition is twice in a queue.
Distinct ==
    \A c \in Color : \A i, j \in DOMAIN queue[c] : queue[c][i] = queue[c][j] => i = j

\* Until the inference and Split have run, nothing is on its way or kept.
NothingBefore ==
    (\E i \in DOMAIN queue[0] : queue[0][i] = MakePartition(graph, Source)) =>
        net = {} /\ \A c \in Color : DOMAIN pending[c] = {}

NoHarm == \A c \in Color : state[c] \in {"up", "failed"}

ProverInv == IInv /\ Distinct /\ NothingBefore /\ NoHarm

LEMMA ProverInit ==
    ASSUME Init, graph = ExecGraph
    PROVE  ProverInv
<1>1. Supported(graph) /\ IsGraph(graph)
  BY ProverGraphSupported
<1>2. IInv
  BY <1>1, IInvInit
<1>3. Distinct
  BY <1>1, QueueWithoutRepeats DEF Init, Distinct
<1>4. NothingBefore /\ NoHarm
  BY DEF Init, NothingBefore, NoHarm
<1>. QED
  BY <1>2, <1>3, <1>4 DEF ProverInv

\* A partition of the prover that is not fed waits for another colour, and has
\* one source, which data then reach.
LEMMA ExecWaits ==
    ASSUME NEW g, IsExec(g), NEW c \in Color, NEW P \in Components(g, c), P \cap g.fed = {}
    PROVE  /\ P # Source /\ DOMAIN Children(g, P) # {}
           /\ \E s \in P : SourcesOf(g, P) = {s} /\ \E e \in Entering(g, P) : e[2] = s
<1>1. IsGraph(g) /\ Supported(g)
  BY ExecIsGraph, ExecSupported
<1>2. P # Source
  BY ExecEnds
<1>3. PICK s \in P : EntersAt(g, c, P, s)
  BY <1>1, ChildrenFacts DEF Supported
<1>4. PICK e \in Into(g, s) : TRUE
  BY <1>3 DEF EntersAt
<1>5. e \in Entering(g, P) /\ e[2] = s /\ g.color[e[1]] \in DOMAIN Children(g, P)
  BY <1>3 DEF EntersAt, Into
<1>. QED
  BY <1>2, <1>3, <1>5 DEF EntersAt

\* With the data the graph has for it, a partition of the prover runs to its end.
LEMMA ExecRuns ==
    ASSUME NEW g, IsExec(g), NEW c \in Color, NEW P \in Components(g, c),
           NEW given, GivenOf(g, P, given)
    PROVE  Executed(g, P, given) = P
<1>. USE ProverAssumption
<1>1. IsGraph(g) /\ P \in SUBSET g.nodes
  BY ExecIsGraph, PartitionNodes
<1>2. ASSUME NEW n \in P, \A e \in Inner(g, P) : e[2] # n
      PROVE  \E i \in DOMAIN given : i[1] = n
  <2>1. CASE P \cap g.fed # {}
    <3>1. P = Source
      <4>1. c \in 1 .. NumChunks => c + 1 \in 1 .. NumChunks + 1
        OBVIOUS
      <4>2. 1 \in 1 .. NumChunks + 1
        OBVIOUS
      <4>3. \A m \in 1 .. NumChunks + 1 : {m} \cap g.fed = {}
        BY ExecEnds
      <4>. QED
        BY <2>1, <4>1, <4>2, <4>3, ExecPartition
    <3>2. <<NumChunks + 2, 0>> \in g.edges /\ g.fed = {NumChunks + 2}
      BY DEF IsExec
    <3>3. n # 0
      BY <1>2, <3>1, <3>2 DEF Inner, Source
    <3>4. n = NumChunks + 2
      BY <3>1, <3>3 DEF Source
    <3>5. n \in P \cap g.fed
      BY <3>2, <3>4
    <3>6. <<n, 0>> \in DOMAIN RawInputs(P \cap g.fed)
      BY <3>5, FedNodeInput
    <3>7. given = RawInputs(P \cap g.fed)
      BY <2>1 DEF GivenOf
    <3>8. PICK x : x = <<n, 0>>
      OBVIOUS
    <3>9. x[1] = n /\ x \in DOMAIN given
      BY <3>6, <3>7, <3>8
    <3>. QED
      BY <3>9
  <2>2. CASE P \cap g.fed = {}
    <3>1. PICK s \in P : SourcesOf(g, P) = {s} /\ \E e \in Entering(g, P) : e[2] = s
      BY <2>2, ExecWaits
    <3>2. n = s
      BY <1>2, <3>1 DEF SourcesOf
    <3>3. PICK e \in Entering(g, P) : e[2] = n
      BY <3>1, <3>2
    <3>4. DOMAIN given = {<<d[2], g.to[d]>> : d \in Entering(g, P)}
      BY <2>2 DEF GivenOf
    <3>5. PICK x : x = <<e[2], g.to[e]>>
      OBVIOUS
    <3>6. x \in DOMAIN given /\ x[1] = n
      BY <3>3, <3>4, <3>5
    <3>. QED
      BY <3>6
  <2>. QED
    BY <2>1, <2>2
<1>. QED
  BY <1>1, <1>2, AllRun

LEMMA ProverRun ==
    ASSUME ProverInv, graph = ExecGraph, NEW c \in Color, TryRunPartition(c)
    PROVE  ProverInv'
<1>1. IsExec(graph) /\ Supported(graph) /\ IsGraph(graph)
  BY ExecFields, ProverGraphSupported
<1>2. queue[c] # <<>> /\ graph' = graph /\ Shape /\ Ready(c)
  BY DEF TryRunPartition, Ready, ProverInv, IInv
<1>3. PICK P \in Components(graph, c) : Head(queue[c]) = MakePartition(graph, P)
  BY <1>2, HeadIsPartition
<1>4. IInv'
  BY <1>1, IInvRun DEF ProverInv
<1>5. queue' = [queue EXCEPT ![c] = Tail(@)] /\ DOMAIN queue = Color /\ queue[c] \in Seq(MyPartitions(c))
  BY <1>2 DEF TryRunPartition, Shape
<1>6. queue'[c] = Tail(queue[c]) /\ \A d \in Color \ {c} : queue'[d] = queue[d]
  BY <1>5
<1>7. \A i \in DOMAIN queue'[c] : i \in Nat /\ i + 1 \in DOMAIN queue[c] /\ i + 1 # 1
                                  /\ queue'[c][i] = queue[c][i + 1]
  BY <1>2, <1>5, <1>6
<1>8. Distinct'
  <2>. SUFFICES ASSUME NEW d \in Color, NEW i \in DOMAIN queue'[d], NEW j \in DOMAIN queue'[d],
                       queue'[d][i] = queue'[d][j]
                PROVE  i = j
    BY DEF Distinct
  <2>1. CASE d = c
    <3>1. i + 1 = j + 1
      BY <1>7, <2>1 DEF ProverInv, Distinct
    <3>. QED
      BY <1>7, <2>1, <3>1
  <2>2. CASE d # c
    BY <1>6, <2>2 DEF ProverInv, Distinct
  <2>. QED
    BY <2>1, <2>2
<1>9. NoHarm'
  <2>1. GivenOf(graph, P, Given(c))
    BY <1>1, <1>2, <1>3, GivenIsOfGraph DEF ProverInv, IInv
  <2>2. Executed(graph, P, Given(c)) = P
    BY <1>1, <2>1, ExecRuns
  <2>3. Head(queue[c]).nodes = P
    BY <1>3 DEF MakePartition
  <2>4. state' = state \/ state' = [state EXCEPT ![c] = "failed"]
    BY <2>2, <2>3 DEF TryRunPartition
  <2>. QED
    BY <1>2, <2>4 DEF ProverInv, NoHarm, Shape
<1>10. NothingBefore'
  <2>. SUFFICES ASSUME NEW i \in DOMAIN queue'[0], queue'[0][i] = MakePartition(graph, Source)
                PROVE  FALSE
    BY <1>2 DEF NothingBefore
  <2>1. 0 \in Color
    BY ProverAssumption
  <2>2. \E j \in DOMAIN queue[0] : /\ queue[0][j] = MakePartition(graph, Source)
                                   /\ c = 0 => j # 1
    <3>1. CASE c = 0
      <4>1. i + 1 \in DOMAIN queue[0] /\ i + 1 # 1 /\ queue[0][i + 1] = MakePartition(graph, Source)
        BY <1>7, <3>1
      <4>. QED
        BY <4>1
    <3>2. CASE c # 0
      <4>1. queue'[0] = queue[0]
        BY <1>6, <2>1, <3>2
      <4>. QED
        BY <3>2, <4>1
    <3>. QED
      BY <3>1, <3>2
  <2>3. DOMAIN pending[c] = {}
    BY <2>2 DEF ProverInv, NothingBefore
  <2>4. CASE P \cap graph.fed = {}
    <3>1. DOMAIN Children(graph, P) # {}
      BY <1>1, <2>4, ExecWaits
    <3>2. DOMAIN Children(graph, P) \subseteq DOMAIN pending[c]
      BY <1>2, <1>3, <2>4 DEF Ready, IsSourcePartition, MakePartition
    <3>. QED
      BY <2>3, <3>1, <3>2
  <2>5. CASE P \cap graph.fed # {}
    <3>1. c = 0 /\ P = Source
      <4>1. c \in 1 .. NumChunks => c + 1 \in 1 .. NumChunks + 1
        BY ProverAssumption
      <4>2. 1 \in 1 .. NumChunks + 1
        BY ProverAssumption
      <4>3. \A m \in 1 .. NumChunks + 1 : {m} \cap graph.fed = {}
        BY <1>1, ExecEnds
      <4>. QED
        BY <1>1, <2>5, <4>1, <4>2, <4>3, ExecPartition
    <3>2. queue[0][1] = MakePartition(graph, Source) /\ 1 \in DOMAIN queue[0]
      BY <1>2, <1>3, <1>5, <3>1
    <3>. QED
      BY <2>1, <2>2, <3>1, <3>2 DEF ProverInv, Distinct
  <2>. QED
    BY <2>4, <2>5
<1>. QED
  BY <1>4, <1>8, <1>9, <1>10 DEF ProverInv

\* An output on its way is expected by the partition at the head.
LEMMA ProverExpects ==
    ASSUME ProverInv, graph = ExecGraph, NEW o \in net, queue[o.to] # <<>>
    PROVE  Expected(o)
<1>. USE ProverAssumption
<1>1. IsExec(graph) /\ Supported(graph) /\ IsGraph(graph)
  BY ExecFields, ProverGraphSupported
<1>2. o.to \in Color /\ Shape
  BY DEF ProverInv, IInv, Shape, IsOutput
<1>3. PICK e \in Crossing(graph) : graph.color[e[1]] = o.from /\ graph.color[e[2]] = o.to
  BY DEF ProverInv, IInv, Routed, Crosses
<1>4. PICK P \in Components(graph, o.to) : Head(queue[o.to]) = MakePartition(graph, P)
  BY <1>2, HeadIsPartition
<1>5. P # Source
  <2>1. ASSUME o.to = 0, P = Source
        PROVE  FALSE
    <3>1. queue[0] \in Seq(MyPartitions(0)) /\ queue[0] # <<>>
      BY <1>2, <2>1 DEF Shape
    <3>2. 1 \in DOMAIN queue[0] /\ queue[0][1] = MakePartition(graph, Source)
      BY <1>4, <2>1, <3>1
    <3>. QED
      BY <3>2 DEF ProverInv, NothingBefore
  <2>2. ASSUME P = Source
        PROVE  o.to = 0
    <3>1. 0 \in P /\ graph.color[0] = 0
      BY <1>1, <2>2 DEF Source, IsExec
    <3>. QED
      BY <1>1, <1>2, <3>1, PartitionNodes
  <2>. QED
    BY <2>1, <2>2
<1>6. e[2] \in P /\ P \cap graph.fed = {}
  <2>1. PICK k \in Nat \ {0} : k = NumChunks
    OBVIOUS
  <2>2. e \in graph.edges /\ graph.color[e[1]] # graph.color[e[2]]
    BY DEF Crossing
  <2>3. graph.color[0] = 0 /\ graph.color[1] = 0 /\ graph.color[k + 2] = 0
        /\ \A p \in 2 .. k + 1 : graph.color[p] = p - 1
    BY <1>1, <2>1 DEF IsExec
  <2>4. e = <<k + 2, 0>> \/ \E p \in 2 .. k + 1 : e = <<0, p>> \/ e = <<p, 1>>
    BY <1>1, <2>1, <2>2 DEF IsExec
  <2>5. e # <<k + 2, 0>>
    BY <2>2, <2>3
  <2>6. PICK p \in 2 .. k + 1 : e = <<0, p>> \/ e = <<p, 1>>
    BY <2>4, <2>5
  <2>7. (o.to = 0 /\ P = {1}) \/ (o.to \in 1 .. k /\ P = {o.to + 1})
    BY <1>1, <1>2, <1>5, <2>1, ExecPartition
  <2>8. PICK n \in 1 .. k + 1 : P = {n}
    <3>1. o.to \in 1 .. k => o.to + 1 \in 1 .. k + 1
      OBVIOUS
    <3>. QED
      BY <2>7, <3>1
  <2>9. e[2] \in P
    <3>1. CASE e = <<0, p>>
      <4>1. o.to = p - 1 /\ e[2] = p
        BY <1>3, <2>3, <3>1
      <4>2. o.to # 0 /\ o.to + 1 = p
        BY <4>1
      <4>. QED
        BY <2>7, <4>1, <4>2
    <3>2. CASE e = <<p, 1>>
      <4>1. o.to = 0 /\ e[2] = 1
        BY <1>3, <2>3, <3>2
      <4>. QED
        BY <2>7, <4>1
    <3>. QED
      BY <2>6, <3>1, <3>2
  <2>10. P \cap graph.fed = {}
    BY <1>1, <2>1, <2>8, ExecEnds
  <2>. QED
    BY <2>9, <2>10
<1>7. e \in Entering(graph, P)
  <2>1. e \in graph.edges /\ graph.color[e[1]] # graph.color[e[2]]
    BY DEF Crossing
  <2>2. e[1] \notin P
    BY <1>1, <1>2, <1>6, <2>1, PartitionNodes
  <2>. QED
    BY <1>6, <2>1, <2>2 DEF Entering
<1>8. OneEdgeEach(graph, o.to, P, Children(graph, P))
  BY <1>1, <1>2, <1>6, ChildIsAnEdge
<1>9. o.from \in DOMAIN Children(graph, P)
  BY <1>3, <1>7, <1>8 DEF OneEdgeEach
<1>. QED
  BY <1>4, <1>9 DEF Expected, MakePartition

LEMMA ProverSet ==
    ASSUME ProverInv, graph = ExecGraph, NEW o \in net, SetChildOutput(o)
    PROVE  ProverInv'
<1>1. Supported(graph)
  BY ProverGraphSupported
<1>2. IInv'
  BY IInvSet DEF ProverInv
<1>3. queue' = queue /\ graph' = graph
  BY DEF SetChildOutput
<1>4. ~RefuseOutput(o)
  BY ProverExpects DEF RefuseOutput
<1>5. state' = state
  BY <1>4 DEF SetChildOutput, AcceptOutput, IgnoreOutput
<1>6. NothingBefore'
  BY <1>3 DEF ProverInv, NothingBefore
<1>7. Distinct' /\ NoHarm'
  BY <1>3, <1>5 DEF ProverInv, Distinct, NoHarm
<1>. QED
  BY <1>2, <1>6, <1>7 DEF ProverInv

\* NeverRefused: on the prover's graph set_child_output never finds a partition
\* at the head that does not expect its output (partition.rs:511), and the
\* executor never waits for data that will not come.
THEOREM ProverNeverRefuses == Spec => []NeverRefused
<1>. DEFINE I == graph = ExecGraph => ProverInv
<1>1. Init => I
  BY ProverInit
<1>2. I /\ [Next]_vars => I'
  <2>. SUFFICES ASSUME I, [Next]_vars
                PROVE  I'
    OBVIOUS
  <2>1. graph' = graph
    BY DEF Next, TryRunPartition, SetChildOutput, vars
  <2>2. ExecGraph' = ExecGraph
    BY DEF ExecGraph, Links, Link
  <2>3. CASE graph # ExecGraph
    BY <2>1, <2>2, <2>3
  <2>4. CASE graph = ExecGraph /\ UNCHANGED vars
    BY <2>4 DEF vars, ProverInv, IInv, Shape, MyPartitions, Routed, ResultsOfGraph,
                NothingMissing, Distinct, NothingBefore, NoHarm
  <2>5. CASE graph = ExecGraph /\ Next
    BY <2>5, ProverRun, ProverSet DEF Next
  <2>. QED
    BY <2>3, <2>4, <2>5
<1>3. I => NeverRefused
  BY DEF ProverInv, NoHarm, NeverRefused
<1>. QED
  BY <1>1, <1>2, <1>3, PTL DEF Spec
============================================================================
