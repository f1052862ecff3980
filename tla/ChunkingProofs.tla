--------------------------- MODULE ChunkingProofs ---------------------------
(***************************************************************************)
(* For every model, number of chunks and least size of a chunk: the chunks *)
(* that split and build_chunks make hold the model, visit_chunks orders    *)
(* them, and the counters of split stay in their ranges.                   *)
(***************************************************************************)
EXTENDS Chunking, FiniteSetTheorems, TLAPS

---------------------------------------------------------------------------
(* Numbers. *)

\* Every set of numbers that is not empty has a least element, and a greatest
\* one when it is bounded.
LEMMA Least ==
    ASSUME NEW T \in SUBSET Nat, T # {}
    PROVE  \E m \in T : \A k \in T : m <= k
<1>. DEFINE R == {ss \in Nat \X Nat : ss[1] < ss[2]}
<1>1. OpToRel(<, Nat) = R
  BY DEF OpToRel
<1>2. IsWellFoundedOn(R, Nat)
  BY <1>1, NatLessThanWellFounded, Zenon
<1>3. \E x \in T : \A y \in T : ~ (<<y, x>> \in R)
  <2>. HIDE DEF R
  <2>. QED
    BY <1>2, WFMin
<1>4. PICK x \in T : \A y \in T : ~ (<<y, x>> \in R)
  BY <1>3
<1>5. \A y \in T : y \in Nat /\ x \in Nat /\ ~(y < x)
  BY <1>4
<1>. QED
  BY <1>5

LEMMA MinIs ==
    ASSUME NEW T \in SUBSET Nat, T # {}
    PROVE  Min(T) \in T /\ \A k \in T : Min(T) <= k
BY Least, Zenon DEF Min

LEMMA MaxIs ==
    ASSUME NEW T \in SUBSET Int, NEW n \in T, \A k \in T : n >= k
    PROVE  Max(T) \in T /\ \A k \in T : Max(T) >= k
BY DEF Max

LEMMA BoundedMax ==
    ASSUME NEW T \in SUBSET Nat, T # {}, NEW max \in Nat, \A k \in T : k <= max
    PROVE  Max(T) \in T /\ \A k \in T : Max(T) >= k
<1>. DEFINE U == {max - k : k \in T}
<1>1. U \in SUBSET Nat /\ U # {}
  <2>1. \A k \in T : max - k \in Nat
    OBVIOUS
  <2>. QED
    BY <2>1
<1>2. PICK u \in U : \A v \in U : u <= v
  <2>. HIDE DEF U
  <2>. QED
    BY <1>1, Least
<1>3. PICK m \in T : u = max - m
  BY <1>2
<1>4. \A k \in T : m >= k
  BY <1>2, <1>3
<1>. QED
  BY <1>4, MaxIs

\* Powers of two.
LEMMA OneIsPowerOfTwo == IsPowerOfTwo(1)
BY DEF IsPowerOfTwo

LEMMA Doubled ==
    ASSUME NEW p \in Nat \ {0}, IsPowerOfTwo(p)
    PROVE  IsPowerOfTwo(2 * p)
<1>. SUFFICES ASSUME NEW d \in 1 .. 2 * p, (2 * p) % (2 * d + 1) = 0
              PROVE  FALSE
  BY DEF IsPowerOfTwo
<1>1. PICK q : q = (2 * p) \div (2 * d + 1)
  OBVIOUS
<1>2. q \in Int /\ 2 * p = (2 * d + 1) * q
  BY <1>1
<1>3. PICK r \in Int : q = 2 * r
  <2>1. d * q \in Int /\ q = 2 * (p - d * q)
    BY <1>2
  <2>2. p - d * q \in Int
    BY <2>1
  <2>. QED
    BY <2>1, <2>2
<1>4. p = (2 * d + 1) * r
  BY <1>2, <1>3
<1>5. r >= 1
  BY <1>4
<1>6. d <= p
  BY <1>4, <1>5
<1>7. p % (2 * d + 1) = 0
  BY <1>4, <1>5
<1>. QED
  BY <1>6, <1>7 DEF IsPowerOfTwo

\* The next power of two of a is found, and lower powers are below a.
LEMMA NextPower ==
    ASSUME NEW a \in Nat \ {0}
    PROVE  /\ NextPowerOfTwo(a) \in a .. 2 * a /\ IsPowerOfTwo(NextPowerOfTwo(a))
<1>. DEFINE T == {b \in Nat \ {0} : \A p \in b .. 2 * b : ~IsPowerOfTwo(p)}
<1>1. T = {}
  <2>. SUFFICES ASSUME T # {} PROVE FALSE
    OBVIOUS
  <2>1. PICK b \in T : \A k \in T : b <= k
    BY Least
  <2>2. b # 1
    BY <2>1, OneIsPowerOfTwo
  <2>3. PICK p \in b - 1 .. 2 * (b - 1) : IsPowerOfTwo(p)
    BY <2>1, <2>2
  <2>4. CASE p >= b
    BY <2>1, <2>3, <2>4
  <2>5. CASE p = b - 1
    <3>1. IsPowerOfTwo(2 * p)
      BY <2>1, <2>2, <2>3, Doubled
    <3>. QED
      BY <2>1, <2>2, <2>5, <3>1
  <2>. QED
    BY <2>1, <2>3, <2>4, <2>5
<1>. DEFINE S == {p \in a .. 2 * a : IsPowerOfTwo(p)}
<1>2. S \in SUBSET Nat /\ S # {}
  BY <1>1
<1>3. Min(S) \in S
  <2>. HIDE DEF S
  <2>. QED
    BY <1>2, MinIs
<1>. QED
  BY <1>3 DEF NextPowerOfTwo

LEMMA CeilDivIs ==
    ASSUME NEW a \in Nat, NEW b \in Nat \ {0}
    PROVE  /\ CeilDiv(a, b) \in Nat /\ CeilDiv(a, b) * b >= a
           /\ \A q \in Nat : q * b >= a => q >= CeilDiv(a, b)
<1>1. PICK c : c = (a + b - 1) \div b
  OBVIOUS
<1>2. c \in Nat /\ b * c <= a + b - 1 /\ a + b - 1 < b * c + b
  BY <1>1
<1>3. c * b >= a
  BY <1>2
<1>4. ASSUME NEW q \in Nat, q * b >= a
      PROVE  q >= c
  <2>. SUFFICES ASSUME q <= c - 1 PROVE FALSE
    BY <1>2
  <2>1. q * b <= (c - 1) * b
    BY <1>2
  <2>2. (c - 1) * b = c * b - b
    BY <1>2
  <2>. QED
    BY <1>2, <1>4, <2>1, <2>2
<1>. QED
  BY <1>1, <1>2, <1>3, <1>4 DEF CeilDiv

\* At most as many pieces as asked for: the ensure of num_chunks_for_input_shape
\* (split.rs:86) never fails.
LEMMA PiecesForIs ==
    ASSUME NEW max \in Nat, max >= 2, NEW dim \in Nat \ {0}
    PROVE  PiecesFor(max, dim) \in Nat /\ PiecesFor(max, dim) <= max
<1>. DEFINE size(k) == NextPowerOfTwo(dim) \div NextPowerOfTwo(k)
            halves == {max} \cup {p \in 1 .. max : IsPowerOfTwo(p)}
            T == {h \in halves : size(h) * h >= dim}
            k == Max(T)
<1>1. \A h \in halves : h \in 1 .. max /\ NextPowerOfTwo(h) \in Nat \ {0} /\ size(h) \in Nat
  BY NextPower
<1>2. 1 \in T
  <2>1. NextPowerOfTwo(1) = 1
    BY OneIsPowerOfTwo DEF NextPowerOfTwo, Min
  <2>2. size(1) = NextPowerOfTwo(dim) /\ size(1) \in Nat /\ size(1) >= dim
    BY <2>1, NextPower
  <2>. QED
    BY <2>2, OneIsPowerOfTwo
<1>3. T \subseteq Nat /\ max \in Nat /\ \A h \in T : h <= max
  BY <1>1
<1>4. k \in T
  BY <1>2, <1>3, BoundedMax
<1>5. k \in 1 .. max /\ size(k) \in Nat /\ size(k) * k >= dim
  BY <1>1, <1>4
<1>6. size(k) # 0
  BY <1>5
<1>7. CeilDiv(dim, size(k)) \in Nat /\ CeilDiv(dim, size(k)) <= k
  <2>. HIDE DEF size, k
  <2>1. PICK m \in Nat : m = k
    BY <1>5
  <2>2. PICK z \in Nat \ {0} : z = size(k)
    BY <1>5, <1>6
  <2>3. m * z >= dim
    <3>1. z * m = m * z
      OBVIOUS
    <3>2. z * m >= dim
      BY <1>5, <2>1, <2>2
    <3>. QED
      BY <3>1, <3>2
  <2>4. CeilDiv(dim, z) \in Nat /\ m >= CeilDiv(dim, z)
    BY <2>3, CeilDivIs
  <2>. QED
    BY <2>1, <2>2, <2>4
<1>. QED
  BY <1>5, <1>7 DEF PiecesFor

LEMMA PiecesForGroupIs ==
    ASSUME NEW max \in Int, NEW dim \in Nat \ {0}
    PROVE  \/ PiecesForGroup(max, dim) = 0
           \/ PiecesForGroup(max, dim) \in Nat /\ 2 <= PiecesForGroup(max, dim) /\ PiecesForGroup(max, dim) <= max
BY PiecesForIs DEF PiecesForGroup

LEMMA MinOfTwo ==
    ASSUME NEW a \in Int, NEW b \in Int
    PROVE  Min({a, b}) = IF a <= b THEN a ELSE b
BY DEF Min

LEMMA MaxOfTwo ==
    ASSUME NEW a \in Int, NEW b \in Int
    PROVE  Max({a, b}) = IF a >= b THEN a ELSE b
BY DEF Max

---------------------------------------------------------------------------
(* Types *)

Labels == {"whole", "piece", "split", "recombined", "output"}
NodeSet == [of : 1 .. model.n, as : Labels, i : Nat]

\* Which variables hold what.
TypeOK ==
    /\ model \in Models /\ asked \in Asked
    /\ pc \in {"group", "allot", "place", "build", "visit", "done", "failed"}
    /\ next \in 0 .. model.n
    /\ groups \subseteq Groups
    /\ available \in 0 .. Horizontal
    /\ DOMAIN pieces \subseteq Splittable /\ \A n \in DOMAIN pieces : pieces[n] \in Nat /\ pieces[n] >= 2
    /\ count \in Nat /\ current \in Nat /\ inCurrent \in Nat /\ vertical \in Nat /\ unsplit \in Nat
    /\ pc \notin {"group", "allot"} =>
        /\ nodes \in [Chunk -> SUBSET NodeSet]
        /\ edges \in [Chunk -> SUBSET (NodeSet \X NodeSet)]

\* Before anything is placed.
AtFirst ==
    /\ pc \in {"group", "allot"} => next = model.n /\ current = 0 /\ inCurrent = 0 /\ vertical = 0 /\ unsplit = 0
    /\ pc = "group" => groups = {} /\ available = 0 /\ pieces = <<>>

\* As many nodes are left as chunks, and the chunk being filled has less than its
\* share of them.
Shared ==
    /\ vertical <= unsplit
    /\ inCurrent > 0 => vertical * inCurrent < unsplit

Typed == TypeOK /\ AtFirst /\ Shared

LEMMA ModelFacts ==
    ASSUME model \in Models
    PROVE  /\ model.n \in Nat
           /\ model.edges \subseteq (1 .. model.n) \X (0 .. model.n)
           /\ model.splittable \subseteq 1 .. model.n
           /\ model.dim \in [1 .. model.n -> Nat \ {0}]
           /\ \A e \in model.edges : e[1] < e[2] \/ e[2] = Output
           /\ \A n \in 1 .. model.n : \E e \in model.edges : e[1] = n
           /\ \A n \in model.splittable : Cardinality({e \in model.edges : e[2] = n}) <= 1
BY ModelsAssumption DEF ModelsAssumption

LEMMA SplittableFacts ==
    ASSUME model \in Models
    PROVE  /\ \A n \in 1 .. model.n : Ideal(n) \in Nat
           /\ Splittable \subseteq model.splittable /\ Splittable \subseteq 1 .. model.n
           /\ Groups \subseteq Splittable /\ \A t : Group(t) \subseteq Splittable
           /\ MaxVertical \in Nat
<1>1. \A n \in 1 .. model.n : Ideal(n) \in Nat
  BY ModelFacts, CeilDivIs, NumbersAssumption DEF Ideal, NumbersAssumption
<1>2. MaxVertical \in Nat
  BY ModelFacts, CeilDivIs DEF MaxVertical
<1>. QED
  BY <1>1, <1>2, ModelFacts DEF Splittable, Groups, Group

LEMMA HorizontalIs ==
    ASSUME model \in Models, asked \in Asked
    PROVE  Horizontal \in Nat /\ Horizontal <= asked /\ asked \in Nat
<1>1. asked \in Nat /\ MaxVertical \in Nat
  BY SplittableFacts, NumbersAssumption DEF NumbersAssumption
<1>. QED
  BY <1>1, MaxOfTwo DEF Horizontal

LEMMA NodesOfChunks ==
    /\ \A n \in 1 .. model.n : Whole(n) \in NodeSet /\ Split(n) \in NodeSet /\ Recombined(n) \in NodeSet
    /\ \A n \in 1 .. model.n, i \in Nat : Piece(n, i) \in NodeSet /\ Out(n, i) \in NodeSet
BY DEF Whole, Split, Recombined, Piece, Out, NodeSet, Labels

\* What Put does to each chunk.
Puts(xs, es) ==
    /\ nodes' \in [Chunk -> SUBSET NodeSet] /\ edges' \in [Chunk -> SUBSET (NodeSet \X NodeSet)]
    /\ \A c \in Chunk : \A x : x \in nodes'[c] <=> x \in nodes[c] \/ <<c, x>> \in xs
    /\ \A c \in Chunk : \A e : e \in edges'[c] <=> e \in edges[c] \/ <<c, e>> \in es

LEMMA AddedIs ==
    ASSUME NEW S, NEW X, NEW old \in [Chunk -> SUBSET X], NEW xs \in SUBSET (S \X X)
    PROVE  /\ Added(old, xs) \in [Chunk -> SUBSET X]
           /\ \A c \in Chunk : \A x : x \in Added(old, xs)[c] <=> x \in old[c] \/ <<c, x>> \in xs
<1>1. \A c \in Chunk : Added(old, xs)[c] = old[c] \cup {x[2] : x \in {y \in xs : y[1] = c}}
  BY DEF Added
<1>2. \A c \in Chunk : \A x : x \in Added(old, xs)[c] <=> x \in old[c] \/ <<c, x>> \in xs
  BY <1>1
<1>3. ASSUME NEW c \in Chunk
      PROVE  Added(old, xs)[c] \in SUBSET X
  <2>1. \A x : <<c, x>> \in xs => x \in X
    OBVIOUS
  <2>. QED
    BY <1>2, <2>1
<1>4. Added(old, xs) \in [Chunk -> SUBSET X]
  BY <1>3 DEF Added
<1>. QED
  BY <1>2, <1>4

LEMMA PutPuts ==
    ASSUME nodes \in [Chunk -> SUBSET NodeSet], edges \in [Chunk -> SUBSET (NodeSet \X NodeSet)],
           NEW S, NEW xs \in SUBSET (S \X NodeSet), NEW es \in SUBSET (S \X (NodeSet \X NodeSet)),
           nodes' = Added(nodes, xs), edges' = Added(edges, es)
    PROVE  Puts(xs, es)
<1>1. PICK new : new = Added(nodes, xs)
  OBVIOUS
<1>2. PICK links : links = Added(edges, es)
  OBVIOUS
<1>6. PICK X : X = NodeSet \X NodeSet
  OBVIOUS
<1>3. new \in [Chunk -> SUBSET NodeSet] /\ \A c \in Chunk : \A x : x \in new[c] <=> x \in nodes[c] \/ <<c, x>> \in xs
  BY <1>1, AddedIs
<1>4. /\ links \in [Chunk -> SUBSET (NodeSet \X NodeSet)]
      /\ \A c \in Chunk : \A x : x \in links[c] <=> x \in edges[c] \/ <<c, x>> \in es
  <2>1. edges \in [Chunk -> SUBSET X] /\ es \in SUBSET (S \X X)
    BY <1>6, Zenon
  <2>2. /\ links \in [Chunk -> SUBSET X]
        /\ \A c \in Chunk : \A x : x \in links[c] <=> x \in edges[c] \/ <<c, x>> \in es
    BY <1>2, <2>1, AddedIs
  <2>. QED
    BY <1>6, <2>2, Zenon
<1>5. nodes' = new /\ edges' = links
  BY <1>1, <1>2
<1>. QED
  BY <1>3, <1>4, <1>5 DEF Puts

---------------------------------------------------------------------------
(* What the actions of the main loop put into the chunks *)

FirstNodes(n) ==
    LET top == InFront + pieces[n]
    IN  IF InFront = -1 THEN InRow(n, top) \cup {<<top - i, Out(n, i)>> : i \in Row(n)}
        ELSE InRow(n, top) \cup {<<InFront, Recombined(n)>>}

FirstEdges(n) ==
    LET top == InFront + pieces[n]
    IN  IF InFront = -1 THEN Links(n, top, [i \in Row(n) |-> Out(n, i)], [i \in Row(n) |-> top - i])
        ELSE Links(n, top, [i \in Row(n) |-> Recombined(n)], [i \in Row(n) |-> InFront])
                \cup {<<InFront, <<Recombined(n), Target(n, t)>>>> : t \in Targets(n)}

FollowingEdges(n, t) ==
    Links(n, current, [i \in Row(n) |-> Piece(t, i)], [i \in Row(n) |-> ChunkOf(Piece(t, i))])

WholeNodes(n) == {<<Place(n), Whole(n)>>} \cup {<<Place(n), Split(t)>> : t \in SplitTargets(n)}

WholeEdges(n) ==
    {<<Place(n), <<Whole(n), Split(t)>>>> : t \in SplitTargets(n)}
        \cup UNION {SplitLinks(t, Place(n)) : t \in SplitTargets(n)}

LinkNodes == {<<ChunkOf(Whole(e[1])), Out(e[1], 0)>> : e \in ToOutput}

LinkEdges ==
    {<<ChunkOf(Whole(e[1])), <<Whole(e[1]), Target(e[1], e[2])>>>> : e \in Kept}
        \cup {<<ChunkOf(Whole(e[2])), <<Whole(e[1]), Target(e[1], e[2])>>>> : e \in Kept \ ToOutput}

LEMMA TargetsAreNodes ==
    ASSUME model \in Models, NEW n
    PROVE  /\ Targets(n) \subseteq 0 .. model.n /\ Sources(n) \subseteq 1 .. model.n
           /\ \A t \in Targets(n) : (t > n \/ t = Output) /\ Target(n, t) \in NodeSet /\ n \in 1 .. model.n
           /\ \A s \in Sources(n) : s \in 1 .. model.n /\ (s < n \/ n = Output)
           /\ \A t : t \in Targets(n) <=> <<n, t>> \in model.edges
           /\ \A s : s \in Sources(n) <=> <<s, n>> \in model.edges
<1>1. \A e \in model.edges : /\ e = <<e[1], e[2]>> /\ e[1] \in 1 .. model.n /\ e[2] \in 0 .. model.n
                             /\ e[1] < e[2] \/ e[2] = Output
  BY ModelFacts
<1>2. \A t : t \in Targets(n) <=> <<n, t>> \in model.edges
  BY <1>1 DEF Targets
<1>3. \A s : s \in Sources(n) <=> <<s, n>> \in model.edges
  BY <1>1 DEF Sources
<1>4. ASSUME NEW t \in Targets(n)
      PROVE  t \in 0 .. model.n /\ n \in 1 .. model.n /\ (t > n \/ t = Output) /\ Target(n, t) \in NodeSet
  <2>1. <<n, t>> \in model.edges
    BY <1>2
  <2>2. n \in 1 .. model.n /\ t \in 0 .. model.n /\ (n < t \/ t = Output)
    BY <1>1, <2>1
  <2>3. t # Output => t \in 1 .. model.n
    BY <2>2, ModelFacts DEF Output
  <2>4. Target(n, t) \in NodeSet
    BY <2>2, <2>3, NodesOfChunks DEF Target
  <2>. QED
    BY <2>2, <2>4, ModelFacts
<1>5. ASSUME NEW s \in Sources(n)
      PROVE  s \in 1 .. model.n /\ (s < n \/ n = Output)
  <2>1. <<s, n>> \in model.edges
    BY <1>3
  <2>. QED
    BY <1>1, <2>1
<1>. QED
  BY <1>2, <1>3, <1>4, <1>5

LEMMA PiecesAreNodes ==
    ASSUME TypeOK
    PROVE  /\ \A n \in DOMAIN pieces : n \in 1 .. model.n /\ n \in model.splittable
           /\ \A n \in DOMAIN pieces : \A i \in Row(n) : i \in Nat /\ Piece(n, i) \in NodeSet /\ Out(n, i) \in NodeSet
<1>1. \A n \in DOMAIN pieces : n \in 1 .. model.n /\ n \in model.splittable /\ pieces[n] \in Nat
  BY SplittableFacts DEF TypeOK
<1>2. \A n \in DOMAIN pieces : \A i \in Row(n) : i \in Nat
  BY <1>1 DEF Row
<1>. QED
  BY <1>1, <1>2, NodesOfChunks

LEMMA InLinks ==
    ASSUME NEW n, NEW top, NEW to, NEW at, NEW c, NEW e
    PROVE  <<c, e>> \in Links(n, top, to, at)
             <=> \E i \in Row(n) : (c = top - i \/ c = at[i]) /\ e = <<Piece(n, i), to[i]>>
BY DEF Links

LEMMA FirstPuts ==
    ASSUME TypeOK, pc = "place", NEW n \in DOMAIN pieces, PlaceFirst(n), pc' # "failed"
    PROVE  /\ Puts(FirstNodes(n), FirstEdges(n))
           /\ InFront + pieces[n] \in Chunk /\ current' = InFront + pieces[n]
           /\ inCurrent > 0 => vertical # 0
           /\ vertical' = IF inCurrent > 0 THEN vertical - 1 ELSE vertical
           /\ unsplit' = unsplit - inCurrent /\ next' = next - 1
           /\ UNCHANGED <<pc, plan, inCurrent, order>>
<1>1. /\ InFront + pieces[n] \in Chunk /\ current' = InFront + pieces[n] /\ (inCurrent > 0 => vertical # 0)
      /\ vertical' = IF inCurrent > 0 THEN vertical - 1 ELSE vertical
      /\ unsplit' = unsplit - inCurrent /\ next' = next - 1 /\ UNCHANGED <<pc, plan, inCurrent, order>>
  BY DEF PlaceFirst, Fail
<1>2. nodes' = Added(nodes, FirstNodes(n)) /\ edges' = Added(edges, FirstEdges(n))
  <2>1. CASE InFront = -1
    <3>. DEFINE top == InFront + pieces[n]
                N == InRow(n, top) \cup {<<top - i, Out(n, i)>> : i \in Row(n)}
                E == Links(n, top, [i \in Row(n) |-> Out(n, i)], [i \in Row(n) |-> top - i])
    <3>1. Put(N, E)
      BY <1>1, <2>1, Zenon DEF PlaceFirst, Fail
    <3>2. N = FirstNodes(n)
      BY <2>1 DEF FirstNodes
    <3>3. E = FirstEdges(n)
      BY <2>1 DEF FirstEdges
    <3>. QED
      BY <3>1, <3>2, <3>3, Zenon DEF Put
  <2>2. CASE InFront # -1
    BY <1>1, <2>2, Zenon DEF PlaceFirst, Fail, Put, FirstNodes, FirstEdges
  <2>. QED
    BY <2>1, <2>2
<1>3. n \in 1 .. model.n /\ \A i \in Row(n) : i \in Nat /\ Piece(n, i) \in NodeSet /\ Out(n, i) \in NodeSet
  BY PiecesAreNodes
<1>4. /\ InFront \in Int /\ pieces[n] \in Nat /\ Recombined(n) \in NodeSet
      /\ \A t \in Targets(n) : Target(n, t) \in NodeSet
  BY <1>3, TargetsAreNodes, NodesOfChunks DEF TypeOK, InFront
<1>5. FirstNodes(n) \in SUBSET (Int \X NodeSet)
  BY <1>3, <1>4 DEF FirstNodes, InRow
<1>6. FirstEdges(n) \in SUBSET (Int \X (NodeSet \X NodeSet))
  BY <1>3, <1>4 DEF FirstEdges, Links
<1>. QED
  BY <1>1, <1>2, <1>5, <1>6, PutPuts DEF TypeOK

LEMMA FollowingPuts ==
    ASSUME TypeOK, pc = "place", NEW n \in DOMAIN pieces, NEW t \in SplitTargets(n),
           PlaceFollowing(n, t), pc' # "failed"
    PROVE  /\ Puts(InRow(n, current), FollowingEdges(n, t))
           /\ Targets(n) = {t} /\ pieces[t] = pieces[n] /\ current \in Chunk /\ next' = next - 1
           /\ UNCHANGED <<pc, plan, counters, order>>
<1>1. /\ Targets(n) = {t} /\ pieces[t] = pieces[n] /\ current \in Chunk /\ next' = next - 1
      /\ UNCHANGED <<pc, plan, counters, order>>
  BY DEF PlaceFollowing, Fail
<1>2. nodes' = Added(nodes, InRow(n, current)) /\ edges' = Added(edges, FollowingEdges(n, t))
  <2>. DEFINE to == [i \in Row(n) |-> Piece(t, i)]
              at == [i \in Row(n) |-> ChunkOf(to[i])]
  <2>1. Put(InRow(n, current), Links(n, current, to, at))
    BY <1>1, Zenon DEF PlaceFollowing, Fail
  <2>2. at = [i \in Row(n) |-> ChunkOf(Piece(t, i))]
    <3>1. \A i \in Row(n) : to[i] = Piece(t, i)
      OBVIOUS
    <3>. HIDE DEF to
    <3>. QED
      BY <3>1
  <2>3. Links(n, current, to, at) = FollowingEdges(n, t)
    <3>. HIDE DEF at
    <3>. QED
      BY <2>2, Zenon DEF FollowingEdges
  <2>. QED
    <3>. HIDE DEF at, to
    <3>. QED
      BY <2>1, <2>3, Zenon DEF Put
<1>3. n \in 1 .. model.n /\ \A i \in Row(n) : i \in Nat /\ Piece(n, i) \in NodeSet
  BY PiecesAreNodes
<1>4. \A i \in Row(n) : Piece(t, i) \in NodeSet
  <2>1. Row(n) = Row(t) /\ t \in DOMAIN pieces
    BY <1>1 DEF Row, SplitTargets
  <2>. QED
    BY <2>1, PiecesAreNodes
<1>. DEFINE S == Int \cup {ChunkOf(Piece(t, i)) : i \in Row(n)}
<1>5. current \in Int
  BY DEF TypeOK
<1>6. InRow(n, current) \in SUBSET (S \X NodeSet)
  BY <1>3, <1>5 DEF InRow
<1>7. FollowingEdges(n, t) \in SUBSET (S \X (NodeSet \X NodeSet))
  <2>1. \A i \in Row(n) : current - i \in S /\ ChunkOf(Piece(t, i)) \in S
    BY <1>3, <1>5
  <2>. HIDE DEF S
  <2>. QED
    BY <2>1, <1>3, <1>4 DEF FollowingEdges, Links
<1>. QED
  <2>. HIDE DEF S
  <2>. QED
    BY <1>1, <1>2, <1>6, <1>7, PutPuts DEF TypeOK

LEMMA WholePuts ==
    ASSUME TypeOK, pc = "place", NEW n \in 1 .. model.n, PlaceWhole(n), pc' # "failed"
    PROVE  /\ Puts(WholeNodes(n), WholeEdges(n))
           /\ Cardinality(SplitTargets(n)) <= 1 /\ Place(n) \in Chunk /\ vertical # 0 /\ next' = next - 1
           /\ current' = IF Full(n) THEN Place(n) + 1 ELSE Place(n)
           /\ inCurrent' = IF Full(n) THEN 0 ELSE Filled(n)
           /\ vertical' = IF Full(n) THEN vertical - 1 ELSE vertical
           /\ unsplit' = IF Full(n) THEN unsplit - Filled(n) ELSE unsplit
           /\ UNCHANGED <<pc, plan, order>>
<1>1. /\ ~(Cardinality(SplitTargets(n)) > 1) /\ Place(n) \in Chunk /\ vertical # 0 /\ next' = next - 1
      /\ current' = IF Full(n) THEN Place(n) + 1 ELSE Place(n)
      /\ inCurrent' = IF Full(n) THEN 0 ELSE Filled(n)
      /\ vertical' = IF Full(n) THEN vertical - 1 ELSE vertical
      /\ unsplit' = IF Full(n) THEN unsplit - Filled(n) ELSE unsplit
      /\ UNCHANGED <<pc, plan, order>>
  BY DEF PlaceWhole, Fail
<1>2. nodes' = Added(nodes, WholeNodes(n)) /\ edges' = Added(edges, WholeEdges(n))
  <2>1. Put(WholeNodes(n), WholeEdges(n))
    BY <1>1, Zenon DEF PlaceWhole, Fail, WholeNodes, WholeEdges
  <2>. QED
    BY <2>1 DEF Put
<1>3. SplitTargets(n) \subseteq DOMAIN pieces /\ IsFiniteSet(SplitTargets(n))
  <2>1. model \in Models /\ 0 \in Int /\ model.n \in Int
    BY ModelFacts DEF TypeOK
  <2>2. IsFiniteSet(0 .. model.n)
    BY <2>1, FS_Interval
  <2>3. SplitTargets(n) \subseteq 0 .. model.n
    BY <2>1, TargetsAreNodes DEF SplitTargets
  <2>. QED
    BY <2>2, <2>3, FS_Subset DEF SplitTargets
<1>4. Cardinality(SplitTargets(n)) <= 1
  BY <1>1, <1>3, FS_CardinalityType
<1>5. /\ Whole(n) \in NodeSet
      /\ \A t \in SplitTargets(n) : Split(t) \in NodeSet /\ \A i \in Row(t) : Piece(t, i) \in NodeSet
  BY <1>3, PiecesAreNodes, NodesOfChunks
<1>. DEFINE S == {Place(n)} \cup UNION {{ChunkOf(Piece(t, i)) : i \in Row(t)} : t \in SplitTargets(n)}
<1>6. WholeNodes(n) \in SUBSET (S \X NodeSet)
  BY <1>5 DEF WholeNodes
<1>7. WholeEdges(n) \in SUBSET (S \X (NodeSet \X NodeSet))
  <2>1. Place(n) \in S /\ \A t \in SplitTargets(n) : \A i \in Row(t) : ChunkOf(Piece(t, i)) \in S
    OBVIOUS
  <2>. HIDE DEF S
  <2>2. \A t \in SplitTargets(n) : SplitLinks(t, Place(n)) \in SUBSET (S \X (NodeSet \X NodeSet))
    BY <2>1, <1>5 DEF SplitLinks
  <2>3. {<<Place(n), <<Whole(n), Split(t)>>>> : t \in SplitTargets(n)} \in SUBSET (S \X (NodeSet \X NodeSet))
    BY <2>1, <1>5
  <2>. QED
    BY <2>2, <2>3 DEF WholeEdges
<1>. QED
  <2>. HIDE DEF S
  <2>. QED
    BY <1>1, <1>2, <1>4, <1>6, <1>7, PutPuts DEF TypeOK

LEMMA LinkPuts ==
    ASSUME TypeOK, Link, pc' # "failed"
    PROVE  /\ Puts(LinkNodes, LinkEdges) /\ pc = "place" /\ next = 0 /\ pc' = "build"
           /\ \A c \in Chunk : \E x \in nodes[c] : x.as # "output"
           /\ UNCHANGED <<model, asked, next, plan, counters, order>>
<1>1. /\ pc = "place" /\ next = 0 /\ pc' = "build"
      /\ \A c \in Chunk : \E x \in nodes[c] : x.as # "output"
      /\ UNCHANGED <<model, asked, next, plan, counters, order>>
  BY DEF Link, Fail
<1>2. nodes' = Added(nodes, LinkNodes) /\ edges' = Added(edges, LinkEdges)
  <2>1. Put(LinkNodes, LinkEdges)
    BY <1>1, Zenon DEF Link, Fail, LinkNodes, LinkEdges
  <2>. QED
    BY <2>1 DEF Put
<1>3. ASSUME NEW e \in Kept
      PROVE  /\ e[1] \in 1 .. model.n /\ Whole(e[1]) \in NodeSet /\ Target(e[1], e[2]) \in NodeSet
             /\ Out(e[1], 0) \in NodeSet
  <2>1. e \in model.edges /\ model \in Models
    BY DEF Kept, TypeOK
  <2>2. e = <<e[1], e[2]>> /\ e[1] \in 1 .. model.n
    BY <2>1, ModelFacts
  <2>3. Target(e[1], e[2]) \in NodeSet
    BY <2>1, <2>2, TargetsAreNodes
  <2>. QED
    BY <2>2, <2>3, NodesOfChunks
<1>. DEFINE S == {ChunkOf(Whole(e[1])) : e \in Kept} \cup {ChunkOf(Whole(e[2])) : e \in Kept}
<1>4. \A e \in Kept : ChunkOf(Whole(e[1])) \in S /\ ChunkOf(Whole(e[2])) \in S
  OBVIOUS
<1>5. LinkNodes \in SUBSET (S \X NodeSet)
  <2>. HIDE DEF S
  <2>. QED
    BY <1>3, <1>4 DEF LinkNodes, ToOutput
<1>6. LinkEdges \in SUBSET (S \X (NodeSet \X NodeSet))
  <2>. HIDE DEF S
  <2>. QED
    BY <1>3, <1>4 DEF LinkEdges, ToOutput
<1>. QED
  <2>. HIDE DEF S
  <2>. QED
    BY <1>1, <1>2, <1>5, <1>6, PutPuts DEF TypeOK

---------------------------------------------------------------------------
(* Typed is an invariant *)

\* What follows from the model and the number asked for does not change.
LEMMA SameModel ==
    ASSUME UNCHANGED <<model, asked>>
    PROVE  Groups' = Groups /\ Splittable' = Splittable /\ Horizontal' = Horizontal /\ NodeSet' = NodeSet
<1>1. Splittable' = Splittable
  BY DEF Splittable, Ideal
<1>2. Top' = Top
  BY <1>1 DEF Top, Joins, Targets
<1>3. Groups' = Groups
  BY <1>1, <1>2, Zenon DEF Groups
<1>4. Horizontal' = Horizontal
  BY DEF Horizontal, MaxVertical
<1>. QED
  BY <1>1, <1>3, <1>4 DEF NodeSet

LEMMA InitTyped == Init => Typed
<1>. SUFFICES ASSUME Init
              PROVE  Typed
  OBVIOUS
<1>1. model \in Models /\ asked \in Asked
  BY DEF Init
<1>2. model.n \in Nat /\ Horizontal \in Nat
  BY <1>1, ModelFacts, HorizontalIs
<1>3. DOMAIN pieces = {}
  BY DEF Init
<1>4. TypeOK
  BY <1>1, <1>2, <1>3 DEF Init, TypeOK
<1>5. AtFirst /\ Shared
  BY DEF Init, AtFirst, Shared
<1>. QED
  BY <1>4, <1>5 DEF Typed

LEMMA FindGroupsTyped ==
    ASSUME Typed, FindGroups
    PROVE  Typed'
<1>1. model \in Models /\ asked \in Asked /\ Horizontal \in Nat
  BY HorizontalIs DEF Typed, TypeOK
<1>2. /\ pc = "group" /\ pc' = "allot" /\ (groups' = Groups \/ groups' = {}) /\ available' = Horizontal
      /\ UNCHANGED <<model, asked, next, pieces, count, counters, subgraphs, order>>
  BY DEF FindGroups
<1>3. Groups' = Groups /\ Splittable' = Splittable /\ Horizontal' = Horizontal
  BY <1>2, SameModel
<1>4. groups' \subseteq Groups /\ available' \in 0 .. Horizontal
  BY <1>1, <1>2
<1>5. TypeOK'
  BY <1>2, <1>3, <1>4 DEF TypeOK, Typed, counters
<1>6. AtFirst' /\ Shared'
  BY <1>2 DEF AtFirst, Shared, Typed, counters
<1>. QED
  BY <1>5, <1>6 DEF Typed

\* A group gets no piece, or at least two of those that are available.
LEMMA AllotKeeps ==
    ASSUME Typed, NEW t \in groups, Allot(t)
    PROVE  \E k \in Nat : /\ k = 0 \/ k >= 2
                          /\ k <= available /\ available' = available - k
                          /\ pieces' = IF k = 0 THEN pieces
                                       ELSE [n \in Group(t) \cup DOMAIN pieces |-> IF n \in Group(t) THEN k ELSE pieces[n]]
<1>. DEFINE split == Cardinality({Top[n] : n \in DOMAIN pieces}) + 1
            most == PiecesForGroup(Min({available, Ideal(t)}), model.dim[t])
            extra == split + 1 - (available - most + MaxVertical)
            k == IF available < 2 \/ most = 0 \/ extra > most - 2 THEN 0
                 ELSE IF extra > 0 THEN PiecesForGroup(most - extra, model.dim[t])
                 ELSE most
<1>1. model \in Models /\ t \in Splittable /\ available \in Nat /\ DOMAIN pieces \subseteq Splittable
  BY SplittableFacts, HorizontalIs DEF Typed, TypeOK
<1>2. Ideal(t) \in Nat /\ model.dim[t] \in Nat \ {0} /\ MaxVertical \in Nat
  BY <1>1, SplittableFacts, ModelFacts
<1>3. split \in Nat
  <2>1. IsFiniteSet(DOMAIN pieces)
    <3>1. 1 \in Int /\ model.n \in Int
      BY <1>1, ModelFacts
    <3>2. IsFiniteSet(1 .. model.n)
      BY <3>1, FS_Interval
    <3>. QED
      BY <1>1, <3>2, SplittableFacts, FS_Subset
  <2>2. IsFiniteSet({Top[n] : n \in DOMAIN pieces})
    <3>1. PICK f : f = [n \in DOMAIN pieces |-> Top[n]]
      OBVIOUS
    <3>2. f \in Surjection(DOMAIN pieces, {Top[n] : n \in DOMAIN pieces})
      BY <3>1 DEF Surjection
    <3>. QED
      BY <2>1, <3>2, FS_Surjection DEF ExistsSurjection
  <2>. QED
    BY <2>2, FS_CardinalityType
<1>4. Min({available, Ideal(t)}) \in Nat /\ Min({available, Ideal(t)}) <= available
  BY <1>1, <1>2, MinOfTwo
<1>5. most \in Nat /\ (most = 0 \/ 2 <= most) /\ most <= available
  BY <1>1, <1>2, <1>4, PiecesForGroupIs
<1>6. k \in Nat /\ (k = 0 \/ k >= 2) /\ k <= available
  <2>1. extra \in Int
    BY <1>1, <1>2, <1>3, <1>5
  <2>. HIDE DEF extra, most
  <2>2. CASE available < 2 \/ most = 0 \/ extra > most - 2
    BY <1>1, <2>2
  <2>3. CASE ~(available < 2 \/ most = 0 \/ extra > most - 2) /\ extra > 0
    <3>1. most - extra \in Int /\ most - extra <= available
      BY <1>1, <1>5, <2>1, <2>3
    <3>2. k = PiecesForGroup(most - extra, model.dim[t])
      BY <2>3
    <3>. QED
      BY <1>1, <1>2, <3>1, <3>2, PiecesForGroupIs
  <2>4. CASE ~(available < 2 \/ most = 0 \/ extra > most - 2) /\ ~(extra > 0)
    BY <1>5, <2>4
  <2>. QED
    BY <2>2, <2>3, <2>4
<1>7. available' = available - k /\ pieces' = IF k = 0 THEN pieces
                                              ELSE [n \in Group(t) \cup DOMAIN pieces |-> IF n \in Group(t) THEN k ELSE pieces[n]]
  BY Zenon DEF Allot
<1>. QED
  <2>. HIDE DEF k
  <2>. QED
    BY <1>6, <1>7

LEMMA AllotTyped ==
    ASSUME Typed, NEW t \in groups, Allot(t)
    PROVE  Typed'
<1>1. model \in Models /\ asked \in Asked /\ Horizontal \in Nat /\ available \in 0 .. Horizontal
  BY HorizontalIs DEF Typed, TypeOK
<1>2. /\ pc = "allot" /\ groups' = groups \ {t}
      /\ UNCHANGED <<model, asked, pc, next, count, counters, subgraphs, order>>
  BY DEF Allot
<1>3. Groups' = Groups /\ Splittable' = Splittable /\ Horizontal' = Horizontal
  BY <1>2, SameModel
<1>4. PICK k \in Nat : /\ k = 0 \/ k >= 2
                       /\ k <= available /\ available' = available - k
                       /\ pieces' = IF k = 0 THEN pieces
                                    ELSE [n \in Group(t) \cup DOMAIN pieces |-> IF n \in Group(t) THEN k ELSE pieces[n]]
  BY AllotKeeps
<1>5. available' \in 0 .. Horizontal
  BY <1>1, <1>4
<1>6. DOMAIN pieces' \subseteq Splittable /\ \A n \in DOMAIN pieces' : pieces'[n] \in Nat /\ pieces'[n] >= 2
  <2>1. CASE k = 0
    BY <1>4, <2>1 DEF Typed, TypeOK
  <2>2. CASE k # 0
    <3>1. pieces' = [n \in Group(t) \cup DOMAIN pieces |-> IF n \in Group(t) THEN k ELSE pieces[n]]
      BY <1>4, <2>2
    <3>2. Group(t) \subseteq Splittable /\ DOMAIN pieces \subseteq Splittable
      BY <1>1, SplittableFacts DEF Typed, TypeOK
    <3>. QED
      BY <1>4, <2>2, <3>1, <3>2 DEF Typed, TypeOK
  <2>. QED
    BY <2>1, <2>2
<1>7. TypeOK'
  BY <1>2, <1>3, <1>5, <1>6 DEF TypeOK, Typed, counters
<1>8. AtFirst' /\ Shared'
  BY <1>2 DEF AtFirst, Shared, Typed, counters
<1>. QED
  BY <1>7, <1>8 DEF Typed

\* No more nodes are split than there are.
LEMMA SomeUnsplit ==
    ASSUME TypeOK
    PROVE  /\ IsFiniteSet(DOMAIN pieces) /\ Cardinality(DOMAIN pieces) \in Nat
           /\ Cardinality(DOMAIN pieces) <= model.n
<1>1. model.n \in Nat /\ DOMAIN pieces \subseteq 1 .. model.n
  BY ModelFacts, SplittableFacts DEF TypeOK
<1>2. IsFiniteSet(1 .. model.n) /\ Cardinality(1 .. model.n) = model.n
  <2>1. 1 \in Int /\ model.n \in Int /\ (1 > model.n => model.n = 0) /\ model.n - 1 + 1 = model.n
    BY <1>1
  <2>. QED
    BY <2>1, FS_Interval
<1>. QED
  BY <1>1, <1>2, FS_Subset, FS_CardinalityType

LEMMA DivideTyped ==
    ASSUME Typed, Divide
    PROVE  Typed' /\ next' = model.n /\ current' = 0 /\ inCurrent' = 0
<1>1. /\ model \in Models /\ asked \in Nat /\ asked \in Asked /\ Horizontal \in Nat
      /\ Horizontal <= asked /\ available \in 0 .. Horizontal
  BY HorizontalIs DEF Typed, TypeOK
<1>2. /\ pc = "allot" /\ pc' = "place"
      /\ unsplit' = model.n - Cardinality(DOMAIN pieces)
      /\ vertical' = Min({asked - (Horizontal - available), unsplit'})
      /\ count' = Horizontal - available + vertical'
      /\ nodes' = [c \in 0 .. count' - 1 |-> {}]
      /\ edges' = [c \in 0 .. count' - 1 |-> {}]
      /\ UNCHANGED <<model, asked, next, groups, available, pieces, current, inCurrent, order>>
  BY DEF Divide
<1>3. Groups' = Groups /\ Splittable' = Splittable /\ Horizontal' = Horizontal
  BY <1>2, SameModel
<1>4. unsplit' \in Nat
  BY <1>1, <1>2, SomeUnsplit, ModelFacts DEF Typed
<1>5. vertical' \in Nat /\ vertical' <= unsplit'
  <2>1. asked - (Horizontal - available) \in Nat
    BY <1>1
  <2>. QED
    BY <1>2, <1>4, <2>1, MinOfTwo
<1>6. count' \in Nat
  BY <1>1, <1>2, <1>5
<1>7. nodes' \in [Chunk' -> SUBSET NodeSet'] /\ edges' \in [Chunk' -> SUBSET (NodeSet' \X NodeSet')]
  <2>1. Chunk' = 0 .. count' - 1
    BY DEF Chunk
  <2>. QED
    BY <1>2, <2>1
<1>8. next' = model.n /\ current' = 0 /\ inCurrent' = 0
  BY <1>2 DEF Typed, AtFirst
<1>9. TypeOK'
  BY <1>1, <1>2, <1>3, <1>4, <1>5, <1>6, <1>7, <1>8 DEF TypeOK, Typed
<1>10. AtFirst' /\ Shared'
  BY <1>2, <1>5, <1>8 DEF AtFirst, Shared
<1>. QED
  BY <1>8, <1>9, <1>10 DEF Typed

\* The fair share of the nodes that are left: nodes f - 1 are in the chunk, and
\* one more fills it or not.
LEMMA FairShare ==
    ASSUME NEW v \in Nat \ {0}, NEW u \in Nat, v <= u,
           NEW f \in Nat \ {0}, f > 1 => v * (f - 1) < u
    PROVE  /\ CeilDiv(u, v) \in Nat /\ f <= CeilDiv(u, v)
           /\ f >= CeilDiv(u, v) => f <= u /\ v - 1 <= u - f
           /\ f < CeilDiv(u, v) => v * f < u
<1>1. PICK room : room = CeilDiv(u, v)
  OBVIOUS
<1>2. room \in Nat /\ room * v >= u /\ \A q \in Nat : q * v >= u => q >= room
  BY <1>1, CeilDivIs
<1>3. f <= room
  <2>1. CASE f = 1
    BY <1>2, <2>1
  <2>2. CASE f > 1
    <3>. SUFFICES ASSUME room <= f - 1
                  PROVE  FALSE
      BY <1>2
    <3>1. room * v <= (f - 1) * v
      BY <1>2, <2>2
    <3>2. (f - 1) * v = v * (f - 1)
      OBVIOUS
    <3>. QED
      BY <1>2, <2>2, <3>1, <3>2
  <2>. QED
    BY <2>1, <2>2
<1>4. room <= u - v + 1
  <2>1. PICK d \in Nat : u = v + d
    OBVIOUS
  <2>2. PICK w \in Nat : v = w + 1
    OBVIOUS
  <2>3. (u - v + 1) * v = u + d * w
    <3>1. (d + 1) * (w + 1) = d * w + d + w + 1
      OBVIOUS
    <3>. QED
      BY <2>1, <2>2, <3>1
  <2>4. d * w \in Nat
    BY <2>1, <2>2
  <2>. QED
    BY <1>2, <2>1, <2>3, <2>4
<1>5. ASSUME f >= room
      PROVE  f <= u /\ v - 1 <= u - f
  BY <1>2, <1>3, <1>4, <1>5
<1>6. ASSUME f < room
      PROVE  v * f < u
  <2>1. ~(f * v >= u)
    BY <1>2, <1>6
  <2>2. f * v = v * f /\ f * v \in Int
    OBVIOUS
  <2>. QED
    BY <2>1, <2>2
<1>. QED
  BY <1>1, <1>2, <1>3, <1>5, <1>6

LEMMA FailTyped ==
    ASSUME Typed, pc \notin {"group", "allot"}, Fail, UNCHANGED <<model, asked>>
    PROVE  Typed'
<1>1. Groups' = Groups /\ Splittable' = Splittable /\ Horizontal' = Horizontal /\ NodeSet' = NodeSet
  BY SameModel
<1>2. pc' = "failed" /\ UNCHANGED <<next, plan, counters, subgraphs, order>>
  BY DEF Fail
<1>3. TypeOK'
  BY <1>1, <1>2 DEF Typed, TypeOK, plan, counters, subgraphs, Chunk
<1>. QED
  BY <1>2, <1>3 DEF Typed, AtFirst, Shared, counters

LEMMA SplitTyped ==
    ASSUME Typed, NEW n \in 1 .. model.n, PlaceSplit(n)
    PROVE  Typed'
<1>1. pc = "place" /\ next = n /\ n \in DOMAIN pieces /\ UNCHANGED <<model, asked>> /\ TypeOK /\ Shared
  BY DEF PlaceSplit, Typed
<1>2. Groups' = Groups /\ Splittable' = Splittable /\ Horizontal' = Horizontal /\ NodeSet' = NodeSet
  BY <1>1, SameModel
<1>3. model.n \in Nat /\ next - 1 \in 0 .. model.n
  BY <1>1, ModelFacts DEF TypeOK
<1>4. CASE pc' = "failed"
  <2>1. Fail
    BY <1>1, <1>4 DEF PlaceSplit, PlaceFirst, PlaceFollowing
  <2>. QED
    BY <1>1, <2>1, FailTyped
<1>5. ASSUME pc' # "failed", PlaceFirst(n)
      PROVE  Typed'
  <2>1. /\ Puts(FirstNodes(n), FirstEdges(n))
        /\ InFront + pieces[n] \in Chunk /\ current' = InFront + pieces[n]
        /\ inCurrent > 0 => vertical # 0
        /\ vertical' = IF inCurrent > 0 THEN vertical - 1 ELSE vertical
        /\ unsplit' = unsplit - inCurrent /\ next' = next - 1
        /\ UNCHANGED <<pc, plan, inCurrent, order>>
    BY <1>1, <1>5, FirstPuts
  <2>2. current' \in Nat
    BY <2>1 DEF Chunk
  <2>3. vertical' \in Nat /\ unsplit' \in Nat /\ Shared'
    <3>1. vertical \in Nat /\ unsplit \in Nat /\ inCurrent \in Nat
      BY <1>1 DEF TypeOK
    <3>2. CASE inCurrent = 0
      BY <1>1, <2>1, <3>1, <3>2 DEF Shared
    <3>3. CASE inCurrent > 0
      <4>1. vertical' = vertical - 1 /\ unsplit' = unsplit - inCurrent /\ vertical >= 1 /\ inCurrent' = inCurrent
        BY <2>1, <3>1, <3>3
      <4>2. vertical * inCurrent < unsplit
        BY <1>1, <3>3 DEF Shared
      <4>3. vertical * inCurrent = (vertical - 1) * inCurrent + inCurrent
        BY <3>1
      <4>4. (vertical - 1) * inCurrent \in Nat /\ (vertical - 1) * inCurrent >= vertical - 1
        BY <3>1, <3>3, <4>1
      <4>5. (vertical - 1) * inCurrent < unsplit - inCurrent
        BY <3>1, <4>2, <4>3, <4>4
      <4>6. vertical' \in Nat /\ unsplit' \in Nat /\ vertical' <= unsplit'
        BY <3>1, <4>1, <4>4, <4>5
      <4>. QED
        BY <4>1, <4>5, <4>6 DEF Shared
    <3>. QED
      BY <3>1, <3>2, <3>3
  <2>4. TypeOK'
    BY <1>1, <1>2, <1>3, <2>1, <2>2, <2>3 DEF TypeOK, plan, Puts, Chunk
  <2>. QED
    BY <1>1, <2>1, <2>3, <2>4 DEF Typed, AtFirst
<1>6. ASSUME pc' # "failed", NEW t \in SplitTargets(n), PlaceFollowing(n, t)
      PROVE  Typed'
  <2>1. /\ Puts(InRow(n, current), FollowingEdges(n, t)) /\ next' = next - 1
        /\ UNCHANGED <<pc, plan, counters, order>>
    BY <1>1, <1>6, FollowingPuts
  <2>2. TypeOK'
    BY <1>1, <1>2, <1>3, <2>1 DEF TypeOK, plan, counters, Puts, Chunk
  <2>. QED
    BY <1>1, <2>1, <2>2 DEF Typed, AtFirst, Shared, counters
<1>. QED
  BY <1>1, <1>4, <1>5, <1>6 DEF PlaceSplit

LEMMA WholeTyped ==
    ASSUME Typed, NEW n \in 1 .. model.n, PlaceWhole(n)
    PROVE  Typed'
<1>1. pc = "place" /\ next = n /\ n \notin DOMAIN pieces /\ UNCHANGED <<model, asked>> /\ TypeOK /\ Shared
  BY DEF PlaceWhole, Typed
<1>2. Groups' = Groups /\ Splittable' = Splittable /\ Horizontal' = Horizontal /\ NodeSet' = NodeSet
  BY <1>1, SameModel
<1>3. model.n \in Nat /\ next - 1 \in 0 .. model.n
  BY <1>1, ModelFacts DEF TypeOK
<1>4. CASE pc' = "failed"
  <2>1. Fail
    BY <1>1, <1>4 DEF PlaceWhole
  <2>. QED
    BY <1>1, <2>1, FailTyped
<1>5. CASE pc' # "failed"
  <2>1. /\ Puts(WholeNodes(n), WholeEdges(n))
        /\ Place(n) \in Chunk /\ vertical # 0 /\ next' = next - 1
        /\ current' = IF Full(n) THEN Place(n) + 1 ELSE Place(n)
        /\ inCurrent' = IF Full(n) THEN 0 ELSE Filled(n)
        /\ vertical' = IF Full(n) THEN vertical - 1 ELSE vertical
        /\ unsplit' = IF Full(n) THEN unsplit - Filled(n) ELSE unsplit
        /\ UNCHANGED <<pc, plan, order>>
    BY <1>1, <1>5, WholePuts
  <2>2. current' \in Nat
    BY <2>1 DEF Chunk
  <2>3. vertical \in Nat \ {0} /\ unsplit \in Nat /\ vertical <= unsplit /\ inCurrent \in Nat
    BY <1>1, <2>1 DEF TypeOK, Shared
  <2>4. Filled(n) \in Nat \ {0} /\ (Filled(n) > 1 => vertical * (Filled(n) - 1) < unsplit)
    BY <1>1, <2>3 DEF Filled, Shared
  <2>5. PICK f \in Nat \ {0} : f = Filled(n)
    BY <2>4
  <2>6. PICK room : room = CeilDiv(unsplit, vertical)
    OBVIOUS
  <2>7. /\ room \in Nat
        /\ f >= room => f <= unsplit /\ vertical - 1 <= unsplit - f
        /\ f < room => vertical * f < unsplit
    BY <2>3, <2>4, <2>5, <2>6, FairShare
  <2>8. Full(n) <=> f >= room
    BY <2>5, <2>6 DEF Full, Room
  <2>9. vertical' \in Nat /\ unsplit' \in Nat /\ inCurrent' \in Nat /\ Shared'
    <3>1. CASE f >= room
      BY <2>1, <2>3, <2>5, <2>7, <2>8, <3>1 DEF Shared
    <3>2. CASE f < room
      BY <2>1, <2>3, <2>5, <2>7, <2>8, <3>2 DEF Shared
    <3>. QED
      BY <2>5, <2>7, <3>1, <3>2
  <2>10. TypeOK'
    BY <1>1, <1>2, <1>3, <2>1, <2>2, <2>9 DEF TypeOK, plan, Puts, Chunk
  <2>. QED
    BY <1>1, <2>1, <2>9, <2>10 DEF Typed, AtFirst
<1>. QED
  BY <1>4, <1>5

LEMMA LinkTyped ==
    ASSUME Typed, Link
    PROVE  Typed'
<1>1. pc = "place" /\ UNCHANGED <<model, asked>> /\ TypeOK /\ Shared
  BY DEF Link, Typed
<1>2. Groups' = Groups /\ Splittable' = Splittable /\ Horizontal' = Horizontal /\ NodeSet' = NodeSet
  BY <1>1, SameModel
<1>3. CASE pc' = "failed"
  <2>1. Fail
    BY <1>1, <1>3 DEF Link
  <2>. QED
    BY <1>1, <2>1, FailTyped
<1>4. CASE pc' # "failed"
  <2>1. Puts(LinkNodes, LinkEdges) /\ pc' = "build" /\ UNCHANGED <<next, plan, counters, order>>
    BY <1>1, <1>4, LinkPuts
  <2>2. TypeOK'
    BY <1>1, <1>2, <2>1 DEF TypeOK, plan, counters, Puts, Chunk
  <2>. QED
    BY <1>1, <2>1, <2>2 DEF Typed, AtFirst, Shared, counters
<1>. QED
  BY <1>3, <1>4

LEMMA BuildTyped ==
    ASSUME Typed, Build
    PROVE  Typed'
<1>1. pc = "build" /\ UNCHANGED <<model, asked>> /\ TypeOK /\ Shared
  BY DEF Build, Typed
<1>2. Groups' = Groups /\ Splittable' = Splittable /\ Horizontal' = Horizontal /\ NodeSet' = NodeSet
  BY <1>1, SameModel
<1>3. CASE Fail
  BY <1>1, <1>3, FailTyped
<1>4. CASE pc' = "visit" /\ UNCHANGED <<next, plan, counters, subgraphs, order>>
  <2>1. TypeOK'
    BY <1>1, <1>2, <1>4 DEF TypeOK, plan, counters, subgraphs, Chunk
  <2>. QED
    BY <1>1, <1>4, <2>1 DEF Typed, AtFirst, Shared, counters
<1>. QED
  BY <1>3, <1>4 DEF Build

LEMMA VisitTyped ==
    ASSUME Typed, VisitPass
    PROVE  Typed'
<1>1. /\ pc = "visit" /\ pc' \in {"visit", "done"} /\ TypeOK /\ Shared
      /\ UNCHANGED <<model, asked, next, plan, counters, subgraphs>>
  BY DEF VisitPass, Typed
<1>2. Groups' = Groups /\ Splittable' = Splittable /\ Horizontal' = Horizontal /\ NodeSet' = NodeSet
  BY <1>1, SameModel
<1>3. TypeOK'
  BY <1>1, <1>2 DEF TypeOK, plan, counters, subgraphs, Chunk
<1>. QED
  BY <1>1, <1>3 DEF Typed, AtFirst, Shared, counters

LEMMA StutterTyped ==
    ASSUME Typed, UNCHANGED vars
    PROVE  Typed'
<1>1. UNCHANGED <<model, asked, pc, next, plan, counters, subgraphs, order>>
  BY DEF vars
<1>2. Groups' = Groups /\ Splittable' = Splittable /\ Horizontal' = Horizontal /\ NodeSet' = NodeSet
  BY <1>1, SameModel
<1>3. TypeOK'
  BY <1>1, <1>2 DEF Typed, TypeOK, plan, counters, subgraphs, Chunk
<1>. QED
  BY <1>1, <1>3 DEF Typed, AtFirst, Shared, plan, counters

LEMMA NextTyped ==
    ASSUME Typed, [Next]_vars
    PROVE  Typed'
BY FindGroupsTyped, AllotTyped, DivideTyped, SplitTyped, WholeTyped, LinkTyped, BuildTyped, VisitTyped,
   StutterTyped DEF Next

\* As many nodes are left as chunks that are not filled (chunking.rs:1308), at
\* every step of split, and each variable holds what it is declared for.
THEOREM ChunkingTyped == Spec => []Typed
<1>1. Init => Typed
  BY InitTyped
<1>2. Typed /\ [Next]_vars => Typed'
  BY NextTyped
<1>. QED
  BY <1>1, <1>2, PTL DEF Spec

---------------------------------------------------------------------------
(* What is in the chunks *)

\* The nodes found in chunks.
Belongs(x) ==
    \/ x = Whole(x.of) /\ x.of \notin DOMAIN pieces /\ x.of > next
    \/ x = Piece(x.of, x.i) /\ x.of \in DOMAIN pieces /\ x.i \in Row(x.of) /\ x.of > next
    \/ x = Split(x.of) /\ x.of \in DOMAIN pieces /\ \E s \in Sources(x.of) : s > next /\ s \notin DOMAIN pieces
    \/ x = Recombined(x.of) /\ x.of \in DOMAIN pieces /\ x.of > next
    \/ x = Out(x.of, x.i) /\ x.of \in DOMAIN pieces /\ x.i \in Row(x.of) /\ x.of > next
    \/ x = Out(x.of, 0) /\ x.of \notin DOMAIN pieces /\ pc # "place"

OnlyThese == \A c \in Chunk : \A x \in nodes[c] : Belongs(x)

Once == \A c, d \in Chunk : \A x \in nodes[c] : x \in nodes[d] => c = d

\* What has been visited is in a chunk.
AllPlaced ==
    /\ \A n \in 1 .. model.n : n > next /\ n \notin DOMAIN pieces => \E c \in Chunk : Whole(n) \in nodes[c]
    /\ \A n \in DOMAIN pieces : n > next => \A i \in Row(n) : \E c \in Chunk : Piece(n, i) \in nodes[c]

\* Chunks are filled upwards, and the row of a node goes down from one that is.
Upwards ==
    \A c \in Chunk : \A x \in nodes[c] : c <= current /\ (x.as = "piece" => c + x.i <= current)

\* A node that is not split is in no lower chunk than those that come later.
Descending ==
    \A c, d \in Chunk : \A a, b \in 1 .. model.n :
        Whole(a) \in nodes[c] /\ Whole(b) \in nodes[d] /\ a < b => c >= d

\* The pieces of a node are in chunks one below the other.
InRows ==
    \A n \in DOMAIN pieces : \A i, j \in Row(n) : \A c, d \in Chunk :
        Piece(n, i) \in nodes[c] /\ Piece(n, j) \in nodes[d] => c + i = d + j

\* A link of a chunk starts in the chunk, or in a higher one.
FromAbove ==
    \A c \in Chunk : \A e \in edges[c] : \E d \in Chunk : d >= c /\ e[1] \in nodes[d]

Positions == OnlyThese /\ Once /\ AllPlaced /\ Upwards /\ Descending /\ InRows /\ FromAbove

\* The links found in chunks.
IsLink(e) ==
    \/ \E n \in DOMAIN pieces : \E i \in Row(n) :
        \/ e = <<Piece(n, i), Recombined(n)>> /\ Recombined(n) \in All
        \/ e = <<Piece(n, i), Out(n, i)>> /\ Out(n, i) \in All
        \/ \E t \in SplitTargets(n) : e = <<Piece(n, i), Piece(t, i)>>
        \/ e = <<Split(n), Piece(n, i)>> /\ \E s \in Sources(n) : s \notin DOMAIN pieces
    \/ \E n \in DOMAIN pieces : \E t \in Targets(n) : e = <<Recombined(n), Target(n, t)>>
    \/ \E n \in 1 .. model.n \ DOMAIN pieces : \E t \in SplitTargets(n) : e = <<Whole(n), Split(t)>>
    \/ pc # "place" /\ \E d \in Kept : e = <<Whole(d[1]), Target(d[1], d[2])>>

OnlyLinks == \A c \in Chunk : \A e \in edges[c] : IsLink(e)

\* A split node read by another that is split.
FollowingAt(n) ==
    \A t \in SplitTargets(n) :
        /\ Targets(n) = {t} /\ pieces[t] = pieces[n]
        /\ \A i \in Row(n) : Linked(Piece(n, i), Piece(t, i)) /\ Out(n, i) \notin All
        /\ Recombined(n) \notin All

\* A split node that starts a set.
FirstAt(n) ==
    SplitTargets(n) = {} =>
        \/ /\ Recombined(n) \in All
           /\ \A i \in Row(n) : Linked(Piece(n, i), Recombined(n)) /\ Out(n, i) \notin All
           /\ \A t \in Targets(n) : Linked(Recombined(n), Target(n, t))
        \/ /\ n = model.n /\ Recombined(n) \notin All
           /\ \A i \in Row(n) : Linked(Piece(n, i), Out(n, i)) /\ Out(n, i) \in All

\* A node that is not split but read by one that is.
WholeAt(n) ==
    \A t \in SplitTargets(n) :
        /\ SplitTargets(n) = {t}
        /\ Linked(Whole(n), Split(t)) /\ \A i \in Row(t) : Linked(Split(t), Piece(t, i))

SplitLinked == \A n \in DOMAIN pieces : n > next => FollowingAt(n) /\ FirstAt(n)
BeforeSplitLinked == \A n \in 1 .. model.n \ DOMAIN pieces : n > next => WholeAt(n)

\* Nodes that are not split.
WholeLinked ==
    pc # "place" =>
        /\ next = 0
        /\ \A e \in Kept : Linked(Whole(e[1]), Target(e[1], e[2]))
        /\ \A e \in ToOutput : Out(e[1], 0) \in All

\* Only before the first node is there nothing in front.
SomethingInFront == pc = "place" /\ current = 0 /\ inCurrent = 0 => next = model.n

LinkedUp == OnlyLinks /\ SplitLinked /\ BeforeSplitLinked /\ WholeLinked /\ SomethingInFront

Laid == pc \in {"place", "build", "visit", "done"} => Positions /\ LinkedUp

\* The parts of a node.
LEMMA Fields ==
    /\ \A n : Whole(n).of = n /\ Whole(n).as = "whole" /\ Whole(n).i = 0
    /\ \A n : Split(n).of = n /\ Split(n).as = "split" /\ Split(n).i = 0
    /\ \A n : Recombined(n).of = n /\ Recombined(n).as = "recombined" /\ Recombined(n).i = 0
    /\ \A n, i : Piece(n, i).of = n /\ Piece(n, i).as = "piece" /\ Piece(n, i).i = i
    /\ \A n, i : Out(n, i).of = n /\ Out(n, i).as = "output" /\ Out(n, i).i = i
BY DEF Whole, Split, Recombined, Piece, Out

\* What follows from the model and the pieces while nodes are placed.
LEMMA SamePlan ==
    ASSUME UNCHANGED <<model, pieces, count>>
    PROVE  /\ Chunk' = Chunk /\ Kept' = Kept /\ ToOutput' = ToOutput
           /\ \A n : Row(n)' = Row(n) /\ Targets(n)' = Targets(n) /\ Sources(n)' = Sources(n)
           /\ \A n : SplitTargets(n)' = SplitTargets(n)
BY DEF Chunk, Kept, ToOutput, Row, Targets, Sources, SplitTargets

LEMMA BelongsStays ==
    ASSUME UNCHANGED <<model, pieces, count>>, next \in Int, next' \in Int, next' <= next, model \in Models,
           pc # "place" => pc' # "place", NEW x, Belongs(x), x.of \in Int
    PROVE  Belongs(x)'
<1>1. \A s \in Sources(x.of) : s \in Int
  BY TargetsAreNodes
<1>2. x.of > next => x.of > next'
  OBVIOUS
<1>3. \A s \in Sources(x.of) : s > next => s > next'
  BY <1>1
<1>. QED
  BY <1>2, <1>3, SamePlan DEF Belongs

\* A node that has not been visited is in no chunk.
LEMMA NotYet ==
    ASSUME OnlyThese, NEW n \in Int, n <= next, next \in Int, NEW c \in Chunk
    PROVE  /\ Whole(n) \notin nodes[c] /\ Recombined(n) \notin nodes[c]
           /\ \A i : Piece(n, i) \notin nodes[c]
           /\ n \in DOMAIN pieces => \A i : Out(n, i) \notin nodes[c]
           /\ \A t : Split(t) \in nodes[c] => \E s \in Sources(t) : s > next /\ s \notin DOMAIN pieces
<1>1. \A x \in nodes[c] : Belongs(x)
  BY DEF OnlyThese
<1>2. ~(n > next)
  OBVIOUS
<1>. QED
  BY <1>1, <1>2, Fields DEF Belongs

\* What is new in the chunks, xs, keeps everything in its place.
NewInPlace(xs, es, top) ==
    /\ \A c \in Chunk : \A x : <<c, x>> \in xs =>
          /\ Belongs(x)'
          /\ \A d \in Chunk : x \notin nodes[d] /\ (<<d, x>> \in xs => c = d)
          /\ c <= current' /\ (x.as = "piece" => c + x.i <= current')
    /\ \A n \in 1 .. model.n : next' < n /\ n <= next /\ n \notin DOMAIN pieces =>
          \E c \in Chunk : <<c, Whole(n)>> \in xs
    /\ \A n \in DOMAIN pieces : next' < n /\ n <= next =>
          \A i \in Row(n) : \E c \in Chunk : <<c, Piece(n, i)>> \in xs
    /\ \A c \in Chunk : \A n : <<c, Whole(n)>> \in xs => n = next /\ c >= current
    /\ \A c \in Chunk : \A n, i : <<c, Piece(n, i)>> \in xs => n = next /\ c + i = top
    /\ \A c \in Chunk : \A e : <<c, e>> \in es => \E d \in Chunk : d >= c /\ e[1] \in nodes'[d]

LEMMA PositionsGrow ==
    ASSUME TypeOK, Positions, UNCHANGED <<model, pieces, count>>, next' \in Int, next' <= next,
           pc # "group" /\ pc # "allot", pc # "place" => pc' # "place",
           current' \in Int, current <= current',
           NEW xs, NEW es, NEW top, Puts(xs, es), NewInPlace(xs, es, top)
    PROVE  Positions'
<1>1. /\ Chunk' = Chunk /\ \A n : Row(n)' = Row(n)
      /\ pieces' = pieces /\ model' = model
  BY SamePlan
<1>2. \A c \in Chunk : \A x : x \in nodes'[c] <=> x \in nodes[c] \/ <<c, x>> \in xs
  BY DEF Puts
<1>3. next \in Int /\ current \in Int /\ model \in Models /\ Chunk \subseteq Int /\ model.n \in Nat
  BY ModelFacts DEF TypeOK, Chunk
<1>4. \A c \in Chunk : \A x \in nodes[c] : x \in NodeSet /\ x.of \in Int /\ x.i \in Int
  BY DEF TypeOK, NodeSet
<1>5. OnlyThese'
  <2>1. ASSUME NEW c \in Chunk, NEW x \in nodes'[c]
        PROVE  Belongs(x)'
    <3>1. CASE x \in nodes[c]
      BY <1>3, <1>4, <3>1, BelongsStays DEF Positions, OnlyThese
    <3>2. CASE <<c, x>> \in xs
      BY <3>2 DEF NewInPlace
    <3>. QED
      BY <1>2, <2>1, <3>1, <3>2
  <2>. QED
    BY <1>1, <2>1 DEF OnlyThese
<1>6. Once'
  <2>1. ASSUME NEW c \in Chunk, NEW d \in Chunk, NEW x \in nodes'[c], x \in nodes'[d]
        PROVE  c = d
    <3>1. CASE x \in nodes[c] /\ x \in nodes[d]
      BY <3>1 DEF Positions, Once
    <3>2. CASE <<c, x>> \in xs
      BY <1>2, <2>1, <3>2 DEF NewInPlace
    <3>3. CASE <<d, x>> \in xs
      BY <1>2, <2>1, <3>3 DEF NewInPlace
    <3>. QED
      BY <1>2, <2>1, <3>1, <3>2, <3>3
  <2>. QED
    BY <1>1, <2>1 DEF Once
<1>7. AllPlaced'
  <2>1. ASSUME NEW n \in 1 .. model.n, n > next', n \notin DOMAIN pieces
        PROVE  \E c \in Chunk : Whole(n) \in nodes'[c]
    <3>1. CASE n > next
      BY <1>2, <2>1, <3>1 DEF Positions, AllPlaced
    <3>2. CASE n <= next
      BY <1>2, <2>1, <3>2 DEF NewInPlace
    <3>. QED
      BY <1>3, <3>1, <3>2
  <2>2. ASSUME NEW n \in DOMAIN pieces, n > next', NEW i \in Row(n)
        PROVE  \E c \in Chunk : Piece(n, i) \in nodes'[c]
    <3>1. CASE n > next
      BY <1>2, <2>2, <3>1 DEF Positions, AllPlaced
    <3>2. CASE n <= next
      BY <1>2, <2>2, <3>2 DEF NewInPlace
    <3>. QED
      BY <1>3, <3>1, <3>2, PiecesAreNodes
  <2>. QED
    BY <1>1, <2>1, <2>2 DEF AllPlaced
<1>8. Upwards'
  <2>1. ASSUME NEW c \in Chunk, NEW x \in nodes'[c]
        PROVE  c <= current' /\ (x.as = "piece" => c + x.i <= current')
    <3>1. CASE x \in nodes[c]
      <4>1. c <= current /\ (x.as = "piece" => c + x.i <= current)
        BY <3>1 DEF Positions, Upwards
      <4>. QED
        BY <1>3, <1>4, <3>1, <4>1
    <3>2. CASE <<c, x>> \in xs
      BY <3>2 DEF NewInPlace
    <3>. QED
      BY <1>2, <2>1, <3>1, <3>2
  <2>. QED
    BY <1>1, <2>1 DEF Upwards
<1>9. Descending'
  <2>1. ASSUME NEW c \in Chunk, NEW d \in Chunk, NEW a \in 1 .. model.n, NEW b \in 1 .. model.n,
               Whole(a) \in nodes'[c], Whole(b) \in nodes'[d], a < b
        PROVE  c >= d
    <3>1. CASE Whole(a) \in nodes[c] /\ Whole(b) \in nodes[d]
      BY <2>1, <3>1 DEF Positions, Descending
    <3>2. CASE <<c, Whole(a)>> \in xs /\ Whole(b) \in nodes[d]
      <4>1. c >= current /\ d <= current
        BY <3>2 DEF NewInPlace, Positions, Upwards
      <4>. QED
        BY <1>3, <4>1
    <3>3. CASE <<d, Whole(b)>> \in xs
      <4>1. b = next
        BY <3>3 DEF NewInPlace
      <4>2. a < next
        BY <2>1, <4>1
      <4>3. Whole(a) \notin nodes[c]
        BY <1>3, <4>2, NotYet DEF Positions
      <4>4. <<c, Whole(a)>> \in xs
        BY <1>2, <2>1, <4>3
      <4>5. a = next
        BY <4>4 DEF NewInPlace
      <4>. QED
        BY <1>3, <4>2, <4>5
    <3>. QED
      BY <1>2, <2>1, <3>1, <3>2, <3>3
  <2>. QED
    BY <1>1, <2>1 DEF Descending
<1>10. InRows'
  <2>1. ASSUME NEW n \in DOMAIN pieces, NEW i \in Row(n), NEW j \in Row(n), NEW c \in Chunk, NEW d \in Chunk,
               Piece(n, i) \in nodes'[c], Piece(n, j) \in nodes'[d]
        PROVE  c + i = d + j
    <3>1. CASE Piece(n, i) \in nodes[c] /\ Piece(n, j) \in nodes[d]
      BY <2>1, <3>1 DEF Positions, InRows
    <3>2. CASE <<c, Piece(n, i)>> \in xs \/ <<d, Piece(n, j)>> \in xs
      <4>1. n = next
        BY <3>2 DEF NewInPlace
      <4>2. n \in Int /\ n <= next /\ OnlyThese
        BY <1>3, <4>1 DEF Positions
      <4>4. Piece(n, i) \notin nodes[c] /\ Piece(n, j) \notin nodes[d]
        BY <1>3, <4>2, NotYet
      <4>3. <<c, Piece(n, i)>> \in xs /\ <<d, Piece(n, j)>> \in xs
        BY <1>2, <2>1, <4>4
      <4>. QED
        BY <4>3 DEF NewInPlace
    <3>. QED
      BY <1>2, <2>1, <3>1, <3>2
  <2>. QED
    BY <1>1, <2>1 DEF InRows
<1>11. FromAbove'
  <2>1. ASSUME NEW c \in Chunk, NEW e \in edges'[c]
        PROVE  \E d \in Chunk : d >= c /\ e[1] \in nodes'[d]
    <3>1. CASE e \in edges[c]
      BY <1>2, <3>1 DEF Positions, FromAbove
    <3>2. CASE <<c, e>> \in es
      BY <3>2 DEF NewInPlace
    <3>. QED
      BY <2>1, <3>1, <3>2 DEF Puts
  <2>. QED
    BY <1>1, <2>1 DEF FromAbove
<1>. QED
  BY <1>5, <1>6, <1>7, <1>8, <1>9, <1>10, <1>11 DEF Positions

---------------------------------------------------------------------------
(* Every action of the main loop keeps positions *)

LEMMA ChunkOfIs ==
    ASSUME NEW x, NEW c \in Chunk, x \in nodes[c]
    PROVE  /\ ChunkOf(x) \in Chunk /\ x \in nodes[ChunkOf(x)]
           /\ Once => ChunkOf(x) = c
BY DEF ChunkOf, Once

LEMMA InFirstNodes ==
    ASSUME NEW n, NEW c, NEW x, NEW top, top = InFront + pieces[n]
    PROVE  /\ InFront = -1 =>
                (<<c, x>> \in FirstNodes(n) <=>
                    \E i \in Row(n) : c = top - i /\ (x = Piece(n, i) \/ x = Out(n, i)))
           /\ InFront # -1 =>
                (<<c, x>> \in FirstNodes(n) <=>
                    \/ \E i \in Row(n) : c = top - i /\ x = Piece(n, i)
                    \/ c = InFront /\ x = Recombined(n))
<1>2. <<c, x>> \in InRow(n, top) <=> \E i \in Row(n) : c = top - i /\ x = Piece(n, i)
  BY DEF InRow
<1>3. CASE InFront = -1
  <2>. DEFINE outs == {<<top - i, Out(n, i)>> : i \in Row(n)}
  <2>1. <<c, x>> \in outs <=> \E i \in Row(n) : c = top - i /\ x = Out(n, i)
    OBVIOUS
  <2>2. FirstNodes(n) = InRow(n, top) \cup outs
    BY <1>3 DEF FirstNodes
  <2>. HIDE DEF outs
  <2>3. <<c, x>> \in FirstNodes(n) <=> <<c, x>> \in InRow(n, top) \/ <<c, x>> \in outs
    BY <2>2, Zenon
  <2>4. <<c, x>> \in FirstNodes(n) <=> \E i \in Row(n) : c = top - i /\ (x = Piece(n, i) \/ x = Out(n, i))
    BY <1>2, <2>1, <2>3, Zenon
  <2>. QED
    BY <1>3, <2>4, Zenon
<1>4. CASE InFront # -1
  <2>1. FirstNodes(n) = InRow(n, top) \cup {<<InFront, Recombined(n)>>}
    BY <1>4 DEF FirstNodes
  <2>2. <<c, x>> \in FirstNodes(n) <=> <<c, x>> \in InRow(n, top) \/ (c = InFront /\ x = Recombined(n))
    BY <2>1
  <2>. QED
    BY <1>2, <1>4, <2>2, Zenon
<1>. QED
  BY <1>3, <1>4, Zenon

LEMMA InFirstEdges ==
    ASSUME NEW n, NEW c, NEW e, NEW top, top = InFront + pieces[n]
    PROVE  /\ InFront = -1 =>
                (<<c, e>> \in FirstEdges(n) <=>
                    \E i \in Row(n) : c = top - i /\ e = <<Piece(n, i), Out(n, i)>>)
           /\ InFront # -1 =>
                (<<c, e>> \in FirstEdges(n) <=>
                    \/ \E i \in Row(n) : /\ c = top - i \/ c = InFront
                                         /\ e = <<Piece(n, i), Recombined(n)>>
                    \/ c = InFront /\ \E t \in Targets(n) : e = <<Recombined(n), Target(n, t)>>)
<1>2. PICK outs : outs = [i \in Row(n) |-> Out(n, i)]
  OBVIOUS
<1>3. PICK tops : tops = [i \in Row(n) |-> top - i]
  OBVIOUS
<1>4. PICK recombined : recombined = [i \in Row(n) |-> Recombined(n)]
  OBVIOUS
<1>5. PICK fronts : fronts = [i \in Row(n) |-> InFront]
  OBVIOUS
<1>6. CASE InFront = -1
  <2>1. FirstEdges(n) = Links(n, top, outs, tops)
    BY <1>2, <1>3, <1>6 DEF FirstEdges
  <2>2. <<c, e>> \in Links(n, top, outs, tops)
           <=> \E i \in Row(n) : (c = top - i \/ c = tops[i]) /\ e = <<Piece(n, i), outs[i]>>
    BY InLinks
  <2>3. \A i \in Row(n) : tops[i] = top - i /\ outs[i] = Out(n, i)
    BY <1>2, <1>3
  <2>4. <<c, e>> \in FirstEdges(n) <=> \E i \in Row(n) : c = top - i /\ e = <<Piece(n, i), Out(n, i)>>
    BY <2>1, <2>2, <2>3
  <2>. QED
    BY <1>6, <2>4, Zenon
<1>7. CASE InFront # -1
  <2>. DEFINE es == {<<InFront, <<Recombined(n), Target(n, t)>>>> : t \in Targets(n)}
  <2>1. FirstEdges(n) = Links(n, top, recombined, fronts) \cup es
    BY <1>4, <1>5, <1>7 DEF FirstEdges
  <2>2. <<c, e>> \in Links(n, top, recombined, fronts)
           <=> \E i \in Row(n) : (c = top - i \/ c = fronts[i]) /\ e = <<Piece(n, i), recombined[i]>>
    BY InLinks
  <2>3. \A i \in Row(n) : fronts[i] = InFront /\ recombined[i] = Recombined(n)
    BY <1>4, <1>5
  <2>4. <<c, e>> \in es <=> c = InFront /\ \E t \in Targets(n) : e = <<Recombined(n), Target(n, t)>>
    OBVIOUS
  <2>. HIDE DEF es
  <2>5. <<c, e>> \in FirstEdges(n)
           <=> \/ \E i \in Row(n) : (c = top - i \/ c = InFront) /\ e = <<Piece(n, i), Recombined(n)>>
               \/ <<c, e>> \in es
    BY <2>1, <2>2, <2>3
  <2>. QED
    BY <1>7, <2>4, <2>5, Zenon
<1>. QED
  BY <1>6, <1>7, Zenon

LEMMA InRowOf ==
    ASSUME NEW n, NEW top, NEW c, NEW x
    PROVE  <<c, x>> \in InRow(n, top) <=> \E i \in Row(n) : c = top - i /\ x = Piece(n, i)
BY DEF InRow

LEMMA InFollowingEdges ==
    ASSUME NEW n, NEW t, NEW c, NEW e
    PROVE  <<c, e>> \in FollowingEdges(n, t) <=>
              \E i \in Row(n) : /\ c = current - i \/ c = ChunkOf(Piece(t, i))
                                /\ e = <<Piece(n, i), Piece(t, i)>>
<1>. DEFINE to == [i \in Row(n) |-> Piece(t, i)]
            at == [i \in Row(n) |-> ChunkOf(Piece(t, i))]
<1>1. FollowingEdges(n, t) = Links(n, current, to, at)
  BY DEF FollowingEdges
<1>2. <<c, e>> \in Links(n, current, to, at)
         <=> \E i \in Row(n) : (c = current - i \/ c = at[i]) /\ e = <<Piece(n, i), to[i]>>
  <2>. HIDE DEF to, at
  <2>. QED
    BY InLinks
<1>3. \A i \in Row(n) : at[i] = ChunkOf(Piece(t, i)) /\ to[i] = Piece(t, i)
  OBVIOUS
<1>. QED
  <2>. HIDE DEF to, at
  <2>. QED
    BY <1>1, <1>2, <1>3

LEMMA InWholeNodes ==
    ASSUME NEW n, NEW c, NEW x
    PROVE  <<c, x>> \in WholeNodes(n) <=>
              c = Place(n) /\ (x = Whole(n) \/ \E t \in SplitTargets(n) : x = Split(t))
BY DEF WholeNodes

LEMMA InWholeEdges ==
    ASSUME NEW n, NEW c, NEW e
    PROVE  <<c, e>> \in WholeEdges(n) <=>
              \E t \in SplitTargets(n) :
                  \/ c = Place(n) /\ e = <<Whole(n), Split(t)>>
                  \/ \E i \in Row(t) : /\ c = Place(n) \/ c = ChunkOf(Piece(t, i))
                                       /\ e = <<Split(t), Piece(t, i)>>
BY DEF WholeEdges, SplitLinks

LEMMA InLinkNodes ==
    ASSUME NEW c, NEW x
    PROVE  <<c, x>> \in LinkNodes <=> \E e \in ToOutput : c = ChunkOf(Whole(e[1])) /\ x = Out(e[1], 0)
BY DEF LinkNodes

LEMMA InLinkEdges ==
    ASSUME NEW c, NEW x
    PROVE  <<c, x>> \in LinkEdges <=>
              \E e \in Kept : /\ c = ChunkOf(Whole(e[1])) \/ (e \notin ToOutput /\ c = ChunkOf(Whole(e[2])))
                              /\ x = <<Whole(e[1]), Target(e[1], e[2])>>
BY DEF LinkEdges, ToOutput

\* The chunks of a row that starts above `r`.
LEMMA RowChunks ==
    ASSUME TypeOK, NEW n \in DOMAIN pieces, NEW r \in Int, r >= -1, r + pieces[n] \in Chunk
    PROVE  /\ \A i \in Row(n) : i \in Nat /\ r + pieces[n] - i \in Chunk /\ r + pieces[n] - i > r
           /\ r # -1 => r \in Chunk
           /\ Row(n) # {} /\ 0 \in Row(n)
<1>1. pieces[n] \in Nat /\ pieces[n] >= 2 /\ count \in Nat
  BY DEF TypeOK
<1>. QED
  BY <1>1 DEF Row, Chunk

LEMMA OneSource ==
    ASSUME TypeOK, NEW t \in DOMAIN pieces, NEW s \in Sources(t), NEW u \in Sources(t)
    PROVE  s = u
<1>1. model \in Models /\ t \in model.splittable /\ t \in 1 .. model.n
  BY PiecesAreNodes DEF TypeOK
<1>. DEFINE es == {e \in model.edges : e[2] = t}
<1>2. <<s, t>> \in es /\ <<u, t>> \in es
  BY <1>1, TargetsAreNodes
<1>3. Cardinality(es) <= 1
  BY <1>1, ModelFacts
<1>4. IsFiniteSet(es)
  <2>1. IsFiniteSet((1 .. model.n) \X (0 .. model.n))
    <3>1. model.n \in Int /\ 0 \in Int /\ 1 \in Int
      BY <1>1, ModelFacts
    <3>2. IsFiniteSet(1 .. model.n) /\ IsFiniteSet(0 .. model.n)
      BY <3>1, FS_Interval
    <3>. QED
      BY <3>2, FS_Product
  <2>2. es \subseteq (1 .. model.n) \X (0 .. model.n)
    BY <1>1, ModelFacts
  <2>. HIDE DEF es
  <2>. QED
    BY <2>1, <2>2, FS_Subset
<1>5. {<<s, t>>, <<u, t>>} \subseteq es
  BY <1>2
<1>6. Cardinality({<<s, t>>, <<u, t>>}) <= 1
  <2>. HIDE DEF es
  <2>1. Cardinality({<<s, t>>, <<u, t>>}) <= Cardinality(es) /\ IsFiniteSet({<<s, t>>, <<u, t>>})
    BY <1>4, <1>5, FS_Subset
  <2>2. Cardinality({<<s, t>>, <<u, t>>}) \in Nat /\ Cardinality(es) \in Nat
    BY <1>4, <2>1, FS_CardinalityType
  <2>. QED
    BY <1>3, <2>1, <2>2
<1>7. <<s, t>> = <<u, t>>
  <2>. SUFFICES ASSUME <<s, t>> # <<u, t>> PROVE FALSE
    OBVIOUS
  <2>1. Cardinality({<<s, t>>, <<u, t>>}) = 2
    <3>1. IsFiniteSet({<<u, t>>}) /\ Cardinality({<<u, t>>}) = 1
      BY FS_Singleton
    <3>2. <<s, t>> \notin {<<u, t>>} /\ {<<s, t>>, <<u, t>>} = {<<u, t>>} \cup {<<s, t>>}
      OBVIOUS
    <3>3. Cardinality({<<u, t>>} \cup {<<s, t>>}) = Cardinality({<<u, t>>}) + 1
      BY <3>1, <3>2, FS_AddElement
    <3>. QED
      BY <3>1, <3>2, <3>3
  <2>. QED
    BY <1>6, <2>1
<1>. QED
  BY <1>7

\* Nodes that are read by a split node, or that are split, are not outputs.
LEMMA SplitTargetsAre ==
    ASSUME TypeOK, NEW n
    PROVE  \A t \in SplitTargets(n) : /\ t \in DOMAIN pieces /\ t \in Targets(n) /\ n \in Sources(t)
                                      /\ t \in 1 .. model.n /\ t > n /\ n \in 1 .. model.n
<1>. SUFFICES ASSUME NEW t \in SplitTargets(n)
              PROVE  /\ t \in DOMAIN pieces /\ t \in Targets(n) /\ n \in Sources(t)
                     /\ t \in 1 .. model.n /\ t > n /\ n \in 1 .. model.n
  OBVIOUS
<1>1. t \in DOMAIN pieces /\ t \in Targets(n) /\ t \in 1 .. model.n /\ model \in Models
  BY PiecesAreNodes DEF SplitTargets, TypeOK
<1>3. t # Output
  BY <1>1, ModelFacts DEF Output
<1>4. <<n, t>> \in model.edges /\ n \in 1 .. model.n
  BY <1>1, TargetsAreNodes
<1>2. t # Output /\ n \in Sources(t) /\ n \in 1 .. model.n
  BY <1>1, <1>3, <1>4, TargetsAreNodes
<1>. QED
  BY <1>1, <1>2, TargetsAreNodes

\* Where the pieces of a node visited before are.
LEMMA PieceIn ==
    ASSUME TypeOK, Positions, NEW t \in DOMAIN pieces, t > next, NEW i \in Row(t)
    PROVE  /\ ChunkOf(Piece(t, i)) \in Chunk /\ Piece(t, i) \in nodes[ChunkOf(Piece(t, i))]
           /\ ChunkOf(Piece(t, i)) + i <= current /\ i \in Nat
<1>1. PICK c \in Chunk : Piece(t, i) \in nodes[c]
  BY DEF Positions, AllPlaced
<1>2. c + i <= current
  BY <1>1, Fields DEF Positions, Upwards
<1>3. ChunkOf(Piece(t, i)) = c
  BY <1>1, ChunkOfIs DEF Positions
<1>. QED
  BY <1>1, <1>2, <1>3, PiecesAreNodes

LEMMA WholeIn ==
    ASSUME TypeOK, Positions, NEW n \in 1 .. model.n, n > next, n \notin DOMAIN pieces
    PROVE  /\ ChunkOf(Whole(n)) \in Chunk /\ Whole(n) \in nodes[ChunkOf(Whole(n))]
           /\ ChunkOf(Whole(n)) <= current
<1>1. PICK c \in Chunk : Whole(n) \in nodes[c]
  BY DEF Positions, AllPlaced
<1>2. c <= current
  BY <1>1 DEF Positions, Upwards
<1>3. ChunkOf(Whole(n)) = c
  BY <1>1, ChunkOfIs DEF Positions
<1>. QED
  BY <1>1, <1>2, <1>3

LEMMA FirstInPlace ==
    ASSUME TypeOK, Positions, pc = "place", NEW n \in DOMAIN pieces, n = next, PlaceFirst(n), pc' # "failed",
           UNCHANGED <<model, asked>>
    PROVE  Positions'
<1>1. /\ Puts(FirstNodes(n), FirstEdges(n))
      /\ InFront + pieces[n] \in Chunk /\ current' = InFront + pieces[n]
      /\ next' = next - 1
      /\ UNCHANGED <<pc, plan, inCurrent, order>>
  BY FirstPuts
<1>2. PICK top \in Chunk : top = InFront + pieces[n]
  BY <1>1
<1>3. /\ InFront \in Int /\ InFront >= -1 /\ current \in Int /\ current <= InFront + 1 /\ pieces[n] >= 2
      /\ next \in Nat /\ n \in Int /\ pieces[n] \in Nat
  BY DEF TypeOK, InFront
<1>4. /\ \A i \in Row(n) : i \in Nat /\ top - i \in Chunk /\ top - i > InFront
      /\ InFront # -1 => InFront \in Chunk
  BY <1>1, <1>2, <1>3, RowChunks
<1>5. UNCHANGED <<model, pieces, count>> /\ Row(n)' = Row(n) /\ next' \in Int /\ next' < n /\ next' <= next
  BY <1>1, <1>3, SamePlan DEF plan
<1>6. top \in Int /\ \A c \in Chunk : c \in Int
  BY DEF Chunk
<1>7. ASSUME NEW c \in Chunk, NEW x, <<c, x>> \in FirstNodes(n)
      PROVE  \/ \E i \in Row(n) : c = top - i /\ x = Piece(n, i)
             \/ \E i \in Row(n) : c = top - i /\ x = Out(n, i)
             \/ c = InFront /\ x = Recombined(n)
  BY <1>2, <1>7, InFirstNodes
<1>8. ASSUME NEW c \in Chunk, NEW x, <<c, x>> \in FirstNodes(n)
      PROVE  /\ Belongs(x)'
             /\ \A d \in Chunk : x \notin nodes[d] /\ (<<d, x>> \in FirstNodes(n) => c = d)
             /\ c <= current' /\ (x.as = "piece" => c + x.i <= current')
  <2>1. n > next'
    BY <1>5, <1>3
  <2>2. Belongs(x)'
    BY <1>5, <1>7, <1>8, <2>1, Fields DEF Belongs
  <2>3. ASSUME NEW d \in Chunk
        PROVE  x \notin nodes[d]
    <3>1. OnlyThese /\ n <= next
      BY <1>3 DEF Positions
    <3>2. /\ Recombined(n) \notin nodes[d]
          /\ \A i : Piece(n, i) \notin nodes[d]
          /\ \A i : Out(n, i) \notin nodes[d]
      BY <1>3, <3>1, NotYet
    <3>. QED
      BY <1>7, <1>8, <3>2
  <2>4. ASSUME NEW d \in Chunk, <<d, x>> \in FirstNodes(n)
        PROVE  c = d
    <3>1. \/ \E i \in Row(n) : c = top - i /\ x = Piece(n, i)
          \/ \E i \in Row(n) : c = top - i /\ x = Out(n, i)
          \/ c = InFront /\ x = Recombined(n)
      BY <1>7, <1>8
    <3>2. \/ \E i \in Row(n) : d = top - i /\ x = Piece(n, i)
          \/ \E i \in Row(n) : d = top - i /\ x = Out(n, i)
          \/ d = InFront /\ x = Recombined(n)
      BY <1>7, <2>4
    <3>. QED
      BY <3>1, <3>2, Fields
  <2>5. c <= top /\ (x.as = "piece" => c + x.i <= top)
    <3>1. CASE \E i \in Row(n) : c = top - i /\ x = Piece(n, i)
      BY <1>4, <1>6, <3>1, Fields
    <3>2. CASE \E i \in Row(n) : c = top - i /\ x = Out(n, i)
      BY <1>4, <1>6, <3>2, Fields
    <3>3. CASE c = InFront /\ x = Recombined(n)
      BY <1>2, <1>3, <3>3, Fields
    <3>. QED
      BY <1>7, <1>8, <3>1, <3>2, <3>3
  <2>. QED
    BY <1>1, <1>2, <2>2, <2>3, <2>4, <2>5
<1>9. ASSUME NEW i \in Row(n)
      PROVE  <<top - i, Piece(n, i)>> \in FirstNodes(n) /\ top - i \in Chunk
  BY <1>2, <1>4, InFirstNodes
<1>10. InFront # -1 => <<InFront, Recombined(n)>> \in FirstNodes(n)
  BY <1>2, InFirstNodes
<1>11. ASSUME NEW c \in Chunk, NEW e, <<c, e>> \in FirstEdges(n)
       PROVE  \E d \in Chunk : d >= c /\ e[1] \in nodes'[d]
  <2>1. \A i \in Row(n) : Piece(n, i) \in nodes'[top - i]
    BY <1>1, <1>9 DEF Puts
  <2>2. CASE \E i \in Row(n) : (c = top - i \/ c = InFront) /\ e[1] = Piece(n, i)
    BY <1>3, <1>4, <1>6, <2>1, <2>2
  <2>3. CASE c = InFront /\ InFront # -1 /\ e[1] = Recombined(n)
    <3>1. Recombined(n) \in nodes'[c]
      BY <1>1, <1>10, <2>3 DEF Puts
    <3>. QED
      BY <1>6, <2>3, <3>1
  <2>4. CASE InFront = -1
    <3>1. PICK i \in Row(n) : c = top - i /\ e = <<Piece(n, i), Out(n, i)>>
      BY <1>2, <1>11, <2>4, InFirstEdges
    <3>. QED
      BY <2>2, <3>1
  <2>5. CASE InFront # -1
    <3>1. \/ \E i \in Row(n) : /\ c = top - i \/ c = InFront
                               /\ e = <<Piece(n, i), Recombined(n)>>
          \/ c = InFront /\ \E t \in Targets(n) : e = <<Recombined(n), Target(n, t)>>
      BY <1>2, <1>11, <2>5, InFirstEdges
    <3>. QED
      BY <2>2, <2>3, <2>5, <3>1
  <2>. QED
    BY <2>4, <2>5
<1>12. NewInPlace(FirstNodes(n), FirstEdges(n), top)
  <2>1. \A m \in 1 .. model.n : next' < m /\ m <= next => m = n
    BY <1>1, <1>3
  <2>2. \A m \in DOMAIN pieces : next' < m /\ m <= next => m = n
    BY <2>1, PiecesAreNodes
  <2>3. \A m \in 1 .. model.n : next' < m /\ m <= next /\ m \notin DOMAIN pieces =>
          \E c \in Chunk : <<c, Whole(m)>> \in FirstNodes(n)
    BY <2>1
  <2>4. \A m \in DOMAIN pieces : next' < m /\ m <= next =>
          \A i \in Row(m) : \E c \in Chunk : <<c, Piece(m, i)>> \in FirstNodes(n)
    BY <2>2, <1>9
  <2>5. \A c \in Chunk : \A m : <<c, Whole(m)>> \notin FirstNodes(n)
    BY <1>7, Fields
  <2>6. ASSUME NEW c \in Chunk, NEW m, NEW i, <<c, Piece(m, i)>> \in FirstNodes(n)
        PROVE  m = next /\ c + i = top
    <3>1. \E j \in Row(n) : c = top - j /\ Piece(m, i) = Piece(n, j)
      BY <1>7, <2>6, Fields
    <3>2. PICK j \in Row(n) : c = top - j /\ m = n /\ i = j
      BY <3>1, Fields
    <3>. QED
      BY <1>4, <1>6, <3>2
  <2>. QED
    BY <1>8, <1>11, <2>3, <2>4, <2>5, <2>6 DEF NewInPlace
<1>. QED
  BY <1>1, <1>2, <1>3, <1>5, <1>12, PositionsGrow

LEMMA FollowingInPlace ==
    ASSUME TypeOK, Positions, pc = "place", NEW n \in DOMAIN pieces, n = next, NEW t \in SplitTargets(n),
           PlaceFollowing(n, t), pc' # "failed", UNCHANGED <<model, asked>>
    PROVE  Positions'
<1>1. /\ Puts(InRow(n, current), FollowingEdges(n, t))
      /\ pieces[t] = pieces[n] /\ current \in Chunk /\ next' = next - 1
      /\ UNCHANGED <<pc, plan, counters, order>>
  BY FollowingPuts
<1>2. t \in DOMAIN pieces /\ t > next /\ t \in Int /\ Row(t) = Row(n)
  BY <1>1, SplitTargetsAre DEF Row
<1>3. /\ next \in Nat /\ n \in Int /\ current \in Int /\ current' = current /\ count \in Nat
      /\ \A c \in Chunk : c \in Int
  BY <1>1 DEF TypeOK, Chunk, counters
<1>4. ASSUME NEW i \in Row(n)
      PROVE  /\ i \in Nat /\ ChunkOf(Piece(t, i)) <= current - i /\ current - i \in Chunk
  <2>1. ChunkOf(Piece(t, i)) \in Chunk /\ ChunkOf(Piece(t, i)) + i <= current /\ i \in Nat
    BY <1>2, PieceIn
  <2>2. PICK c \in Chunk : c = ChunkOf(Piece(t, i))
    BY <2>1
  <2>3. c \in Nat /\ c + i <= current /\ i \in Nat
    BY <2>1, <2>2 DEF Chunk
  <2>4. current - i \in Chunk
    BY <1>1, <1>3, <2>3 DEF Chunk
  <2>. QED
    BY <1>3, <2>2, <2>3, <2>4
<1>5. UNCHANGED <<model, pieces, count>> /\ Row(n)' = Row(n) /\ next' \in Int /\ next' < n /\ next' <= next
  BY <1>1, <1>3, SamePlan DEF plan
<1>6. ASSUME NEW c \in Chunk, NEW x, <<c, x>> \in InRow(n, current)
      PROVE  /\ Belongs(x)'
             /\ \A d \in Chunk : x \notin nodes[d] /\ (<<d, x>> \in InRow(n, current) => c = d)
             /\ c <= current' /\ (x.as = "piece" => c + x.i <= current')
  <2>1. PICK i \in Row(n) : c = current - i /\ x = Piece(n, i)
    BY <1>6, InRowOf
  <2>2. Belongs(x)'
    BY <1>5, <2>1, Fields DEF Belongs
  <2>3. \A d \in Chunk : x \notin nodes[d]
    BY <1>3, <2>1, NotYet DEF Positions
  <2>4. \A d \in Chunk : <<d, x>> \in InRow(n, current) => c = d
    BY <2>1, InRowOf, Fields
  <2>5. c <= current' /\ c + x.i <= current'
    BY <1>3, <1>4, <2>1, Fields
  <2>. QED
    BY <2>2, <2>3, <2>4, <2>5
<1>7. \A i \in Row(n) : <<current - i, Piece(n, i)>> \in InRow(n, current) /\ current - i \in Chunk
  BY <1>4, InRowOf
<1>8. ASSUME NEW c \in Chunk, NEW e, <<c, e>> \in FollowingEdges(n, t)
      PROVE  \E d \in Chunk : d >= c /\ e[1] \in nodes'[d]
  <2>1. PICK i \in Row(n) : /\ c = current - i \/ c = ChunkOf(Piece(t, i))
                            /\ e = <<Piece(n, i), Piece(t, i)>>
    BY <1>8, InFollowingEdges
  <2>2. Piece(n, i) \in nodes'[current - i] /\ current - i \in Chunk
    BY <1>1, <1>7 DEF Puts
  <2>3. c <= current - i
    BY <1>3, <1>4, <2>1
  <2>. QED
    BY <1>3, <1>4, <2>1, <2>2, <2>3
<1>9. NewInPlace(InRow(n, current), FollowingEdges(n, t), current)
  <2>1. \A m \in 1 .. model.n : next' < m /\ m <= next => m = n
    BY <1>1, <1>3
  <2>2. \A m \in DOMAIN pieces : next' < m /\ m <= next => m = n
    BY <2>1, PiecesAreNodes
  <2>3. \A m \in 1 .. model.n : next' < m /\ m <= next /\ m \notin DOMAIN pieces =>
          \E c \in Chunk : <<c, Whole(m)>> \in InRow(n, current)
    BY <2>1
  <2>4. \A m \in DOMAIN pieces : next' < m /\ m <= next =>
          \A i \in Row(m) : \E c \in Chunk : <<c, Piece(m, i)>> \in InRow(n, current)
    BY <2>2, <1>7
  <2>5. \A c \in Chunk : \A m : <<c, Whole(m)>> \notin InRow(n, current)
    BY InRowOf, Fields
  <2>6. ASSUME NEW c \in Chunk, NEW m, NEW i, <<c, Piece(m, i)>> \in InRow(n, current)
        PROVE  m = next /\ c + i = current
    <3>1. PICK j \in Row(n) : c = current - j /\ Piece(m, i) = Piece(n, j)
      BY <2>6, InRowOf
    <3>2. m = n /\ i = j
      BY <3>1, Fields
    <3>. QED
      BY <1>3, <1>4, <3>1, <3>2
  <2>. QED
    BY <1>6, <1>8, <2>3, <2>4, <2>5, <2>6 DEF NewInPlace
<1>. QED
  BY <1>1, <1>3, <1>5, <1>9, PositionsGrow

LEMMA WholeInPlace ==
    ASSUME TypeOK, Positions, pc = "place", NEW n \in 1 .. model.n, n = next, n \notin DOMAIN pieces,
           PlaceWhole(n), pc' # "failed", UNCHANGED <<model, asked>>
    PROVE  Positions'
<1>1. /\ Puts(WholeNodes(n), WholeEdges(n))
      /\ Place(n) \in Chunk /\ next' = next - 1
      /\ current' = IF Full(n) THEN Place(n) + 1 ELSE Place(n)
      /\ UNCHANGED <<pc, plan, order>>
  BY WholePuts
<1>2. /\ next \in Nat /\ n \in Int /\ current \in Int /\ count \in Nat /\ \A c \in Chunk : c \in Int
      /\ Place(n) \in Int /\ current <= Place(n) /\ Place(n) <= current' /\ current' \in Int
  <2>1. current \in Int /\ (Place(n) = current \/ Place(n) = current + 1)
    BY DEF Place, TypeOK
  <2>. QED
    BY <1>1, <2>1 DEF TypeOK, Chunk
<1>3. UNCHANGED <<model, pieces, count>> /\ next' \in Int /\ next' < n /\ next' <= next
      /\ \A t : Sources(t)' = Sources(t)
  BY <1>1, <1>2, SamePlan DEF plan
<1>4. ASSUME NEW c \in Chunk, NEW x, <<c, x>> \in WholeNodes(n)
      PROVE  /\ Belongs(x)'
             /\ \A d \in Chunk : x \notin nodes[d] /\ (<<d, x>> \in WholeNodes(n) => c = d)
             /\ c <= current' /\ (x.as = "piece" => c + x.i <= current')
  <2>1. c = Place(n) /\ (x = Whole(n) \/ \E t \in SplitTargets(n) : x = Split(t))
    BY <1>4, InWholeNodes
  <2>2. \A d \in Chunk : <<d, x>> \in WholeNodes(n) => c = d
    BY <2>1, InWholeNodes
  <2>3. c <= current' /\ x.as # "piece"
    BY <1>2, <2>1, Fields
  <2>4. CASE x = Whole(n)
    <3>1. Belongs(x)'
      BY <1>3, <2>4, Fields DEF Belongs
    <3>2. \A d \in Chunk : x \notin nodes[d]
      BY <1>2, <2>4, NotYet DEF Positions
    <3>. QED
      BY <2>2, <2>3, <3>1, <3>2
  <2>5. ASSUME NEW t \in SplitTargets(n), x = Split(t)
        PROVE  Belongs(x)' /\ \A d \in Chunk : x \notin nodes[d]
    <3>1. t \in DOMAIN pieces /\ n \in Sources(t)
      BY SplitTargetsAre
    <3>2. Belongs(x)'
      BY <1>3, <2>5, <3>1, Fields DEF Belongs
    <3>3. ASSUME NEW d \in Chunk, x \in nodes[d]
          PROVE  FALSE
      <4>1. PICK s \in Sources(t) : s > next
        BY <1>2, <2>5, <3>3, NotYet DEF Positions
      <4>2. s = n
        BY <3>1, <4>1, OneSource
      <4>. QED
        BY <1>2, <4>1, <4>2
    <3>. QED
      BY <3>2, <3>3
  <2>. QED
    BY <2>1, <2>2, <2>3, <2>4, <2>5
<1>5. <<Place(n), Whole(n)>> \in WholeNodes(n) /\ \A t \in SplitTargets(n) : <<Place(n), Split(t)>> \in WholeNodes(n)
  BY InWholeNodes
<1>6. ASSUME NEW c \in Chunk, NEW e, <<c, e>> \in WholeEdges(n)
      PROVE  \E d \in Chunk : d >= c /\ e[1] \in nodes'[d]
  <2>1. PICK t \in SplitTargets(n) :
           \/ c = Place(n) /\ e = <<Whole(n), Split(t)>>
           \/ \E i \in Row(t) : /\ c = Place(n) \/ c = ChunkOf(Piece(t, i))
                                /\ e = <<Split(t), Piece(t, i)>>
    BY <1>6, InWholeEdges
  <2>2. e[1] \in nodes'[Place(n)]
    <3>1. Whole(n) \in nodes'[Place(n)] /\ Split(t) \in nodes'[Place(n)]
      BY <1>1, <1>5 DEF Puts
    <3>2. e[1] = Whole(n) \/ e[1] = Split(t)
      BY <2>1
    <3>. QED
      BY <3>1, <3>2
  <2>3. ASSUME NEW i \in Row(t), c = ChunkOf(Piece(t, i))
        PROVE  c <= Place(n)
    <3>1. t \in DOMAIN pieces /\ t > next
      BY SplitTargetsAre
    <3>2. ChunkOf(Piece(t, i)) \in Chunk /\ ChunkOf(Piece(t, i)) + i <= current /\ i \in Nat
      BY <3>1, PieceIn
    <3>. QED
      BY <1>2, <2>3, <3>2
  <2>4. c <= Place(n)
    BY <1>2, <2>1, <2>3
  <2>. QED
    BY <1>1, <1>2, <2>2, <2>4
<1>7. NewInPlace(WholeNodes(n), WholeEdges(n), current)
  <2>1. \A m \in 1 .. model.n : next' < m /\ m <= next => m = n
    BY <1>1, <1>2
  <2>2. \A m \in DOMAIN pieces : ~(next' < m /\ m <= next)
    BY <2>1, PiecesAreNodes
  <2>3. \A m \in 1 .. model.n : next' < m /\ m <= next /\ m \notin DOMAIN pieces =>
          \E c \in Chunk : <<c, Whole(m)>> \in WholeNodes(n)
    BY <1>1, <1>5, <2>1
  <2>4. \A c \in Chunk : \A m : <<c, Whole(m)>> \in WholeNodes(n) => m = next /\ c >= current
    BY <1>2, InWholeNodes, Fields
  <2>5. \A c \in Chunk : \A m, i : <<c, Piece(m, i)>> \notin WholeNodes(n)
    BY InWholeNodes, Fields
  <2>. QED
    BY <1>4, <1>6, <2>2, <2>3, <2>4, <2>5 DEF NewInPlace
<1>. QED
  BY <1>1, <1>2, <1>3, <1>7, PositionsGrow

LEMMA KeptAre ==
    ASSUME TypeOK, NEW e \in Kept
    PROVE  /\ e = <<e[1], e[2]>> /\ e[1] \in 1 .. model.n /\ e[1] \notin DOMAIN pieces /\ e[2] \in Targets(e[1])
           /\ e \notin ToOutput => e[2] \in 1 .. model.n /\ e[2] \notin DOMAIN pieces /\ e[1] < e[2]
<1>1. e \in model.edges /\ model \in Models /\ e[1] \notin DOMAIN pieces /\ e[2] \notin DOMAIN pieces
  BY DEF Kept, TypeOK
<1>2. e = <<e[1], e[2]>> /\ e[1] \in 1 .. model.n /\ e[2] \in 0 .. model.n /\ (e[1] < e[2] \/ e[2] = Output)
  BY <1>1, ModelFacts
<1>3. e[2] \in Targets(e[1])
  BY <1>1, <1>2, TargetsAreNodes
<1>4. e \notin ToOutput => e[2] # Output
  BY DEF ToOutput
<1>. QED
  BY <1>1, <1>2, <1>3, <1>4, ModelFacts DEF Output

LEMMA LinkInPlace ==
    ASSUME TypeOK, Positions, Link, pc' # "failed"
    PROVE  Positions'
<1>1. /\ Puts(LinkNodes, LinkEdges) /\ pc = "place" /\ next = 0 /\ pc' = "build"
      /\ UNCHANGED <<model, asked, next, plan, counters, order>>
  BY LinkPuts
<1>2. UNCHANGED <<model, pieces, count>> /\ current' = current
  BY <1>1 DEF plan, counters
<1>3. current \in Int /\ next \in Int /\ \A c \in Chunk : c \in Int
  BY DEF TypeOK, Chunk
<1>4. ASSUME NEW n \in 1 .. model.n, n \notin DOMAIN pieces
      PROVE  /\ ChunkOf(Whole(n)) \in Chunk /\ Whole(n) \in nodes[ChunkOf(Whole(n))]
             /\ ChunkOf(Whole(n)) <= current
  <2>1. n > next
    BY <1>1
  <2>. QED
    BY <1>4, <2>1, WholeIn
<1>5. ASSUME NEW c \in Chunk, NEW x, <<c, x>> \in LinkNodes
      PROVE  /\ Belongs(x)'
             /\ \A d \in Chunk : x \notin nodes[d] /\ (<<d, x>> \in LinkNodes => c = d)
             /\ c <= current' /\ (x.as = "piece" => c + x.i <= current')
  <2>1. PICK e \in ToOutput : c = ChunkOf(Whole(e[1])) /\ x = Out(e[1], 0)
    BY <1>5, InLinkNodes
  <2>2. e[1] \in 1 .. model.n /\ e[1] \notin DOMAIN pieces
    BY KeptAre DEF ToOutput
  <2>3. Belongs(x)'
    BY <1>1, <1>2, <2>1, <2>2, Fields DEF Belongs
  <2>4. ASSUME NEW d \in Chunk, x \in nodes[d]
        PROVE  FALSE
    <3>1. Belongs(x)
      BY <2>4 DEF Positions, OnlyThese
    <3>. QED
      BY <1>1, <2>1, <2>2, <3>1, Fields DEF Belongs
  <2>5. ASSUME NEW d \in Chunk, <<d, x>> \in LinkNodes
        PROVE  c = d
    <3>1. PICK f \in ToOutput : d = ChunkOf(Whole(f[1])) /\ x = Out(f[1], 0)
      BY <2>5, InLinkNodes
    <3>2. f[1] = e[1]
      BY <2>1, <3>1, Fields
    <3>. QED
      BY <2>1, <3>1, <3>2
  <2>6. c <= current'
    BY <1>2, <1>4, <2>1, <2>2
  <2>. QED
    BY <2>1, <2>3, <2>4, <2>5, <2>6, Fields
<1>6. ASSUME NEW c \in Chunk, NEW e, <<c, e>> \in LinkEdges
      PROVE  \E d \in Chunk : d >= c /\ e[1] \in nodes'[d]
  <2>1. PICK k \in Kept : /\ c = ChunkOf(Whole(k[1])) \/ (k \notin ToOutput /\ c = ChunkOf(Whole(k[2])))
                          /\ e = <<Whole(k[1]), Target(k[1], k[2])>>
    BY <1>6, InLinkEdges
  <2>2. k[1] \in 1 .. model.n /\ k[1] \notin DOMAIN pieces
    BY KeptAre
  <2>3. PICK d \in Chunk : d = ChunkOf(Whole(k[1])) /\ Whole(k[1]) \in nodes[d]
    BY <1>4, <2>2
  <2>4. e[1] \in nodes'[d]
    BY <1>1, <2>1, <2>3 DEF Puts
  <2>5. CASE c = ChunkOf(Whole(k[1]))
    BY <1>3, <2>3, <2>4, <2>5
  <2>6. CASE k \notin ToOutput /\ c = ChunkOf(Whole(k[2]))
    <3>1. k[2] \in 1 .. model.n /\ k[2] \notin DOMAIN pieces /\ k[1] < k[2]
      BY <2>6, KeptAre
    <3>2. Whole(k[2]) \in nodes[c]
      BY <1>4, <2>6, <3>1
    <3>3. d >= c
      BY <2>2, <2>3, <3>1, <3>2 DEF Positions, Descending
    <3>. QED
      BY <2>4, <3>3
  <2>. QED
    BY <2>1, <2>5, <2>6
<1>7. NewInPlace(LinkNodes, LinkEdges, current)
  <2>1. \A m : ~(next' < m /\ m <= next) \/ m \notin Int
    BY <1>1
  <2>2. \A m \in 1 .. model.n : ~(next' < m /\ m <= next)
    BY <2>1
  <2>3. \A m \in DOMAIN pieces : ~(next' < m /\ m <= next)
    BY <2>2, PiecesAreNodes
  <2>4. \A c \in Chunk : \A m : <<c, Whole(m)>> \notin LinkNodes
    BY InLinkNodes, Fields
  <2>5. \A c \in Chunk : \A m, i : <<c, Piece(m, i)>> \notin LinkNodes
    BY InLinkNodes, Fields
  <2>. QED
    BY <1>5, <1>6, <2>2, <2>3, <2>4, <2>5 DEF NewInPlace
<1>. QED
  BY <1>1, <1>2, <1>3, <1>7, PositionsGrow

---------------------------------------------------------------------------
(* Every action of the main loop keeps links *)

LEMMA Grown ==
    ASSUME UNCHANGED count, NEW xs, NEW es, Puts(xs, es)
    PROVE  /\ \A x : x \in All' <=> x \in All \/ \E c \in Chunk : <<c, x>> \in xs
           /\ \A x, y : Linked(x, y)' <=> Linked(x, y) \/ \E c \in Chunk : <<c, <<x, y>>>> \in es
<1>1. Chunk' = Chunk
  BY DEF Chunk
<1>2. \A x : x \in All <=> \E c \in Chunk : x \in nodes[c]
  BY DEF All
<1>3. \A x : x \in All' <=> \E c \in Chunk : x \in nodes'[c]
  BY <1>1 DEF All
<1>. QED
  BY <1>1, <1>2, <1>3 DEF Puts, Linked

\* What is new in the chunks, xs and es, keeps everything linked.
NewLinked(xs, es) ==
    /\ \A c \in Chunk : \A e : <<c, e>> \in es => IsLink(e)'
    /\ \A c \in Chunk : \A n \in DOMAIN pieces : n > next =>
          <<c, Recombined(n)>> \notin xs /\ \A i : <<c, Out(n, i)>> \notin xs
    /\ \A n \in DOMAIN pieces : next' < n /\ n <= next => FollowingAt(n)' /\ FirstAt(n)'
    /\ \A n \in 1 .. model.n \ DOMAIN pieces : next' < n /\ n <= next => WholeAt(n)'
    /\ WholeLinked' /\ SomethingInFront'

LEMMA IsLinkStays ==
    ASSUME UNCHANGED <<model, pieces, count>>, pc # "place" => pc' # "place",
           \A x \in All : x \in All', NEW e, IsLink(e)
    PROVE  IsLink(e)'
<1>1. /\ Kept' = Kept /\ \A n : Row(n)' = Row(n) /\ Targets(n)' = Targets(n) /\ Sources(n)' = Sources(n)
      /\ \A n : SplitTargets(n)' = SplitTargets(n)
      /\ DOMAIN pieces' = DOMAIN pieces /\ model' = model
  BY SamePlan
<1>2. \A n \in DOMAIN pieces : \A i \in Row(n) :
         /\ Recombined(n) \in All => Recombined(n) \in All'
         /\ Out(n, i) \in All => Out(n, i) \in All'
  OBVIOUS
<1>3. CASE \E n \in DOMAIN pieces : \E i \in Row(n) :
        \/ e = <<Piece(n, i), Recombined(n)>> /\ Recombined(n) \in All
        \/ e = <<Piece(n, i), Out(n, i)>> /\ Out(n, i) \in All
        \/ \E t \in SplitTargets(n) : e = <<Piece(n, i), Piece(t, i)>>
        \/ e = <<Split(n), Piece(n, i)>> /\ \E s \in Sources(n) : s \notin DOMAIN pieces
  <2>1. \E n \in DOMAIN pieces' : \E i \in Row(n)' :
        \/ e = <<Piece(n, i), Recombined(n)>> /\ Recombined(n) \in All'
        \/ e = <<Piece(n, i), Out(n, i)>> /\ Out(n, i) \in All'
        \/ \E t \in SplitTargets(n)' : e = <<Piece(n, i), Piece(t, i)>>
        \/ e = <<Split(n), Piece(n, i)>> /\ \E s \in Sources(n)' : s \notin DOMAIN pieces'
    BY <1>1, <1>2, <1>3
  <2>. QED
    BY <2>1 DEF IsLink
<1>4. CASE \E n \in DOMAIN pieces : \E t \in Targets(n) : e = <<Recombined(n), Target(n, t)>>
  BY <1>1, <1>4 DEF IsLink
<1>5. CASE \E n \in 1 .. model.n \ DOMAIN pieces : \E t \in SplitTargets(n) : e = <<Whole(n), Split(t)>>
  BY <1>1, <1>5 DEF IsLink
<1>6. CASE pc # "place" /\ \E d \in Kept : e = <<Whole(d[1]), Target(d[1], d[2])>>
  BY <1>1, <1>6 DEF IsLink
<1>. QED
  BY <1>3, <1>4, <1>5, <1>6 DEF IsLink

LEMMA LinkedUpGrow ==
    ASSUME TypeOK, LinkedUp, UNCHANGED <<model, pieces, count>>, next' \in Int, next' <= next,
           pc # "place" => pc' # "place",
           NEW xs, NEW es, Puts(xs, es), NewLinked(xs, es)
    PROVE  LinkedUp'
<1>1. /\ Chunk' = Chunk /\ \A n : Row(n)' = Row(n) /\ Targets(n)' = Targets(n)
      /\ \A n : SplitTargets(n)' = SplitTargets(n)
      /\ pieces' = pieces /\ model' = model
  BY SamePlan
<1>2. next \in Int /\ model.n \in Nat /\ \A n \in DOMAIN pieces : n \in 1 .. model.n
  BY ModelFacts, PiecesAreNodes DEF TypeOK
<1>3. /\ \A x : x \in All' <=> x \in All \/ \E c \in Chunk : <<c, x>> \in xs
      /\ \A x, y : Linked(x, y)' <=> Linked(x, y) \/ \E c \in Chunk : <<c, <<x, y>>>> \in es
  BY Grown
<1>4. OnlyLinks'
  <2>1. ASSUME NEW c \in Chunk, NEW e \in edges'[c]
        PROVE  IsLink(e)'
    <3>1. CASE e \in edges[c]
      <4>1. IsLink(e)
        BY <3>1 DEF LinkedUp, OnlyLinks
      <4>. QED
        BY <1>3, <4>1, IsLinkStays
    <3>2. CASE <<c, e>> \in es
      BY <3>2 DEF NewLinked
    <3>. QED
      BY <2>1, <3>1, <3>2 DEF Puts
  <2>. QED
    BY <1>1, <2>1 DEF OnlyLinks
<1>5. ASSUME NEW n \in DOMAIN pieces, n > next'
      PROVE  FollowingAt(n)' /\ FirstAt(n)'
  <2>1. CASE n > next
    <3>1. FollowingAt(n) /\ FirstAt(n)
      BY <2>1 DEF LinkedUp, SplitLinked
    <3>2. /\ Recombined(n) \in All' <=> Recombined(n) \in All
          /\ \A i : Out(n, i) \in All' <=> Out(n, i) \in All
      BY <1>3, <2>1 DEF NewLinked
    <3>3. FollowingAt(n)'
      BY <1>1, <1>3, <3>1, <3>2 DEF FollowingAt
    <3>4. FirstAt(n)'
      BY <1>1, <1>3, <3>1, <3>2 DEF FirstAt
    <3>. QED
      BY <3>3, <3>4
  <2>2. CASE n <= next
    BY <1>5, <2>2 DEF NewLinked
  <2>. QED
    BY <1>2, <2>1, <2>2
<1>6. ASSUME NEW n \in 1 .. model.n \ DOMAIN pieces, n > next'
      PROVE  WholeAt(n)'
  <2>1. CASE n > next
    <3>1. WholeAt(n)
      BY <2>1 DEF LinkedUp, BeforeSplitLinked
    <3>. QED
      BY <1>1, <1>3, <3>1 DEF WholeAt
  <2>2. CASE n <= next
    BY <1>6, <2>2 DEF NewLinked
  <2>. QED
    BY <1>2, <2>1, <2>2
<1>7. SplitLinked' /\ BeforeSplitLinked'
  BY <1>1, <1>5, <1>6 DEF SplitLinked, BeforeSplitLinked
<1>. QED
  BY <1>4, <1>7 DEF LinkedUp, NewLinked

LEMMA FirstLinks ==
    ASSUME TypeOK, Positions, LinkedUp, pc = "place", NEW n \in DOMAIN pieces, n = next, PlaceFirst(n), pc' # "failed",
           SplitTargets(n) = {}, UNCHANGED <<model, asked>>
    PROVE  LinkedUp'
<1>1. /\ Puts(FirstNodes(n), FirstEdges(n))
      /\ InFront + pieces[n] \in Chunk /\ current' = InFront + pieces[n]
      /\ next' = next - 1
      /\ UNCHANGED <<pc, plan, inCurrent, order>>
  BY FirstPuts
<1>2. PICK top \in Chunk : top = InFront + pieces[n]
  BY <1>1
<1>3. /\ InFront \in Int /\ InFront >= -1 /\ current \in Nat /\ pieces[n] >= 2 /\ pieces[n] \in Nat
      /\ InFront = -1 => current = 0 /\ inCurrent = 0
      /\ next \in Nat /\ n \in Int
  BY DEF TypeOK, InFront
<1>4. /\ \A i \in Row(n) : i \in Nat /\ top - i \in Chunk
      /\ InFront # -1 => InFront \in Chunk
      /\ Row(n) # {}
  BY <1>1, <1>2, <1>3, RowChunks
<1>5. /\ UNCHANGED <<model, pieces, count>> /\ next' \in Int /\ next' <= next
      /\ Row(n)' = Row(n) /\ SplitTargets(n)' = {} /\ Targets(n)' = Targets(n) /\ model' = model /\ pieces' = pieces
  BY <1>1, <1>3, SamePlan DEF plan
<1>6. /\ \A x : x \in All' <=> x \in All \/ \E c \in Chunk : <<c, x>> \in FirstNodes(n)
      /\ \A x, y : Linked(x, y)' <=> Linked(x, y) \/ \E c \in Chunk : <<c, <<x, y>>>> \in FirstEdges(n)
  BY <1>1, <1>5, Grown
<1>7. Recombined(n) \notin All /\ \A i : Out(n, i) \notin All
  <2>1. OnlyThese /\ n <= next
    BY <1>3 DEF Positions
  <2>2. ASSUME NEW c \in Chunk
        PROVE  Recombined(n) \notin nodes[c] /\ \A i : Out(n, i) \notin nodes[c]
    BY <1>3, <2>1, NotYet
  <2>. QED
    BY <2>2 DEF All
<1>8. ASSUME InFront = -1
      PROVE  FollowingAt(n)' /\ FirstAt(n)' /\ \A c \in Chunk : \A e : <<c, e>> \in FirstEdges(n) => IsLink(e)'
  <2>1. n = model.n
    BY <1>3, <1>8 DEF LinkedUp, SomethingInFront
  <2>2. \A c, x : <<c, x>> \in FirstNodes(n) <=>
                    \E i \in Row(n) : c = top - i /\ (x = Piece(n, i) \/ x = Out(n, i))
    BY <1>2, <1>8, InFirstNodes
  <2>3. \A c, e : <<c, e>> \in FirstEdges(n) <=>
                    \E i \in Row(n) : c = top - i /\ e = <<Piece(n, i), Out(n, i)>>
    BY <1>2, <1>8, InFirstEdges
  <2>4. Recombined(n) \notin All'
    <3>1. \A i : Recombined(n) # Piece(n, i) /\ Recombined(n) # Out(n, i)
      BY Fields
    <3>2. \A c : <<c, Recombined(n)>> \notin FirstNodes(n)
      BY <2>2, <3>1
    <3>. QED
      BY <1>6, <1>7, <3>2
  <2>5. ASSUME NEW i \in Row(n)
        PROVE  Out(n, i) \in All' /\ Linked(Piece(n, i), Out(n, i))'
    <3>1. <<top - i, Out(n, i)>> \in FirstNodes(n) /\ <<top - i, <<Piece(n, i), Out(n, i)>>>> \in FirstEdges(n)
      BY <2>2, <2>3
    <3>. QED
      BY <1>4, <1>6, <3>1
  <2>6. FollowingAt(n)' /\ FirstAt(n)'
    BY <1>5, <2>1, <2>4, <2>5 DEF FollowingAt, FirstAt
  <2>7. ASSUME NEW c \in Chunk, NEW e, <<c, e>> \in FirstEdges(n)
        PROVE  IsLink(e)'
    <3>1. PICK i \in Row(n) : e = <<Piece(n, i), Out(n, i)>>
      BY <2>3, <2>7
    <3>2. n \in DOMAIN pieces' /\ i \in Row(n)' /\ Out(n, i) \in All'
      BY <1>5, <2>5
    <3>. QED
      BY <3>1, <3>2 DEF IsLink
  <2>. QED
    BY <2>6, <2>7
<1>9. ASSUME InFront # -1
      PROVE  FollowingAt(n)' /\ FirstAt(n)' /\ \A c \in Chunk : \A e : <<c, e>> \in FirstEdges(n) => IsLink(e)'
  <2>2. \A c, x : <<c, x>> \in FirstNodes(n) <=>
                    \/ \E i \in Row(n) : c = top - i /\ x = Piece(n, i)
                    \/ c = InFront /\ x = Recombined(n)
    BY <1>2, <1>9, InFirstNodes
  <2>3. \A c, e : <<c, e>> \in FirstEdges(n) <=>
                    \/ \E i \in Row(n) : /\ c = top - i \/ c = InFront
                                         /\ e = <<Piece(n, i), Recombined(n)>>
                    \/ c = InFront /\ \E t \in Targets(n) : e = <<Recombined(n), Target(n, t)>>
    BY <1>2, <1>9, InFirstEdges
  <2>4. Recombined(n) \in All' /\ \A i : Out(n, i) \notin All'
    <3>1. <<InFront, Recombined(n)>> \in FirstNodes(n)
      BY <2>2
    <3>2. \A c : \A i : <<c, Out(n, i)>> \notin FirstNodes(n)
      BY <2>2, Fields
    <3>. QED
      BY <1>4, <1>6, <1>7, <1>9, <3>1, <3>2
  <2>5. \A i \in Row(n) : Linked(Piece(n, i), Recombined(n))'
    BY <1>4, <1>6, <1>9, <2>3
  <2>6. \A t \in Targets(n) : Linked(Recombined(n), Target(n, t))'
    BY <1>4, <1>6, <1>9, <2>3
  <2>7. FollowingAt(n)' /\ FirstAt(n)'
    BY <1>5, <2>4, <2>5, <2>6 DEF FollowingAt, FirstAt
  <2>8. ASSUME NEW c \in Chunk, NEW e, <<c, e>> \in FirstEdges(n)
        PROVE  IsLink(e)'
    <3>1. CASE \E i \in Row(n) : e = <<Piece(n, i), Recombined(n)>>
      BY <1>5, <2>4, <3>1 DEF IsLink
    <3>2. CASE \E t \in Targets(n) : e = <<Recombined(n), Target(n, t)>>
      BY <1>5, <3>2 DEF IsLink
    <3>. QED
      BY <2>3, <2>8, <3>1, <3>2
  <2>. QED
    BY <2>7, <2>8
<1>10. NewLinked(FirstNodes(n), FirstEdges(n))
  <2>1. \A c \in Chunk : \A e : <<c, e>> \in FirstEdges(n) => IsLink(e)'
    BY <1>8, <1>9
  <2>2. ASSUME NEW c \in Chunk, NEW m \in DOMAIN pieces, m > next
        PROVE  <<c, Recombined(m)>> \notin FirstNodes(n) /\ \A i : <<c, Out(m, i)>> \notin FirstNodes(n)
    <3>1. m # n
      BY <1>3, <2>2
    <3>. QED
      BY <1>2, <3>1, InFirstNodes, Fields
  <2>3. ASSUME NEW m \in 1 .. model.n, next' < m, m <= next
        PROVE  m = n
    BY <1>1, <1>3, <2>3
  <2>4. \A m \in DOMAIN pieces : m \in 1 .. model.n
    BY PiecesAreNodes
  <2>5. FollowingAt(n)' /\ FirstAt(n)'
    BY <1>8, <1>9
  <2>6. WholeLinked' /\ SomethingInFront'
    BY <1>1, <1>3 DEF WholeLinked, SomethingInFront
  <2>. QED
    BY <2>1, <2>2, <2>3, <2>4, <2>5, <2>6 DEF NewLinked
<1>. QED
  BY <1>1, <1>5, <1>10, LinkedUpGrow

LEMMA FollowingLinks ==
    ASSUME TypeOK, Positions, LinkedUp, pc = "place", NEW n \in DOMAIN pieces, n = next, NEW t \in SplitTargets(n),
           PlaceFollowing(n, t), pc' # "failed", UNCHANGED <<model, asked>>
    PROVE  LinkedUp'
<1>1. /\ Puts(InRow(n, current), FollowingEdges(n, t))
      /\ Targets(n) = {t} /\ pieces[t] = pieces[n] /\ current \in Chunk /\ next' = next - 1
      /\ UNCHANGED <<pc, plan, counters, order>>
  BY FollowingPuts
<1>2. t \in DOMAIN pieces /\ t > next /\ t \in 1 .. model.n /\ Row(t) = Row(n) /\ model.n \in Nat
  BY <1>1, SplitTargetsAre, ModelFacts DEF Row, TypeOK
<1>3. next \in Nat /\ n \in Int /\ current \in Int /\ \A c \in Chunk : c \in Int
  BY <1>1 DEF TypeOK, Chunk
<1>4. ASSUME NEW i \in Row(n)
      PROVE  current - i \in Chunk
  <2>1. ChunkOf(Piece(t, i)) \in Chunk /\ ChunkOf(Piece(t, i)) + i <= current /\ i \in Nat
    BY <1>2, PieceIn
  <2>2. PICK c \in Chunk : c = ChunkOf(Piece(t, i))
    BY <2>1
  <2>. QED
    BY <1>1, <1>3, <2>1, <2>2 DEF Chunk, TypeOK
<1>5. /\ UNCHANGED <<model, pieces, count>> /\ next' \in Int /\ next' <= next
      /\ Row(n)' = Row(n) /\ SplitTargets(n)' = SplitTargets(n) /\ Targets(n)' = Targets(n) /\ model' = model
      /\ pieces' = pieces
  BY <1>1, <1>3, SamePlan DEF plan
<1>6. /\ \A x : x \in All' <=> x \in All \/ \E c \in Chunk : <<c, x>> \in InRow(n, current)
      /\ \A x, y : Linked(x, y)' <=> Linked(x, y) \/ \E c \in Chunk : <<c, <<x, y>>>> \in FollowingEdges(n, t)
  BY <1>1, <1>5, Grown
<1>7. SplitTargets(n) = {t}
  BY <1>1 DEF SplitTargets
<1>8. \A c : /\ \A m : <<c, Recombined(m)>> \notin InRow(n, current)
             /\ \A m, i : <<c, Out(m, i)>> \notin InRow(n, current)
  BY InRowOf, Fields
<1>9. Recombined(n) \notin All' /\ \A i : Out(n, i) \notin All'
  <2>1. OnlyThese /\ n <= next
    BY <1>3 DEF Positions
  <2>2. ASSUME NEW c \in Chunk
        PROVE  Recombined(n) \notin nodes[c] /\ \A i : Out(n, i) \notin nodes[c]
    BY <1>3, <2>1, NotYet
  <2>3. Recombined(n) \notin All /\ \A i : Out(n, i) \notin All
    BY <2>2 DEF All
  <2>4. Recombined(n) \notin All'
    BY <1>6, <1>8, <2>3
  <2>5. ASSUME NEW i
        PROVE  Out(n, i) \notin All'
    BY <1>6, <1>8, <2>3
  <2>. QED
    BY <2>4, <2>5
<1>10. \A i \in Row(n) : Linked(Piece(n, i), Piece(t, i))'
  <2>1. ASSUME NEW i \in Row(n)
        PROVE  <<current - i, <<Piece(n, i), Piece(t, i)>>>> \in FollowingEdges(n, t)
    BY InFollowingEdges
  <2>. QED
    BY <1>4, <1>6, <2>1
<1>11. FollowingAt(n)' /\ FirstAt(n)'
  <2>1. FollowingAt(n)'
    BY <1>1, <1>5, <1>7, <1>9, <1>10 DEF FollowingAt
  <2>2. FirstAt(n)'
    BY <1>5, <1>7 DEF FirstAt
  <2>. QED
    BY <2>1, <2>2
<1>12. NewLinked(InRow(n, current), FollowingEdges(n, t))
  <2>1. ASSUME NEW c \in Chunk, NEW e, <<c, e>> \in FollowingEdges(n, t)
        PROVE  IsLink(e)'
    <3>1. PICK i \in Row(n) : e = <<Piece(n, i), Piece(t, i)>>
      BY <2>1, InFollowingEdges
    <3>2. n \in DOMAIN pieces' /\ i \in Row(n)' /\ t \in SplitTargets(n)'
      BY <1>5
    <3>. QED
      BY <3>1, <3>2 DEF IsLink
  <2>2. ASSUME NEW m \in 1 .. model.n, next' < m, m <= next
        PROVE  m = n
    BY <1>1, <1>3, <2>2
  <2>3. \A m \in DOMAIN pieces : m \in 1 .. model.n
    BY PiecesAreNodes
  <2>4. WholeLinked' /\ SomethingInFront'
    <3>1. current' = current /\ inCurrent' = inCurrent /\ pc' = pc
      BY <1>1 DEF counters
    <3>2. next # model.n
      BY <1>2, <1>3
    <3>. QED
      BY <3>1, <3>2 DEF WholeLinked, SomethingInFront, LinkedUp
  <2>. QED
    BY <1>8, <1>11, <2>1, <2>2, <2>3, <2>4 DEF NewLinked
<1>. QED
  BY <1>1, <1>5, <1>12, LinkedUpGrow

LEMMA WholeLinks ==
    ASSUME TypeOK, Positions, LinkedUp, pc = "place", NEW n \in 1 .. model.n, n = next, n \notin DOMAIN pieces,
           PlaceWhole(n), pc' # "failed", UNCHANGED <<model, asked>>
    PROVE  LinkedUp'
<1>1. /\ Puts(WholeNodes(n), WholeEdges(n))
      /\ Cardinality(SplitTargets(n)) <= 1 /\ Place(n) \in Chunk /\ next' = next - 1
      /\ current' = IF Full(n) THEN Place(n) + 1 ELSE Place(n)
      /\ inCurrent' = IF Full(n) THEN 0 ELSE Filled(n)
      /\ UNCHANGED <<pc, plan, order>>
  BY WholePuts
<1>2. next \in Nat /\ n \in Int /\ Place(n) \in Nat /\ inCurrent \in Nat
  BY <1>1 DEF TypeOK, Chunk
<1>3. /\ UNCHANGED <<model, pieces, count>> /\ next' \in Int /\ next' <= next
      /\ SplitTargets(n)' = SplitTargets(n) /\ model' = model /\ pieces' = pieces
      /\ \A t : Row(t)' = Row(t) /\ Sources(t)' = Sources(t)
  BY <1>1, <1>2, SamePlan DEF plan
<1>4. /\ \A x : x \in All' <=> x \in All \/ \E c \in Chunk : <<c, x>> \in WholeNodes(n)
      /\ \A x, y : Linked(x, y)' <=> Linked(x, y) \/ \E c \in Chunk : <<c, <<x, y>>>> \in WholeEdges(n)
  BY <1>1, <1>3, Grown
<1>5. \A t, u \in SplitTargets(n) : t = u
  <2>. SUFFICES ASSUME NEW t \in SplitTargets(n), NEW u \in SplitTargets(n), t # u
                PROVE  FALSE
    OBVIOUS
  <2>1. IsFiniteSet(SplitTargets(n))
    <3>1. SplitTargets(n) \subseteq DOMAIN pieces /\ IsFiniteSet(DOMAIN pieces)
      BY SomeUnsplit DEF SplitTargets
    <3>. QED
      BY <3>1, FS_Subset
  <2>2. IsFiniteSet({t}) /\ Cardinality({t}) = 1
    BY FS_Singleton
  <2>3. IsFiniteSet({t} \cup {u}) /\ Cardinality({t} \cup {u}) = Cardinality({t}) + 1
    <3>1. u \notin {t}
      OBVIOUS
    <3>. QED
      BY <2>2, <3>1, FS_AddElement
  <2>4. {t} \cup {u} \subseteq SplitTargets(n)
    OBVIOUS
  <2>5. Cardinality({t} \cup {u}) <= Cardinality(SplitTargets(n)) /\ Cardinality(SplitTargets(n)) \in Nat
    BY <2>1, <2>4, FS_Subset, FS_CardinalityType
  <2>6. Cardinality({t} \cup {u}) = 2
    BY <2>2, <2>3
  <2>7. PICK b : b = Cardinality(SplitTargets(n))
    OBVIOUS
  <2>8. b \in Nat /\ 2 <= b /\ b <= 1
    BY <1>1, <2>5, <2>6, <2>7, Zenon
  <2>. QED
    BY <2>8
<1>6. WholeAt(n)'
  <2>1. ASSUME NEW t \in SplitTargets(n)
        PROVE  /\ SplitTargets(n) = {t}
               /\ Linked(Whole(n), Split(t))' /\ \A i \in Row(t) : Linked(Split(t), Piece(t, i))'
    <3>1. SplitTargets(n) = {t}
      BY <1>5
    <3>2. <<Place(n), <<Whole(n), Split(t)>>>> \in WholeEdges(n)
      BY InWholeEdges
    <3>3. \A i \in Row(t) : <<Place(n), <<Split(t), Piece(t, i)>>>> \in WholeEdges(n)
      BY InWholeEdges
    <3>. QED
      BY <1>1, <1>4, <3>1, <3>2, <3>3
  <2>. QED
    BY <1>3, <2>1 DEF WholeAt
<1>7. NewLinked(WholeNodes(n), WholeEdges(n))
  <2>1. ASSUME NEW c \in Chunk, NEW e, <<c, e>> \in WholeEdges(n)
        PROVE  IsLink(e)'
    <3>1. PICK t \in SplitTargets(n) : e = <<Whole(n), Split(t)>> \/ \E i \in Row(t) : e = <<Split(t), Piece(t, i)>>
      BY <2>1, InWholeEdges
    <3>2. t \in DOMAIN pieces /\ n \in Sources(t)
      BY SplitTargetsAre
    <3>3. CASE e = <<Whole(n), Split(t)>>
      <4>1. n \in 1 .. model'.n \ DOMAIN pieces' /\ t \in SplitTargets(n)'
        BY <1>3
      <4>. QED
        BY <3>3, <4>1 DEF IsLink
    <3>4. ASSUME NEW i \in Row(t), e = <<Split(t), Piece(t, i)>>
          PROVE  IsLink(e)'
      <4>1. t \in DOMAIN pieces' /\ i \in Row(t)' /\ \E s \in Sources(t)' : s \notin DOMAIN pieces'
        BY <1>3, <3>2
      <4>. QED
        BY <3>4, <4>1 DEF IsLink
    <3>. QED
      BY <3>1, <3>3, <3>4
  <2>2. ASSUME NEW m \in 1 .. model.n, next' < m, m <= next
        PROVE  m = n
    BY <1>1, <1>2, <2>2
  <2>3. \A m \in DOMAIN pieces : m \in 1 .. model.n
    BY PiecesAreNodes
  <2>4. WholeLinked' /\ SomethingInFront'
    <3>1. Filled(n) # 0 /\ Place(n) + 1 # 0
      BY <1>2 DEF Filled
    <3>2. ~(current' = 0 /\ inCurrent' = 0)
      BY <1>1, <3>1
    <3>. QED
      BY <1>1, <3>2 DEF WholeLinked, SomethingInFront
  <2>5. \A c : /\ \A m : <<c, Recombined(m)>> \notin WholeNodes(n)
               /\ \A m, i : <<c, Out(m, i)>> \notin WholeNodes(n)
    BY InWholeNodes, Fields
  <2>. QED
    BY <1>6, <2>1, <2>2, <2>3, <2>4, <2>5 DEF NewLinked
<1>. QED
  BY <1>1, <1>3, <1>7, LinkedUpGrow

LEMMA LinkLinks ==
    ASSUME TypeOK, Positions, LinkedUp, Link, pc' # "failed"
    PROVE  LinkedUp'
<1>1. /\ Puts(LinkNodes, LinkEdges) /\ pc = "place" /\ next = 0 /\ pc' = "build"
      /\ UNCHANGED <<model, asked, next, plan, counters, order>>
  BY LinkPuts
<1>2. /\ UNCHANGED <<model, pieces, count>> /\ Kept' = Kept /\ ToOutput' = ToOutput /\ next \in Int
  BY <1>1, SamePlan DEF plan
<1>3. /\ \A x : x \in All' <=> x \in All \/ \E c \in Chunk : <<c, x>> \in LinkNodes
      /\ \A x, y : Linked(x, y)' <=> Linked(x, y) \/ \E c \in Chunk : <<c, <<x, y>>>> \in LinkEdges
  BY <1>1, <1>2, Grown
<1>4. ASSUME NEW e \in Kept
      PROVE  ChunkOf(Whole(e[1])) \in Chunk
  <2>1. e[1] \in 1 .. model.n /\ e[1] \notin DOMAIN pieces /\ e[1] > next
    BY <1>1, KeptAre
  <2>. QED
    BY <2>1, WholeIn
<1>5. NewLinked(LinkNodes, LinkEdges)
  <2>1. ASSUME NEW c \in Chunk, NEW e, <<c, e>> \in LinkEdges
        PROVE  IsLink(e)'
    <3>1. PICK d \in Kept : e = <<Whole(d[1]), Target(d[1], d[2])>>
      BY <2>1, InLinkEdges
    <3>2. d \in Kept' /\ pc' # "place"
      BY <1>1, <1>2
    <3>. QED
      BY <3>1, <3>2 DEF IsLink
  <2>2. \A c : \A n \in DOMAIN pieces : /\ <<c, Recombined(n)>> \notin LinkNodes
                                        /\ \A i : <<c, Out(n, i)>> \notin LinkNodes
    <3>1. \A e \in ToOutput : e[1] \notin DOMAIN pieces
      BY KeptAre DEF ToOutput
    <3>. QED
      BY <3>1, InLinkNodes, Fields
  <2>3. \A m \in 1 .. model.n : ~(next' < m /\ m <= next)
    BY <1>1
  <2>4. \A m \in DOMAIN pieces : m \in 1 .. model.n
    BY PiecesAreNodes
  <2>5. \A e \in Kept : Linked(Whole(e[1]), Target(e[1], e[2]))'
    <3>1. ASSUME NEW e \in Kept
          PROVE  <<ChunkOf(Whole(e[1])), <<Whole(e[1]), Target(e[1], e[2])>>>> \in LinkEdges
      BY InLinkEdges
    <3>. QED
      BY <1>3, <1>4, <3>1
  <2>6. \A e \in ToOutput : Out(e[1], 0) \in All'
    <3>1. ASSUME NEW e \in ToOutput
          PROVE  <<ChunkOf(Whole(e[1])), Out(e[1], 0)>> \in LinkNodes /\ e \in Kept
      BY InLinkNodes DEF ToOutput
    <3>. QED
      BY <1>3, <1>4, <3>1
  <2>7. WholeLinked' /\ SomethingInFront'
    BY <1>1, <1>2, <2>5, <2>6 DEF WholeLinked, SomethingInFront
  <2>. QED
    BY <2>1, <2>2, <2>3, <2>4, <2>7 DEF NewLinked
<1>6. next' \in Int /\ next' <= next
  BY <1>1
<1>. QED
  BY <1>1, <1>2, <1>5, <1>6, LinkedUpGrow

---------------------------------------------------------------------------
(* What holds of the chunks at every step *)

LEMMA DivideLaid ==
    ASSUME Typed, Divide
    PROVE  Positions' /\ LinkedUp'
<1>1. next' = model.n /\ model' = model /\ pieces' = pieces /\ pc' = "place"
  BY DivideTyped DEF Divide
<1>2. \A c \in Chunk' : nodes'[c] = {} /\ edges'[c] = {}
  BY DEF Divide, Chunk
<1>3. \A n \in 1 .. model'.n : ~(n > next')
  BY <1>1, ModelFacts DEF Typed, TypeOK
<1>4. \A n \in DOMAIN pieces' : ~(n > next')
  BY <1>1, <1>3, PiecesAreNodes DEF Typed
<1>5. OnlyThese' /\ Once' /\ Upwards' /\ Descending' /\ InRows' /\ FromAbove'
  BY <1>2 DEF OnlyThese, Once, Upwards, Descending, InRows, FromAbove
<1>6. AllPlaced'
  BY <1>3, <1>4 DEF AllPlaced
<1>7. OnlyLinks'
  BY <1>2 DEF OnlyLinks
<1>8. SplitLinked' /\ BeforeSplitLinked' /\ WholeLinked' /\ SomethingInFront'
  BY <1>1, <1>3, <1>4 DEF SplitLinked, BeforeSplitLinked, WholeLinked, SomethingInFront
<1>. QED
  BY <1>5, <1>6, <1>7, <1>8 DEF Positions, LinkedUp

\* Later actions leave the chunks alone.
LEMMA LaterLaid ==
    ASSUME Positions, LinkedUp, UNCHANGED <<model, next, plan, counters, subgraphs>>,
           pc = "place" <=> pc' = "place"
    PROVE  Positions' /\ LinkedUp'
<1>1. /\ Chunk' = Chunk /\ Kept' = Kept /\ ToOutput' = ToOutput /\ All' = All
      /\ \A n : Row(n)' = Row(n) /\ Targets(n)' = Targets(n) /\ Sources(n)' = Sources(n)
      /\ \A n : SplitTargets(n)' = SplitTargets(n)
      /\ pieces' = pieces /\ model' = model /\ next' = next /\ nodes' = nodes /\ edges' = edges
      /\ current' = current /\ inCurrent' = inCurrent
  BY SamePlan DEF plan, counters, subgraphs, All, Chunk
<1>2. \A x, y : Linked(x, y)' <=> Linked(x, y)
  BY <1>1 DEF Linked
<1>3. \A x : Belongs(x) => Belongs(x)'
  BY <1>1 DEF Belongs
<1>4. OnlyThese'
  BY <1>1, <1>3 DEF Positions, OnlyThese
<1>5. Once' /\ AllPlaced' /\ Upwards' /\ Descending' /\ InRows' /\ FromAbove'
  BY <1>1 DEF Positions, Once, AllPlaced, Upwards, Descending, InRows, FromAbove
<1>6. ASSUME NEW e, IsLink(e)
      PROVE  IsLink(e)'
  <2>1. UNCHANGED <<model, pieces, count>> /\ (pc # "place" => pc' # "place") /\ \A x \in All : x \in All'
    BY <1>1 DEF plan
  <2>. QED
    BY <1>6, <2>1, IsLinkStays
<1>7. OnlyLinks'
  BY <1>1, <1>6 DEF LinkedUp, OnlyLinks
<1>8. /\ \A n : FollowingAt(n) => FollowingAt(n)'
      /\ \A n : FirstAt(n) => FirstAt(n)'
      /\ \A n : WholeAt(n) => WholeAt(n)'
  BY <1>1, <1>2 DEF FollowingAt, FirstAt, WholeAt
<1>9. SplitLinked' /\ BeforeSplitLinked'
  BY <1>1, <1>8 DEF LinkedUp, SplitLinked, BeforeSplitLinked
<1>10. WholeLinked' /\ SomethingInFront'
  BY <1>1, <1>2 DEF LinkedUp, WholeLinked, SomethingInFront
<1>. QED
  BY <1>4, <1>5, <1>7, <1>9, <1>10 DEF Positions, LinkedUp

\* The boundary edges fit once they have been checked.
Checked == pc \in {"visit", "done"} => Consistent

LEMMA NextLaid ==
    ASSUME Typed, Laid, Checked, [Next]_vars
    PROVE  Laid' /\ Checked'
<1>0. TypeOK
  BY DEF Typed
<1>1. CASE pc' \notin {"place", "build", "visit", "done"}
  BY <1>1 DEF Laid, Checked
<1>. USE DEF Laid
<1>2. CASE FindGroups \/ \E t \in groups : Allot(t)
  BY <1>2 DEF FindGroups, Allot, Checked
<1>3. CASE Divide
  BY <1>3, DivideLaid DEF Divide, Checked
<1>4. ASSUME NEW n \in 1 .. model.n, PlaceSplit(n), pc' \in {"place", "build", "visit", "done"}
      PROVE  Laid' /\ Checked'
  <2>1. pc = "place" /\ next = n /\ n \in DOMAIN pieces /\ UNCHANGED <<model, asked>> /\ Positions /\ LinkedUp
    BY <1>4 DEF PlaceSplit
  <2>2. CASE SplitTargets(n) = {} /\ PlaceFirst(n)
    <3>1. Positions' /\ LinkedUp'
      BY <1>0, <1>4, <2>1, <2>2, FirstInPlace, FirstLinks
    <3>2. pc' = pc
      BY <1>0, <1>4, <2>1, <2>2, FirstPuts
    <3>. QED
      BY <2>1, <3>1, <3>2 DEF Checked
  <2>3. ASSUME NEW t \in SplitTargets(n), PlaceFollowing(n, t)
        PROVE  Laid' /\ Checked'
    <3>1. Positions' /\ LinkedUp'
      BY <1>0, <1>4, <2>1, <2>3, FollowingInPlace, FollowingLinks
    <3>2. pc' = pc
      BY <1>0, <1>4, <2>1, <2>3, FollowingPuts
    <3>. QED
      BY <2>1, <3>1, <3>2 DEF Checked
  <2>. QED
    BY <1>4, <2>2, <2>3 DEF PlaceSplit
<1>5. ASSUME NEW n \in 1 .. model.n, PlaceWhole(n), pc' \in {"place", "build", "visit", "done"}
      PROVE  Laid' /\ Checked'
  <2>1. pc = "place" /\ next = n /\ n \notin DOMAIN pieces /\ UNCHANGED <<model, asked>> /\ Positions /\ LinkedUp
    BY <1>5 DEF PlaceWhole
  <2>2. Positions' /\ LinkedUp'
    BY <1>0, <1>5, <2>1, WholeInPlace, WholeLinks
  <2>3. pc' = pc
    BY <1>0, <1>5, <2>1, WholePuts
  <2>. QED
    BY <2>1, <2>2, <2>3 DEF Checked
<1>6. ASSUME Link, pc' \in {"place", "build", "visit", "done"}
      PROVE  Laid' /\ Checked'
  <2>1. pc = "place" /\ Positions /\ LinkedUp
    BY <1>6 DEF Link
  <2>2. Positions' /\ LinkedUp'
    BY <1>0, <1>6, <2>1, LinkInPlace, LinkLinks
  <2>3. pc' = "build"
    BY <1>0, <1>6, LinkPuts
  <2>. QED
    BY <2>2, <2>3 DEF Checked
<1>7. ASSUME Build \/ VisitPass \/ UNCHANGED vars, pc' \in {"place", "build", "visit", "done"}
      PROVE  Laid' /\ Checked'
  <2>1. /\ UNCHANGED <<model, next, plan, counters, subgraphs>> /\ (pc = "place" <=> pc' = "place")
        /\ pc \in {"place", "build", "visit", "done"}
        /\ pc' \in {"visit", "done"} => Consistent
    BY <1>7 DEF Build, VisitPass, vars, Fail, Checked
  <2>2. Positions' /\ LinkedUp'
    BY <2>1, LaterLaid
  <2>3. Consistent' <=> Consistent
    BY <2>1 DEF Consistent, Chunk, Incoming, Outgoing, ChunksOf, ChunkOf, plan, subgraphs
  <2>. QED
    BY <2>1, <2>2, <2>3 DEF Checked
<1>. QED
  BY <1>1, <1>2, <1>3, <1>4, <1>5, <1>6, <1>7 DEF Next

---------------------------------------------------------------------------
(* The order of the visits *)

Downwards == [i \in 1 .. count |-> count - i]

\* Nothing has been visited, or everything.
InOrder ==
    /\ pc \notin {"visit", "done"} => order = <<>>
    /\ pc = "visit" => order = <<>> \/ order = Downwards
    /\ pc = "done" => order = Downwards \/ (count = 0 /\ order = <<>>)

\* Links come from higher chunks.
LEMMA SourcesAbove ==
    ASSUME TypeOK, Positions, NEW c \in Chunk
    PROVE  \A d \in SourceChunks(c) : d \in Chunk /\ d > c
<1>. SUFFICES ASSUME NEW e \in edges[c], e[1] \notin nodes[c]
              PROVE  ChunkOf(e[1]) \in Chunk /\ ChunkOf(e[1]) > c
  BY DEF SourceChunks, Incoming
<1>1. PICK d \in Chunk : d >= c /\ e[1] \in nodes[d]
  BY DEF Positions, FromAbove
<1>2. ChunkOf(e[1]) = d
  BY <1>1, ChunkOfIs DEF Positions
<1>. QED
  BY <1>1, <1>2 DEF Chunk

LEMMA CountChunks ==
    ASSUME count \in Nat
    PROVE  /\ IsFiniteSet(Chunk) /\ Cardinality(Chunk) = count
           /\ \A x \in Chunk : Cardinality({y \in Chunk : y > x}) = count - 1 - x
<1>1. IsFiniteSet(Chunk) /\ Cardinality(Chunk) = count
  <2>1. 0 \in Int /\ count - 1 \in Int
    OBVIOUS
  <2>2. (0 > count - 1 => count = 0) /\ count - 1 - 0 + 1 = count
    OBVIOUS
  <2>. QED
    BY <2>1, <2>2, FS_Interval DEF Chunk
<1>2. ASSUME NEW x \in Chunk
      PROVE  Cardinality({y \in Chunk : y > x}) = count - 1 - x
  <2>1. x \in Int /\ 0 <= x /\ x <= count - 1
    BY DEF Chunk
  <2>2. {y \in Chunk : y > x} = x + 1 .. count - 1
    BY <2>1 DEF Chunk
  <2>3. x + 1 \in Int /\ count - 1 \in Int
    BY <2>1
  <2>4. Cardinality(x + 1 .. count - 1) = IF x + 1 > count - 1 THEN 0 ELSE count - 1 - (x + 1) + 1
    BY <2>3, FS_Interval
  <2>5. Cardinality(x + 1 .. count - 1) = count - 1 - x
    BY <2>1, <2>4
  <2>. QED
    BY <2>2, <2>5, Zenon
<1>. QED
  BY <1>1, <1>2

LEMMA OrderedChunks ==
    ASSUME count \in Nat
    PROVE  Ordered(Chunk, >) = Downwards
<1>. DEFINE at(i) == CHOOSE x \in Chunk : Cardinality({y \in Chunk : y > x}) = i - 1
<1>1. ASSUME NEW i \in 1 .. count
      PROVE  at(i) = count - i
  <2>1. count - i \in Chunk
    BY DEF Chunk
  <2>2. \A x \in Chunk : x \in Int /\ (Cardinality({y \in Chunk : y > x}) = i - 1 <=> x = count - i)
    <3>. SUFFICES ASSUME NEW x \in Chunk
                  PROVE  x \in Int /\ (Cardinality({y \in Chunk : y > x}) = i - 1 <=> x = count - i)
      OBVIOUS
    <3>1. x \in Int /\ Cardinality({y \in Chunk : y > x}) = count - 1 - x
      BY CountChunks DEF Chunk
    <3>. QED
      BY <3>1
  <2>. QED
    BY <2>1, <2>2
<1>2. [i \in 1 .. Cardinality(Chunk) |-> at(i)] = [i \in 1 .. count |-> at(i)]
  BY CountChunks
<1>3. [i \in 1 .. count |-> at(i)] = Downwards
  <2>. HIDE DEF at
  <2>. QED
    BY <1>1 DEF Downwards
<1>. QED
  BY <1>2, <1>3 DEF Ordered

\* The first pass visits everything.
LEMMA FirstPass ==
    ASSUME TypeOK, Positions, order = <<>>
    PROVE  Unvisited = Chunk /\ Visit = Downwards
<1>. DEFINE ready(T) == \A c \in T : SourceChunks(c) \subseteq ToSet(order) \cup {s \in T : s > c}
            U == UNION {T \in SUBSET Unvisited : ready(T)}
<1>1. ToSet(order) = {}
  BY DEF ToSet
<1>2. Unvisited = Chunk
  BY <1>1 DEF Unvisited
<1>3. ready(Chunk)
  BY SourcesAbove
<1>4. U = Chunk
  BY <1>2, <1>3
<1>5. Visit = order \o Ordered(U, >)
  BY DEF Visit
<1>6. Ordered(U, >) = Downwards
  BY <1>4, OrderedChunks DEF TypeOK
<1>7. <<>> \o Downwards = Downwards
  <2>1. count \in Nat
    BY DEF TypeOK
  <2>2. Downwards \in Seq(Int) /\ <<>> \in Seq(Int) /\ Len(Downwards) = count /\ DOMAIN Downwards = 1 .. count
    BY <2>1 DEF Downwards
  <2>. QED
    BY <2>1, <2>2
<1>. QED
  BY <1>2, <1>5, <1>6, <1>7

LEMMA LastPass ==
    ASSUME count \in Nat, order = Downwards
    PROVE  /\ ToSet(order) = Chunk /\ Len(order) = count /\ Unvisited = {}
           /\ \A i \in 1 .. count : order[i] = count - i
<1>1. \A i \in 1 .. count : order[i] = count - i
  BY DEF Downwards
<1>2. DOMAIN order = 1 .. count /\ Len(order) = count
  BY DEF Downwards
<1>3. ToSet(order) = Chunk
  <2>1. ToSet(order) = {order[i] : i \in 1 .. count}
    BY <1>2 DEF ToSet
  <2>2. \A i \in 1 .. count : count - i \in Chunk
    BY DEF Chunk
  <2>3. \A c \in Chunk : count - c \in 1 .. count /\ c = count - (count - c)
    BY DEF Chunk
  <2>. QED
    BY <1>1, <2>1, <2>2, <2>3
<1>. QED
  BY <1>1, <1>2, <1>3 DEF Unvisited

LEMMA NextInOrder ==
    ASSUME Typed, Laid, InOrder, [Next]_vars
    PROVE  InOrder'
<1>0. TypeOK /\ count \in Nat
  BY DEF Typed, TypeOK
<1>1. CASE UNCHANGED order /\ pc' \notin {"visit", "done"} /\ pc \notin {"visit", "done"}
  BY <1>1 DEF InOrder
<1>2. CASE FindGroups \/ (\E t \in groups : Allot(t)) \/ Divide
  BY <1>1, <1>2 DEF FindGroups, Allot, Divide
<1>3. CASE Link
  BY <1>1, <1>3 DEF Link, Fail
<1>4. ASSUME NEW n \in 1 .. model.n, PlaceSplit(n) \/ PlaceWhole(n)
      PROVE  InOrder'
  BY <1>1, <1>4 DEF PlaceSplit, PlaceWhole, PlaceFirst, PlaceFollowing, Fail
<1>5. CASE Build
  BY <1>1, <1>5 DEF Build, Fail, InOrder
<1>6. CASE VisitPass
  <2>1. pc = "visit" /\ count' = count /\ Downwards' = Downwards /\ (order = <<>> \/ order = Downwards)
    BY <1>6 DEF VisitPass, InOrder, plan, Downwards
  <2>2. CASE Len(order) < Cardinality(Unvisited)
    <3>1. order' = Visit /\ pc' = "visit"
      BY <1>6, <2>1, <2>2 DEF VisitPass
    <3>2. order # Downwards
      <4>. SUFFICES ASSUME order = Downwards PROVE FALSE
        OBVIOUS
      <4>1. Len(order) = count /\ Unvisited = {}
        BY <1>0, LastPass
      <4>2. Cardinality(Unvisited) = 0
        BY <4>1, FS_EmptySet
      <4>. QED
        BY <1>0, <2>2, <4>1, <4>2
    <3>3. Visit = Downwards
      BY <1>0, <2>1, <3>2, FirstPass DEF Laid
    <3>. QED
      BY <2>1, <3>1, <3>3 DEF InOrder
  <2>3. CASE ~(Len(order) < Cardinality(Unvisited))
    <3>1. order' = order /\ pc' = "done"
      BY <1>6, <2>3 DEF VisitPass
    <3>2. order = <<>> => count = 0
      <4>. SUFFICES ASSUME order = <<>>, count # 0 PROVE FALSE
        OBVIOUS
      <4>1. Unvisited = Chunk /\ Cardinality(Chunk) = count
        BY <1>0, <2>1, FirstPass, CountChunks DEF Laid
      <4>2. Len(order) = 0
        OBVIOUS
      <4>. QED
        BY <1>0, <2>3, <4>1, <4>2
    <3>. QED
      BY <2>1, <3>1, <3>2 DEF InOrder
  <2>. QED
    BY <2>2, <2>3
<1>7. CASE UNCHANGED vars
  BY <1>7 DEF vars, plan, InOrder, Downwards
<1>. QED
  BY <1>2, <1>3, <1>4, <1>5, <1>6, <1>7 DEF Next

LEMMA InOrderVisited ==
    ASSUME Typed, Laid, InOrder
    PROVE  VisitedInOrder
<1>1. TypeOK /\ count \in Nat
  BY DEF Typed, TypeOK
<1>2. ASSUME pc = "visit", Len(order) < Cardinality(Unvisited)
      PROVE  Visit # order
  <2>1. CASE order = <<>>
    <3>1. Visit = Downwards /\ Unvisited = Chunk /\ Cardinality(Chunk) = count
      BY <1>1, <1>2, <2>1, FirstPass, CountChunks DEF Laid
    <3>2. count # 0
      BY <1>1, <1>2, <2>1, <3>1
    <3>3. Len(Downwards) = count
      BY <1>1 DEF Downwards
    <3>. QED
      BY <2>1, <3>1, <3>2, <3>3
  <2>2. CASE order = Downwards
    <3>1. Len(order) = count /\ Unvisited = {}
      BY <1>1, <2>2, LastPass
    <3>2. Cardinality(Unvisited) = 0
      BY <3>1, FS_EmptySet
    <3>. QED
      BY <1>1, <1>2, <3>1, <3>2
  <2>. QED
    BY <1>2, <2>1, <2>2 DEF InOrder
<1>3. ASSUME pc = "done"
      PROVE  /\ ToSet(order) = Chunk /\ Len(order) = count
             /\ \A i \in 1 .. count : SourceChunks(order[i]) \subseteq {order[j] : j \in 1 .. i - 1}
  <2>1. CASE order = Downwards
    <3>1. /\ ToSet(order) = Chunk /\ Len(order) = count
          /\ \A i \in 1 .. count : order[i] = count - i
      BY <1>1, <2>1, LastPass
    <3>2. ASSUME NEW i \in 1 .. count, NEW d \in SourceChunks(order[i])
          PROVE  d \in {order[j] : j \in 1 .. i - 1}
      <4>1. order[i] = count - i /\ count - i \in Chunk
        BY <1>1, <3>1 DEF Chunk
      <4>2. d \in Chunk /\ d > count - i
        BY <1>1, <1>3, <3>2, <4>1, SourcesAbove DEF Laid
      <4>3. count - d \in 1 .. i - 1 /\ count - d \in 1 .. count /\ count - (count - d) = d
        BY <1>1, <4>2 DEF Chunk
      <4>4. order[count - d] = d
        BY <3>1, <4>3
      <4>. QED
        BY <4>3, <4>4
    <3>. QED
      BY <3>1, <3>2
  <2>2. CASE count = 0 /\ order = <<>>
    BY <2>2 DEF Chunk, ToSet
  <2>. QED
    BY <1>3, <2>1, <2>2 DEF InOrder
<1>. QED
  BY <1>2, <1>3 DEF VisitedInOrder

---------------------------------------------------------------------------
(* The model is kept *)

LEMMA InAll ==
    ASSUME NEW x
    PROVE  x \in All <=> \E c \in Chunk : x \in nodes[c]
BY DEF All

\* When all is placed.
Complete == TypeOK /\ Positions /\ LinkedUp /\ pc # "place" /\ Consistent

LEMMA CompleteIs ==
    ASSUME Complete
    PROVE  /\ next = 0 /\ \A n \in 1 .. model.n : n > next
           /\ \A n \in DOMAIN pieces : n \in 1 .. model.n /\ FollowingAt(n) /\ FirstAt(n)
           /\ \A n \in 1 .. model.n \ DOMAIN pieces : WholeAt(n) /\ Whole(n) \in All
           /\ \A n \in DOMAIN pieces : \A i \in Row(n) : Piece(n, i) \in All
<1>1. next = 0 /\ \A n \in 1 .. model.n : n > next
  BY DEF Complete, LinkedUp, WholeLinked
<1>2. \A n \in DOMAIN pieces : n \in 1 .. model.n /\ n > next
  BY <1>1, PiecesAreNodes DEF Complete
<1>3. \A n \in DOMAIN pieces : FollowingAt(n) /\ FirstAt(n)
  BY <1>2 DEF Complete, LinkedUp, SplitLinked
<1>4. \A n \in 1 .. model.n \ DOMAIN pieces : WholeAt(n)
  BY <1>1 DEF Complete, LinkedUp, BeforeSplitLinked
<1>5. \A n \in 1 .. model.n \ DOMAIN pieces : Whole(n) \in All
  BY <1>1, InAll DEF Complete, Positions, AllPlaced
<1>6. \A n \in DOMAIN pieces : \A i \in Row(n) : Piece(n, i) \in All
  BY <1>2, InAll DEF Complete, Positions, AllPlaced
<1>. QED
  BY <1>1, <1>2, <1>3, <1>4, <1>5, <1>6

\* Whatever a link starts from or ends at is in a chunk.
LEMMA EndsInAll ==
    ASSUME Complete, NEW x, NEW y, Linked(x, y)
    PROVE  x \in All /\ y \in All /\ IsLink(<<x, y>>)
<1>1. PICK c \in Chunk : <<x, y>> \in edges[c]
  BY DEF Linked
<1>2. x \in All
  <2>1. \E d \in Chunk : d >= c /\ <<x, y>>[1] \in nodes[d]
    BY <1>1 DEF Complete, Positions, FromAbove
  <2>. QED
    BY <2>1, InAll
<1>3. y \in All
  <2>1. CASE y \in nodes[c]
    BY <2>1, InAll
  <2>2. CASE y \notin nodes[c]
    <3>1. <<x, y>> \in Outgoing(c)
      BY <1>1, <2>2 DEF Outgoing
    <3>2. ChunksOf(<<x, y>>[2]) # {}
      BY <3>1 DEF Complete, Consistent
    <3>. QED
      BY <3>2, InAll DEF ChunksOf
  <2>. QED
    BY <2>1, <2>2
<1>4. IsLink(<<x, y>>)
  BY <1>1 DEF Complete, LinkedUp, OnlyLinks
<1>. QED
  BY <1>2, <1>3, <1>4

LEMMA FoundOnce ==
    ASSUME Complete, NEW x \in All
    PROVE  Cardinality(ChunksOf(x)) = 1
<1>1. PICK c \in Chunk : x \in nodes[c]
  BY InAll
<1>2. ChunksOf(x) = {c}
  BY <1>1 DEF ChunksOf, Complete, Positions, Once
<1>. QED
  BY <1>2, FS_Singleton

LEMMA RowSize ==
    ASSUME TypeOK, NEW n \in DOMAIN pieces
    PROVE  IsFiniteSet(Row(n)) /\ Cardinality(Row(n)) = pieces[n] /\ 0 \in Row(n)
<1>1. PICK k \in Nat : k = pieces[n] /\ k >= 2
  BY DEF TypeOK
<1>2. 0 \in Int /\ k - 1 \in Int
  BY <1>1
<1>3. IsFiniteSet(0 .. k - 1) /\ Cardinality(0 .. k - 1) = k
  BY <1>1, <1>2, FS_Interval
<1>. QED
  BY <1>1, <1>3 DEF Row

\* The pieces of a node are in chunks of their own.
LEMMA PiecesApart ==
    ASSUME Complete, NEW n \in DOMAIN pieces
    PROVE  Cardinality({ChunkOf(Piece(n, i)) : i \in Row(n)}) = pieces[n]
<1>1. \A i \in Row(n) : i \in Nat /\ ChunkOf(Piece(n, i)) \in Chunk /\ Piece(n, i) \in nodes[ChunkOf(Piece(n, i))]
  <2>1. n > next
    BY CompleteIs
  <2>. QED
    BY <2>1, PieceIn DEF Complete
<1>2. ASSUME NEW i \in Row(n), NEW j \in Row(n), ChunkOf(Piece(n, i)) = ChunkOf(Piece(n, j))
      PROVE  i = j
  <2>1. PICK c \in Chunk : c = ChunkOf(Piece(n, i))
    BY <1>1
  <2>2. c + i = c + j
    BY <1>1, <1>2, <2>1 DEF Complete, Positions, InRows
  <2>. QED
    BY <1>1, <2>2 DEF Chunk
<1>3. PICK f : f = [i \in Row(n) |-> ChunkOf(Piece(n, i))]
  OBVIOUS
<1>4. f \in Bijection(Row(n), {ChunkOf(Piece(n, i)) : i \in Row(n)})
  BY <1>2, <1>3 DEF Bijection, Injection, Surjection, IsInjective
<1>5. IsFiniteSet(Row(n)) /\ Cardinality(Row(n)) = pieces[n]
  BY RowSize DEF Complete
<1>. QED
  BY <1>4, <1>5, FS_Bijection DEF ExistsBijection

\* What reads a piece, and what it reads.
LEMMA ReadersOfPiece ==
    ASSUME NEW n, NEW i, NEW x, IsLink(<<Piece(n, i), x>>)
    PROVE  \/ x = Recombined(n) /\ Recombined(n) \in All
           \/ x = Out(n, i) /\ Out(n, i) \in All
           \/ \E t \in SplitTargets(n) : x = Piece(t, i)
BY Fields DEF IsLink

LEMMA TargetFields ==
    /\ \A n, t : Target(n, t).as \in {"output", "whole"}
    /\ \A n : Target(n, Output) = Out(n, 0)
    /\ \A n, t : t # Output => Target(n, t) = Whole(t)
BY Fields DEF Target

LEMMA ReadByPiece ==
    ASSUME NEW n, NEW i, NEW x, IsLink(<<x, Piece(n, i)>>)
    PROVE  \/ \E m \in DOMAIN pieces : n \in SplitTargets(m) /\ x = Piece(m, i)
           \/ x = Split(n) /\ \E s \in Sources(n) : s \notin DOMAIN pieces
<1>1. \A m, t : Target(m, t) # Piece(n, i)
  BY Fields, TargetFields
<1>2. \A m : Recombined(m) # Piece(n, i) /\ Split(m) # Piece(n, i) /\ \A j : Out(m, j) # Piece(n, i)
  BY Fields
<1>3. \A m, j : Piece(m, j) = Piece(n, i) => m = n /\ j = i
  BY Fields
<1>. QED
  BY <1>1, <1>2, <1>3 DEF IsLink

LEMMA ReadOnce ==
    ASSUME Complete, NEW n \in DOMAIN pieces, NEW i \in Row(n)
    PROVE  Cardinality({x \in All : Linked(Piece(n, i), x)}) = 1
<1>1. \A x : Linked(Piece(n, i), x) =>
         /\ x \in All
         /\ \/ x = Recombined(n) /\ Recombined(n) \in All
            \/ x = Out(n, i) /\ Out(n, i) \in All
            \/ \E t \in SplitTargets(n) : x = Piece(t, i)
  <2>1. ASSUME NEW x, Linked(Piece(n, i), x)
        PROVE  /\ x \in All
               /\ \/ x = Recombined(n) /\ Recombined(n) \in All
                  \/ x = Out(n, i) /\ Out(n, i) \in All
                  \/ \E t \in SplitTargets(n) : x = Piece(t, i)
    <3>1. x \in All /\ IsLink(<<Piece(n, i), x>>)
      BY <2>1, EndsInAll
    <3>. QED
      BY <3>1, ReadersOfPiece
  <2>. QED
    BY <2>1
<1>2. FollowingAt(n) /\ FirstAt(n)
  BY CompleteIs
<1>3. \E y : {x \in All : Linked(Piece(n, i), x)} = {y}
  <2>1. CASE SplitTargets(n) = {}
    <3>1. CASE Recombined(n) \in All
      <4>1. Linked(Piece(n, i), Recombined(n)) /\ Out(n, i) \notin All
        BY <1>2, <2>1, <3>1 DEF FirstAt
      <4>2. {x \in All : Linked(Piece(n, i), x)} = {Recombined(n)}
        BY <1>1, <2>1, <3>1, <4>1
      <4>. QED
        BY <4>2
    <3>2. CASE Recombined(n) \notin All
      <4>1. Linked(Piece(n, i), Out(n, i)) /\ Out(n, i) \in All
        BY <1>2, <2>1, <3>2 DEF FirstAt
      <4>2. {x \in All : Linked(Piece(n, i), x)} = {Out(n, i)}
        BY <1>1, <2>1, <3>2, <4>1
      <4>. QED
        BY <4>2
    <3>. QED
      BY <3>1, <3>2
  <2>2. ASSUME NEW t \in SplitTargets(n)
        PROVE  \E y : {x \in All : Linked(Piece(n, i), x)} = {y}
    <3>1. /\ Targets(n) = {t} /\ Linked(Piece(n, i), Piece(t, i))
          /\ Out(n, i) \notin All /\ Recombined(n) \notin All
      BY <1>2 DEF FollowingAt
    <3>2. SplitTargets(n) = {t}
      BY <3>1 DEF SplitTargets
    <3>3. {x \in All : Linked(Piece(n, i), x)} = {Piece(t, i)}
      BY <1>1, <3>1, <3>2
    <3>. QED
      BY <3>3
  <2>. QED
    BY <2>1, <2>2
<1>. QED
  BY <1>3, FS_Singleton

LEMMA ReadsOnce ==
    ASSUME Complete, NEW n \in DOMAIN pieces, NEW i \in Row(n)
    PROVE  Cardinality({x \in All : Linked(x, Piece(n, i))}) = Cardinality(Sources(n))
<1>1. \A x : Linked(x, Piece(n, i)) =>
         /\ x \in All
         /\ \/ \E m \in DOMAIN pieces : n \in SplitTargets(m) /\ x = Piece(m, i)
            \/ x = Split(n) /\ \E s \in Sources(n) : s \notin DOMAIN pieces
  BY EndsInAll, ReadByPiece
<1>2. \A m : n \in SplitTargets(m) => m \in Sources(n)
  BY SplitTargetsAre DEF Complete
<1>3. CASE Sources(n) = {}
  BY <1>1, <1>2, <1>3
<1>4. ASSUME NEW s \in Sources(n)
      PROVE  Cardinality({x \in All : Linked(x, Piece(n, i))}) = 1 /\ Cardinality(Sources(n)) = 1
  <2>1. Sources(n) = {s}
    BY OneSource DEF Complete
  <2>2. n \in SplitTargets(s) /\ s \in 1 .. model.n
    BY TargetsAreNodes DEF Complete, TypeOK, SplitTargets
  <2>3. CASE s \in DOMAIN pieces
    <3>1. FollowingAt(s)
      BY <2>3, CompleteIs
    <3>2. i \in Row(s)
      BY <2>2, <3>1 DEF FollowingAt, Row
    <3>3. Linked(Piece(s, i), Piece(n, i))
      BY <2>2, <3>1, <3>2 DEF FollowingAt
    <3>4. {x \in All : Linked(x, Piece(n, i))} = {Piece(s, i)}
      BY <1>1, <1>2, <2>1, <2>3, <3>3
    <3>. QED
      BY <2>1, <3>4, FS_Singleton
  <2>4. CASE s \notin DOMAIN pieces
    <3>1. WholeAt(s)
      BY <2>2, <2>4, CompleteIs
    <3>2. Linked(Split(n), Piece(n, i))
      BY <2>2, <3>1 DEF WholeAt
    <3>3. \A m \in DOMAIN pieces : n \notin SplitTargets(m)
      BY <1>2, <2>1, <2>4
    <3>4. {x \in All : Linked(x, Piece(n, i))} = {Split(n)}
      BY <1>1, <3>2, <3>3
    <3>. QED
      BY <2>1, <3>4, FS_Singleton
  <2>. QED
    BY <2>3, <2>4
<1>. QED
  BY <1>3, <1>4

\* The links of the chunks stand for those of the model.
LEMMA LinksOfModel ==
    ASSUME Complete, NEW e, IsLink(e), e[1].of # e[2].of
    PROVE  <<e[1].of, e[2].of>> \in model.edges /\ e[2].of # Output
<1>0. model \in Models /\ TypeOK
  BY DEF Complete, TypeOK
<1>1. ASSUME NEW n, NEW t \in SplitTargets(n), e[1].of = n, e[2].of = t
      PROVE  <<e[1].of, e[2].of>> \in model.edges /\ e[2].of # Output
  <2>1. t \in Targets(n) /\ t # Output
    BY <1>0, SplitTargetsAre, ModelFacts DEF Output
  <2>. QED
    BY <1>0, <1>1, <2>1, TargetsAreNodes
<1>2. ASSUME NEW n, NEW t \in Targets(n), e[1].of = n, e[2] = Target(n, t)
      PROVE  <<e[1].of, e[2].of>> \in model.edges /\ e[2].of # Output
  <2>1. t # Output
    BY <1>2, TargetFields, Fields
  <2>2. e[2].of = t
    BY <1>2, <2>1, TargetFields, Fields
  <2>. QED
    BY <1>0, <1>2, <2>1, <2>2, TargetsAreNodes
<1>3. CASE \E n \in DOMAIN pieces : \E i \in Row(n) :
        \/ e = <<Piece(n, i), Recombined(n)>> /\ Recombined(n) \in All
        \/ e = <<Piece(n, i), Out(n, i)>> /\ Out(n, i) \in All
        \/ \E t \in SplitTargets(n) : e = <<Piece(n, i), Piece(t, i)>>
        \/ e = <<Split(n), Piece(n, i)>> /\ \E s \in Sources(n) : s \notin DOMAIN pieces
  <2>1. PICK n \in DOMAIN pieces : \E i \in Row(n) : \E t \in SplitTargets(n) : e = <<Piece(n, i), Piece(t, i)>>
    BY <1>3, Fields
  <2>2. PICK t \in SplitTargets(n) : \E i \in Row(n) : e = <<Piece(n, i), Piece(t, i)>>
    BY <2>1
  <2>. QED
    BY <1>1, <2>2, Fields
<1>4. CASE \E n \in DOMAIN pieces : \E t \in Targets(n) : e = <<Recombined(n), Target(n, t)>>
  BY <1>2, <1>4, Fields
<1>5. CASE \E n \in 1 .. model.n \ DOMAIN pieces : \E t \in SplitTargets(n) : e = <<Whole(n), Split(t)>>
  BY <1>1, <1>5, Fields
<1>6. CASE \E d \in Kept : e = <<Whole(d[1]), Target(d[1], d[2])>>
  <2>1. PICK d \in Kept : e = <<Whole(d[1]), Target(d[1], d[2])>>
    BY <1>6
  <2>2. d[2] \in Targets(d[1])
    BY <1>0, KeptAre
  <2>. QED
    BY <1>2, <2>1, <2>2, Fields
<1>. QED
  BY <1>3, <1>4, <1>5, <1>6 DEF IsLink

LEMMA LinkOfEdge ==
    ASSUME Complete, NEW a, NEW b, <<a, b>> \in model.edges, b # Output
    PROVE  \E x, y : Linked(x, y) /\ x.of = a /\ y.of = b /\ a # b
<1>0. model \in Models /\ TypeOK
  BY DEF Complete, TypeOK
<1>1. b \in Targets(a) /\ a \in 1 .. model.n /\ b \in 0 .. model.n /\ a < b /\ model.n \in Nat
  <2>1. b \in Targets(a)
    BY <1>0, TargetsAreNodes
  <2>. QED
    BY <1>0, <2>1, TargetsAreNodes, ModelFacts
<1>2. CASE a \notin DOMAIN pieces /\ b \notin DOMAIN pieces
  <2>1. <<a, b>> \in Kept
    BY <1>2 DEF Kept
  <2>2. Linked(Whole(a), Target(a, b))
    BY <2>1 DEF Complete, LinkedUp, WholeLinked
  <2>. QED
    BY <1>1, <2>2, TargetFields, Fields
<1>3. CASE a \notin DOMAIN pieces /\ b \in DOMAIN pieces
  <2>1. WholeAt(a) /\ b \in SplitTargets(a)
    BY <1>1, <1>3, CompleteIs DEF SplitTargets
  <2>2. Linked(Whole(a), Split(b))
    BY <2>1 DEF WholeAt
  <2>. QED
    BY <1>1, <2>2, Fields
<1>4. CASE a \in DOMAIN pieces /\ b \in DOMAIN pieces
  <2>1. FollowingAt(a) /\ b \in SplitTargets(a) /\ 0 \in Row(a)
    BY <1>0, <1>1, <1>4, CompleteIs, RowSize DEF SplitTargets
  <2>2. Linked(Piece(a, 0), Piece(b, 0))
    BY <2>1 DEF FollowingAt
  <2>. QED
    BY <1>1, <2>2, Fields
<1>5. CASE a \in DOMAIN pieces /\ b \notin DOMAIN pieces
  <2>1. FollowingAt(a) /\ FirstAt(a)
    BY <1>5, CompleteIs
  <2>2. SplitTargets(a) = {}
    BY <1>1, <1>5, <2>1 DEF FollowingAt, SplitTargets
  <2>3. a # model.n
    BY <1>1
  <2>4. Linked(Recombined(a), Target(a, b))
    BY <1>1, <2>1, <2>2, <2>3 DEF FirstAt
  <2>. QED
    BY <1>1, <2>4, TargetFields, Fields
<1>. QED
  BY <1>2, <1>3, <1>4, <1>5

LEMMA OutputsKept ==
    ASSUME Complete, NEW e \in model.edges, e[2] = Output
    PROVE  Out(e[1], 0) \in All
<1>0. model \in Models /\ TypeOK
  BY DEF Complete, TypeOK
<1>1. e = <<e[1], Output>> /\ Output \in Targets(e[1])
  <2>1. e = <<e[1], Output>>
    BY <1>0, ModelFacts
  <2>. QED
    BY <1>0, <2>1, TargetsAreNodes
<1>2. Output \notin DOMAIN pieces
  <2>1. Output \notin 1 .. model.n
    BY <1>0, ModelFacts DEF Output
  <2>. QED
    BY <1>0, <2>1, PiecesAreNodes
<1>3. CASE e[1] \notin DOMAIN pieces
  <2>1. e \in ToOutput
    BY <1>2, <1>3 DEF ToOutput, Kept
  <2>. QED
    BY <2>1 DEF Complete, LinkedUp, WholeLinked
<1>4. ASSUME NEW n \in DOMAIN pieces, n = e[1]
      PROVE  Out(n, 0) \in All
  <2>1. FollowingAt(n) /\ FirstAt(n) /\ 0 \in Row(n)
    BY <1>0, CompleteIs, RowSize
  <2>2. SplitTargets(n) = {}
    BY <1>1, <1>2, <1>4, <2>1 DEF FollowingAt, SplitTargets
  <2>3. CASE \A t \in Targets(n) : Linked(Recombined(n), Target(n, t))
    <3>1. Linked(Recombined(n), Out(n, 0))
      BY <1>1, <1>4, <2>3, TargetFields
    <3>. QED
      BY <3>1, EndsInAll
  <2>4. CASE \A i \in Row(n) : Out(n, i) \in All
    BY <2>1, <2>4
  <2>. QED
    BY <2>1, <2>2, <2>3, <2>4 DEF FirstAt
<1>. QED
  BY <1>3, <1>4

LEMMA CompleteKept ==
    ASSUME Typed, Laid, Checked
    PROVE  ModelIsKept
<1>. SUFFICES ASSUME pc \in {"visit", "done"}
              PROVE  ModelIsKept
  BY DEF ModelIsKept
<1>1. Complete
  BY DEF Complete, Typed, Laid, Checked
<1>2. \A x \in All : Cardinality(ChunksOf(x)) = 1
  BY <1>1, FoundOnce
<1>3. \A n \in 1 .. model.n \ DOMAIN pieces : Whole(n) \in All
  BY <1>1, CompleteIs
<1>4. \A n \in DOMAIN pieces :
        LET I == 0 .. pieces[n] - 1 IN
        /\ Cardinality({ChunkOf(Piece(n, i)) : i \in I}) = pieces[n]
        /\ \A i \in I :
            /\ Cardinality({x \in All : Linked(Piece(n, i), x)}) = 1
            /\ Cardinality({x \in All : Linked(x, Piece(n, i))}) = Cardinality(Sources(n))
  BY <1>1, PiecesApart, ReadOnce, ReadsOnce DEF Row
<1>5. {<<e[1].of, e[2].of>> : e \in {d \in UNION {edges[c] : c \in Chunk} : d[1].of # d[2].of}}
        = {e \in model.edges : e[2] # Output}
  <2>1. ASSUME NEW c \in Chunk, NEW e \in edges[c], e[1].of # e[2].of
        PROVE  <<e[1].of, e[2].of>> \in model.edges /\ e[2].of # Output
    <3>1. IsLink(e)
      BY <1>1 DEF Complete, LinkedUp, OnlyLinks
    <3>. QED
      BY <1>1, <2>1, <3>1, LinksOfModel
  <2>2. ASSUME NEW f \in model.edges, f[2] # Output
        PROVE  \E c \in Chunk : \E e \in edges[c] : e[1].of # e[2].of /\ f = <<e[1].of, e[2].of>>
    <3>1. f = <<f[1], f[2]>>
      BY <1>1, ModelFacts DEF Complete, TypeOK
    <3>2. PICK x, y : Linked(x, y) /\ x.of = f[1] /\ y.of = f[2] /\ f[1] # f[2]
      BY <1>1, <2>2, <3>1, LinkOfEdge
    <3>3. PICK c \in Chunk : <<x, y>> \in edges[c]
      BY <3>2 DEF Linked
    <3>. QED
      BY <3>1, <3>2, <3>3
  <2>. QED
    BY <2>1, <2>2
<1>6. \A e \in model.edges : e[2] = Output => Out(e[1], 0) \in All
  BY <1>1, OutputsKept
<1>. QED
  BY <1>2, <1>3, <1>4, <1>5, <1>6 DEF ModelIsKept

---------------------------------------------------------------------------
(* The theorems *)

\* What is in the chunks at every step: each node, link and position that split
\* has put there so far.
ChunksInv == Typed /\ Laid /\ Checked /\ InOrder

LEMMA ChunksInvHolds == Spec => []ChunksInv
<1>1. Init => ChunksInv
  BY InitTyped DEF Init, ChunksInv, Laid, Checked, InOrder
<1>2. ChunksInv /\ [Next]_vars => ChunksInv'
  BY NextTyped, NextLaid, NextInOrder DEF ChunksInv
<1>. QED
  BY <1>1, <1>2, PTL DEF Spec

\* The chunks that build_chunks returns hold the model they were made from, each
\* piece in a chunk of its own (chunking.rs:1343, 2221).
THEOREM ChunksKeepModel == Spec => []ModelIsKept
<1>1. ChunksInv => ModelIsKept
  BY CompleteKept DEF ChunksInv
<1>. QED
  BY <1>1, ChunksInvHolds, PTL

\* visit_chunks ends, with every chunk after those it depends on (chunking.rs:849,
\* 894).
THEOREM ChunksVisitedInOrder == Spec => []VisitedInOrder
<1>1. ChunksInv => VisitedInOrder
  BY InOrderVisited DEF ChunksInv
<1>. QED
  BY <1>1, ChunksInvHolds, PTL

---------------------------------------------------------------------------
(* Without horizontal splitting *)

\* Of the nodes left, each chunk left gets q or one more, as did those that are
\* filled, which come in decreasing size.
Even(q) ==
    /\ count > 0 => q >= 1
    /\ vertical * q <= unsplit /\ unsplit <= vertical * (q + 1)
    /\ \A c \in Chunk : c < current => Size(c) \in {q, q + 1} /\ (Size(c) = q => unsplit = vertical * q)
    /\ \A c, d \in Chunk : c < d /\ d < current => Size(c) >= Size(d)

\* The links between nodes that are not split are in the chunks of their ends.
EdgesAreKept ==
    /\ \A c \in Chunk : \A e : e \in edges[c] <=>
          \E d \in Kept : /\ e = <<Whole(d[1]), Target(d[1], d[2])>>
                          /\ Whole(d[1]) \in nodes[c] \/ (d \notin ToOutput /\ Whole(d[2]) \in nodes[c])
    /\ \A d \in ToOutput : \A c \in Chunk : Whole(d[1]) \in nodes[c] => Out(d[1], 0) \in nodes[c]

\* What is left when no node is split.
Unsplit ==
    DOMAIN pieces = {} =>
        /\ pc # "failed"
        /\ pc = "allot" => available = Horizontal
        /\ pc \notin {"group", "allot"} =>
              /\ count = Min({asked, model.n})
              /\ current + vertical = count /\ unsplit - inCurrent = next
              /\ \A c \in Chunk : c = current => Size(c) = inCurrent
              /\ \E q \in Nat : Even(q)
        /\ pc \in {"build", "visit", "done"} => EdgesAreKept

LEMMA AllotUnsplit ==
    ASSUME Typed, Unsplit, NEW t \in groups, Allot(t)
    PROVE  Unsplit'
<1>1. pc = "allot" /\ pc' = "allot" /\ Horizontal' = Horizontal
  BY SameModel DEF Allot
<1>2. PICK k \in Nat : /\ k <= available /\ available' = available - k
                       /\ pieces' = IF k = 0 THEN pieces
                                    ELSE [n \in Group(t) \cup DOMAIN pieces |-> IF n \in Group(t) THEN k ELSE pieces[n]]
  BY AllotKeeps
<1>3. t \in Group(t)
  BY DEF Typed, TypeOK, Groups, Group
<1>4. available \in Int
  BY HorizontalIs DEF Typed, TypeOK
<1>5. ASSUME DOMAIN pieces' = {}
      PROVE  available' = Horizontal'
  <2>1. k = 0
    BY <1>2, <1>3, <1>5
  <2>2. DOMAIN pieces = {} /\ available' = available
    BY <1>2, <1>4, <1>5, <2>1
  <2>. QED
    BY <1>1, <2>2 DEF Unsplit
<1>. QED
  BY <1>1, <1>5 DEF Unsplit

\* The nodes of a chunk that are not split.
LEMMA SizeIs ==
    ASSUME TypeOK, NEW c
    PROVE  /\ IsFiniteSet(nodes[c] \cap {Whole(n) : n \in 1 .. model.n})
           /\ Size(c) \in Nat
           /\ nodes[c] = {} => Size(c) = 0
<1>1. IsFiniteSet(1 .. model.n)
  <2>1. 1 \in Int /\ model.n \in Int
    BY ModelFacts DEF TypeOK
  <2>. QED
    BY <2>1, FS_Interval
<1>2. IsFiniteSet({Whole(n) : n \in 1 .. model.n})
  <2>1. PICK f : f = [n \in 1 .. model.n |-> Whole(n)]
    OBVIOUS
  <2>2. f \in Surjection(1 .. model.n, {Whole(n) : n \in 1 .. model.n})
    BY <2>1 DEF Surjection
  <2>. QED
    BY <1>1, <2>2, FS_Surjection DEF ExistsSurjection
<1>3. IsFiniteSet(nodes[c] \cap {Whole(n) : n \in 1 .. model.n})
  BY <1>2, FS_Subset
<1>4. nodes[c] = {} => Size(c) = 0
  <2>. SUFFICES ASSUME nodes[c] = {} PROVE Size(c) = 0
    OBVIOUS
  <2>1. nodes[c] \cap {Whole(n) : n \in 1 .. model.n} = {}
    OBVIOUS
  <2>. QED
    BY <2>1, FS_EmptySet DEF Size
<1>. QED
  BY <1>3, <1>4, FS_CardinalityType DEF Size

LEMMA Shares ==
    ASSUME NEW n \in Nat, NEW c \in Nat \ {0}, c <= n
    PROVE  \E q \in Nat : q >= 1 /\ c * q <= n /\ n <= c * (q + 1)
<1>1. PICK q : q = n \div c
  OBVIOUS
<1>2. q \in Nat /\ c * q <= n /\ n < c * q + c
  BY <1>1
<1>3. q >= 1
  <2>. SUFFICES ASSUME q = 0 PROVE FALSE
    BY <1>2
  <2>. QED
    BY <1>2
<1>4. c * (q + 1) = c * q + c
  BY <1>2
<1>5. q \in Nat /\ q >= 1 /\ c * q <= n /\ n <= c * (q + 1)
  BY <1>2, <1>3, <1>4
<1>. QED
  BY <1>5, Zenon

LEMMA DivideUnsplit ==
    ASSUME Typed, Unsplit, Divide
    PROVE  Unsplit'
<1>. SUFFICES ASSUME DOMAIN pieces' = {}
              PROVE  Unsplit'
  BY DEF Unsplit
<1>1. /\ pc = "allot" /\ pc' = "place"
      /\ unsplit' = model.n - Cardinality(DOMAIN pieces)
      /\ vertical' = Min({asked - (Horizontal - available), unsplit'})
      /\ count' = Horizontal - available + vertical'
      /\ UNCHANGED <<model, asked, next, groups, available, pieces, current, inCurrent, order>>
  BY DEF Divide
<1>2. next' = model.n /\ current' = 0 /\ inCurrent' = 0 /\ TypeOK'
  BY DivideTyped DEF Typed
<1>3. DOMAIN pieces = {} /\ available = Horizontal
  BY <1>1 DEF Unsplit
<1>4. /\ model.n \in Nat /\ asked \in Nat \ {0} /\ Horizontal \in Nat
  BY ModelFacts, HorizontalIs, NumbersAssumption DEF Typed, TypeOK, NumbersAssumption
<1>5. unsplit' = model.n
  BY <1>1, <1>3, <1>4, FS_EmptySet
<1>6. vertical' = Min({asked, model.n}) /\ count' = vertical'
  <2>1. asked - (Horizontal - available) = asked
    BY <1>3, <1>4
  <2>2. vertical' = Min({asked, model.n})
    BY <1>1, <1>5, <2>1
  <2>3. vertical' \in Int
    BY <1>4, <2>2, MinOfTwo
  <2>. QED
    BY <1>1, <1>3, <1>4, <2>2, <2>3
<1>7. vertical' \in Nat /\ vertical' <= model.n /\ (vertical' = 0 => model.n = 0)
  BY <1>4, <1>6, MinOfTwo
<1>8. \A c \in Chunk' : Size(c)' = 0
  <2>1. \A c \in Chunk' : nodes'[c] \cap {Whole(n) : n \in 1 .. model'.n} = {}
    BY DEF Divide, Chunk
  <2>. QED
    BY <2>1, FS_EmptySet DEF Size
<1>9. \E q \in Nat : Even(q)'
  <2>1. PICK q \in Nat : q >= 1 /\ vertical' * q <= model.n /\ model.n <= vertical' * (q + 1)
    <3>1. CASE vertical' = 0
      <4>1. 1 \in Nat /\ 1 >= 1 /\ vertical' * 1 <= model.n /\ model.n <= vertical' * (1 + 1)
        BY <1>7, <3>1
      <4>. QED
        BY <4>1
    <3>2. CASE vertical' # 0
      BY <1>4, <1>7, <3>2, Shares
    <3>. QED
      BY <3>1, <3>2
  <2>2. \A c \in Chunk' : ~(c < current')
    BY <1>2 DEF Chunk
  <2>3. \A c, d \in Chunk' : ~(c < d /\ d < current')
    BY <2>2
  <2>. QED
    BY <1>5, <2>1, <2>2, <2>3 DEF Even
<1>10. count' = Min({asked', model'.n}) /\ current' + vertical' = count' /\ unsplit' - inCurrent' = next'
  BY <1>1, <1>2, <1>4, <1>5, <1>6, <1>7
<1>. QED
  BY <1>1, <1>2, <1>8, <1>9, <1>10 DEF Unsplit

\* A node that is not split adds one to the chunk being filled.
LEMMA SizeGrows ==
    ASSUME TypeOK, UNCHANGED model, NEW n \in 1 .. model.n, NEW es, Puts(WholeNodes(n), es),
           SplitTargets(n) = {}, \A c \in Chunk : Whole(n) \notin nodes[c]
    PROVE  \A c \in Chunk : Size(c)' = IF c = current THEN Size(c) + 1 ELSE Size(c)
<1>. DEFINE W == {Whole(m) : m \in 1 .. model.n}
<1>1. \A c, x : <<c, x>> \in WholeNodes(n) <=> c = current /\ x = Whole(n)
  <2>. SUFFICES ASSUME NEW c, NEW x
                PROVE  <<c, x>> \in WholeNodes(n) <=> c = current /\ x = Whole(n)
    OBVIOUS
  <2>1. Place(n) = current
    BY DEF Place
  <2>. QED
    BY <2>1, InWholeNodes
<1>2. \A c \in Chunk : \A x : x \in nodes'[c] <=> x \in nodes[c] \/ (c = current /\ x = Whole(n))
  BY <1>1 DEF Puts
<1>3. \A c : Size(c) = Cardinality(nodes[c] \cap W) /\ Size(c)' = Cardinality(nodes'[c] \cap W)
  BY DEF Size
<1>4. Whole(n) \in W
  OBVIOUS
<1>5. \A c : IsFiniteSet(nodes[c] \cap W)
  BY SizeIs
<1>. HIDE DEF W
<1>6. ASSUME NEW c \in Chunk, c # current
      PROVE  Size(c)' = Size(c)
  <2>1. nodes'[c] \cap W = nodes[c] \cap W
    BY <1>2, <1>6
  <2>. QED
    BY <1>3, <2>1
<1>7. ASSUME NEW c \in Chunk, c = current
      PROVE  Size(c)' = Size(c) + 1
  <2>1. nodes'[c] \cap W = (nodes[c] \cap W) \cup {Whole(n)}
    BY <1>2, <1>4, <1>7
  <2>2. Whole(n) \notin nodes[c] \cap W
    OBVIOUS
  <2>3. Cardinality((nodes[c] \cap W) \cup {Whole(n)}) = Cardinality(nodes[c] \cap W) + 1
    BY <1>5, <2>2, FS_AddElement
  <2>. QED
    BY <1>3, <2>1, <2>3, Zenon
<1>. QED
  BY <1>6, <1>7

\* A chunk is closed with one of the two sizes, and the larger ones come first.
LEMMA Closing ==
    ASSUME NEW v \in Nat \ {0}, NEW u \in Nat, v <= u, NEW q \in Nat, v * q <= u, u <= v * (q + 1),
           NEW f \in Nat \ {0}, f > 1 => v * (f - 1) < u, f >= CeilDiv(u, v)
    PROVE  /\ f = q \/ f = q + 1
           /\ f = q => u = v * q /\ u - f = (v - 1) * q
           /\ (v - 1) * q <= u - f /\ u - f <= (v - 1) * (q + 1)
           /\ u = v * q => f = q
<1>1. PICK room : room = CeilDiv(u, v)
  OBVIOUS
<1>2. room \in Nat /\ room * v >= u /\ \A p \in Nat : p * v >= u => p >= room
  BY <1>1, CeilDivIs
<1>3. f = room
  BY <1>1, <1>2, FairShare
<1>4. room <= q + 1
  <2>1. (q + 1) * v = v * (q + 1)
    OBVIOUS
  <2>. QED
    BY <1>2, <2>1
<1>5. room >= q
  <2>. SUFFICES ASSUME room <= q - 1 PROVE FALSE
    BY <1>2
  <2>1. room * v <= (q - 1) * v
    BY <1>2
  <2>2. (q - 1) * v = v * q - v
    OBVIOUS
  <2>. QED
    BY <1>2, <2>1, <2>2
<1>6. u = v * q => room = q
  <2>1. q * v = v * q
    OBVIOUS
  <2>. QED
    BY <1>2, <1>5, <2>1
<1>7. room = q => u = v * q
  <2>1. q * v = v * q
    OBVIOUS
  <2>. QED
    BY <1>2, <2>1
<1>8. (v - 1) * q = v * q - q /\ (v - 1) * (q + 1) = v * (q + 1) - q - 1 /\ v * q \in Nat /\ v * (q + 1) = v * q + v
  OBVIOUS
<1>. QED
  BY <1>2, <1>3, <1>4, <1>5, <1>6, <1>7, <1>8

LEMMA WholeUnsplit ==
    ASSUME Typed, Laid, Unsplit, NEW n \in 1 .. model.n, PlaceWhole(n)
    PROVE  Unsplit'
<1>. SUFFICES ASSUME DOMAIN pieces' = {}
              PROVE  Unsplit'
  BY DEF Unsplit
<1>1. pc = "place" /\ next = n /\ n \notin DOMAIN pieces /\ UNCHANGED <<model, asked>> /\ TypeOK /\ Shared /\ Positions
  BY DEF PlaceWhole, Typed, Laid
<1>2. DOMAIN pieces = {}
  BY DEF PlaceWhole, Fail, plan
<1>3. /\ count = Min({asked, model.n})
      /\ current + vertical = count /\ unsplit - inCurrent = next
      /\ \A c \in Chunk : c = current => Size(c) = inCurrent
      /\ \E q \in Nat : Even(q)
  BY <1>1, <1>2 DEF Unsplit
<1>4. PICK q \in Nat : Even(q)
  BY <1>3
<1>5. SplitTargets(n) = {} /\ Place(n) = current /\ Filled(n) = inCurrent + 1
  BY <1>2 DEF SplitTargets, Place, Filled
<1>6. /\ vertical \in Nat /\ unsplit \in Nat /\ inCurrent \in Nat /\ current \in Nat /\ count \in Nat /\ next \in Nat
      /\ n \in Nat /\ n >= 1 /\ vertical <= unsplit /\ (inCurrent > 0 => vertical * inCurrent < unsplit)
      /\ vertical * q <= unsplit /\ unsplit <= vertical * (q + 1)
  BY <1>1, <1>4 DEF TypeOK, Shared, Even
<1>7. vertical # 0
  <2>. SUFFICES ASSUME vertical = 0 PROVE FALSE
    OBVIOUS
  <2>1. unsplit <= 0 * (q + 1)
    BY <1>6
  <2>. QED
    BY <1>1, <1>3, <1>6, <2>1
<1>8. current \in Chunk
  BY <1>3, <1>6, <1>7 DEF Chunk
<1>9. pc' # "failed"
  <2>1. ~(Cardinality(SplitTargets(n)) > 1)
    BY <1>5, FS_EmptySet
  <2>. QED
    BY <1>1, <1>5, <1>7, <1>8, <2>1 DEF PlaceWhole
<1>10. /\ Puts(WholeNodes(n), WholeEdges(n)) /\ next' = next - 1
       /\ current' = IF Full(n) THEN current + 1 ELSE current
       /\ inCurrent' = IF Full(n) THEN 0 ELSE inCurrent + 1
       /\ vertical' = IF Full(n) THEN vertical - 1 ELSE vertical
       /\ unsplit' = IF Full(n) THEN unsplit - (inCurrent + 1) ELSE unsplit
       /\ UNCHANGED <<pc, plan, order>>
  BY <1>1, <1>5, <1>9, WholePuts
<1>11. count' = count /\ Chunk' = Chunk
  BY <1>10 DEF plan, Chunk
<1>12. \A c \in Chunk : Whole(n) \notin nodes[c]
  BY <1>1, <1>6, NotYet DEF Positions
<1>13. \A c \in Chunk : Size(c)' = IF c = current THEN Size(c) + 1 ELSE Size(c)
  BY <1>1, <1>5, <1>10, <1>12, SizeGrows
<1>14. \A c \in Chunk : c \in Int /\ Size(c) \in Nat /\ (c > current => Size(c) = 0)
  <2>1. ASSUME NEW c \in Chunk, c > current
        PROVE  nodes[c] = {}
    BY <1>1, <1>6, <2>1 DEF Positions, Upwards, Chunk
  <2>. SUFFICES ASSUME NEW c \in Chunk
                PROVE  c \in Int /\ Size(c) \in Nat /\ (c > current => Size(c) = 0)
    OBVIOUS
  <2>2. Size(c) \in Nat /\ (nodes[c] = {} => Size(c) = 0)
    BY <1>1, SizeIs
  <2>. QED
    BY <2>1, <2>2 DEF Chunk
<1>15. PICK f \in Nat \ {0} : f = inCurrent + 1
  BY <1>6
<1>16. \A c \in Chunk : c = current => Size(c)' = f
  BY <1>3, <1>13, <1>15
<1>17. f > 1 => vertical * (f - 1) < unsplit
  BY <1>6, <1>15
<1>18. Full(n) <=> f >= CeilDiv(unsplit, vertical)
  BY <1>5, <1>15 DEF Full, Room
<1>19. /\ count > 0 => q >= 1
       /\ \A c \in Chunk : c < current => Size(c) \in {q, q + 1} /\ (Size(c) = q => unsplit = vertical * q)
       /\ \A c, d \in Chunk : c < d /\ d < current => Size(c) >= Size(d)
  BY <1>4 DEF Even
<1>20. CASE Full(n)
  <2>1. current' = current + 1 /\ inCurrent' = 0 /\ vertical' = vertical - 1 /\ unsplit' = unsplit - f
    BY <1>10, <1>15, <1>20
  <2>2. /\ f = q \/ f = q + 1
        /\ f = q => unsplit = vertical * q /\ unsplit - f = (vertical - 1) * q
        /\ (vertical - 1) * q <= unsplit - f /\ unsplit - f <= (vertical - 1) * (q + 1)
        /\ unsplit = vertical * q => f = q
    BY <1>6, <1>7, <1>17, <1>18, <1>20, Closing
  <2>3. \A c \in Chunk : c < current' => Size(c)' \in {q, q + 1} /\ (Size(c)' = q => unsplit' = vertical' * q)
    <3>. SUFFICES ASSUME NEW c \in Chunk, c < current'
                  PROVE  Size(c)' \in {q, q + 1} /\ (Size(c)' = q => unsplit' = vertical' * q)
      OBVIOUS
    <3>1. CASE c = current
      BY <1>16, <2>1, <2>2, <3>1
    <3>2. CASE c # current
      <4>1. c < current /\ Size(c)' = Size(c)
        BY <1>6, <1>13, <1>14, <2>1, <3>2
      <4>2. Size(c) \in {q, q + 1} /\ (Size(c) = q => unsplit = vertical * q)
        BY <1>19, <4>1
      <4>3. unsplit = vertical * q => unsplit - f = (vertical - 1) * q
        BY <2>2
      <4>. QED
        BY <2>1, <4>1, <4>2, <4>3
    <3>. QED
      BY <3>1, <3>2
  <2>4. \A c, d \in Chunk : c < d /\ d < current' => Size(c)' >= Size(d)'
    <3>. SUFFICES ASSUME NEW c \in Chunk, NEW d \in Chunk, c < d, d < current'
                  PROVE  Size(c)' >= Size(d)'
      OBVIOUS
    <3>1. c < current /\ Size(c)' = Size(c) /\ (d = current \/ d < current)
      BY <1>6, <1>13, <1>14, <2>1
    <3>2. CASE d = current
      <4>1. Size(d)' = f
        BY <1>16, <3>2
      <4>2. Size(c) \in {q, q + 1} /\ (Size(c) = q => unsplit = vertical * q)
        BY <1>19, <3>1
      <4>. QED
        BY <2>2, <3>1, <4>1, <4>2
    <3>3. CASE d < current
      <4>1. Size(d)' = Size(d)
        BY <1>6, <1>13, <1>14, <3>3
      <4>2. Size(c) >= Size(d)
        BY <1>19, <3>3
      <4>. QED
        BY <3>1, <4>1, <4>2
    <3>. QED
      BY <3>1, <3>2, <3>3
  <2>5. Even(q)'
    BY <1>11, <1>19, <2>1, <2>2, <2>3, <2>4 DEF Even
  <2>6. current' + vertical' = count' /\ unsplit' - inCurrent' = next'
    BY <1>1, <1>3, <1>6, <1>10, <1>11, <1>15, <2>1
  <2>7. \A c \in Chunk : c = current' => Size(c)' = inCurrent'
    BY <1>6, <1>13, <1>14, <2>1
  <2>. QED
    BY <1>1, <1>3, <1>10, <1>11, <2>5, <2>6, <2>7 DEF Unsplit
<1>21. CASE ~Full(n)
  <2>1. current' = current /\ inCurrent' = f /\ vertical' = vertical /\ unsplit' = unsplit
    BY <1>10, <1>15, <1>21
  <2>2. \A c \in Chunk : c < current => Size(c)' = Size(c)
    BY <1>6, <1>13, <1>14
  <2>3. Even(q)'
    <3>1. \A c \in Chunk : c < current' => Size(c)' \in {q, q + 1} /\ (Size(c)' = q => unsplit' = vertical' * q)
      BY <1>19, <2>1, <2>2
    <3>2. \A c, d \in Chunk : c < d /\ d < current' => Size(c)' >= Size(d)'
      <4>. SUFFICES ASSUME NEW c \in Chunk, NEW d \in Chunk, c < d, d < current'
                    PROVE  Size(c)' >= Size(d)'
        OBVIOUS
      <4>1. c < current /\ d < current
        BY <1>6, <1>14, <2>1
      <4>. QED
        BY <1>19, <2>2, <4>1
    <3>. QED
      BY <1>6, <1>11, <1>19, <2>1, <3>1, <3>2 DEF Even
  <2>4. current' + vertical' = count' /\ unsplit' - inCurrent' = next'
    BY <1>1, <1>3, <1>6, <1>10, <1>11, <1>15, <2>1
  <2>5. \A c \in Chunk : c = current' => Size(c)' = inCurrent'
    BY <1>16, <2>1
  <2>. QED
    BY <1>1, <1>3, <1>10, <1>11, <2>3, <2>4, <2>5 DEF Unsplit
<1>. QED
  BY <1>20, <1>21

\* Once all nodes are placed every chunk is closed.
LEMMA AllClosed ==
    ASSUME Typed, Unsplit, DOMAIN pieces = {}, pc \in {"place", "build", "visit", "done"}, next = 0
    PROVE  /\ current = count
           /\ \A c \in Chunk : Size(c) >= 1
           /\ \A c, d \in Chunk : c < d => Size(c) \in {Size(d), Size(d) + 1}
<1>1. /\ current + vertical = count /\ unsplit - inCurrent = 0
      /\ \E q \in Nat : Even(q)
  BY DEF Unsplit
<1>2. PICK q \in Nat : Even(q)
  BY <1>1
<1>3. /\ vertical \in Nat /\ unsplit \in Nat /\ inCurrent \in Nat /\ current \in Nat /\ count \in Nat
      /\ vertical <= unsplit /\ (inCurrent > 0 => vertical * inCurrent < unsplit)
  BY DEF Typed, TypeOK, Shared
<1>4. vertical = 0
  <2>. SUFFICES ASSUME vertical >= 1 PROVE FALSE
    BY <1>3
  <2>1. inCurrent > 0 /\ inCurrent = unsplit
    BY <1>1, <1>3
  <2>2. PICK w \in Nat : vertical = w + 1
    BY <1>3
  <2>3. vertical * inCurrent = w * inCurrent + inCurrent /\ w * inCurrent \in Nat
    BY <1>3, <2>2
  <2>. QED
    BY <1>3, <2>1, <2>3
<1>5. current = count
  BY <1>1, <1>3, <1>4
<1>6. \A c \in Chunk : c \in Int /\ c < current /\ Size(c) \in {q, q + 1}
  BY <1>2, <1>3, <1>5 DEF Even, Chunk
<1>7. ASSUME NEW c \in Chunk
      PROVE  Size(c) >= 1
  <2>1. q >= 1
    BY <1>2, <1>3 DEF Even, Chunk
  <2>. QED
    BY <1>6, <2>1
<1>8. ASSUME NEW c \in Chunk, NEW d \in Chunk, c < d
      PROVE  Size(c) \in {Size(d), Size(d) + 1}
  <2>1. Size(c) >= Size(d)
    BY <1>2, <1>6, <1>8 DEF Even
  <2>2. Size(c) \in {q, q + 1} /\ Size(d) \in {q, q + 1}
    BY <1>6
  <2>. QED
    BY <2>1, <2>2
<1>. QED
  BY <1>5, <1>7, <1>8

\* Nothing is linked before Link when no node is split.
LEMMA NoLinksYet ==
    ASSUME Laid, DOMAIN pieces = {}, pc = "place", NEW c \in Chunk
    PROVE  edges[c] = {}
<1>1. \A e : ~IsLink(e)
  <2>1. \A n : SplitTargets(n) = {}
    BY DEF SplitTargets
  <2>. QED
    BY <2>1 DEF IsLink
<1>. QED
  BY <1>1 DEF Laid, LinkedUp, OnlyLinks

LEMMA LinkUnsplit ==
    ASSUME Typed, Laid, Unsplit, Link
    PROVE  Unsplit'
<1>. SUFFICES ASSUME DOMAIN pieces' = {}
              PROVE  Unsplit'
  BY DEF Unsplit
<1>1. pc = "place" /\ next = 0 /\ UNCHANGED <<model, asked>> /\ TypeOK /\ Positions
  BY DEF Link, Typed, Laid
<1>2. DOMAIN pieces = {}
  BY DEF Link, Fail, plan
<1>3. \A c \in Chunk : \E x \in nodes[c] : x.as # "output"
  <2>. SUFFICES ASSUME NEW c \in Chunk, \A x \in nodes[c] : x.as = "output"
                PROVE  FALSE
    OBVIOUS
  <2>1. Size(c) >= 1
    BY <1>1, <1>2, AllClosed
  <2>2. nodes[c] \cap {Whole(n) : n \in 1 .. model.n} = {}
    BY Fields
  <2>3. Size(c) = 0
    BY <2>2, FS_EmptySet DEF Size
  <2>. QED
    BY <2>1, <2>3
<1>4. pc' # "failed"
  <2>1. ~(\E c \in Chunk : {x \in nodes[c] : x.as # "output"} = {})
    BY <1>3
  <2>. QED
    BY <2>1 DEF Link
<1>5. /\ Puts(LinkNodes, LinkEdges) /\ pc' = "build"
      /\ UNCHANGED <<model, asked, next, plan, counters, order>>
  BY <1>1, <1>4, LinkPuts
<1>6. /\ pieces' = pieces /\ count' = count /\ Chunk' = Chunk /\ Kept' = Kept /\ ToOutput' = ToOutput /\ model' = model
      /\ current' = current /\ inCurrent' = inCurrent /\ vertical' = vertical /\ unsplit' = unsplit /\ next' = next
  BY <1>5, SamePlan DEF plan, counters
<1>7. \A c \in Chunk : \A n : Whole(n) \in nodes'[c] <=> Whole(n) \in nodes[c]
  <2>1. \A c, n : <<c, Whole(n)>> \notin LinkNodes
    BY InLinkNodes, Fields
  <2>. QED
    BY <1>5, <2>1 DEF Puts
<1>8. \A c \in Chunk : Size(c)' = Size(c)
  <2>. SUFFICES ASSUME NEW c \in Chunk
                PROVE  Size(c)' = Size(c)
    OBVIOUS
  <2>1. nodes'[c] \cap {Whole(n) : n \in 1 .. model.n} = nodes[c] \cap {Whole(n) : n \in 1 .. model.n}
    BY <1>7
  <2>2. Size(c)' = Cardinality(nodes'[c] \cap {Whole(n) : n \in 1 .. model.n})
    BY <1>6 DEF Size
  <2>. QED
    BY <2>1, <2>2 DEF Size
<1>9. \A q \in Nat : Even(q) => Even(q)'
  BY <1>6, <1>8 DEF Even
<1>10. ASSUME NEW n \in 1 .. model.n, n \notin DOMAIN pieces, NEW c \in Chunk
       PROVE  c = ChunkOf(Whole(n)) <=> Whole(n) \in nodes[c]
  <2>1. n > next
    BY <1>1
  <2>2. Whole(n) \in nodes[ChunkOf(Whole(n))]
    BY <1>1, <1>10, <2>1, WholeIn
  <2>3. Whole(n) \in nodes[c] => ChunkOf(Whole(n)) = c
    BY <1>1, ChunkOfIs DEF Positions
  <2>. QED
    BY <2>2, <2>3
<1>11. EdgesAreKept'
  <2>1. ASSUME NEW c \in Chunk, NEW e
        PROVE  e \in edges'[c] <=>
                 \E d \in Kept : /\ e = <<Whole(d[1]), Target(d[1], d[2])>>
                                 /\ Whole(d[1]) \in nodes'[c] \/ (d \notin ToOutput /\ Whole(d[2]) \in nodes'[c])
    <3>1. e \in edges'[c] <=> <<c, e>> \in LinkEdges
      BY <1>1, <1>2, <1>5, NoLinksYet DEF Puts
    <3>2. ASSUME NEW d \in Kept
          PROVE  /\ c = ChunkOf(Whole(d[1])) <=> Whole(d[1]) \in nodes'[c]
                 /\ d \notin ToOutput => (c = ChunkOf(Whole(d[2])) <=> Whole(d[2]) \in nodes'[c])
      BY <1>1, <1>7, <1>10, KeptAre
    <3>3. <<c, e>> \in LinkEdges <=>
            \E d \in Kept : /\ c = ChunkOf(Whole(d[1])) \/ (d \notin ToOutput /\ c = ChunkOf(Whole(d[2])))
                            /\ e = <<Whole(d[1]), Target(d[1], d[2])>>
      BY InLinkEdges
    <3>. QED
      BY <3>1, <3>2, <3>3
  <2>2. ASSUME NEW d \in ToOutput, NEW c \in Chunk, Whole(d[1]) \in nodes'[c]
        PROVE  Out(d[1], 0) \in nodes'[c]
    <3>1. d \in Kept
      BY DEF ToOutput
    <3>2. c = ChunkOf(Whole(d[1]))
      BY <1>1, <1>7, <1>10, <2>2, <3>1, KeptAre
    <3>3. <<c, Out(d[1], 0)>> \in LinkNodes
      BY <3>2, InLinkNodes
    <3>. QED
      BY <1>5, <3>3 DEF Puts
  <2>. QED
    BY <1>6, <2>1, <2>2 DEF EdgesAreKept
<1>12. /\ count = Min({asked, model.n})
       /\ current + vertical = count /\ unsplit - inCurrent = next
       /\ \A c \in Chunk : c = current => Size(c) = inCurrent
       /\ \E q \in Nat : Even(q)
  BY <1>1, <1>2 DEF Unsplit
<1>13. \E q \in Nat : Even(q)'
  BY <1>9, <1>12
<1>14. \A c \in Chunk : c = current => Size(c)' = inCurrent
  BY <1>8, <1>12
<1>. QED
  BY <1>1, <1>5, <1>6, <1>11, <1>12, <1>13, <1>14 DEF Unsplit

\* check_boundary_edges_consistency finds nothing.
LEMMA KeptConsistent ==
    ASSUME TypeOK, Positions, EdgesAreKept, DOMAIN pieces = {}, next = 0
    PROVE  Consistent
<1>1. ASSUME NEW d \in Kept, d \notin ToOutput
      PROVE  /\ Target(d[1], d[2]) = Whole(d[2])
             /\ d[1] \in 1 .. model.n /\ d[2] \in 1 .. model.n
  <2>1. d[2] # Output
    BY <1>1 DEF ToOutput
  <2>. QED
    BY <1>1, <2>1, KeptAre, TargetFields
<1>2. ASSUME NEW n \in 1 .. model.n
      PROVE  /\ ChunkOf(Whole(n)) \in Chunk /\ Whole(n) \in nodes[ChunkOf(Whole(n))]
             /\ \A c \in Chunk : Whole(n) \in nodes[c] <=> c = ChunkOf(Whole(n))
  <2>1. n > next
    OBVIOUS
  <2>2. ChunkOf(Whole(n)) \in Chunk /\ Whole(n) \in nodes[ChunkOf(Whole(n))]
    BY <2>1, WholeIn
  <2>3. \A c \in Chunk : Whole(n) \in nodes[c] => c = ChunkOf(Whole(n))
    BY ChunkOfIs DEF Positions
  <2>. QED
    BY <2>2, <2>3
<1>3. ASSUME NEW d \in Kept, d \notin ToOutput, NEW c \in Chunk, NEW x, NEW y,
             x \in {d[1], d[2]}, y \in {d[1], d[2]}, x # y, Whole(x) \in nodes[c], Whole(y) \notin nodes[c],
             NEW e, e = <<Whole(d[1]), Target(d[1], d[2])>>
      PROVE  /\ ChunksOf(Whole(y)) # {} /\ ChunkOf(Whole(x)) = c
             /\ e \in edges[ChunkOf(Whole(y))] /\ Whole(x) \notin nodes[ChunkOf(Whole(y))]
             /\ e = <<Whole(d[1]), Whole(d[2])>>
  <2>1. x \in 1 .. model.n /\ y \in 1 .. model.n /\ Target(d[1], d[2]) = Whole(d[2])
    BY <1>1, <1>3
  <2>2. PICK f \in Chunk : f = ChunkOf(Whole(y))
    BY <1>2, <2>1
  <2>3. Whole(y) \in nodes[f] /\ f # c /\ ChunkOf(Whole(x)) = c
    BY <1>2, <1>3, <2>1, <2>2
  <2>4. Whole(x) \notin nodes[f]
    BY <1>2, <2>1, <2>3
  <2>5. Whole(d[1]) \in nodes[f] \/ Whole(d[2]) \in nodes[f]
    BY <1>3, <2>3
  <2>6. e \in edges[f]
    BY <1>3, <2>5 DEF EdgesAreKept
  <2>7. ChunksOf(Whole(y)) # {}
    BY <2>3 DEF ChunksOf
  <2>. QED
    BY <1>3, <2>1, <2>2, <2>3, <2>4, <2>6, <2>7
<1>4. ASSUME NEW c \in Chunk, NEW e \in edges[c], e[1] \notin nodes[c]
      PROVE  ChunksOf(e[1]) # {} /\ e \in Outgoing(ChunkOf(e[1])) /\ ChunkOf(e[2]) = c
  <2>1. PICK d \in Kept : /\ e = <<Whole(d[1]), Target(d[1], d[2])>>
                          /\ Whole(d[1]) \in nodes[c] \/ (d \notin ToOutput /\ Whole(d[2]) \in nodes[c])
    BY <1>4 DEF EdgesAreKept
  <2>2. Whole(d[1]) \notin nodes[c] /\ d \notin ToOutput /\ Whole(d[2]) \in nodes[c]
    BY <1>4, <2>1
  <2>3. d[1] # d[2]
    BY <2>2
  <2>4. /\ ChunksOf(Whole(d[1])) # {} /\ ChunkOf(Whole(d[2])) = c
        /\ e \in edges[ChunkOf(Whole(d[1]))] /\ Whole(d[2]) \notin nodes[ChunkOf(Whole(d[1]))]
        /\ e = <<Whole(d[1]), Whole(d[2])>>
    BY <1>3, <2>1, <2>2, <2>3
  <2>5. e[1] = Whole(d[1]) /\ e[2] = Whole(d[2])
    BY <2>4
  <2>. QED
    BY <2>4, <2>5 DEF Outgoing
<1>5. ASSUME NEW c \in Chunk, NEW e \in edges[c], e[2] \notin nodes[c]
      PROVE  ChunksOf(e[2]) # {} /\ e \in Incoming(ChunkOf(e[2])) /\ ChunkOf(e[1]) = c
  <2>1. PICK d \in Kept : /\ e = <<Whole(d[1]), Target(d[1], d[2])>>
                          /\ Whole(d[1]) \in nodes[c] \/ (d \notin ToOutput /\ Whole(d[2]) \in nodes[c])
    BY <1>5 DEF EdgesAreKept
  <2>2. d \notin ToOutput
    <3>. SUFFICES ASSUME d \in ToOutput PROVE FALSE
      OBVIOUS
    <3>1. e[2] = Out(d[1], 0)
      BY <2>1, TargetFields DEF ToOutput
    <3>. QED
      BY <1>5, <2>1, <3>1 DEF EdgesAreKept
  <2>3. e[1] = Whole(d[1]) /\ e[2] = Whole(d[2])
    BY <1>1, <2>1, <2>2
  <2>4. Whole(d[1]) \in nodes[c] /\ Whole(d[2]) \notin nodes[c] /\ d[1] # d[2]
    BY <1>5, <2>1, <2>3
  <2>5. /\ ChunksOf(Whole(d[2])) # {} /\ ChunkOf(Whole(d[1])) = c
        /\ e \in edges[ChunkOf(Whole(d[2]))] /\ Whole(d[1]) \notin nodes[ChunkOf(Whole(d[2]))]
    BY <1>3, <2>1, <2>2, <2>4
  <2>. QED
    BY <2>3, <2>5 DEF Incoming
<1>. QED
  BY <1>4, <1>5 DEF Consistent, Incoming, Outgoing

\* Later actions leave all of this alone.
LEMMA LaterUnsplit ==
    ASSUME Unsplit, UNCHANGED <<model, asked, next, plan, counters, subgraphs>>,
           pc \in {"build", "visit", "done"}, pc' \in {"build", "visit", "done"}
    PROVE  Unsplit'
<1>1. /\ pieces' = pieces /\ count' = count /\ Chunk' = Chunk /\ Kept' = Kept /\ ToOutput' = ToOutput /\ model' = model
      /\ current' = current /\ inCurrent' = inCurrent /\ vertical' = vertical /\ unsplit' = unsplit /\ next' = next
      /\ nodes' = nodes /\ edges' = edges /\ asked' = asked
  BY SamePlan DEF plan, counters, subgraphs
<1>2. \A c : Size(c)' = Size(c)
  BY <1>1 DEF Size
<1>3. \A q \in Nat : Even(q) => Even(q)'
  BY <1>1, <1>2 DEF Even
<1>4. EdgesAreKept => EdgesAreKept'
  BY <1>1 DEF EdgesAreKept
<1>. QED
  BY <1>1, <1>2, <1>3, <1>4 DEF Unsplit

LEMMA NextUnsplit ==
    ASSUME Typed, Laid, Unsplit, [Next]_vars
    PROVE  Unsplit'
<1>1. CASE FindGroups
  BY <1>1, SameModel DEF FindGroups, Unsplit
<1>2. CASE \E t \in groups : Allot(t)
  BY <1>2, AllotUnsplit
<1>3. CASE Divide
  BY <1>3, DivideUnsplit
<1>4. ASSUME NEW n \in 1 .. model.n, PlaceSplit(n)
      PROVE  Unsplit'
  <2>1. n \in DOMAIN pieces /\ pieces' = pieces
    BY <1>4 DEF PlaceSplit, PlaceFirst, PlaceFollowing, Fail, plan
  <2>. QED
    BY <2>1 DEF Unsplit
<1>5. ASSUME NEW n \in 1 .. model.n, PlaceWhole(n)
      PROVE  Unsplit'
  BY <1>5, WholeUnsplit
<1>6. CASE Link
  BY <1>6, LinkUnsplit
<1>7. CASE Build
  <2>1. pc = "build" /\ UNCHANGED <<model, asked, next, plan, counters, subgraphs>>
    BY <1>7 DEF Build, Fail
  <2>2. CASE DOMAIN pieces = {}
    <3>1. Consistent
      BY <2>1, <2>2, KeptConsistent DEF Typed, Laid, Unsplit, LinkedUp, WholeLinked
    <3>2. pc' = "visit"
      BY <1>7, <3>1 DEF Build
    <3>. QED
      BY <2>1, <3>2, LaterUnsplit
  <2>3. CASE DOMAIN pieces # {}
    BY <2>1, <2>3 DEF Unsplit, plan
  <2>. QED
    BY <2>2, <2>3
<1>8. CASE VisitPass
  <2>1. /\ pc = "visit" /\ pc' \in {"visit", "done"}
        /\ UNCHANGED <<model, asked, next, plan, counters, subgraphs>>
    BY <1>8 DEF VisitPass
  <2>. QED
    BY <2>1, LaterUnsplit
<1>9. CASE UNCHANGED vars
  <2>1. /\ pieces' = pieces /\ count' = count /\ Chunk' = Chunk /\ Kept' = Kept
        /\ ToOutput' = ToOutput /\ model' = model
        /\ current' = current /\ inCurrent' = inCurrent /\ vertical' = vertical /\ unsplit' = unsplit /\ next' = next
        /\ nodes' = nodes /\ edges' = edges /\ asked' = asked /\ pc' = pc /\ available' = available
    BY <1>9, SamePlan DEF vars, plan, counters, subgraphs
  <2>2. Horizontal' = Horizontal
    BY <2>1, SameModel
  <2>3. \A c : Size(c)' = Size(c)
    BY <2>1 DEF Size
  <2>4. \A q \in Nat : Even(q) => Even(q)'
    BY <2>1, <2>3 DEF Even
  <2>5. EdgesAreKept => EdgesAreKept'
    BY <2>1 DEF EdgesAreKept
  <2>. QED
    BY <2>1, <2>2, <2>3, <2>4, <2>5 DEF Unsplit
<1>. QED
  BY <1>1, <1>2, <1>3, <1>4, <1>5, <1>6, <1>7, <1>8, <1>9 DEF Next

\* Without horizontal splitting split does not fail and fills the chunks evenly
\* (chunking.rs:1313, 1606), and at every step a node is left for each chunk
\* that is left (chunking.rs:1308).
THEOREM ChunksBalanced == Spec => []Balanced
<1>1. Init => Unsplit
  BY DEF Init, Unsplit
<1>2. ChunksInv /\ Unsplit /\ [Next]_vars => Unsplit'
  BY NextUnsplit DEF ChunksInv
<1>3. ChunksInv /\ Unsplit => Balanced
  <2>. SUFFICES ASSUME ChunksInv, Unsplit
                PROVE  Balanced
    OBVIOUS
  <2>1. 0 <= vertical /\ vertical <= unsplit
    BY DEF ChunksInv, Typed, TypeOK, Shared
  <2>2. ASSUME pc \notin {"group", "allot"}, pieces = <<>>
        PROVE  /\ pc # "failed"
               /\ count = Min({asked, model.n})
               /\ pc \in {"visit", "done"} =>
                     \A c, d \in Chunk : c < d => Size(c) \in {Size(d), Size(d) + 1}
    <3>1. DOMAIN pieces = {}
      BY <2>2
    <3>2. pc # "failed" /\ count = Min({asked, model.n})
      BY <2>2, <3>1 DEF Unsplit
    <3>3. ASSUME pc \in {"visit", "done"}
          PROVE  \A c, d \in Chunk : c < d => Size(c) \in {Size(d), Size(d) + 1}
      <4>1. next = 0
        BY <3>3 DEF ChunksInv, Laid, LinkedUp, WholeLinked
      <4>. QED
        BY <3>1, <3>3, <4>1, AllClosed DEF ChunksInv
    <3>. QED
      BY <3>2, <3>3
  <2>. QED
    BY <2>1, <2>2 DEF Balanced
<1>. QED
  BY <1>1, <1>2, <1>3, ChunksInvHolds, PTL DEF Spec
============================================================================
