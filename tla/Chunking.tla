------------------------------ MODULE Chunking ------------------------------
(***************************************************************************)
(* How a model is cut into the chunks that are proved apart:               *)
(* DefaultChunkingStrategy::split, build_chunks and visit_chunks of        *)
(* zkml/src/iop/chunking.rs.                                               *)
(*                                                                         *)
(* split visits the nodes from the outputs to the inputs.  A node is put   *)
(* in the chunk that is being filled, or, when it belongs to a group that  *)
(* is split horizontally, in pieces, one in each of a row of chunks, with  *)
(* a recombination layer in front of what reads it and a split layer       *)
(* behind what it reads.                                                   *)
(*                                                                         *)
(* The nodes 1 .. n of a model are numbered in topological order, which is *)
(* the order of the visits reversed.  An edge <<a, b>> carries all links   *)
(* from a to b, <<a, Output>> those to the outputs; a node without other   *)
(* inputs reads an input of the model.  Splittable layers have one input;  *)
(* `dim` is the first dimension of theirs, the one that is split.  Input   *)
(* nodes are left out: every chunk has its own, and no edge of theirs      *)
(* crosses.                                                                *)
(***************************************************************************)
EXTENDS Integers, Sequences, FiniteSets, SequencesExt

CONSTANTS
    Models,         \* records [n, edges, splittable, dim]
    Asked,          \* numbers of chunks asked for
    MinChunkSize    \* MIN_CHUNK_SIZE of the splittable layers

Output == 0

ModelsAssumption ==
    \A m \in Models :
        /\ m.n \in Nat
        /\ m.edges \subseteq (1 .. m.n) \X (0 .. m.n)
        /\ m.splittable \subseteq 1 .. m.n
        /\ m.dim \in [1 .. m.n -> Nat \ {0}]
        /\ \A e \in m.edges : e[1] < e[2] \/ e[2] = Output
        /\ \A n \in 1 .. m.n : \E e \in m.edges : e[1] = n
        /\ \A n \in m.splittable : Cardinality({e \in m.edges : e[2] = n}) <= 1

ASSUME ModelsAssumption

NumbersAssumption == Asked \subseteq Nat \ {0} /\ MinChunkSize \in Nat \ {0}

ASSUME NumbersAssumption

VARIABLES
    model, asked,
    pc,             \* "group", "allot", "place", "build", "visit", "done" or "failed"
    next,           \* the node to place
    groups,         \* the groups to allot chunks to
    available,      \* num_available_chunks
    pieces,         \* to_be_splitted_nodes: the number of pieces of each split node
    count,          \* num_chunks
    current,        \* current_chunk
    inCurrent,      \* nodes_in_current_chunk
    vertical,       \* num_vertical_chunks, those that are left
    unsplit,        \* num_unsplit_nodes, those that are left
    nodes, edges,   \* of the subgraph of each chunk
    order           \* the result of visit_chunks

counters == <<current, inCurrent, vertical, unsplit>>
subgraphs == <<nodes, edges>>
plan == <<groups, available, pieces, count>>
vars == <<model, asked, pc, next, plan, counters, subgraphs, order>>

Targets(n) == {e[2] : e \in {d \in model.edges : d[1] = n}}
Sources(n) == {e[1] : e \in {d \in model.edges : d[2] = n}}
Chunk == 0 .. count - 1

\* The nodes of the chunked graph.
Whole(n) == [of |-> n, as |-> "whole", i |-> 0]
Piece(n, i) == [of |-> n, as |-> "piece", i |-> i]
Split(n) == [of |-> n, as |-> "split", i |-> 0]
Recombined(n) == [of |-> n, as |-> "recombined", i |-> 0]
Out(n, i) == [of |-> n, as |-> "output", i |-> i]
Target(n, t) == IF t = Output THEN Out(n, 0) ELSE Whole(t)

Ordered(S, before(_, _)) ==
    [i \in 1 .. Cardinality(S) |-> CHOOSE x \in S : Cardinality({y \in S : before(y, x)}) = i - 1]

---------------------------------------------------------------------------
(* The groups that are split and their numbers of pieces *)

CeilDiv(a, b) == (a + b - 1) \div b

\* It has no odd divisor but 1.
IsPowerOfTwo(p) == \A d \in 1 .. p : p % (2 * d + 1) # 0
NextPowerOfTwo(a) == Min({p \in a .. 2 * a : IsPowerOfTwo(p)})

\* num_chunks_for_input_shape: how many pieces, of a size that is a power of
\* two, at most `max` pieces make of a dimension.
PiecesFor(max, dim) ==
    LET size(k) == NextPowerOfTwo(dim) \div NextPowerOfTwo(k)
        halves == {max} \cup {p \in 1 .. max : IsPowerOfTwo(p)}
        k == Max({h \in halves : size(h) * h >= dim})
    IN  CeilDiv(dim, size(k))

\* compute_num_chunks_for_group, with 0 for None.
PiecesForGroup(max, dim) ==
    IF max < 2 \/ PiecesFor(max, dim) < 2 THEN 0 ELSE PiecesFor(max, dim)

MaxVertical == CeilDiv(model.n, 3)
Ideal(n) == CeilDiv(model.dim[n], MinChunkSize)
Splittable == {n \in model.splittable : Ideal(n) > 1}

\* A splittable node joins the group of the splittable node that is alone to
\* read it.
Joins(p, n) ==
    {p, n} \subseteq Splittable /\ Targets(p) = {n} /\ model.dim[p] = model.dim[n]

Top ==
    LET top[n \in 1 .. model.n] ==
            IF \E s \in Targets(n) : Joins(n, s) THEN top[CHOOSE s \in Targets(n) : TRUE] ELSE n
    IN  top

Group(t) == {n \in Splittable : Top[n] = t}

\* A group is named by the node visited first, which joins no other.
Groups == {n \in Splittable : Top[n] = n}

\* More pieces come first, then more nodes, then what is visited later.
Before(s, t) ==
    LET key(n) == <<Ideal(n), Cardinality(Group(n)), model.n - n>>
    IN  \E i \in 1 .. 3 : key(s)[i] > key(t)[i] /\ \A h \in 1 .. i - 1 : key(s)[h] = key(t)[h]

Init ==
    /\ model \in Models /\ asked \in Asked
    /\ pc = "group" /\ next = model.n
    /\ groups = {} /\ available = 0 /\ pieces = <<>> /\ count = 0
    /\ current = 0 /\ inCurrent = 0 /\ vertical = 0 /\ unsplit = 0
    /\ nodes = <<>> /\ edges = <<>> /\ order = <<>>

\* Only the chunks that a vertical split cannot use are available.
Horizontal == Max({0, asked - MaxVertical})

FindGroups ==
    /\ pc = "group" /\ pc' = "allot"
    /\ groups' = IF Horizontal > 0 THEN Groups ELSE {}
    /\ available' = Horizontal
    /\ UNCHANGED <<model, asked, next, pieces, count, counters, subgraphs, order>>

\* The next group is split as far as chunks are available; k split groups need
\* k + 1 vertical chunks between them.
Allot(t) ==
    LET split == Cardinality({Top[n] : n \in DOMAIN pieces}) + 1
        most == PiecesForGroup(Min({available, Ideal(t)}), model.dim[t])
        extra == split + 1 - (available - most + MaxVertical)
        k == IF available < 2 \/ most = 0 \/ extra > most - 2 THEN 0
             ELSE IF extra > 0 THEN PiecesForGroup(most - extra, model.dim[t])
             ELSE most
    IN  /\ pc = "allot" /\ \A s \in groups \ {t} : Before(t, s)
        /\ groups' = groups \ {t}
        /\ available' = available - k
        /\ pieces' = IF k = 0 THEN pieces
                     ELSE [n \in Group(t) \cup DOMAIN pieces |-> IF n \in Group(t) THEN k ELSE pieces[n]]
        /\ UNCHANGED <<model, asked, pc, next, count, counters, subgraphs, order>>

\* The numbers of chunks and of nodes that are not split, and the empty chunks.
Divide ==
    /\ pc = "allot" /\ groups = {}
    /\ pc' = "place"
    /\ unsplit' = model.n - Cardinality(DOMAIN pieces)
    /\ vertical' = Min({asked - (Horizontal - available), unsplit'})
    /\ count' = Horizontal - available + vertical'
    /\ nodes' = [c \in 0 .. count' - 1 |-> {}]
    /\ edges' = [c \in 0 .. count' - 1 |-> {}]
    /\ UNCHANGED <<model, asked, next, groups, available, pieces, current, inCurrent, order>>

---------------------------------------------------------------------------
(* The main loop of split *)

\* An error, or an index or a counter out of its range, which panics (the counter
\* where overflow is checked, as in the profile of the tests).
Fail ==
    /\ pc' = "failed"
    /\ UNCHANGED <<next, plan, counters, subgraphs, order>>

ChunksOf(x) == {c \in Chunk : x \in nodes[c]}
ChunkOf(x) == CHOOSE c \in Chunk : x \in nodes[c]

\* Puts nodes and edges into chunks, each with its chunk.
Added(old, xs) == [c \in Chunk |-> old[c] \cup {x[2] : x \in {y \in xs : y[1] = c}}]
Put(xs, es) == nodes' = Added(nodes, xs) /\ edges' = Added(edges, es)

Row(n) == 0 .. pieces[n] - 1

\* The pieces of n go to the chunks top, top - 1 and so on.
InRow(n, top) == {<<top - i, Piece(n, i)>> : i \in Row(n)}

BugLinks(n, top, to, at) ==     \* all as the first one
    UNION {{top - i, at[0]} \X {<<Piece(n, i), to[0]>>} : i \in Row(n)}

\* Piece i of n is linked to to[i] in chunk at[i].
Links(n, top, to, at) ==
    UNION {{top - i, at[i]} \X {<<Piece(n, i), to[i]>>} : i \in Row(n)}

\* The chunk of the recombination layer of a split node that starts a set: the
\* one being filled, or the one before if that is empty.
InFront == IF inCurrent = 0 THEN current - 1 ELSE current

\* Before any other node there is none, and each piece gets an output of its own.
PlaceFirst(n) ==
    LET top == InFront + pieces[n]
    IN  IF top \notin Chunk \/ (inCurrent > 0 /\ vertical = 0) THEN Fail
        ELSE /\ current' = top
             /\ vertical' = IF inCurrent > 0 THEN vertical - 1 ELSE vertical
             /\ unsplit' = unsplit - inCurrent
             /\ IF InFront = -1
                THEN Put(InRow(n, top) \cup {<<top - i, Out(n, i)>> : i \in Row(n)},
                         Links(n, top, [i \in Row(n) |-> Out(n, i)], [i \in Row(n) |-> top - i]))
                ELSE Put(InRow(n, top) \cup {<<InFront, Recombined(n)>>},
                         Links(n, top, [i \in Row(n) |-> Recombined(n)], [i \in Row(n) |-> InFront])
                             \cup {<<InFront, <<Recombined(n), Target(n, t)>>>> : t \in Targets(n)})
             /\ next' = next - 1
             /\ UNCHANGED <<pc, plan, inCurrent, order>>

\* A split node read by t of the same set.
PlaceFollowing(n, t) ==
    LET to == [i \in Row(n) |-> Piece(t, i)]
    IN  IF Targets(n) # {t} \/ pieces[t] # pieces[n] \/ current \notin Chunk THEN Fail
        ELSE /\ Put(InRow(n, current), Links(n, current, to, [i \in Row(n) |-> ChunkOf(to[i])]))
             /\ next' = next - 1
             /\ UNCHANGED <<pc, plan, counters, order>>

SplitTargets(n) == Targets(n) \cap DOMAIN pieces

PlaceSplit(n) ==
    /\ pc = "place" /\ next = n /\ n \in DOMAIN pieces
    /\ \/ SplitTargets(n) = {} /\ PlaceFirst(n)
       \/ \E t \in SplitTargets(n) : PlaceFollowing(n, t)
    /\ UNCHANGED <<model, asked>>

BugRoom == unsplit \div vertical

\* max_nodes_in_current_chunk.
Room == CeilDiv(unsplit, vertical)

\* A node that is not split goes into the chunk being filled, or into a new one
\* behind the split layer of the set it ends.
Place(n) == IF SplitTargets(n) = {} THEN current ELSE current + 1
Filled(n) == IF SplitTargets(n) = {} THEN inCurrent + 1 ELSE 1
Full(n) == Filled(n) >= Room

\* The links of the split layer in front of t, in chunk c, to the pieces of t.
SplitLinks(t, c) ==
    UNION {{c, ChunkOf(Piece(t, i))} \X {<<Split(t), Piece(t, i)>>} : i \in Row(t)}

PlaceWhole(n) ==
    LET c == Place(n)
        ends == SplitTargets(n)
    IN  /\ pc = "place" /\ next = n /\ n \notin DOMAIN pieces
        /\ IF Cardinality(ends) > 1 \/ c \notin Chunk \/ vertical = 0 THEN Fail
           ELSE /\ Put({<<c, Whole(n)>>} \cup {<<c, Split(t)>> : t \in ends},
                       {<<c, <<Whole(n), Split(t)>>>> : t \in ends} \cup UNION {SplitLinks(t, c) : t \in ends})
                /\ current' = IF Full(n) THEN c + 1 ELSE c
                /\ inCurrent' = IF Full(n) THEN 0 ELSE Filled(n)
                /\ vertical' = IF Full(n) THEN vertical - 1 ELSE vertical
                /\ unsplit' = IF Full(n) THEN unsplit - Filled(n) ELSE unsplit
                /\ next' = next - 1
                /\ UNCHANGED <<pc, plan, order>>
        /\ UNCHANGED <<model, asked>>

\* add_edges_to_chunk_subgraphs: the edges between nodes that are not split, in
\* the chunks of both their ends.
Kept == {e \in model.edges : {e[1], e[2]} \cap DOMAIN pieces = {}}
ToOutput == {e \in Kept : e[2] = Output}

Link ==
    /\ pc = "place" /\ next = 0
    /\ IF \E c \in Chunk : {x \in nodes[c] : x.as # "output"} = {} THEN Fail
       ELSE /\ LET link(e) == <<Whole(e[1]), Target(e[1], e[2])>>
               IN  Put({<<ChunkOf(Whole(e[1])), Out(e[1], 0)>> : e \in ToOutput},
                       {<<ChunkOf(Whole(e[1])), link(e)>> : e \in Kept}
                           \cup {<<ChunkOf(Whole(e[2])), link(e)>> : e \in Kept \ ToOutput})
            /\ pc' = "build"
            /\ UNCHANGED <<next, plan, counters, order>>
    /\ UNCHANGED <<model, asked>>

---------------------------------------------------------------------------
(* build_chunks and visit_chunks *)

\* The chunks of the other ends of a chunk's boundary edges.
Incoming(c) == {e \in edges[c] : e[1] \notin nodes[c]}
Outgoing(c) == {e \in edges[c] : e[2] \notin nodes[c]}

\* check_boundary_edges_consistency.
Consistent ==
    \A c \in Chunk :
        /\ \A e \in Incoming(c) : ChunksOf(e[1]) # {} /\ e \in Outgoing(ChunkOf(e[1])) /\ ChunkOf(e[2]) = c
        /\ \A e \in Outgoing(c) : ChunksOf(e[2]) # {} /\ e \in Incoming(ChunkOf(e[2])) /\ ChunkOf(e[1]) = c

Build ==
    /\ pc = "build"
    /\ IF Consistent THEN pc' = "visit" /\ UNCHANGED <<next, plan, counters, subgraphs, order>>
       ELSE Fail
    /\ UNCHANGED <<model, asked>>

Unvisited == Chunk \ ToSet(order)

SourceChunks(c) == {ChunkOf(e[1]) : e \in Incoming(c)}

BugVisit ==     \* from the lowest
    LET ready(T) == \A c \in T : SourceChunks(c) \subseteq ToSet(order) \cup {s \in T : s < c}
    IN  order \o Ordered(UNION {T \in SUBSET Unvisited : ready(T)}, <)

\* A pass over the chunks left, from the highest to the lowest: each is visited
\* whose incoming edges come from chunks visited before.
Visit ==
    LET ready(T) == \A c \in T : SourceChunks(c) \subseteq ToSet(order) \cup {s \in T : s > c}
    IN  order \o Ordered(UNION {T \in SUBSET Unvisited : ready(T)}, >)

VisitPass ==
    /\ pc = "visit"
    /\ IF Len(order) < Cardinality(Unvisited)
       THEN order' = Visit /\ UNCHANGED pc
       ELSE pc' = "done" /\ UNCHANGED order
    /\ UNCHANGED <<model, asked, next, plan, counters, subgraphs>>

---------------------------------------------------------------------------
Next ==
    \/ FindGroups
    \/ \E t \in groups : Allot(t)
    \/ Divide
    \/ \E n \in 1 .. model.n : PlaceSplit(n) \/ PlaceWhole(n)
    \/ Link
    \/ Build
    \/ VisitPass

Spec == Init /\ [][Next]_vars

---------------------------------------------------------------------------
Linked(x, y) == \E c \in Chunk : <<x, y>> \in edges[c]
All == UNION {nodes[c] : c \in Chunk}
Size(c) == Cardinality(nodes[c] \cap {Whole(n) : n \in 1 .. model.n})

\* Without horizontal splitting split never fails and makes the chunks asked
\* for, or one for each node, none empty and the first ones with "an extra
\* node" (chunking.rs:1313, 1606).  Split or not, a node is left for each chunk
\* that is left, as split ensures at first (chunking.rs:1308), so that
\* num_unsplit_nodes does not go below zero.
Balanced ==
    /\ 0 <= vertical /\ vertical <= unsplit
    /\ (pc \notin {"group", "allot"} /\ pieces = <<>>) =>
        /\ pc # "failed"
        /\ count = Min({asked, model.n})
        /\ pc \in {"visit", "done"} =>
              \A c, d \in Chunk : c < d => Size(c) \in {Size(d), Size(d) + 1}

\* In the chunks that build_chunks returns, each node of the model is found once,
\* whole or as pieces in chunks of their own, each piece reads and is read once,
\* and the links are those of the model once pieces, split and recombination
\* layers are taken for the node they stand for (chunking.rs:1343, 2221).
ModelIsKept ==
    pc \in {"visit", "done"} =>
        /\ \A x \in All : Cardinality(ChunksOf(x)) = 1
        /\ \A n \in 1 .. model.n \ DOMAIN pieces : Whole(n) \in All
        /\ \A n \in DOMAIN pieces :
            LET I == 0 .. pieces[n] - 1 IN
            /\ Cardinality({ChunkOf(Piece(n, i)) : i \in I}) = pieces[n]
            /\ \A i \in I :
                /\ Cardinality({x \in All : Linked(Piece(n, i), x)}) = 1
                /\ Cardinality({x \in All : Linked(x, Piece(n, i))}) = Cardinality(Sources(n))
        /\ {<<e[1].of, e[2].of>> : e \in {d \in UNION {edges[c] : c \in Chunk} : d[1].of # d[2].of}}
             = {e \in model.edges : e[2] # Output}
        /\ \A e \in model.edges : e[2] = Output => Out(e[1], 0) \in All

\* No pass of visit_chunks finds nothing to visit, so that it ends, and it
\* returns "the chunks provided as input, sorted according to the dependencies"
\* (chunking.rs:894), although its loop compares a result that grows with a map
\* that shrinks (chunking.rs:849).
VisitedInOrder ==
    /\ pc = "visit" /\ Len(order) < Cardinality(Unvisited) => Visit # order
    /\ pc = "done" =>
        /\ ToSet(order) = Chunk /\ Len(order) = count
        /\ \A i \in 1 .. count : SourceChunks(order[i]) \subseteq {order[j] : j \in 1 .. i - 1}

\* A split node is the only one between the node visited before it and the one
\* visited after it.
Straight ==
    \A n \in DOMAIN pieces :
        /\ Targets(n) = {IF n = model.n THEN Output ELSE n + 1}
        /\ n > 1 => Sources(n) = {n - 1}

\* A model is split "in num_chunks chunks of consecutive nodes"
\* (chunking.rs:977), also when some of its layers are split: enough vertical
\* chunks are left between them (chunking.rs:1238).
ChainIsSplit == Straight => pc # "failed"
============================================================================
