----------------------------- MODULE MCChunking -----------------------------
(***************************************************************************)
(* The models that are cut into chunks.  A node that no other reads is an  *)
(* output.                                                                 *)
(***************************************************************************)
EXTENDS Chunking

Pairs(n) == {p \in (1 .. n) \X (1 .. n) : p[1] < p[2]}
Path(n) == {<<i, i + 1>> : i \in 1 .. n - 1}

WithOutputs(n, E) == E \cup {<<m, Output>> : m \in {k \in 1 .. n : \A e \in E : e[1] # k}}
OneInput(n, E) == {m \in 1 .. n : Cardinality({e \in E : e[2] = m}) <= 1}

\* The models of n nodes with one of the shapes, any splittable nodes and one of
\* the dimensions.
ModelsOf(n, shapes, dims) ==
    UNION {{[n |-> n, edges |-> WithOutputs(n, E), splittable |-> S, dim |-> d] :
              S \in SUBSET OneInput(n, E), d \in dims} : E \in shapes}

Same(n, D) == {[m \in 1 .. n |-> d] : d \in D}

\* Two layers that are split and meet on both sides, behind a path.
TwoBranches ==
    ModelsOf(8, {{<<1, 2>>, <<1, 3>>, <<2, 4>>, <<3, 4>>} \cup {<<i, i + 1>> : i \in 4 .. 7}}, Same(8, {2}))

\* Every graph of four and, for one dimension, of five nodes, a path whose
\* dimension changes, paths of seven with connections that skip some, and two
\* branches.
CheckedModels ==
    ModelsOf(4, SUBSET Pairs(4), Same(4, {2, 3, 5}))
        \cup ModelsOf(4, {Path(4)}, [1 .. 4 -> {3, 5}])
        \cup ModelsOf(5, SUBSET Pairs(5), Same(5, {2}))
        \cup {m \in TwoBranches : m.splittable \subseteq {2, 3}}
        \cup ModelsOf(7, {Path(7) \cup X : X \in SUBSET {<<2, 5>>, <<4, 7>>}}, Same(7, {3, 5}))

PathsOfSeven == ModelsOf(7, {Path(7)}, Same(7, {2}))
============================================================================
