---------------------------- MODULE ProverGraph ----------------------------
(***************************************************************************)
(* The graph DeepProve executes and partitions: what                       *)
(* Prover::build_execution_graph_internal (zkml/src/iop/prover.rs) and     *)
(* build_execution_graph (zkml/src/model/exec_graph.rs) build for a model  *)
(* of NumChunks chunks, and what its partitions give in the end.  Colour 0 *)
(* is the coordinator; colour i proves chunk i - 1.                        *)
(***************************************************************************)
EXTENDS PartitionScheduler

CONSTANT NumChunks

ASSUME ProverAssumption == NumChunks \in Nat \ {0} /\ Color = 0 .. NumChunks

Split == 0
Final == 1
ChunkProver(i) == i + 2
Inference == NumChunks + 2

Chunks == 0 .. NumChunks - 1
Provers == {ChunkProver(i) : i \in Chunks}

Links == {<<Split, p>> : p \in Provers} \cup {<<p, Final>> : p \in Provers}

BugLink ==          \* every chunk is fed from port 0 of Split
    [e \in Links |-> IF e[1] = Split THEN <<0, 0>> ELSE <<0, e[1] - 2>>]

\* The ports an edge of the prover graph links.
Link == [e \in Links |-> IF e[1] = Split THEN <<e[2] - 2, 0>> ELSE <<0, e[1] - 2>>]

\* The prover graph with the inference node in front, and how many outputs
\* each node's run returns.
ExecGraph ==
    LET E == Links \cup {<<Inference, Split>>}
        N == {Split, Final, Inference} \cup Provers
    IN  [nodes |-> N, edges |-> E, multi |-> {},
         color |-> [n \in N |-> IF n \in Provers THEN n - 1 ELSE 0],
         outs |-> [n \in N |->
                     IF n = Inference THEN 2 ELSE IF n = Split THEN NumChunks ELSE 1],
         from |-> [e \in E |-> IF e[1] = Inference THEN 0 ELSE Link[e][1]],
         to |-> [e \in E |-> IF e[1] = Inference THEN 0 ELSE Link[e][2]],
         fed |-> {Inference}]

---------------------------------------------------------------------------
(* Properties. *)

InferenceOut(p) == Value(Inference, p, <<Raw(Inference)>>)
ChunkInput(i) == Value(Split, i, <<InferenceOut(0)>>)
ChunkProofOf(i) == Value(ChunkProver(i), 0, <<ChunkInput(i)>>)

\* The outputs that cross from one worker to another are those DistributedProving
\* takes for granted: the input of each chunk, to that chunk, and its proof back.
RoutesOfProving ==
    graph = ExecGraph =>
        net \subseteq
            {[from |-> 0, to |-> i + 1, output |-> ChunkInput(i)] : i \in Chunks}
            \cup {[from |-> i + 1, to |-> 0, output |-> ChunkProofOf(i)] : i \in Chunks}

\* When all is run there is one final proof, of every chunk in order, and the
\* ModelIO of the same inference: what extract_graph_outputs needs.
ProofAndIO ==
    graph = ExecGraph /\ AllDone =>
        results = {InferenceOut(1),
                   Value(Final, 0, [j \in 1 .. NumChunks |-> ChunkProofOf(j - 1)])}

\* No delivery order and no duplicate makes a scheduler of the prover's graph
\* refuse an output or start a partition it cannot finish.
NeverRefused == graph = ExecGraph => \A c \in Color : state[c] \in {"up", "failed"}
===========================================================================
