--------------------------- MODULE MCExecutors ---------------------------
(***************************************************************************)
(* Shapes the prover's execution graphs have (split, chunks, final: the    *)
(* diamond), and the chains, forks and joins they are made of; of one      *)
(* colour per node, of one colour (a partition, as the worker runs it) and *)
(* of two.                                                                 *)
(***************************************************************************)
EXTENDS Executors

G(E, c) ==
    LET Lower(e) == Cardinality({d \in E : d[2] = e[2] /\ d[1] < e[1]})
    IN  [edges |-> E, multi |-> {}, color |-> c,
         outs |-> [n \in Node |-> 3],
         from |-> [e \in E |-> e[2] % 2],
         to |-> [e \in E |-> Lower(e)],
         feeds |-> {<<n, 0>> : n \in {n \in Node : \A e \in E : e[2] # n}}]

OneEach == [n \in Node |-> n]
OneColor == [n \in Node |-> 0]
Alternate == [n \in Node |-> n % 2]

Diamond == {<<1, 2>>, <<1, 3>>, <<2, 4>>, <<3, 4>>}
TwoChains == {<<1, 2>>, <<3, 4>>}
Join == {<<1, 4>>, <<2, 4>>, <<3, 4>>}
Fork == {<<1, 2>>, <<1, 3>>, <<1, 4>>}

Shapes ==
    {G(E, c) : E \in {Diamond, TwoChains, Join, Fork}, c \in {OneEach, OneColor, Alternate}}

\* Two chains, the second of which waits for an input that nobody gives.
Unfed == [G(TwoChains, OneEach) EXCEPT !.feeds = {<<1, 0>>}]

ShapesAndFaults ==
    Shapes \cup {Unfed}
           \cup {[G(Fork, c) EXCEPT !.multi = {<<1, 3>>}] : c \in {OneEach, Alternate}}
           \cup {[G(TwoChains, OneEach) EXCEPT !.multi = {<<3, 4>>}]}
Small == {G(Fork, OneEach)}
==========================================================================
