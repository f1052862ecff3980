--------------------------- MODULE MCInferenceRun ---------------------------
(* A model with a skip connection: the input feeds both layers, the second *)
(* layer reads the first one's output on two ports, and both outputs are   *)
(* outputs of the model.  The first layer keeps proving data.              *)
EXTENDS InferenceRun

CONSTANTS x, y, z, p

Link(k, n, port) == [tensor |-> k, to |-> n, port |-> port]

Inputs == <<x>>
Produced == <<<<y>>, <<z>>>>
Kept == <<<<p>>, <<>>>>
Links == {Link(x, 1, 0), Link(x, 2, 0), Link(y, 2, 1), Link(y, 2, 2),
          Link(y, 0, 0), Link(z, 0, 1)}
=============================================================================
