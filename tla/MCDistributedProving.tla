----------------------- MODULE MCDistributedProving -----------------------
(***************************************************************************)
(* The values of proving.cfg: a model of two chunks, which two workers     *)
(* prove from the one trace inference may produce.  The workers are alike, *)
(* but JobsEnd is a liveness property and so no symmetry is declared.      *)
(***************************************************************************)
EXTENDS DistributedProving
===========================================================================
