--------------------------- MODULE MCRemoteStore ---------------------------
(***************************************************************************)
(* One tensor of two runs: two keys, whose local copies share a file, and  *)
(* which another process has put.                                          *)
(***************************************************************************)
EXTENDS RemoteStore

OneRunEach(k) == k
OneFile(k) == 1
BothPut(k) == IF k = CHOOSE first \in Key : TRUE THEN MaxCalls ELSE MaxCalls + 1
============================================================================
