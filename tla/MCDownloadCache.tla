-------------------------- MODULE MCDownloadCache --------------------------
(***************************************************************************)
(* An object that shrinks from two blocks to one, or grows the other way;  *)
(* one process calls twice, so that its second call can meet what the lock *)
(* of its first has left to the other.                                     *)
(***************************************************************************)
EXTENDS DownloadCache

CONSTANTS old, new, p, q

Sizes == old :> 2 @@ new :> 1
CallsOfBoth == p :> 2 @@ q :> 1
CallsOfOne == p :> 2
============================================================================
