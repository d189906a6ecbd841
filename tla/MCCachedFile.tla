---------------------------- MODULE MCCachedFile ----------------------------
(* Small instances of CachedFile: the header and two chunks collide in a   *)
(* table of four buckets, and two of the three in one of eight.            *)
EXTENDS CachedFile

CONSTANTS d1, d2, none, m1

MCHash == (-1 :> 5) @@ (0 :> 1) @@ (1 :> 9) @@ (2 :> 2)

MCSymmetry == Permutations(Data)

=============================================================================
