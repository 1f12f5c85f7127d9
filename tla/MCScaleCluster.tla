--------------------------- MODULE MCScaleCluster ---------------------------
(***************************************************************************)
(* Small instances of ScaleCluster for TLC.                                *)
(***************************************************************************)
EXTENDS ScaleCluster, TLC

CONSTANTS p1, p2, a, b, none

\* One operator does anything by flags, another edits pools.
OneOfEach == (p1 :> {"scale", "add", "delete"}) @@ (p2 :> {"add", "delete"})

Symmetric == Permutations(PoolNames \ {Unnamed})
=============================================================================
