--------------------------- MODULE MCHashDatabase ---------------------------
(* HashDatabase with small and large records and two keys in one bucket.     *)
EXTENDS HashDatabase, TLC

CONSTANTS k1, k2, k3, small, large, b1, b2

Sizes == (small :> 1) @@ (large :> 2)
Buckets == (k1 :> b1) @@ (k2 :> b1) @@ (k3 :> b2)
=============================================================================
