----------------------------- MODULE MCHashMap -----------------------------
(***************************************************************************)
(* HashMap with three keys that share a bucket of the first array; two of  *)
(* them do in the second as well.                                          *)
(***************************************************************************)
EXTENDS HashMap, TLC

CONSTANTS k0, k1, k2

MCHash == (k0 :> 0) @@ (k1 :> 4) @@ (k2 :> 2)

=============================================================================
