---------------------------- MODULE MCLocalParts ----------------------------
(***************************************************************************)
(* LocalParts with three keys that collide in the first arrays of a map, a *)
(* frame of a number and a string, and lines of up to two fields.          *)
(***************************************************************************)
EXTENDS LocalParts, TLC

CONSTANTS k0, k1, k2

MCHash == (k0 :> 0) @@ (k1 :> 4) @@ (k2 :> 2)

MCTypes == <<"I", "S">>

Fields == {"missing", "bit", "int", "float", "text", "mixed", "numbered", "dotted"}
MCLines ==
  {<<>>} \cup {<<f>> : f \in Fields}
  \cup {<<f, g>> : f \in {"missing", "int", "mixed"}, g \in {"missing", "text"}}

=============================================================================
