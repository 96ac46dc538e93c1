----------------------------- MODULE Dictionary -----------------------------
(***************************************************************************)
(* What a map promises: a function from some of the keys to values, whose  *)
(* operations take effect at once.                                         *)
(***************************************************************************)
CONSTANTS
  Keys,
  Values,
  Nil       \* no value

VARIABLE dict   \* key |-> its value, or Nil

Init == dict = [k \in Keys |-> Nil]

Put(k, v) == dict' = [dict EXCEPT ![k] = v]
Remove(k) == dict[k] # Nil /\ dict' = [dict EXCEPT ![k] = Nil]

Next == \E k \in Keys : Remove(k) \/ \E v \in Values : Put(k, v)

Spec == Init /\ [][Next]_dict

=============================================================================
