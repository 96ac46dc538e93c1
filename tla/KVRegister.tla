----------------------------- MODULE KVRegister -----------------------------
(***************************************************************************)
(* What the key-value store promises to the applications: one register per *)
(* key.  There are no messages, servicers or repliers here.  A put of a    *)
(* key of another node takes effect later, in the order of the puts of its *)
(* node; a get of such a key waits until the register has a value and the  *)
(* caller's own puts of the key have taken effect.                         *)
(***************************************************************************)
EXTENDS Naturals, Sequences

CONSTANTS Nodes, Keys, Home, Values, Nil

VARIABLES
  db,       \* key |-> its value, or Nil
  pending,  \* node |-> key |-> the puts of the node that have no effect yet
  asking,   \* node |-> the key it waits for, or Nil
  answer,   \* node |-> the value sampled for it, or Nil
  got       \* node |-> the value its last get returned

vars == <<db, pending, asking, answer, got>>

Init ==
  /\ db = [k \in Keys |-> Nil]
  /\ pending = [n \in Nodes |-> [k \in Keys |-> <<>>]]
  /\ asking = [n \in Nodes |-> Nil]
  /\ answer = [n \in Nodes |-> Nil]
  /\ got = [n \in Nodes |-> Nil]

PutHere(n, k, v) ==
  /\ asking[n] = Nil
  /\ Home[k] = n
  /\ db' = [db EXCEPT ![k] = v]
  /\ UNCHANGED <<pending, asking, answer, got>>

PutElsewhere(n, k, v) ==
  /\ asking[n] = Nil
  /\ Home[k] # n
  /\ pending' = [pending EXCEPT ![n][k] = Append(@, v)]
  /\ UNCHANGED <<db, asking, answer, got>>

TakeEffect(n, k) ==
  /\ pending[n][k] # <<>>
  /\ db' = [db EXCEPT ![k] = Head(pending[n][k])]
  /\ pending' = [pending EXCEPT ![n][k] = Tail(@)]
  /\ UNCHANGED <<asking, answer, got>>

GetHere(n, k) ==
  /\ asking[n] = Nil
  /\ Home[k] = n
  /\ db[k] # Nil
  /\ got' = [got EXCEPT ![n] = db[k]]
  /\ UNCHANGED <<db, pending, asking, answer>>

Ask(n, k) ==
  /\ asking[n] = Nil
  /\ Home[k] # n
  /\ asking' = [asking EXCEPT ![n] = k]
  /\ UNCHANGED <<db, pending, answer, got>>

Sample(n) ==
  LET k == asking[n]
  IN  /\ k # Nil
      /\ answer[n] = Nil
      /\ db[k] # Nil
      /\ pending[n][k] = <<>>
      /\ answer' = [answer EXCEPT ![n] = db[k]]
      /\ UNCHANGED <<db, pending, asking, got>>

Return(n) ==
  /\ answer[n] # Nil
  /\ got' = [got EXCEPT ![n] = answer[n]]
  /\ asking' = [asking EXCEPT ![n] = Nil]
  /\ answer' = [answer EXCEPT ![n] = Nil]
  /\ UNCHANGED <<db, pending>>

Next ==
  \E n \in Nodes :
    \/ \E k \in Keys :
         \/ \E v \in Values : PutHere(n, k, v) \/ PutElsewhere(n, k, v)
         \/ TakeEffect(n, k)
         \/ GetHere(n, k)
         \/ Ask(n, k)
    \/ Sample(n)
    \/ Return(n)

Spec == Init /\ [][Next]_vars

=============================================================================
