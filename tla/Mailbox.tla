------------------------------ MODULE Mailbox ------------------------------
(***************************************************************************)
(* What a Network promises to the key-value store (client/network.h): each *)
(* node has one inbox; what is sent to it is received once, whole and in   *)
(* the order it was sent.                                                  *)
(***************************************************************************)
EXTENDS Sequences

CONSTANTS Nodes, Messages

VARIABLES
  inbox,     \* node |-> what was sent to it and not received, oldest first
  received   \* node |-> what it has received, oldest first

vars == <<inbox, received>>

Init ==
  /\ inbox = [n \in Nodes |-> <<>>]
  /\ received = [n \in Nodes |-> <<>>]

Send(n, m) ==
  /\ inbox' = [inbox EXCEPT ![n] = Append(@, m)]
  /\ UNCHANGED received

Receive(n) ==
  /\ inbox[n] # <<>>
  /\ received' = [received EXCEPT ![n] = Append(@, Head(inbox[n]))]
  /\ inbox' = [inbox EXCEPT ![n] = Tail(@)]

Next == \E n \in Nodes : Receive(n) \/ \E m \in Messages : Send(n, m)

Spec == Init /\ [][Next]_vars

=============================================================================
