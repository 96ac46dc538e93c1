-------------------------------- MODULE Table --------------------------------
(***************************************************************************)
(* What a data frame promises to the one who uses it: a sequence of rows   *)
(* whose cells have a value or none, and a row in hand that is filled,     *)
(* appended and read back.                                                 *)
(***************************************************************************)
EXTENDS Sequences, Naturals

CONSTANTS
  Columns,
  Vals,    \* column |-> the values its cells may have
  None     \* no value

VARIABLES
  table,   \* the rows, each column |-> value or None
  hand     \* the row in hand

vars == <<table, hand>>

Init == table = <<>> /\ hand = [c \in Columns |-> None]

Write(c, v) == hand' = [hand EXCEPT ![c] = v] /\ UNCHANGED table
AppendHand == table' = Append(table, hand) /\ UNCHANGED hand
Look(i) == hand' = table[i] /\ UNCHANGED table
Replace(c, i, v) == table' = [table EXCEPT ![i][c] = v] /\ UNCHANGED hand

\* The rows at the positions in S, in order.
Keep(S) ==
  LET kept[i \in 0 .. Len(table)] ==
        IF i = 0 THEN <<>>
        ELSE IF i \in S THEN Append(kept[i - 1], table[i]) ELSE kept[i - 1]
  IN  table' = kept[Len(table)] /\ UNCHANGED hand

Next ==
  \/ \E c \in Columns : \E v \in Vals[c] \cup {None} :
       Write(c, v) \/ \E i \in 1 .. Len(table) : Replace(c, i, v)
  \/ AppendHand
  \/ \E i \in 1 .. Len(table) : Look(i)
  \/ \E S \in SUBSET (1 .. Len(table)) : Keep(S)

Spec == Init /\ [][Next]_vars

=============================================================================
