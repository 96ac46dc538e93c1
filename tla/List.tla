-------------------------------- MODULE List --------------------------------
(***************************************************************************)
(* What an array or a queue is to those who use it: a sequence.  The       *)
(* values are numbered in the order in which they come.                    *)
(***************************************************************************)
EXTENDS Naturals, SequencesExt

CONSTANTS
  Lengths,  \* how many values one operation may add
  None

VARIABLES
  list,     \* the elements; index i of the code is list[i + 1]
  out,      \* what the last operation has returned, or None
  fresh     \* the next value

vars == <<list, out, fresh>>

Init == list = <<>> /\ out = None /\ fresh = 1

\* The next n values from index i on, and behind them what was there.
Insert(i, n) ==
  /\ list' = SubSeq(list, 1, i) \o [j \in 1 .. n |-> fresh + j - 1]
               \o SubSeq(list, i + 1, Len(list))
  /\ out' = None
  /\ fresh' = fresh + n

Delete(i) ==
  /\ list' = RemoveAt(list, i + 1)
  /\ out' = list[i + 1]
  /\ UNCHANGED fresh

Replace(i) ==
  /\ list' = [list EXCEPT ![i + 1] = fresh]
  /\ out' = list[i + 1]
  /\ fresh' = fresh + 1

Erase == list' = <<>> /\ out' = None /\ UNCHANGED fresh

Next ==
  \/ \E i \in 0 .. Len(list), n \in Lengths : Insert(i, n)
  \/ \E i \in 0 .. Len(list) - 1 : Delete(i) \/ Replace(i)
  \/ Erase

Spec == Init /\ [][Next]_vars

=============================================================================
