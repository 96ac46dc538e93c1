------------------------------- MODULE MCApps -------------------------------
(***************************************************************************)
(* Apps with the lengths of the frames that each application may write.    *)
(***************************************************************************)
EXTENDS Apps

\* In chunks of two rows: arrays of one, two or three chunks and a last one that
\* is partial or empty; input files of two chunks.
MCInputRows == [a \in Apps |-> IF a = "demo" THEN {2, 3, 6} ELSE {3}]

\* Words and counts in two chunks, so that one node has none of them; sets that are
\* empty or fill a chunk.
MCOutputRows == [a \in Apps |-> IF a = "wc" THEN {3} ELSE {0, 2}]

\* The shortest frames, for the counterexample.
OneRow == [a \in Apps |-> {1}]

=============================================================================
