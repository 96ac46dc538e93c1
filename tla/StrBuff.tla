------------------------------- MODULE StrBuff -------------------------------
(***************************************************************************)
(* The string buffer that keys are built with (utils/string.h): pieces are *)
(* appended to a buffer that grows, and get() terminates it and hands it   *)
(* out.  A string is here only as long as it is.                           *)
(***************************************************************************)
EXTENDS Naturals

CONSTANTS
  MaxPiece,  \* bound: how long a piece is
  MaxSize    \* bound: how long a string gets

InitialCapacity == 10

VARIABLES
  capacity,  \* capacity_, the length of the buffer
  size,      \* size_
  written,   \* how far into the buffer the last operation wrote
  consumed   \* the string was handed out

vars == <<capacity, size, written, consumed>>

Init ==
  /\ capacity = InitialCapacity
  /\ size = 0
  /\ written = 0
  /\ consumed = FALSE

\* Mutation: the capacity is only doubled.
GrowDoubles(step) == IF step + size < capacity THEN capacity ELSE 2 * capacity

\* grow_by_()
Grow(step) ==
  IF step + size < capacity THEN capacity
  ELSE IF step + size < 2 * capacity THEN 2 * capacity
  ELSE 2 * capacity + step

\* c()
AppendPiece(step) ==
  /\ ~consumed
  /\ size + step <= MaxSize
  /\ capacity' = Grow(step)
  /\ size' = size + step
  /\ written' = size + step
  /\ UNCHANGED consumed

\* get(), with the terminator
Get ==
  /\ ~consumed
  /\ capacity' = Grow(1)
  /\ written' = size + 1
  /\ consumed' = TRUE
  /\ UNCHANGED size

Next == (\E step \in 0 .. MaxPiece : AppendPiece(step)) \/ Get

Spec == Init /\ [][Next]_vars

-----------------------------------------------------------------------------
\* Nothing is written behind the end of the buffer, whatever pieces a string is made
\* of: neither a piece that is longer than the buffer nor the terminator of a string
\* that fills it.
WritesInside == written <= capacity

=============================================================================
