----------------------------- MODULE LocalFrame -----------------------------
(***************************************************************************)
(* A data frame in memory (store/dataframe.h, column.h, rows.h, schema.h): *)
(* columns of values with a flag per cell that says whether it is missing, *)
(* and a row that is used again and again and keeps the values of the      *)
(* fields that were flagged.  Columns travel serialized.                   *)
(***************************************************************************)
EXTENDS Naturals, Sequences

CONSTANTS
  Types,      \* the columns' types: "S" for strings, "I" for the other three
  Numbers,    \* the values of the others, with Zero
  Strings,
  MaxRows,    \* bound: the length of a frame
  Gaps,       \* TRUE if a frame is cloned in spite of missing numbers
  Zero,       \* the dummy of a missing number
  Null        \* nullptr, the dummy of a missing string

Columns == DOMAIN Types

VARIABLES
  cols,    \* cols_: column |-> its values and flags
  height,  \* scm_->height_
  row      \* a Row: column |-> a column of one cell

vars == <<cols, height, row>>

-----------------------------------------------------------------------------
\* Columns

Dummy(t) == IF t = "S" THEN Null ELSE Zero

PushMissing(col, t) ==
  [vals |-> Append(col.vals, Dummy(t)), missing |-> Append(col.missing, TRUE)]

\* A string column takes nullptr for a missing value.
PushBack(col, t, v) ==
  IF t = "S" /\ v = Null THEN PushMissing(col, t)
  ELSE [vals |-> Append(col.vals, v), missing |-> Append(col.missing, FALSE)]

\* Mutation: nullptr is a string like others.
SetAnyString(col, t, i, v) ==
  [vals |-> [col.vals EXCEPT ![i] = v], missing |-> [col.missing EXCEPT ![i] = FALSE]]

Set(col, t, i, v) ==
  [vals |-> [col.vals EXCEPT ![i] = v],
   missing |-> [col.missing EXCEPT ![i] = t = "S" /\ v = Null]]

\* Only the flag is set.
SetMissing(col, i) == [col EXCEPT !.missing[i] = TRUE]

NoCells == [vals |-> <<>>, missing |-> <<>>]

\* clone().  Of the columns only that of strings clones what is missing.
Clone(col, t) ==
  IF t = "S" THEN
    LET copy[i \in 0 .. Len(col.vals)] ==
          IF i = 0 THEN NoCells ELSE PushBack(copy[i - 1], t, col.vals[i])
    IN  copy[Len(col.vals)]
  ELSE [col EXCEPT !.missing = [i \in DOMAIN col.vals |-> FALSE]]

\* serialize(): the size, the flags and then the values that are not missing.
Serialized(col) ==
  LET written[i \in 0 .. Len(col.vals)] ==
        IF i = 0 THEN <<>>
        ELSE IF col.missing[i] THEN written[i - 1] ELSE Append(written[i - 1], col.vals[i])
  IN  [flags |-> col.missing, values |-> written[Len(col.vals)]]

\* deserialize(): `used` values were read in front of the i-th cell.
Deserialized(wire, t) ==
  LET read[i \in 0 .. Len(wire.flags)] ==
        IF i = 0 THEN [col |-> NoCells, used |-> 0]
        ELSE LET r == read[i - 1]
             IN  IF wire.flags[i]
                 THEN [r EXCEPT !.col = PushMissing(@, t)]
                 ELSE [col |-> [vals |-> Append(r.col.vals, wire.values[r.used + 1]),
                                missing |-> Append(r.col.missing, FALSE)],
                       used |-> r.used + 1]
  IN  read[Len(wire.flags)].col

-----------------------------------------------------------------------------
\* Rows

NewRow == [c \in Columns |-> PushMissing(NoCells, Types[c])]

Init ==
  /\ cols = [c \in Columns |-> NoCells]
  /\ height = 0
  /\ row = NewRow

\* Mutation: fill_row() does not look whether a cell is missing.
FillRowBlindly(r, i) ==
  [c \in Columns |-> Set(r[c], Types[c], 1, cols[c].vals[i])]

\* Row i of the frame into the row r.
FillRow(r, i) ==
  [c \in Columns |-> IF cols[c].missing[i] THEN SetMissing(r[c], 1)
                     ELSE Set(r[c], Types[c], 1, cols[c].vals[i])]

\* The row r behind the columns cs.
AddRow(cs, r) ==
  [c \in Columns |-> IF r[c].missing[1] THEN PushMissing(cs[c], Types[c])
                     ELSE PushBack(cs[c], Types[c], r[c].vals[1])]

Takes(c) == IF Types[c] = "S" THEN Strings \cup {Null} ELSE Numbers

-----------------------------------------------------------------------------
\* Operations

SetField(c, v) ==
  /\ row' = [row EXCEPT ![c] = Set(@, Types[c], 1, v)]
  /\ UNCHANGED <<cols, height>>

SetFieldMissing(c) ==
  /\ row' = [row EXCEPT ![c] = SetMissing(@, 1)]
  /\ UNCHANGED <<cols, height>>

DfAddRow ==
  /\ height < MaxRows
  /\ cols' = AddRow(cols, row)
  /\ height' = height + 1
  /\ UNCHANGED row

DfFillRow(i) ==
  /\ row' = FillRow(row, i)
  /\ UNCHANGED <<cols, height>>

DfSet(c, i, v) ==
  /\ cols' = [cols EXCEPT ![c] = Set(@, Types[c], i, v)]
  /\ UNCHANGED <<height, row>>

\* The rower accepts the rows in S.  One row serves for all of them.
Filter(S) ==
  LET kept[i \in 0 .. height] ==
        IF i = 0 THEN [row |-> NewRow, cols |-> [c \in Columns |-> NoCells], height |-> 0]
        ELSE LET k == kept[i - 1]
                 r == FillRow(k.row, i)
             IN  IF i \in S
                 THEN [row |-> r, cols |-> AddRow(k.cols, r), height |-> k.height + 1]
                 ELSE [k EXCEPT !.row = r]
  IN  /\ cols' = kept[height].cols
      /\ height' = kept[height].height
      /\ UNCHANGED row

\* Every column is sent to another node or stored and fetched.
Transfer ==
  /\ cols' = [c \in Columns |-> Deserialized(Serialized(cols[c]), Types[c])]
  /\ UNCHANGED <<height, row>>

\* clone() and add_column(): the rows are those of the first column.
DfClone ==
  /\ Gaps \/ \A c \in Columns, i \in 1 .. height : cols[c].missing[i] => Types[c] = "S"
  /\ cols' = [c \in Columns |-> Clone(cols[c], Types[c])]
  /\ height' = Len(cols[1].vals)
  /\ UNCHANGED row

Next ==
  \/ \E c \in Columns : \E v \in Takes(c) :
       SetField(c, v) \/ \E i \in 1 .. height : DfSet(c, i, v)
  \/ \E c \in Columns : SetFieldMissing(c)
  \/ DfAddRow
  \/ \E i \in 1 .. height : DfFillRow(i)
  \/ \E S \in SUBSET (1 .. height) : Filter(S)
  \/ Transfer
  \/ DfClone

Spec == Init /\ [][Next]_vars

-----------------------------------------------------------------------------
Cell(col, i) == IF col.missing[i] THEN Null ELSE col.vals[i]

T == INSTANCE Table WITH
  Vals <- [c \in Columns |-> IF Types[c] = "S" THEN Strings ELSE Numbers],
  None <- Null,
  table <- [i \in 1 .. height |-> [c \in Columns |-> Cell(cols[c], i)]],
  hand <- [c \in Columns |-> Cell(row[c], 1)]

\* Each operation is that of a table, and what is sent or cloned stays what it was:
\* every value and every gap is kept, though the row in hand keeps what it had before.
EachOperation ==
  /\ \A c \in Columns : \A v \in Takes(c) :
       /\ SetField(c, v) => T!Write(c, v)
       /\ \A i \in 1 .. height : DfSet(c, i, v) => T!Replace(c, i, v)
  /\ \A c \in Columns : SetFieldMissing(c) => T!Write(c, Null)
  /\ DfAddRow => T!AppendHand
  /\ \A i \in 1 .. height : DfFillRow(i) => T!Look(i)
  /\ \A S \in SUBSET (1 .. height) : Filter(S) => T!Keep(S)
  /\ Transfer \/ DfClone => UNCHANGED T!vars

ImplementsTable == T!Spec /\ [][EachOperation]_vars

\* A string that is cloned or serialized is there: nullptr is always flagged, in the
\* columns and in the row.
NullIsFlagged ==
  \A c \in Columns : \A col \in {cols[c], row[c]} :
    \A i \in DOMAIN col.vals : col.vals[i] = Null => col.missing[i]

=============================================================================
