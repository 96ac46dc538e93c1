----------------------------- MODULE LineReader -----------------------------
(***************************************************************************)
(* The LineReader of the SOR parser (store/parser.h): it returns the lines *)
(* of a file, or of the part of a file from one byte to another, one by    *)
(* one, and reads the file in buffers of a fixed size.  The parser reads   *)
(* the first lines, resets the reader and reads from the start again.      *)
(*                                                                         *)
(* A byte is its place in the file, from 1 on.                             *)
(***************************************************************************)
EXTENDS Naturals, Sequences, FiniteSetsExt

CONSTANTS
  BufSize,  \* the size of _buf
  MaxFile,  \* bound: how long the file is
  Resets,   \* bound: how often the reader is reset
  Parts,    \* TRUE if the reader may be given a part of the file
  Nil       \* nullptr

VARIABLES
  length, newlines,  \* _file_size, and which bytes of the file are newlines
  first, last,       \* _file_start and _file_end
  buf, pos,          \* the bytes in _buf, and _pos
  readSize,          \* _read_size
  eof,               \* feof(_file)
  line,              \* _current_line
  skip,              \* skip_line of the call of read_line() that runs
  pc,                \* "out" of read_line(), "in" it, or "over" when it returned nullptr
  lines,             \* the lines it has returned since it was set to the start
  resets

fileVars == <<length, newlines, first, last>>
vars == <<fileVars, buf, pos, readSize, eof, line, skip, pc, lines, resets>>

Init ==
  /\ length \in 0 .. MaxFile
  /\ newlines \in SUBSET (1 .. length)
  /\ first \in IF Parts THEN 0 .. length ELSE {0}
  /\ last \in IF Parts THEN first .. length ELSE {length}
  /\ buf = <<>> /\ pos = 0
  /\ readSize = 0
  /\ eof = FALSE
  /\ line = Nil
  /\ skip = FALSE
  /\ pc = "out"
  /\ lines = <<>>
  /\ resets = 0

-----------------------------------------------------------------------------
Interval(a, b) == [k \in 1 .. b - a |-> a + k]

\* _append_current_line()
AppendCurrentLine(bytes) == IF line = Nil THEN bytes ELSE line \o bytes

Return(l) ==
  /\ lines' = IF l = Nil THEN lines ELSE Append(lines, l)
  /\ line' = Nil
  /\ pc' = IF l = Nil THEN "over" ELSE "out"

\* The call of read_line().
ReadLine ==
  /\ pc = "out"
  /\ skip' = (readSize = 0 /\ first # 0)
  /\ pc' = "in"
  /\ UNCHANGED <<fileVars, buf, pos, readSize, eof, line, lines, resets>>

\* Mutation: a reader that has read all goes on.
FileIsOverLate == readSize > last - first \/ eof

FileIsOver == readSize >= last - first \/ eof

\* The buffer is used up and there is nothing more to read.
ReturnRest ==
  /\ pc = "in"
  /\ pos >= Len(buf)
  /\ FileIsOver
  /\ Return(IF last # length THEN Nil ELSE line)
  /\ UNCHANGED <<fileVars, buf, pos, readSize, eof, skip, resets>>

\* How much is asked for: whatever was read before, a whole buffer if the part is
\* as long as that.
ToRead == IF first + BufSize > last THEN last - first ELSE BufSize

Refill ==
  LET at == first + readSize
      n == Min({ToRead, length - at})
  IN  /\ pc = "in"
      /\ pos >= Len(buf)
      /\ ~FileIsOver
      /\ buf' = Interval(at, at + n)
      /\ readSize' = readSize + n
      /\ eof' = (n < ToRead)
      /\ pos' = 0
      /\ UNCHANGED <<fileVars, line, skip, pc, lines, resets>>

\* Where the newlines are that were not looked at.
NewlinesAhead == {k \in pos + 1 .. Len(buf) : buf[k] \in newlines}

\* The first line of a part is thrown away, from its newline on the search goes on
\* as before.
SkipLine ==
  /\ pc = "in"
  /\ skip
  /\ NewlinesAhead # {}
  /\ skip' = FALSE
  /\ LET k == Min(NewlinesAhead)
         more == NewlinesAhead \ {k}
     IN  IF more # {}
           THEN /\ Return(SubSeq(buf, k + 1, Min(more) - 1))
                /\ pos' = Min(more)
           ELSE /\ line' = SubSeq(buf, k + 1, Len(buf))
                /\ pos' = Len(buf)
                /\ UNCHANGED <<lines, pc>>
  /\ UNCHANGED <<fileVars, buf, readSize, eof, resets>>

FindNewline ==
  /\ pc = "in"
  /\ ~skip
  /\ NewlinesAhead # {}
  /\ LET k == Min(NewlinesAhead)
     IN  /\ Return(AppendCurrentLine(SubSeq(buf, pos + 1, k - 1)))
         /\ pos' = k
  /\ UNCHANGED <<fileVars, buf, readSize, eof, skip, resets>>

FindNone ==
  /\ pc = "in"
  /\ pos < Len(buf)
  /\ NewlinesAhead = {}
  /\ line' = AppendCurrentLine(SubSeq(buf, pos + 1, Len(buf)))
  /\ pos' = Len(buf)
  /\ UNCHANGED <<fileVars, buf, readSize, eof, skip, pc, lines, resets>>

\* Mutation: reset() leaves what is in the buffer.
ResetKeepsBuffer ==
  /\ pc # "in"
  /\ resets < Resets
  /\ resets' = resets + 1
  /\ readSize' = 0
  /\ eof' = FALSE
  /\ line' = Nil
  /\ pc' = "out"
  /\ lines' = <<>>
  /\ UNCHANGED <<fileVars, buf, pos, skip>>

Reset ==
  /\ pc # "in"
  /\ resets < Resets
  /\ resets' = resets + 1
  /\ buf' = <<>> /\ pos' = 0
  /\ readSize' = 0
  /\ eof' = FALSE
  /\ line' = Nil
  /\ pc' = "out"
  /\ lines' = <<>>
  /\ UNCHANGED <<fileVars, skip>>

Step == ReadLine \/ ReturnRest \/ Refill \/ SkipLine \/ FindNewline \/ FindNone

Next == Step \/ Reset

\* The parser reads on until there are no more lines.
Spec == Init /\ [][Next]_vars /\ WF_vars(Step)

-----------------------------------------------------------------------------
\* The definition: the bytes of the part are cut at the newlines, and without what
\* may be only part of a line at its start and end.
Starts == {first} \cup {k \in newlines : first < k /\ k < last}
LineFrom(a) ==
  LET ends == {k \in newlines : a < k /\ k <= last}
  IN  Interval(a, IF ends = {} THEN last ELSE Min(ends) - 1)
Complete(a) ==
  /\ a = first => first = 0
  /\ last = length \/ \E k \in newlines : a < k /\ k <= last
\* The lines of the part that start before the byte p + 1.
LinesTo(p) ==
  LET to[q \in 0 .. last] ==
        IF q = 0 THEN <<>>
        ELSE IF q - 1 \in Starts /\ Complete(q - 1) THEN Append(to[q - 1], LineFrom(q - 1))
        ELSE to[q - 1]
  IN  to[p]
LinesOfPart == LinesTo(last)

\* A reader of the whole file, or of a part in which a line ends before its end,
\* and that is the end of the file or the end of a buffer.
Orderly ==
  /\ first # 0 => \E k \in newlines : first < k /\ k < last
  /\ last # length => last - first <= BufSize \/ (last - first) % BufSize = 0

\* However the lines lie across the ends of the buffers, read_line() returns each
\* line once, whole and in order, and again from the first on after a reset.
LinesInTurn ==
  Orderly => /\ \E p \in 0 .. last : lines = LinesTo(p)
             /\ pc = "over" => lines = LinesOfPart

\* It comes to the end of the file.
AllLinesRead == <>(pc = "over")

=============================================================================
