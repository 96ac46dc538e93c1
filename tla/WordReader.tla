----------------------------- MODULE WordReader -----------------------------
(***************************************************************************)
(* The FileReader of the word count (apps/wordcount.h): it hands out the   *)
(* words of a file one by one and keeps a part of the file in a buffer.    *)
(* When the buffer ends within a word, the word is moved to its front and  *)
(* the rest of the buffer is filled up.                                    *)
(*                                                                         *)
(* A character is its place in the file, from 1 on.                        *)
(***************************************************************************)
EXTENDS Naturals, Sequences

CONSTANTS
  BufSize,   \* BUFSIZE
  MaxFile,   \* bound: how long the file is
  Zero,      \* the character that terminates a string
  Junk       \* a character of the buffer that nobody wrote

VARIABLES
  length,    \* how many characters the file has
  spaces,    \* which of them are whitespace
  pos,       \* how many of them have been read
  eof,       \* feof(file_)
  buf, end,  \* buf_ and end_; buf_[k] is buf[k]
  i,         \* i_
  wStart,    \* where the word that accept() reads begins
  pc,        \* "skip" whitespace, "ready" for accept(), in a "word",
             \* about to "take" it, or "broken"
  words      \* the words that were handed out

vars == <<length, spaces, pos, eof, buf, end, i, wStart, pc, words>>

\* A file of n characters with a word, and with words and gaps that fit into the
\* buffer.
Legible(n, ss) ==
  /\ 1 .. n \ ss # {}
  /\ \A k \in 0 .. n - BufSize :
       LET window == k + 1 .. k + BufSize IN window \cap ss \notin {{}, window}

\* The fillBuffer_() of the constructor is the first one of Skip: the file is not
\* empty.
Init ==
  /\ length \in 0 .. MaxFile
  /\ spaces \in {ss \in SUBSET (1 .. length) : Legible(length, ss)}
  /\ pos = 0
  /\ eof = FALSE
  /\ buf = [k \in 0 .. BufSize |-> Junk]
  /\ end = 0
  /\ i = 0
  /\ wStart = 0
  /\ pc = "skip"
  /\ words = <<>>

-----------------------------------------------------------------------------
InBuffer(k) == k \in DOMAIN buf

\* isspace(), of an unwritten character either.
IsSpace(c) == {b \in BOOLEAN : c # Junk => (b <=> c \in spaces)}

\* Mutation: what is left in the buffer is not moved to its front.
FillBufferInPlace(from) ==
  LET kept == end - from
      n == IF BufSize - kept < length - pos THEN BufSize - kept ELSE length - pos
  IN  /\ buf' = [k \in DOMAIN buf |->
                   IF k \in kept .. kept + n - 1 THEN pos + k - kept + 1 ELSE buf[k]]
      /\ end' = kept + n
      /\ pos' = pos + n
      /\ eof' = (eof \/ n < BufSize - kept)

\* fillBuffer_() with i_ = from: compact, then read.  memcpy() is taken to copy what
\* overlaps as well.  The end of the file is noticed only by a read that gets less
\* than it asks for.
FillBuffer(from) ==
  LET kept == end - from
      n == IF BufSize - kept < length - pos THEN BufSize - kept ELSE length - pos
  IN  /\ buf' = [k \in DOMAIN buf |->
                   IF k < kept THEN buf[from + k]
                   ELSE IF k < kept + n THEN pos + k - kept + 1
                   ELSE buf[k]]
      /\ end' = kept + n
      /\ pos' = pos + n
      /\ eof' = (eof \/ n < BufSize - kept)

NoFill == UNCHANGED <<buf, end, pos, eof>>

\* A character behind the buffer is looked at: anything may happen.
Break == pc' = "broken" /\ UNCHANGED <<length, spaces, pos, eof, buf, end, i, wStart, words>>

-----------------------------------------------------------------------------
\* skipWhitespace_()

SkipEnds ==
  /\ pc = "skip"
  /\ i = end /\ eof
  /\ pc' = "ready"
  /\ UNCHANGED <<length, spaces, pos, eof, buf, end, i, wStart, words>>

\* One turn of its loop.
Skip ==
  /\ pc = "skip"
  /\ ~(i = end /\ eof)
  /\ IF ~InBuffer(i) THEN Break
     ELSE /\ IF i = end THEN FillBuffer(i) ELSE NoFill
          /\ LET at == IF i = end THEN 0 ELSE i
             IN  \/ TRUE \in IsSpace(buf'[at]) /\ i' = at + 1 /\ pc' = pc
                 \/ FALSE \in IsSpace(buf'[at]) /\ i' = at /\ pc' = "ready"
          /\ UNCHANGED <<length, spaces, wStart, words>>

-----------------------------------------------------------------------------
\* accept().  done() is asked first.

\* Mutation: what is left of an older buffer is not taken for the end.
DoneOnlyAtEnd == i = end /\ eof

Done == i >= end /\ eof

\* It asserts that it is at a word.
Begin ==
  /\ pc = "ready"
  /\ ~Done
  /\ pc' = IF i < end /\ FALSE \in IsSpace(buf[i]) THEN "word" ELSE "broken"
  /\ wStart' = i
  /\ UNCHANGED <<length, spaces, pos, eof, buf, end, i, words>>

\* One turn of its loop, within a word.
NeedsFill == i = end /\ ~eof

Read ==
  /\ pc = "word"
  /\ ~(i = end /\ eof)
  /\ IF ~InBuffer(i) THEN Break
     ELSE /\ IF NeedsFill THEN FillBuffer(wStart) /\ wStart' = 0
                          ELSE NoFill /\ UNCHANGED wStart
          /\ LET at == IF NeedsFill THEN end - wStart ELSE i
             IN  \/ TRUE \in IsSpace(buf'[at]) /\ i' = at /\ pc' = "take"
                 \/ FALSE \in IsSpace(buf'[at]) /\ i' = at + 1 /\ pc' = pc
          /\ UNCHANGED <<length, spaces, words>>

\* The file ends within the word.
ReadEnds ==
  /\ pc = "word"
  /\ i = end /\ eof
  /\ i' = i + 1
  /\ pc' = "take"
  /\ UNCHANGED <<length, spaces, pos, eof, buf, end, wStart, words>>

Take ==
  /\ pc = "take"
  /\ IF ~InBuffer(i) THEN Break
     ELSE /\ buf' = [buf EXCEPT ![i] = Zero]
          /\ words' = Append(words, [k \in 1 .. i - wStart |-> buf[wStart + k - 1]])
          /\ i' = i + 1
          /\ pc' = "skip"
          /\ UNCHANGED <<length, spaces, pos, eof, end, wStart>>

Next == SkipEnds \/ Skip \/ Begin \/ Read \/ ReadEnds \/ Take

\* The word count reads on until there are no more words.
Spec == Init /\ [][Next]_vars /\ WF_vars(Next)

-----------------------------------------------------------------------------
\* The definition: from every character that begins a word to the last one of it.
Letters == (1 .. length) \ spaces
Begins == {k \in Letters : k - 1 \notin Letters}
WordAt(k) ==
  LET last == CHOOSE e \in Letters : k <= e /\ k .. e \subseteq Letters /\ e + 1 \notin Letters
  IN  [j \in 1 .. last - k + 1 |-> k + j - 1]
\* The words that begin with one of the first p characters.
WordsTo(p) ==
  LET to[q \in 0 .. length] ==
        IF q = 0 THEN <<>>
        ELSE IF q \in Begins THEN Append(to[q - 1], WordAt(q))
        ELSE to[q - 1]
  IN  to[p]
WordsOfFile == WordsTo(length)

\* However the words lie across the ends of the buffer, the reader hands out those
\* of the file, whole and in order, but for one that ends only with the file; of a
\* file that ends with whitespace it hands out all before it is done.
EndsWithSpace == length \in spaces
WordsInTurn ==
  /\ \A k \in 1 .. Len(words) : k < Len(WordsOfFile) => words[k] = WordsOfFile[k]
  /\ EndsWithSpace => pc # "broken" /\ \E p \in 0 .. length : words = WordsTo(p)
  /\ EndsWithSpace /\ pc = "ready" /\ Done => words = WordsOfFile

\* wordcount.h:10 "Reads next word and stores it in the row", of every file.
NextWordRead == \E p \in 0 .. length : words = WordsTo(p)

\* It comes to the end of a file that ends with whitespace.
AllWordsRead == EndsWithSpace ~> (pc = "ready" /\ Done)

=============================================================================
