----------------------------- MODULE TextLines -----------------------------
(* read_text_line, by which the lists of boot plugins and of blocked       *)
(* homebrew are read, and the loop of load_boot_plugins that calls it: a   *)
(* line at a time, a byte at a time.                                       *)
EXTENDS Naturals, Sequences, FiniteSets

CONSTANTS
  TextLength,    \* bound: bytes of a file
  LineSize,      \* size of the buffer of a line, with its end
  MaxTaken       \* bound: lines taken (load_boot_plugins counts those it could load)

ASSUME TextAssumption == TextLength \in Nat /\ LineSize \in Nat \ {0} /\ MaxTaken \in Nat

\* Bytes: of a word, above the space; a space or what is below it; the end of a line.
Byte == {"a", "b", "space", "newline"}
Texts == UNION {[1 .. n -> Byte] : n \in 0 .. TextLength}

VARIABLES
  text,          \* the file
  bytesRead,     \* bytes read
  line,          \* line, so far
  eof,           \* eof
  reading,       \* in read_text_line
  taken          \* the lines that came back and are not empty

textVars == <<text, bytesRead, line, eof, reading, taken>>

TextInit ==
  /\ text \in Texts
  /\ bytesRead = 0 /\ line = <<>> /\ eof = FALSE /\ reading = FALSE /\ taken = <<>>

BeginLine ==
  /\ ~reading /\ ~eof /\ Len(taken) < MaxTaken
  /\ reading' = TRUE /\ line' = <<>>
  /\ UNCHANGED <<text, bytesRead, eof, taken>>

\* Mutant: spaces before a line are not left out.
StartsWithSpace(ch) == ch # "newline"

\* What a line begins with.
Starts(ch) == ch \notin {"space", "newline"}

\* Spaces at the end are cut off.
Trimmed(s) ==
  LET words == {i \in DOMAIN s : s[i] # "space"}
      last == IF words = {} THEN 0 ELSE CHOOSE i \in words : \A j \in words : j <= i
  IN  SubSeq(s, 1, last)

ReturnLine(s) ==
  /\ reading' = FALSE /\ line' = <<>>
  /\ taken' = IF Trimmed(s) = <<>> THEN taken ELSE Append(taken, Trimmed(s))

\* One turn of the loop: the buffer is full, nothing is left to read, or a byte.
ReadByte ==
  /\ reading
  /\ IF Len(line) >= LineSize - 1 THEN ReturnLine(line) /\ UNCHANGED <<bytesRead, eof>>
     ELSE IF bytesRead = Len(text) THEN ReturnLine(line) /\ eof' = TRUE /\ UNCHANGED bytesRead
     ELSE LET ch == text[bytesRead + 1] IN
          /\ bytesRead' = bytesRead + 1 /\ UNCHANGED eof
          /\ \/ /\ line = <<>> /\ line' = IF Starts(ch) THEN <<ch>> ELSE <<>>
                /\ UNCHANGED <<reading, taken>>
             \/ line # <<>> /\ ch = "newline" /\ ReturnLine(line)
             \/ /\ line # <<>> /\ ch # "newline" /\ line' = Append(line, ch)
                /\ UNCHANGED <<reading, taken>>
  /\ UNCHANGED text

\* At the end, or when enough was taken, the file is closed; it is read again later.
CloseList ==
  /\ ~reading /\ (eof \/ Len(taken) = MaxTaken)
  /\ bytesRead' = 0 /\ eof' = FALSE /\ taken' = <<>>
  /\ UNCHANGED <<text, line, reading>>

TextNext == BeginLine \/ ReadByte \/ CloseList
TextSpec == TextInit /\ [][TextNext]_textVars

-----------------------------------------------------------------------------
\* Reference: the lines of a file are what is between its line ends, without the
\* spaces around; the empty ones do not count.
Ends == {0, Len(text) + 1} \cup {i \in DOMAIN text : text[i] = "newline"}
Between(i, j) ==
  LET words == {k \in i + 1 .. j - 1 : text[k] # "space"}
  IN  IF words = {} THEN <<>>
      ELSE SubSeq(text, CHOOSE k \in words : \A l \in words : k <= l,
                        CHOOSE k \in words : \A l \in words : l <= k)
NextEnd(i) == CHOOSE j \in Ends : j > i /\ \A k \in Ends : k > i => j <= k
LineStarts ==
  {i \in Ends \ {Len(text) + 1} : Between(i, NextEnd(i)) # <<>>}
Written ==
  [n \in 1 .. Cardinality(LineStarts) |->
     LET i == CHOOSE s \in LineStarts : Cardinality({q \in LineStarts : q <= s}) = n
     IN  Between(i, NextEnd(i))]

FitsBuffer ==
  \A i \in LineStarts :
    LET first == CHOOSE k \in i + 1 .. NextEnd(i) - 1 :
                   text[k] # "space" /\ \A l \in i + 1 .. k - 1 : text[l] = "space"
    IN  NextEnd(i) - first <= LineSize - 1

\* The list that is read is the list that was written, in order and as far as it was
\* read, with no line lost or empty, if every line fits the buffer with the spaces
\* behind it (modulespatch.c 1228-1281).
ListIsAsWritten ==
  FitsBuffer =>
    /\ Len(taken) <= Len(Written) /\ taken = SubSeq(Written, 1, Len(taken))
    /\ eof /\ ~reading => taken = Written

\* By hand, without FitsBuffer: not so, a longer line comes back as two.
AnyListIsAsWritten == eof /\ ~reading => taken = Written
=============================================================================
