------------------------------ MODULE HttpProofs ------------------------------
(***************************************************************************)
(* Proofs about the exchange of a page, for any contents of the file, any  *)
(* capacity of the streams and any way to split reads and writes.          *)
(***************************************************************************)
EXTENDS HttpExchange, SequenceTheorems, NaturalsInduction, WellFoundedInduction, TLAPS

------------------------------------------------------------------------------
(* Sequences.                                                              *)

(* A part of a sequence, element by element.                               *)
LEMMA Part ==
  ASSUME NEW S, NEW s \in Seq(S), NEW a \in Nat \ {0}, NEW b \in Nat, b <= Len(s), a <= b + 1
  PROVE  /\ SubSeq(s, a, b) \in Seq(S) /\ Len(SubSeq(s, a, b)) = b - a + 1
         /\ \A k \in 1 .. b - a + 1 : SubSeq(s, a, b)[k] = s[a + k - 1]
<1>1. CASE a <= b
  BY <1>1, SubSeqProperties
<1>2. CASE a = b + 1
  BY <1>2, SubSeqProperties
<1>3. QED
  BY <1>1, <1>2

(* What is a part of s is told by its length and its elements.             *)
LEMMA IsPart ==
  ASSUME NEW S, NEW s \in Seq(S), NEW a \in Nat \ {0}, NEW b \in Nat, b <= Len(s), a <= b + 1,
         NEW t \in Seq(S), Len(t) = b - a + 1,
         \A k \in 1 .. b - a + 1 : t[k] = s[a + k - 1]
  PROVE  t = SubSeq(s, a, b)
<1>1. /\ SubSeq(s, a, b) \in Seq(S) /\ Len(SubSeq(s, a, b)) = b - a + 1
      /\ \A k \in 1 .. b - a + 1 : SubSeq(s, a, b)[k] = s[a + k - 1]
  BY Part
<1>2. QED
  BY <1>1, SeqEqual

(* A part grows at its end by what comes next.                             *)
LEMMA PartGrows ==
  ASSUME NEW S, NEW s \in Seq(S), NEW a \in Nat \ {0}, NEW b \in Nat, b < Len(s), a <= b + 1
  PROVE  Append(SubSeq(s, a, b), s[b + 1]) = SubSeq(s, a, b + 1)
<1> DEFINE t == SubSeq(s, a, b)
           u == Append(t, s[b + 1])
<1>1. /\ t \in Seq(S) /\ Len(t) = b - a + 1
      /\ \A k \in 1 .. b - a + 1 : t[k] = s[a + k - 1]
  BY Part
<1>2. s[b + 1] \in S /\ b + 1 <= Len(s)
  BY ElementOfSeq
<1>3. /\ u \in Seq(S) /\ Len(u) = b - a + 2
      /\ \A k \in 1 .. b - a + 1 : u[k] = t[k]
      /\ u[b - a + 2] = s[b + 1]
  <2> HIDE DEF t
  <2>1. /\ u \in Seq(S) /\ Len(u) = Len(t) + 1
        /\ \A k \in 1 .. Len(t) : u[k] = t[k]
        /\ u[Len(t) + 1] = s[b + 1]
    BY <1>1, <1>2, AppendProperties
  <2>2. QED
    BY <1>1, <2>1
<1>4. \A k \in 1 .. (b + 1) - a + 1 : u[k] = s[a + k - 1]
  BY <1>1, <1>3
<1>5. QED
  <2> HIDE DEF u
  <2>1. Len(u) = (b + 1) - a + 1 /\ b + 1 \in Nat /\ a <= (b + 1) + 1
    BY <1>3
  <2>2. QED
    BY <1>2, <1>3, <1>4, <2>1, IsPart

(* A part loses its first element.                                         *)
LEMMA PartShrinks ==
  ASSUME NEW S, NEW s \in Seq(S), NEW a \in Nat \ {0}, NEW b \in Nat, b <= Len(s), a <= b
  PROVE  /\ SubSeq(s, a, b) # <<>> /\ Head(SubSeq(s, a, b)) = s[a]
         /\ Tail(SubSeq(s, a, b)) = SubSeq(s, a + 1, b)
<1>1. SubSeq(s, a, b) \in Seq(S) /\ Len(SubSeq(s, a, b)) # 0
  BY Part
<1>2. a \in 1 .. Len(s) /\ b \in a .. Len(s)
  OBVIOUS
<1>3. QED
  BY <1>1, <1>2, HeadTailOfSubSeq

------------------------------------------------------------------------------
(* A reader of lines.                                                      *)

\* Bytes whose lines end at `ends', up to the n-th of these: what is left of a
\* line without its CR and LF has neither of them nor a NUL.
FramedTo(bytes, ends, n) ==
  \A m \in 1 .. n - 1 :
    /\ ends[m] + 2 <= ends[m + 1] /\ ends[m + 1] <= Len(bytes)
    /\ bytes[ends[m + 1] - 1] = "CR" /\ bytes[ends[m + 1]] = "LF"
    /\ \A k \in ends[m] + 1 .. ends[m + 1] - 2 : bytes[k] \notin {"CR", "LF", "NUL"}

Framed(bytes, ends) ==
  /\ bytes \in Seq(Bytes) /\ ends \in Seq(Nat) /\ ends # <<>>
  /\ FramedTo(bytes, ends, Len(ends))

LEMMA TextOfLine ==
  ASSUME NEW s \in Seq(Bytes), \A k \in 1 .. Len(s) : s[k] # "NUL"
  PROVE  Text(s) = s
BY DEF Text

(* The three things that a byte can be to a reader.                        *)
LEMMA TakeFields ==
  ASSUME NEW reader \in Readers, NEW byte, NEW taken, taken = Take(reader, byte)
  PROVE  /\ reader.cr \/ byte = "LF" =>
              /\ taken = LineEnds(reader)
              /\ taken.line = <<>> /\ taken.cr = FALSE
              /\ taken.lines = Append(reader.lines, Text(reader.line))
         /\ ~reader.cr /\ byte = "CR" =>
              /\ taken.line = reader.line /\ taken.cr = TRUE /\ taken.lines = reader.lines
              /\ taken \in Readers
         /\ ~reader.cr /\ byte \notin {"CR", "LF"} =>
              /\ taken.line = Append(reader.line, byte) /\ taken.cr = FALSE
              /\ taken.lines = reader.lines
              /\ byte \in Bytes => taken \in Readers
<1>1. ASSUME reader.cr \/ byte = "LF"
      PROVE  /\ taken = LineEnds(reader)
             /\ taken.line = <<>> /\ taken.cr = FALSE
             /\ taken.lines = Append(reader.lines, Text(reader.line))
  <2>1. taken = LineEnds(reader)
    BY <1>1 DEF Take, Readers
  <2>2. QED
    BY <2>1 DEF LineEnds
<1>2. ASSUME ~reader.cr, byte = "CR"
      PROVE  /\ taken.line = reader.line /\ taken.cr = TRUE /\ taken.lines = reader.lines
             /\ taken \in Readers
  <2>1. taken = [reader EXCEPT !.cr = TRUE]
    BY <1>2 DEF Take, Readers
  <2>2. QED
    BY <2>1 DEF Readers
<1>3. ASSUME ~reader.cr, byte \notin {"CR", "LF"}
      PROVE  /\ taken.line = Append(reader.line, byte) /\ taken.cr = FALSE
             /\ taken.lines = reader.lines
             /\ byte \in Bytes => taken \in Readers
  <2>1. taken = [reader EXCEPT !.line = Append(@, byte)]
    BY <1>3 DEF Take, Readers
  <2>2. byte \in Bytes => Append(reader.line, byte) \in Seq(Bytes)
    BY AppendProperties DEF Readers
  <2>3. /\ taken.line = Append(reader.line, byte) /\ taken.cr = FALSE
        /\ taken.lines = reader.lines
        /\ taken = [line |-> taken.line, cr |-> taken.cr, lines |-> taken.lines]
    BY <1>3, <2>1 DEF Readers
  <2>4. byte \in Bytes => taken \in Readers
    BY <2>2, <2>3 DEF Readers
  <2>5. QED
    BY <2>3, <2>4
<1>4. QED
  BY <1>1, <1>2, <1>3

(* A reader that has not had the last of the lines takes the next byte of  *)
(* them, and its lines are one more behind a LF; what it takes behind a CR *)
(* makes no difference.                                                    *)
LEMMA TakeReads ==
  ASSUME NEW bytes, NEW ends, Framed(bytes, ends),
         NEW reader \in Readers, Reads(reader, bytes, ends), Len(reader.lines) + 1 < Len(ends),
         NEW taken, taken = Take(reader, bytes[Position(reader, ends) + 1])
  PROVE  /\ Position(reader, ends) \in Nat /\ Position(reader, ends) < Len(bytes)
         /\ taken \in Readers /\ Reads(taken, bytes, ends)
         /\ Position(taken, ends) = Position(reader, ends) + 1
         /\ \/ taken.lines = reader.lines
            \/ Len(taken.lines) = Len(reader.lines) + 1
         /\ reader.cr => taken = LineEnds(reader)
<1> DEFINE m == Len(reader.lines)
           n == Len(reader.line)
           p == ends[m + 1]
           q == ends[m + 2]
           at == Position(reader, ends)
           byte == bytes[at + 1]
<1>0. /\ m = Len(reader.lines) /\ n = Len(reader.line) /\ p = ends[m + 1] /\ q = ends[m + 2]
      /\ at = Position(reader, ends) /\ byte = bytes[at + 1]
  OBVIOUS
<1>12. /\ reader.cr \/ byte = "LF" =>
            /\ taken = LineEnds(reader)
            /\ taken.line = <<>> /\ taken.cr = FALSE
            /\ taken.lines = Append(reader.lines, Text(reader.line))
       /\ ~reader.cr /\ byte = "CR" =>
            /\ taken.line = reader.line /\ taken.cr = TRUE /\ taken.lines = reader.lines
            /\ taken \in Readers
       /\ ~reader.cr /\ byte \notin {"CR", "LF"} =>
            /\ taken.line = Append(reader.line, byte) /\ taken.cr = FALSE
            /\ taken.lines = reader.lines
            /\ byte \in Bytes => taken \in Readers
  <2>1. taken = Take(reader, byte)
    OBVIOUS
  <2> HIDE DEF byte
  <2>2. QED
    BY <2>1, TakeFields
<1> HIDE DEF m, n, p, q, at, byte
<1>1. /\ reader.line \in Seq(Bytes) /\ reader.cr \in BOOLEAN /\ reader.lines \in Seq(Seq(Bytes))
      /\ m \in Nat /\ n \in Nat
  BY <1>0 DEF Readers
<1>2. /\ bytes \in Seq(Bytes) /\ ends \in Seq(Nat) /\ Len(ends) \in Nat /\ m + 2 <= Len(ends)
      /\ Len(bytes) \in Nat
  BY <1>0, <1>1 DEF Framed, FramedTo
<1>3. p \in Nat /\ q \in Nat
  <2>1. m + 1 \in 1 .. Len(ends) /\ m + 2 \in 1 .. Len(ends)
    BY <1>1, <1>2
  <2>2. ends[m + 1] \in Nat /\ ends[m + 2] \in Nat
    BY <1>2, <2>1, ElementOfSeq
  <2>3. QED
    BY <1>0, <2>2
<1>4. /\ p + 2 <= q /\ q <= Len(bytes) /\ bytes[q - 1] = "CR" /\ bytes[q] = "LF"
      /\ \A k \in p + 1 .. q - 2 : bytes[k] \notin {"CR", "LF", "NUL"}
  <2>1. m + 1 \in 1 .. Len(ends) - 1 /\ (m + 1) + 1 = m + 2
    BY <1>1, <1>2
  <2>2. QED
    BY <1>0, <2>1 DEF Framed, FramedTo
<1>5. /\ \A l \in 1 .. m : reader.lines[l] = SubSeq(bytes, ends[l] + 1, ends[l + 1] - 2)
      /\ reader.line = SubSeq(bytes, p + 1, p + n)
  BY <1>0 DEF Reads
<1>11. q - p - n >= 2 /\ (reader.cr => q - p - n = 2)
  <2>1. m + 1 # Len(ends)
    BY <1>1, <1>2
  <2>2. QED
    BY <1>0, <2>1 DEF Reads
<1>6. /\ reader.cr => at = p + n + 1
      /\ ~reader.cr => at = p + n
      /\ at \in Nat /\ at + 1 <= q
  <2>1. at = p + n + (IF reader.cr THEN 1 ELSE 0)
    BY <1>0 DEF Position
  <2>2. QED
    BY <1>1, <1>3, <1>11, <2>1
<1>7. CASE reader.cr
  <2>1. at + 1 = q /\ p + n = q - 2
    BY <1>1, <1>3, <1>11, <1>6, <1>7
  <2>2. \A k \in 1 .. n : reader.line[k] = bytes[p + k]
    <3>1. p + 1 \in Nat \ {0} /\ p + n \in Nat /\ p + n <= Len(bytes) /\ p + 1 <= p + n + 1
          /\ (p + n) - (p + 1) + 1 = n
      <4>1. q <= Len(bytes)
        BY <1>4
      <4>2. QED
        BY <1>1, <1>2, <1>3, <1>11, <4>1
    <3>2. \A k \in 1 .. n : reader.line[k] = bytes[p + 1 + k - 1]
      BY <1>2, <1>5, <3>1, Part, SMTT(30)
    <3>3. QED
      BY <1>3, <3>2
  <2>3. Text(reader.line) = reader.line
    <3>1. \A k \in 1 .. n : p + k \in p + 1 .. q - 2
      BY <1>1, <1>3, <1>11
    <3>2. \A k \in 1 .. n : reader.line[k] # "NUL"
      BY <1>4, <2>2, <3>1
    <3>3. QED
      BY <1>0, <1>1, <3>2, TextOfLine
  <2>4. /\ taken = LineEnds(reader)
        /\ taken.line = <<>> /\ taken.cr = FALSE /\ taken.lines = Append(reader.lines, reader.line)
    BY <1>0, <1>7, <1>12, <2>3
  <2>5. /\ taken.lines \in Seq(Seq(Bytes)) /\ Len(taken.lines) = m + 1
        /\ \A l \in 1 .. m : taken.lines[l] = reader.lines[l]
        /\ taken.lines[m + 1] = reader.line
    BY <1>0, <1>1, <2>4, AppendProperties
  <2>6. taken \in Readers
    <3>1. taken = [line |-> <<>>, cr |-> FALSE, lines |-> taken.lines]
      BY <2>4 DEF LineEnds
    <3>2. <<>> \in Seq(Bytes) /\ FALSE \in BOOLEAN
      BY EmptySeq
    <3>3. [line |-> <<>>, cr |-> FALSE, lines |-> taken.lines] \in Readers
      BY <2>5, <3>2 DEF Readers
    <3>4. QED
      BY <3>1, <3>3
  <2>7. Len(taken.line) = 0 /\ ends[Len(taken.lines) + 1] = q /\ Len(taken.lines) + 1 = m + 2
    <3>1. Len(taken.lines) + 1 = m + 2
      BY <1>1, <2>5
    <3>2. QED
      BY <1>0, <2>4, <3>1
  <2>8. Position(taken, ends) = at + 1
    BY <1>3, <2>1, <2>4, <2>7 DEF Position
  <2>9. \A l \in 1 .. m + 1 : taken.lines[l] = SubSeq(bytes, ends[l] + 1, ends[l + 1] - 2)
    <3>1. (m + 1) + 1 = m + 2
      BY <1>1
    <3>2. taken.lines[m + 1] = SubSeq(bytes, ends[m + 1] + 1, ends[(m + 1) + 1] - 2)
      BY <1>0, <1>5, <2>1, <2>5, <3>1
    <3>3. \A l \in 1 .. m + 1 : l \in 1 .. m \/ l = m + 1
      BY <1>1
    <3>4. QED
      BY <1>5, <2>5, <3>2, <3>3
  <2>10. taken.line = SubSeq(bytes, q + 1, q + 0)
    BY <1>3, <2>4, SubSeqEmpty
  <2>11. m + 2 # Len(ends) => ends[m + 3] - q - 0 >= 2
    <3> SUFFICES ASSUME m + 2 # Len(ends) PROVE ends[m + 3] - q - 0 >= 2
      OBVIOUS
    <3>1. m + 2 \in 1 .. Len(ends) - 1 /\ (m + 2) + 1 = m + 3 /\ m + 3 \in 1 .. Len(ends)
      BY <1>1, <1>2
    <3>2. ends[m + 3] \in Nat
      BY <1>2, <3>1, ElementOfSeq
    <3>3. ends[m + 2] + 2 <= ends[(m + 2) + 1]
      BY <3>1 DEF Framed, FramedTo
    <3>4. q + 2 <= ends[m + 3]
      BY <1>0, <3>1, <3>3
    <3>5. QED
      BY <1>3, <3>2, <3>4
  <2>12. Reads(taken, bytes, ends)
    <3>1. Len(taken.lines) + 2 = m + 3 /\ Len(taken.lines) < Len(ends)
      BY <1>1, <1>2, <2>5
    <3>2. QED
      BY <2>4, <2>5, <2>7, <2>9, <2>10, <2>11, <3>1 DEF Reads
  <2>13. Len(taken.lines) = Len(reader.lines) + 1 /\ at < Len(bytes)
    <3>1. at < Len(bytes)
      BY <1>2, <1>3, <1>4, <1>6
    <3>2. QED
      BY <1>0, <2>5, <3>1
  <2>14. QED
    BY <1>0, <1>6, <2>4, <2>6, <2>8, <2>12, <2>13
<1>8. CASE ~reader.cr /\ at + 1 = q - 1
  <2>1. bytes[at + 1] = "CR"
    BY <1>4, <1>8
  <2>2. /\ taken.line = reader.line /\ taken.cr = TRUE /\ taken.lines = reader.lines
        /\ taken \in Readers
    BY <1>0, <1>8, <1>12, <2>1
  <2>3. q - p - n = 2 /\ at = p + n
    BY <1>1, <1>3, <1>6, <1>8
  <2>4. Position(taken, ends) = at + 1
    BY <1>0, <1>1, <1>3, <2>2, <2>3 DEF Position
  <2>5. Reads(taken, bytes, ends)
    BY <1>0, <2>2, <2>3 DEF Reads
  <2>6. at < Len(bytes)
    BY <1>2, <1>3, <1>4, <1>6
  <2>7. QED
    BY <1>0, <1>6, <1>8, <2>2, <2>4, <2>5, <2>6
<1>9. CASE ~reader.cr /\ at + 1 # q - 1
  <2>1. at = p + n /\ at + 1 \in p + 1 .. q - 2 /\ p + n < Len(bytes)
    BY <1>1, <1>2, <1>3, <1>4, <1>11, <1>6, <1>9
  <2>2. bytes[at + 1] \notin {"CR", "LF"}
    BY <1>4, <2>1
  <2>3. bytes[at + 1] \in Bytes
    <3>1. at + 1 \in 1 .. Len(bytes)
      BY <1>1, <1>2, <1>3, <2>1
    <3>2. QED
      BY <1>2, <3>1, ElementOfSeq
  <2>4. /\ taken.line = Append(reader.line, bytes[at + 1]) /\ taken.cr = FALSE
        /\ taken.lines = reader.lines /\ taken \in Readers
    BY <1>0, <1>9, <1>12, <2>2, <2>3
  <2>5. Len(taken.line) = n + 1
    BY <1>0, <1>1, <2>3, <2>4, AppendProperties
  <2>6. Position(taken, ends) = at + 1
    <3>1. p + (n + 1) + 0 = at + 1
      BY <1>1, <1>3, <2>1
    <3>2. QED
      BY <1>0, <2>4, <2>5, <3>1 DEF Position
  <2>7. taken.line = SubSeq(bytes, p + 1, p + (n + 1))
    <3>1. /\ p + 1 \in Nat \ {0} /\ p + n \in Nat /\ p + 1 <= p + n + 1
          /\ p + n + 1 = p + (n + 1)
      BY <1>1, <1>3
    <3>2. Append(SubSeq(bytes, p + 1, p + n), bytes[p + n + 1]) = SubSeq(bytes, p + 1, p + n + 1)
      BY <1>2, <2>1, <3>1, PartGrows
    <3>3. QED
      BY <1>5, <2>1, <2>4, <3>1, <3>2
  <2>8. q - p - (n + 1) >= 2 /\ m + 1 # Len(ends)
    BY <1>1, <1>2, <1>3, <2>1
  <2>9. Reads(taken, bytes, ends)
    BY <1>0, <1>5, <2>4, <2>5, <2>7, <2>8 DEF Reads
  <2>10. QED
    BY <1>0, <1>6, <1>9, <2>1, <2>4, <2>6, <2>9
<1>10. QED
  BY <1>1, <1>7, <1>8, <1>9

LEMMA StartReads ==
  ASSUME NEW bytes, NEW ends, Framed(bytes, ends), ends[1] = 0
  PROVE  NewReader \in Readers /\ Reads(NewReader, bytes, ends) /\ Position(NewReader, ends) = 0
<1>1. NewReader \in Readers
  BY EmptySeq DEF NewReader, Readers
<1>2. /\ NewReader.line = <<>> /\ NewReader.cr = FALSE /\ NewReader.lines = <<>>
      /\ Len(NewReader.line) = 0 /\ Len(NewReader.lines) = 0
  BY DEF NewReader
<1>3. Position(NewReader, ends) = 0
  BY <1>2 DEF Position
<1>4. Len(ends) \in Nat \ {0}
  BY EmptySeq DEF Framed, FramedTo
<1>5. <<>> = SubSeq(bytes, 1, 0)
  BY SubSeqEmpty
<1>6. 1 # Len(ends) => ends[2] - 0 - 0 >= 2
  <2> SUFFICES ASSUME 1 # Len(ends) PROVE ends[2] - 0 - 0 >= 2
    OBVIOUS
  <2>1. 1 \in 1 .. Len(ends) - 1 /\ 2 \in 1 .. Len(ends)
    BY <1>4, SMTT(30)
  <2>2. ends[2] \in Nat
    BY <2>1, ElementOfSeq DEF Framed, FramedTo
  <2>3. ends[1] + 2 <= ends[1 + 1]
    BY <2>1 DEF Framed, FramedTo
  <2>4. QED
    BY <2>2, <2>3
<1>7. Reads(NewReader, bytes, ends)
  BY <1>2, <1>4, <1>5, <1>6 DEF Reads
<1>8. QED
  BY <1>1, <1>3, <1>7

------------------------------------------------------------------------------
(* The two messages.                                                       *)

(* The bytes that the messages are made of.                                *)
LEMMA BytesOf ==
  /\ {"CR", "LF", "NUL", "GET", "page", "HTTP/1.1", "User-Agent", "Host", "Accept-Language",
       "Accept-Encoding", "Connection", "OK", "Date", "Server", "Content-Length",
       "Content-Type", "200", "403", "404", "sorry"} \subseteq Bytes
  /\ \A n \in 0 .. MaxLength : Decimal(n) \in Bytes
  /\ Pages \subseteq Seq(Bytes)
<1>1. ASSUME NEW p \in Pages PROVE p \in Seq(Bytes)
  <2>1. p \in Seq(STRING)
    BY ExchangeAssumption
  <2>2. p \in Seq(Range(p)) /\ Range(p) = {p[k] : k \in 1 .. Len(p)}
    BY <2>1, SeqOfRange, RangeEquality
  <2>3. {p[k] : k \in 1 .. Len(p)} \subseteq Bytes
    BY DEF Bytes
  <2>4. QED
    BY <2>2, <2>3, SeqMonotonic
<1>2. QED
  BY <1>1 DEF Bytes

Words == Seq(Bytes \ {"CR", "LF", "NUL"})

(* A line puts its words, a CR and a LF behind what is there.              *)
LEMMA AddLine ==
  ASSUME NEW s \in Seq(Bytes), NEW w \in Words
  PROVE  LET t == s \o Line(w)
         IN  /\ t \in Seq(Bytes) /\ Len(t) = Len(s) + Len(w) + 2
             /\ \A k \in 1 .. Len(s) : t[k] = s[k]
             /\ \A k \in 1 .. Len(w) : t[Len(s) + k] = w[k]
             /\ t[Len(s) + Len(w) + 1] = "CR" /\ t[Len(s) + Len(w) + 2] = "LF"
<1> DEFINE e == <<"CR", "LF">>
           l == w \o e
           t == s \o l
<1>1. w \in Seq(Bytes) /\ Len(w) \in Nat /\ Len(s) \in Nat
  BY SeqMonotonic, LenProperties DEF Words
<1>2. e \in Seq(Bytes) /\ Len(e) = 2 /\ e[1] = "CR" /\ e[2] = "LF"
  <2>1. e \in Seq(Bytes)
    BY BytesOf
  <2>2. Len(e) = 2 /\ e[1] = "CR" /\ e[2] = "LF"
    OBVIOUS
  <2>3. QED
    BY <2>1, <2>2
<1> HIDE DEF e
<1>3. /\ l \in Seq(Bytes) /\ Len(l) = Len(w) + 2
      /\ \A k \in 1 .. Len(w) + 2 : l[k] = IF k <= Len(w) THEN w[k] ELSE e[k - Len(w)]
  <2>1. e \in Seq(Bytes) /\ w \in Seq(Bytes)
    BY <1>1, <1>2
  <2>2. /\ l \in Seq(Bytes) /\ Len(l) = Len(w) + Len(e)
        /\ \A k \in 1 .. Len(w) + Len(e) : l[k] = IF k <= Len(w) THEN w[k] ELSE e[k - Len(w)]
    BY <2>1, ConcatProperties
  <2>3. QED
    BY <1>2, <2>2
<1>4. /\ \A k \in 1 .. Len(w) : l[k] = w[k]
      /\ l[Len(w) + 1] = "CR" /\ l[Len(w) + 2] = "LF"
  BY <1>1, <1>2, <1>3
<1> HIDE DEF l
<1>5. /\ t \in Seq(Bytes) /\ Len(t) = Len(s) + Len(w) + 2
      /\ \A k \in 1 .. Len(s) + (Len(w) + 2) : t[k] = IF k <= Len(s) THEN s[k] ELSE l[k - Len(s)]
  <2>1. l \in Seq(Bytes) /\ Len(l) = Len(w) + 2
    BY <1>3
  <2>2. /\ t \in Seq(Bytes) /\ Len(t) = Len(s) + Len(l)
        /\ \A k \in 1 .. Len(s) + Len(l) : t[k] = IF k <= Len(s) THEN s[k] ELSE l[k - Len(s)]
    BY <2>1, ConcatProperties
  <2>3. Len(s) + Len(l) = Len(s) + Len(w) + 2 /\ Len(s) + Len(l) = Len(s) + (Len(w) + 2)
    BY <1>1, <2>1
  <2>4. QED
    BY <2>2, <2>3
<1> HIDE DEF t
<1>6. \A k \in 1 .. Len(s) : t[k] = s[k]
  BY <1>1, <1>5
<1>7. \A k \in 1 .. Len(w) + 2 : t[Len(s) + k] = l[k]
  <2> TAKE k \in 1 .. Len(w) + 2
  <2>1. Len(s) + k \in 1 .. Len(s) + (Len(w) + 2) /\ ~(Len(s) + k <= Len(s))
        /\ (Len(s) + k) - Len(s) = k
    BY <1>1
  <2>2. QED
    BY <1>5, <2>1
<1>8. /\ \A k \in 1 .. Len(w) : t[Len(s) + k] = w[k]
      /\ t[Len(s) + (Len(w) + 1)] = "CR" /\ t[Len(s) + (Len(w) + 2)] = "LF"
  BY <1>1, <1>4, <1>7, SMTT(30)
<1>9. t[Len(s) + Len(w) + 1] = "CR" /\ t[Len(s) + Len(w) + 2] = "LF"
  <2>1. /\ Len(s) + (Len(w) + 1) = Len(s) + Len(w) + 1
        /\ Len(s) + (Len(w) + 2) = Len(s) + Len(w) + 2
    BY <1>1
  <2>2. QED
    BY <1>8, <2>1
<1>10. t = s \o Line(w)
  BY DEF t, l, e, Line
<1>11. QED
  BY <1>5, <1>6, <1>8, <1>9, <1>10

LEMMA LineWithin ==
  \A a, b, n \in Nat : a + 2 <= b /\ b <= n =>
    b - 1 \in 1 .. n /\ b \in 1 .. n /\ \A k \in a + 1 .. b - 2 : k \in 1 .. n
OBVIOUS

LEMMA AddFramed ==
  ASSUME NEW ends, NEW m \in Nat \ {0}, NEW s \in Seq(Bytes), NEW w \in Words,
         \A l \in 1 .. m : ends[l] \in Nat,
         FramedTo(s, ends, m), ends[m] = Len(s), ends[m + 1] = Len(s) + Len(w) + 2
  PROVE  FramedTo(s \o Line(w), ends, m + 1)
<1> DEFINE t == s \o Line(w)
<1>1. /\ Len(t) = Len(s) + Len(w) + 2
      /\ \A k \in 1 .. Len(s) : t[k] = s[k]
      /\ \A k \in 1 .. Len(w) : t[Len(s) + k] = w[k]
      /\ t[Len(s) + Len(w) + 1] = "CR" /\ t[Len(s) + Len(w) + 2] = "LF"
  BY AddLine
<1> HIDE DEF t
<1>2. Len(s) \in Nat /\ Len(w) \in Nat
  BY LenProperties DEF Words
<1>3. \A k \in 1 .. Len(w) : w[k] \notin {"CR", "LF", "NUL"}
  BY ElementOfSeq DEF Words
<1> SUFFICES ASSUME NEW l \in 1 .. m
             PROVE  /\ ends[l] + 2 <= ends[l + 1] /\ ends[l + 1] <= Len(t)
                    /\ t[ends[l + 1] - 1] = "CR" /\ t[ends[l + 1]] = "LF"
                    /\ \A k \in ends[l] + 1 .. ends[l + 1] - 2 : t[k] \notin {"CR", "LF", "NUL"}
  <2>1. (m + 1) - 1 = m
    OBVIOUS
  <2>2. QED
    BY <2>1 DEF FramedTo, t
<1>4. CASE l = m
  <2>1. ends[l] = Len(s) /\ ends[l + 1] = Len(s) + Len(w) + 2 /\ ends[l + 1] - 1 = Len(s) + Len(w) + 1
    BY <1>2, <1>4
  <2>2. ASSUME NEW k \in ends[l] + 1 .. ends[l + 1] - 2
        PROVE  t[k] \notin {"CR", "LF", "NUL"}
    <3>1. k - Len(s) \in 1 .. Len(w) /\ Len(s) + (k - Len(s)) = k
      BY <1>2, <2>1
    <3>2. t[k] = w[k - Len(s)]
      BY <1>1, <3>1
    <3>3. QED
      BY <1>3, <3>1, <3>2
  <2>3. QED
    BY <1>1, <1>2, <2>1, <2>2
<1>5. CASE l # m
  <2>1. l \in 1 .. m - 1 /\ l \in 1 .. m /\ l + 1 \in 1 .. m
    BY <1>5
  <2>2. /\ ends[l] + 2 <= ends[l + 1] /\ ends[l + 1] <= Len(s)
        /\ s[ends[l + 1] - 1] = "CR" /\ s[ends[l + 1]] = "LF"
        /\ \A k \in ends[l] + 1 .. ends[l + 1] - 2 : s[k] \notin {"CR", "LF", "NUL"}
    BY <2>1 DEF FramedTo
  <2>3. ends[l] \in Nat /\ ends[l + 1] \in Nat
    BY <2>1
  <2>4. /\ ends[l + 1] <= Len(t)
        /\ ends[l + 1] - 1 \in 1 .. Len(s) /\ ends[l + 1] \in 1 .. Len(s)
        /\ \A k \in ends[l] + 1 .. ends[l + 1] - 2 : k \in 1 .. Len(s)
    <3>1. ends[l] + 2 <= ends[l + 1] /\ ends[l + 1] <= Len(s) /\ Len(s) <= Len(t)
          /\ Len(t) \in Nat
      BY <1>1, <1>2, <2>2
    <3>2. ends[l + 1] <= Len(t)
      BY <1>2, <2>3, <3>1
    <3>3. /\ ends[l + 1] - 1 \in 1 .. Len(s) /\ ends[l + 1] \in 1 .. Len(s)
          /\ \A k \in ends[l] + 1 .. ends[l + 1] - 2 : k \in 1 .. Len(s)
      <4>1. Len(s) \in Nat /\ ends[l] \in Nat /\ ends[l + 1] \in Nat
        BY <1>2, <2>3
      <4>2. QED
        BY <3>1, <4>1, LineWithin
    <3>4. QED
      BY <3>2, <3>3
  <2>5. QED
    BY <1>1, <2>2, <2>4
<1>6. QED
  BY <1>4, <1>5

(* What follows the last of the lines does not matter.                     *)
LEMMA FramedBefore ==
  ASSUME NEW ends \in Seq(Nat), ends # <<>>, NEW s \in Seq(Bytes), NEW t \in Seq(Bytes),
         FramedTo(s, ends, Len(ends))
  PROVE  Framed(s \o t, ends)
<1> DEFINE u == s \o t
<1>1. /\ u \in Seq(Bytes) /\ Len(u) = Len(s) + Len(t)
      /\ \A k \in 1 .. Len(s) + Len(t) : u[k] = IF k <= Len(s) THEN s[k] ELSE t[k - Len(s)]
  BY ConcatProperties
<1>2. Len(s) \in Nat /\ Len(t) \in Nat /\ Len(ends) \in Nat
  OBVIOUS
<1> HIDE DEF u
<1>3. \A k \in 1 .. Len(s) : u[k] = s[k]
  BY <1>1, <1>2
<1>4. ASSUME NEW l \in 1 .. Len(ends) - 1
      PROVE  /\ ends[l] + 2 <= ends[l + 1] /\ ends[l + 1] <= Len(u)
             /\ u[ends[l + 1] - 1] = "CR" /\ u[ends[l + 1]] = "LF"
             /\ \A k \in ends[l] + 1 .. ends[l + 1] - 2 : u[k] \notin {"CR", "LF", "NUL"}
  <2>1. /\ ends[l] + 2 <= ends[l + 1] /\ ends[l + 1] <= Len(s)
        /\ s[ends[l + 1] - 1] = "CR" /\ s[ends[l + 1]] = "LF"
        /\ \A k \in ends[l] + 1 .. ends[l + 1] - 2 : s[k] \notin {"CR", "LF", "NUL"}
    BY DEF FramedTo
  <2>2. l \in 1 .. Len(ends) /\ l + 1 \in 1 .. Len(ends)
    BY <1>2
  <2>3. ends[l] \in Nat /\ ends[l + 1] \in Nat
    BY <2>2, ElementOfSeq
  <2>4. /\ ends[l + 1] <= Len(u)
        /\ ends[l + 1] - 1 \in 1 .. Len(s) /\ ends[l + 1] \in 1 .. Len(s)
        /\ \A k \in ends[l] + 1 .. ends[l + 1] - 2 : k \in 1 .. Len(s)
    <3>1. ends[l] + 2 <= ends[l + 1] /\ ends[l + 1] <= Len(s) /\ Len(s) <= Len(u)
          /\ Len(u) \in Nat
      BY <1>1, <1>2, <2>1
    <3>2. ends[l + 1] <= Len(u)
      BY <1>2, <2>3, <3>1
    <3>3. /\ ends[l + 1] - 1 \in 1 .. Len(s) /\ ends[l + 1] \in 1 .. Len(s)
          /\ \A k \in ends[l] + 1 .. ends[l + 1] - 2 : k \in 1 .. Len(s)
      <4>1. Len(s) \in Nat /\ ends[l] \in Nat /\ ends[l + 1] \in Nat
        BY <1>2, <2>3
      <4>2. QED
        BY <3>1, <4>1, LineWithin
    <3>4. QED
      BY <3>2, <3>3
  <2>5. QED
    BY <1>3, <2>1, <2>4
<1>5. FramedTo(u, ends, Len(ends))
  BY <1>4 DEF FramedTo
<1>6. QED
  BY <1>1, <1>5 DEF Framed, u

LEMMA OneWord ==
  ASSUME NEW a \in Bytes, a \notin {"CR", "LF", "NUL"}
  PROVE  <<a>> \in Words /\ Len(<<a>>) = 1 /\ <<a>>[1] = a
BY DEF Words

\* The first n - 1 lines that end at `ends', and no more.
Built(s, ends, n) == s \in Seq(Bytes) /\ FramedTo(s, ends, n) /\ ends[n] = Len(s)

\* A message with a line more.
WithLine(s, w) == s \o Line(w)

(* A line more.                                                            *)
LEMMA NextLine ==
  ASSUME NEW ends \in Seq(Nat), NEW m \in Nat \ {0}, m + 1 <= Len(ends),
         NEW s \in Seq(Bytes), Built(s, ends, m), NEW w \in Words,
         ends[m + 1] = Len(s) + Len(w) + 2, NEW t, t = WithLine(s, w)
  PROVE  /\ t \in Seq(Bytes) /\ Len(t) = Len(s) + Len(w) + 2
         /\ Built(t, ends, m + 1)
         /\ \A k \in 1 .. Len(s) : t[k] = s[k]
         /\ \A k \in 1 .. Len(w) : t[Len(s) + k] = w[k]
<1>1. \A l \in 1 .. m : l \in 1 .. Len(ends)
  OBVIOUS
<1>2. \A l \in 1 .. m : ends[l] \in Nat
  BY <1>1, ElementOfSeq
<1>3. FramedTo(t, ends, m + 1)
  BY <1>2, AddFramed DEF Built, WithLine
<1>4. /\ t \in Seq(Bytes) /\ Len(t) = Len(s) + Len(w) + 2
      /\ \A k \in 1 .. Len(s) : t[k] = s[k]
      /\ \A k \in 1 .. Len(w) : t[Len(s) + k] = w[k]
  BY AddLine DEF WithLine
<1>5. QED
  BY <1>3, <1>4 DEF Built

LEMMA FirstLine ==
  ASSUME NEW ends \in Seq(Nat), 2 <= Len(ends), NEW w \in Words,
         ends[1] = 0, ends[2] = Len(w) + 2, NEW t, t = Line(w)
  PROVE  /\ t \in Seq(Bytes) /\ Len(t) = Len(w) + 2
         /\ Built(t, ends, 2)
         /\ \A k \in 1 .. Len(w) : t[k] = w[k]
<1> DEFINE s == <<>>
           m == 1
<1>1. s \in Seq(Bytes) /\ Built(s, ends, m)
  BY EmptySeq DEF FramedTo, Built
<1>8. Len(s) = 0
  OBVIOUS
<1>2. Len(w) \in Nat /\ w \in Seq(Bytes)
  BY SeqMonotonic, LenProperties DEF Words
<1>3. t = WithLine(s, w)
  <2>1. <<"CR", "LF">> \in Seq(Bytes)
    BY BytesOf
  <2>2. Line(w) \in Seq(Bytes)
    BY <1>2, <2>1, ConcatProperties DEF Line
  <2>3. <<>> \o Line(w) = Line(w)
    BY <2>2, ConcatEmptySeq
  <2>4. QED
    BY <2>3 DEF WithLine
<1>4. /\ ends[m + 1] = Len(s) + Len(w) + 2 /\ Len(s) + Len(w) + 2 = Len(w) + 2
      /\ m \in Nat \ {0} /\ m + 1 = 2 /\ m + 1 <= Len(ends)
  BY <1>2, <1>8
<1> HIDE DEF s, m
<1>5. /\ t \in Seq(Bytes) /\ Len(t) = Len(s) + Len(w) + 2 /\ Built(t, ends, m + 1)
      /\ \A k \in 1 .. Len(w) : t[Len(s) + k] = w[k]
  BY <1>1, <1>3, <1>4, NextLine, SMTT(30)
<1>6. \A k \in 1 .. Len(w) : Len(s) + k = k
  BY <1>2, <1>8
<1>7. QED
  BY <1>4, <1>5, <1>6

LEMMA RequestFramed ==
  /\ Framed(Request, RequestEnds) /\ RequestEnds[1] = 0 /\ Len(RequestEnds) = 7
  /\ Len(Request) = 21 /\ Request[2] = "page" /\ Request[21] = "NUL"
<1> DEFINE ends == RequestEnds
           w1 == <<"GET", "page", "HTTP/1.1">>
           nul == <<"NUL">>
           w2 == <<"User-Agent">>
           w3 == <<"Host">>
           w4 == <<"Accept-Language">>
           w5 == <<"Accept-Encoding">>
           w6 == <<"Connection">>
           s1 == Line(w1)
           s2 == WithLine(s1, w2)
           s3 == WithLine(s2, w3)
           s4 == WithLine(s3, w4)
           s5 == WithLine(s4, w5)
           s6 == WithLine(s5, w6)
<1>0. /\ s1 = Line(w1) /\ s2 = WithLine(s1, w2) /\ s3 = WithLine(s2, w3)
      /\ s4 = WithLine(s3, w4) /\ s5 = WithLine(s4, w5) /\ s6 = WithLine(s5, w6)
      /\ Request = s6 \o nul
  BY DEF Request, WithLine
<1>1. /\ Len(ends) = 7
      /\ ends[1] = 0 /\ ends[2] = 5 /\ ends[3] = 8 /\ ends[4] = 11 /\ ends[5] = 14
      /\ ends[6] = 17 /\ ends[7] = 20
  BY DEF RequestEnds
<1>16. ends \in Seq(Nat)
  BY DEF RequestEnds
<1>2. Len(w1) = 3 /\ w1[2] = "page"
  OBVIOUS
<1>3. Len(w2) = 1 /\ Len(w3) = 1 /\ Len(w4) = 1 /\ Len(w5) = 1 /\ Len(w6) = 1
  OBVIOUS
<1>17. w1 \in Words
  BY BytesOf DEF Words
<1>18. w2 \in Words /\ w3 \in Words /\ w4 \in Words /\ w5 \in Words /\ w6 \in Words
  BY BytesOf, OneWord
<1>11. nul \in Seq(Bytes) /\ Len(nul) = 1 /\ nul[1] = "NUL"
  BY BytesOf
<1> HIDE DEF ends, nul, w1, w2, w3, w4, w5, w6, s1, s2, s3, s4, s5, s6
<1>4. (s1 \in Seq(Bytes) /\ Built(s1, ends, 2)) /\ s1[2] = "page"
  <2>1. ends[1] = 0 /\ ends[2] = Len(w1) + 2 /\ 2 <= Len(ends)
    BY <1>1, <1>2
  <2>2. /\ s1 \in Seq(Bytes) /\ Built(s1, ends, 2)
        /\ \A k \in 1 .. Len(w1) : s1[k] = w1[k]
    BY <1>0, <1>16, <1>17, <2>1, FirstLine
  <2>3. QED
    BY <1>2, <2>2
<1>5. (s2 \in Seq(Bytes) /\ Built(s2, ends, 2 + 1)) /\ s2[2] = "page"
  <2>1. /\ s1 \in Seq(Bytes) /\ Built(s1, ends, 2) /\ w2 \in Words
        /\ s2 = WithLine(s1, w2)
    BY <1>0, <1>18, <1>4
  <2>2. /\ ends[2 + 1] = Len(s1) + Len(w2) + 2 /\ 2 + 1 <= Len(ends)
        /\ 2 \in Nat \ {0}
    BY <1>1, <1>3, <2>1 DEF Built
  <2>3. /\ s2 \in Seq(Bytes) /\ Built(s2, ends, 2 + 1)
        /\ \A k \in 1 .. Len(s1) : s2[k] = s1[k]
    BY <1>16, <2>1, <2>2, NextLine
  <2>4. 2 \in 1 .. Len(s1)
    BY <1>1, <2>1 DEF Built
  <2>5. QED
    BY <1>4, <2>3, <2>4
<1>6. (s3 \in Seq(Bytes) /\ Built(s3, ends, 3 + 1)) /\ s3[2] = "page"
  <2>1. /\ s2 \in Seq(Bytes) /\ Built(s2, ends, 3) /\ w3 \in Words
        /\ s3 = WithLine(s2, w3)
    BY <1>0, <1>18, <1>5
  <2>2. /\ ends[3 + 1] = Len(s2) + Len(w3) + 2 /\ 3 + 1 <= Len(ends)
        /\ 3 \in Nat \ {0}
    BY <1>1, <1>3, <2>1 DEF Built
  <2>3. /\ s3 \in Seq(Bytes) /\ Built(s3, ends, 3 + 1)
        /\ \A k \in 1 .. Len(s2) : s3[k] = s2[k]
    BY <1>16, <2>1, <2>2, NextLine
  <2>4. 2 \in 1 .. Len(s2)
    BY <1>1, <2>1 DEF Built
  <2>5. QED
    BY <1>5, <2>3, <2>4
<1>7. (s4 \in Seq(Bytes) /\ Built(s4, ends, 4 + 1)) /\ s4[2] = "page"
  <2>1. /\ s3 \in Seq(Bytes) /\ Built(s3, ends, 4) /\ w4 \in Words
        /\ s4 = WithLine(s3, w4)
    BY <1>0, <1>18, <1>6
  <2>2. /\ ends[4 + 1] = Len(s3) + Len(w4) + 2 /\ 4 + 1 <= Len(ends)
        /\ 4 \in Nat \ {0}
    BY <1>1, <1>3, <2>1 DEF Built
  <2>3. /\ s4 \in Seq(Bytes) /\ Built(s4, ends, 4 + 1)
        /\ \A k \in 1 .. Len(s3) : s4[k] = s3[k]
    BY <1>16, <2>1, <2>2, NextLine
  <2>4. 2 \in 1 .. Len(s3)
    BY <1>1, <2>1 DEF Built
  <2>5. QED
    BY <1>6, <2>3, <2>4
<1>8. (s5 \in Seq(Bytes) /\ Built(s5, ends, 5 + 1)) /\ s5[2] = "page"
  <2>1. /\ s4 \in Seq(Bytes) /\ Built(s4, ends, 5) /\ w5 \in Words
        /\ s5 = WithLine(s4, w5)
    BY <1>0, <1>18, <1>7
  <2>2. /\ ends[5 + 1] = Len(s4) + Len(w5) + 2 /\ 5 + 1 <= Len(ends)
        /\ 5 \in Nat \ {0}
    BY <1>1, <1>3, <2>1 DEF Built
  <2>3. /\ s5 \in Seq(Bytes) /\ Built(s5, ends, 5 + 1)
        /\ \A k \in 1 .. Len(s4) : s5[k] = s4[k]
    BY <1>16, <2>1, <2>2, NextLine
  <2>4. 2 \in 1 .. Len(s4)
    BY <1>1, <2>1 DEF Built
  <2>5. QED
    BY <1>7, <2>3, <2>4
<1>9. (s6 \in Seq(Bytes) /\ Built(s6, ends, 6 + 1)) /\ s6[2] = "page"
  <2>1. /\ s5 \in Seq(Bytes) /\ Built(s5, ends, 6) /\ w6 \in Words
        /\ s6 = WithLine(s5, w6)
    BY <1>0, <1>18, <1>8
  <2>2. /\ ends[6 + 1] = Len(s5) + Len(w6) + 2 /\ 6 + 1 <= Len(ends)
        /\ 6 \in Nat \ {0}
    BY <1>1, <1>3, <2>1 DEF Built
  <2>3. /\ s6 \in Seq(Bytes) /\ Built(s6, ends, 6 + 1)
        /\ \A k \in 1 .. Len(s5) : s6[k] = s5[k]
    BY <1>16, <2>1, <2>2, NextLine
  <2>4. 2 \in 1 .. Len(s5)
    BY <1>1, <2>1 DEF Built
  <2>5. QED
    BY <1>8, <2>3, <2>4
<1>12. FramedTo(s6, ends, Len(ends)) /\ ends # <<>>
  <2>1. Len(ends) = 6 + 1
    BY <1>1
  <2>2. FramedTo(s6, ends, 6 + 1)
    BY <1>9 DEF Built
  <2>3. QED
    BY <2>1, <2>2, EmptySeq
<1>19. Len(s6) = 20
  BY <1>1, <1>9, SMTT(30) DEF Built
<1>13. Framed(Request, ends)
  BY <1>0, <1>16, <1>9, <1>11, <1>12, FramedBefore
<1>14. Len(Request) = 21 /\ Request[2] = "page" /\ Request[21] = "NUL"
  <2>1. /\ Len(s6 \o nul) = Len(s6) + Len(nul)
        /\ \A k \in 1 .. Len(s6) + Len(nul) :
             (s6 \o nul)[k] = IF k <= Len(s6) THEN s6[k] ELSE nul[k - Len(s6)]
    BY <1>9, <1>11, ConcatProperties
  <2>2. QED
    BY <1>0, <1>9, <1>11, <1>19, <2>1, SMTT(30)
<1>15. QED
  BY <1>1, <1>13, <1>14 DEF ends

(* The answer is seven lines that end at HeaderEnds, and its text.         *)
LEMMA HeaderFramed ==
  ASSUME NEW a, a.code \in {"200", "403", "404"}, Len(a.text) \in 0 .. MaxLength,
         NEW h, h = Header(a)
  PROVE  /\ h \in Seq(Bytes) /\ FramedTo(h, HeaderEnds, Len(HeaderEnds)) /\ Len(h) = 23
         /\ h[2] = a.code /\ h[13] = Decimal(Len(a.text))
<1> DEFINE ends == HeaderEnds
           w1 == <<"HTTP/1.1", a.code, "OK">>
           w2 == <<"Date">>
           w3 == <<"Server">>
           w4 == <<"Content-Length", Decimal(Len(a.text))>>
           w5 == <<"Content-Type">>
           w6 == <<"Connection">>
           w7 == <<>>
           s1 == Line(w1)
           s2 == WithLine(s1, w2)
           s3 == WithLine(s2, w3)
           s4 == WithLine(s3, w4)
           s5 == WithLine(s4, w5)
           s6 == WithLine(s5, w6)
           s7 == WithLine(s6, w7)
<1>0. /\ s1 = Line(w1) /\ s2 = WithLine(s1, w2) /\ s3 = WithLine(s2, w3)
      /\ s4 = WithLine(s3, w4) /\ s5 = WithLine(s4, w5) /\ s6 = WithLine(s5, w6)
      /\ s7 = WithLine(s6, w7) /\ h = s7
  BY DEF Header, WithLine
<1>1. /\ Len(ends) = 8
      /\ ends[1] = 0 /\ ends[2] = 5 /\ ends[3] = 8 /\ ends[4] = 11 /\ ends[5] = 15
      /\ ends[6] = 18 /\ ends[7] = 21 /\ ends[8] = 23
  BY DEF HeaderEnds
<1>2. ends \in Seq(Nat)
  BY DEF HeaderEnds
<1>3. Len(w1) = 3 /\ w1[2] = a.code /\ Len(w4) = 2 /\ w4[2] = Decimal(Len(a.text))
  OBVIOUS
<1>4. Len(w2) = 1 /\ Len(w3) = 1 /\ Len(w5) = 1 /\ Len(w6) = 1 /\ Len(w7) = 0
  OBVIOUS
<1>5. w1 \in Words
  BY BytesOf DEF Words
<1>6. w2 \in Words /\ w3 \in Words /\ w5 \in Words /\ w6 \in Words
  BY BytesOf, OneWord
<1>7. w4 \in Words
  <2>1. Decimal(Len(a.text)) \in Bytes \ {"CR", "LF", "NUL"}
    BY BytesOf, DecimalAssumption
  <2>2. "Content-Length" \in Bytes \ {"CR", "LF", "NUL"}
    BY BytesOf
  <2>3. QED
    BY <2>1, <2>2 DEF Words
<1>8. w7 \in Words
  BY EmptySeq DEF Words
<1> HIDE DEF ends, w1, w2, w3, w4, w5, w6, w7, s1, s2, s3, s4, s5, s6, s7
<1>9. s1 \in Seq(Bytes) /\ Built(s1, ends, 2) /\ s1[2] = a.code
  <2>1. ends[1] = 0 /\ ends[2] = Len(w1) + 2 /\ 2 <= Len(ends)
    BY <1>1, <1>3
  <2>2. /\ s1 \in Seq(Bytes) /\ Built(s1, ends, 2)
        /\ \A k \in 1 .. Len(w1) : s1[k] = w1[k]
    BY <1>0, <1>2, <1>5, <2>1, FirstLine
  <2>3. 2 \in 1 .. Len(w1)
    BY <1>3
  <2>4. QED
    BY <1>3, <2>2, <2>3
<1>10. /\ s2 \in Seq(Bytes) /\ Built(s2, ends, 2 + 1)
       /\ s2[2] = a.code
  <2>1. /\ s1 \in Seq(Bytes) /\ Built(s1, ends, 2) /\ w2 \in Words
        /\ s2 = WithLine(s1, w2)
    BY <1>0, <1>6, <1>9
  <2>2. /\ ends[2 + 1] = Len(s1) + Len(w2) + 2 /\ 2 + 1 <= Len(ends)
        /\ 2 \in Nat \ {0}
    BY <1>1, <1>3, <1>4, <2>1 DEF Built
  <2>3. /\ s2 \in Seq(Bytes) /\ Built(s2, ends, 2 + 1)
        /\ \A k \in 1 .. Len(s1) : s2[k] = s1[k]
    BY <1>2, <2>1, <2>2, NextLine
  <2>4. 2 \in 1 .. Len(s1)
    BY <1>1, <2>1 DEF Built
  <2>5. QED
    BY <1>9, <2>3, <2>4
<1>11. /\ s3 \in Seq(Bytes) /\ Built(s3, ends, 3 + 1)
       /\ s3[2] = a.code
  <2>1. /\ s2 \in Seq(Bytes) /\ Built(s2, ends, 3) /\ w3 \in Words
        /\ s3 = WithLine(s2, w3)
    BY <1>0, <1>6, <1>10
  <2>2. /\ ends[3 + 1] = Len(s2) + Len(w3) + 2 /\ 3 + 1 <= Len(ends)
        /\ 3 \in Nat \ {0}
    BY <1>1, <1>3, <1>4, <2>1 DEF Built
  <2>3. /\ s3 \in Seq(Bytes) /\ Built(s3, ends, 3 + 1)
        /\ \A k \in 1 .. Len(s2) : s3[k] = s2[k]
    BY <1>2, <2>1, <2>2, NextLine
  <2>4. 2 \in 1 .. Len(s2)
    BY <1>1, <2>1 DEF Built
  <2>5. QED
    BY <1>10, <2>3, <2>4
<1>12. /\ s4 \in Seq(Bytes) /\ Built(s4, ends, 4 + 1)
       /\ s4[2] = a.code /\ s4[13] = Decimal(Len(a.text))
  <2>1. /\ s3 \in Seq(Bytes) /\ Built(s3, ends, 4) /\ w4 \in Words
        /\ s4 = WithLine(s3, w4)
    BY <1>0, <1>7, <1>11
  <2>2. /\ ends[4 + 1] = Len(s3) + Len(w4) + 2 /\ 4 + 1 <= Len(ends)
        /\ 4 \in Nat \ {0}
    BY <1>1, <1>3, <1>4, <2>1 DEF Built
  <2>3. /\ s4 \in Seq(Bytes) /\ Built(s4, ends, 4 + 1)
        /\ \A k \in 1 .. Len(s3) : s4[k] = s3[k]
        /\ \A k \in 1 .. Len(w4) : s4[Len(s3) + k] = w4[k]
    BY <1>2, <2>1, <2>2, NextLine, SMTT(30)
  <2>4. 2 \in 1 .. Len(s3) /\ Len(s3) + 2 = 13 /\ 2 \in 1 .. Len(w4)
    BY <1>1, <1>3, <2>1 DEF Built
  <2>5. s4[13] = w4[2]
    BY <2>3, <2>4
  <2>6. QED
    BY <1>3, <1>11, <2>3, <2>4, <2>5
<1>13. /\ s5 \in Seq(Bytes) /\ Built(s5, ends, 5 + 1)
       /\ s5[2] = a.code /\ s5[13] = Decimal(Len(a.text))
  <2>1. /\ s4 \in Seq(Bytes) /\ Built(s4, ends, 5) /\ w5 \in Words
        /\ s5 = WithLine(s4, w5)
    BY <1>0, <1>6, <1>12
  <2>2. /\ ends[5 + 1] = Len(s4) + Len(w5) + 2 /\ 5 + 1 <= Len(ends)
        /\ 5 \in Nat \ {0}
    BY <1>1, <1>3, <1>4, <2>1 DEF Built
  <2>3. /\ s5 \in Seq(Bytes) /\ Built(s5, ends, 5 + 1)
        /\ \A k \in 1 .. Len(s4) : s5[k] = s4[k]
    BY <1>2, <2>1, <2>2, NextLine
  <2>4. 2 \in 1 .. Len(s4) /\ 13 \in 1 .. Len(s4)
    BY <1>1, <2>1 DEF Built
  <2>5. QED
    BY <1>12, <2>3, <2>4
<1>14. /\ s6 \in Seq(Bytes) /\ Built(s6, ends, 6 + 1)
       /\ s6[2] = a.code /\ s6[13] = Decimal(Len(a.text))
  <2>1. /\ s5 \in Seq(Bytes) /\ Built(s5, ends, 6) /\ w6 \in Words
        /\ s6 = WithLine(s5, w6)
    BY <1>0, <1>6, <1>13
  <2>2. /\ ends[6 + 1] = Len(s5) + Len(w6) + 2 /\ 6 + 1 <= Len(ends)
        /\ 6 \in Nat \ {0}
    BY <1>1, <1>3, <1>4, <2>1 DEF Built
  <2>3. /\ s6 \in Seq(Bytes) /\ Built(s6, ends, 6 + 1)
        /\ \A k \in 1 .. Len(s5) : s6[k] = s5[k]
    BY <1>2, <2>1, <2>2, NextLine
  <2>4. 2 \in 1 .. Len(s5) /\ 13 \in 1 .. Len(s5)
    BY <1>1, <2>1 DEF Built
  <2>5. QED
    BY <1>13, <2>3, <2>4
<1>15. /\ s7 \in Seq(Bytes) /\ Built(s7, ends, 7 + 1)
       /\ s7[2] = a.code /\ s7[13] = Decimal(Len(a.text))
  <2>1. /\ s6 \in Seq(Bytes) /\ Built(s6, ends, 7) /\ w7 \in Words
        /\ s7 = WithLine(s6, w7)
    BY <1>0, <1>8, <1>14
  <2>2. /\ ends[7 + 1] = Len(s6) + Len(w7) + 2 /\ 7 + 1 <= Len(ends)
        /\ 7 \in Nat \ {0}
    BY <1>1, <1>3, <1>4, <2>1 DEF Built
  <2>3. /\ s7 \in Seq(Bytes) /\ Built(s7, ends, 7 + 1)
        /\ \A k \in 1 .. Len(s6) : s7[k] = s6[k]
    BY <1>2, <2>1, <2>2, NextLine
  <2>4. 2 \in 1 .. Len(s6) /\ 13 \in 1 .. Len(s6)
    BY <1>1, <2>1 DEF Built
  <2>5. QED
    BY <1>14, <2>3, <2>4
<1>16. FramedTo(s7, ends, Len(ends))
  <2>1. Len(ends) = 7 + 1
    BY <1>1
  <2>2. FramedTo(s7, ends, 7 + 1)
    BY <1>15 DEF Built
  <2>3. QED
    BY <2>1, <2>2
<1>17. Len(s7) = 23
  <2>1. ends[7 + 1] = Len(s7)
    BY <1>15 DEF Built
  <2>2. 7 + 1 = 8
    OBVIOUS
  <2>3. QED
    BY <1>1, <2>1, <2>2
<1>18. QED
  BY <1>0, <1>15, <1>16, <1>17 DEF ends

LEMMA AnswerFramed ==
  ASSUME NEW a, a.code \in {"200", "403", "404"}, a.text \in Seq(Bytes),
         Len(a.text) \in 0 .. MaxLength, NEW all, all = Message(a)
  PROVE  /\ Framed(all, HeaderEnds) /\ HeaderEnds[1] = 0 /\ Len(HeaderEnds) = 8 /\ HeaderEnds[8] = 23
         /\ Len(all) = 23 + Len(a.text)
         /\ all[2] = a.code /\ all[13] = Decimal(Len(a.text))
         /\ \A k \in 1 .. Len(a.text) : all[23 + k] = a.text[k]
<1> DEFINE h == Header(a)
           text == a.text
           u == h \o text
<1>1. /\ h \in Seq(Bytes) /\ FramedTo(h, HeaderEnds, Len(HeaderEnds)) /\ Len(h) = 23
      /\ h[2] = a.code /\ h[13] = Decimal(Len(a.text))
  BY HeaderFramed
<1>2. HeaderEnds \in Seq(Nat) /\ HeaderEnds # <<>>
  BY DEF HeaderEnds
<1>3. HeaderEnds[1] = 0 /\ Len(HeaderEnds) = 8 /\ HeaderEnds[8] = 23
  BY DEF HeaderEnds
<1>4. text \in Seq(Bytes) /\ text = a.text /\ u = all /\ h = Header(a)
  BY DEF Message
<1> HIDE DEF h, text
<1>5. Framed(u, HeaderEnds)
  BY <1>1, <1>2, <1>4, FramedBefore
<1>6. /\ Len(u) = Len(h) + Len(text)
      /\ \A k \in 1 .. Len(h) + Len(text) : u[k] = IF k <= Len(h) THEN h[k] ELSE text[k - Len(h)]
  BY <1>1, <1>4, ConcatProperties, ZenonT(40)
<1> HIDE DEF u
<1>7. Len(u) = 23 + Len(text) /\ Len(text) \in Nat
  <2>1. Len(h) = 23 /\ Len(text) \in Nat
    BY <1>1, <1>4
  <2>2. QED
    BY <1>6, <2>1
<1>8. u[2] = h[2] /\ u[13] = h[13]
  BY <1>1, <1>6, <1>7
<1>9. ASSUME NEW k \in 1 .. Len(text) PROVE u[23 + k] = text[k]
  <2>1. 23 + k \in 1 .. Len(h) + Len(text) /\ ~(23 + k <= Len(h)) /\ (23 + k) - Len(h) = k
    BY <1>1, <1>7
  <2>2. QED
    BY <1>6, <2>1
<1>10. QED
  BY <1>1, <1>3, <1>4, <1>5, <1>7, <1>8, <1>9

------------------------------------------------------------------------------
(* The end of a string.                                                    *)

(* A set of numbers that is not empty has a least one.                     *)
LEMMA LeastOf ==
  ASSUME NEW T, T \subseteq Nat, T # {}
  PROVE  \E k \in T : \A l \in T : k <= l
<1> DEFINE R == OpToRel(<, Nat)
<1>1. IsWellFoundedOn(R, Nat)
  BY NatLessThanWellFounded
<1>2. \A x, y \in Nat : x < y => <<x, y>> \in R
  BY DEF OpToRel
<1> HIDE DEF R
<1>3. PICK k \in T : \A l \in T : <<l, k>> \notin R
  BY <1>1, WFMin
<1>4. ASSUME NEW l \in T PROVE k <= l
  <2>1. k \in Nat /\ l \in Nat /\ <<l, k>> \notin R
    BY <1>3
  <2>2. ~(l < k)
    BY <1>2, <2>1
  <2>3. QED
    BY <2>1, <2>2
<1>5. QED
  BY <1>4

LEMMA TextIsPart ==
  ASSUME NEW s \in Seq(Bytes)
  PROVE  Text(s) \in Seq(Bytes) /\ Len(Text(s)) <= Len(s)
<1> DEFINE cut == {k \in 1 .. Len(s) : s[k] = "NUL"}
<1>1. CASE cut = {}
  BY <1>1 DEF Text
<1>2. CASE cut # {}
  <2>1. cut \subseteq Nat /\ cut \subseteq 1 .. Len(s)
    OBVIOUS
  <2> DEFINE k == CHOOSE k \in cut : \A l \in cut : k <= l
  <2>2. Text(s) = SubSeq(s, 1, k - 1)
    BY <1>2 DEF Text
  <2> HIDE DEF cut
  <2>3. k \in cut
    BY <1>2, <2>1, LeastOf
  <2> HIDE DEF k
  <2>4. k - 1 \in Nat /\ k - 1 <= Len(s) /\ 1 <= (k - 1) + 1 /\ 1 \in Nat \ {0}
    BY <2>1, <2>3
  <2>5. SubSeq(s, 1, k - 1) \in Seq(Bytes) /\ Len(SubSeq(s, 1, k - 1)) = (k - 1) - 1 + 1
    BY <2>4, Part
  <2>6. QED
    BY <2>2, <2>4, <2>5
<1>3. QED
  BY <1>1, <1>2

(* What the server has to send.                                            *)
LEMMA AnswerOf ==
  ASSUME NEW f \in Files
  PROVE  /\ AnswerWith(f).code = f.code /\ f.code \in {"200", "403", "404"}
         /\ AnswerWith(f).text \in Seq(Bytes) /\ Len(AnswerWith(f).text) \in 0 .. MaxLength
         /\ AnswerWith(f) # NoAnswer
         /\ f.code = "200" /\ Text(f.bytes) = f.bytes => AnswerWith(f).text = f.bytes
         /\ f.code = "200" => Len(f.bytes) \in Nat
<1> DEFINE a == AnswerWith(f)
<1>1. /\ a.code = f.code
      /\ f.code = "200" => a.text = Text(f.bytes)
      /\ f.code # "200" => a.text = <<"sorry">>
  BY DEF AnswerWith
<1>2. /\ f.code \in {"200", "403", "404"}
      /\ f.code = "200" => f.bytes \in Pages
  BY DEF Files
<1> HIDE DEF a
<1>3. a # NoAnswer
  BY <1>1, <1>2 DEF NoAnswer
<1>4. ASSUME f.code = "200"
      PROVE  a.text \in Seq(Bytes) /\ Len(a.text) \in 0 .. MaxLength /\ Len(f.bytes) \in Nat
  <2>1. f.bytes \in Seq(Bytes) /\ Len(f.bytes) <= MaxLength /\ MaxLength \in Nat
    BY <1>2, <1>4, BytesOf, ExchangeAssumption
  <2>2. Text(f.bytes) \in Seq(Bytes) /\ Len(Text(f.bytes)) <= Len(f.bytes)
    BY <2>1, TextIsPart
  <2>3. Len(f.bytes) \in Nat /\ Len(Text(f.bytes)) \in Nat
    BY <2>1, <2>2
  <2>4. Len(Text(f.bytes)) \in 0 .. MaxLength
    BY <2>1, <2>2, <2>3
  <2>5. a.text = Text(f.bytes)
    BY <1>1, <1>4
  <2>6. QED
    BY <2>2, <2>3, <2>4, <2>5
<1>5. ASSUME f.code # "200"
      PROVE  a.text \in Seq(Bytes) /\ Len(a.text) \in 0 .. MaxLength
  <2>1. <<"sorry">> \in Seq(Bytes)
    BY BytesOf
  <2>2. Len(<<"sorry">>) = 1 /\ 1 \in 0 .. MaxLength
    BY ExchangeAssumption
  <2>3. a.text = <<"sorry">>
    BY <1>1, <1>5
  <2>4. QED
    BY <2>1, <2>2, <2>3
<1>6. f.code = "200" /\ Text(f.bytes) = f.bytes => a.text = f.bytes
  BY <1>1
<1>7. QED
  BY <1>1, <1>2, <1>3, <1>4, <1>5, <1>6 DEF a

------------------------------------------------------------------------------
(* The streams.                                                            *)

\* A stream, and what is to be written, behind the write of a byte.
Longer(stream, out) == Append(stream, Head(out))
Rest(out) == Tail(out)

(* A stream and what its writer still has to write are what bytes has      *)
(* behind its first n.                                                     *)
OnItsWay(bytes, n, stream, out) ==
  /\ stream \in Seq(Bytes) /\ InFlight(bytes, n, stream)
  /\ out = Unwritten(bytes, n + Len(stream))

(* One byte is written.                                                    *)
LEMMA WriteByte ==
  ASSUME NEW bytes \in Seq(Bytes), NEW n \in Nat, NEW stream, NEW out,
         OnItsWay(bytes, n, stream, out), out # <<>>
  PROVE  OnItsWay(bytes, n, Longer(stream, out), Rest(out)) /\ Rest(out) \in Seq(Bytes)
<1> DEFINE b == n + Len(stream)
           stream2 == Longer(stream, out)
           out2 == Rest(out)
<1>1. b \in Nat /\ Len(bytes) \in Nat /\ b <= Len(bytes) /\ Len(stream) \in Nat
      /\ stream = SubSeq(bytes, n + 1, b) /\ out = SubSeq(bytes, b + 1, Len(bytes))
      /\ b = n + Len(stream)
  BY DEF OnItsWay, InFlight, Unwritten
<1> HIDE DEF b, stream2, out2
<1>2. b < Len(bytes)
  <2>1. b = Len(bytes) => SubSeq(bytes, b + 1, Len(bytes)) = <<>>
    BY <1>1, SubSeqEmpty
  <2>2. QED
    BY <1>1, <2>1
<1>3. /\ Head(SubSeq(bytes, b + 1, Len(bytes))) = bytes[b + 1]
      /\ Tail(SubSeq(bytes, b + 1, Len(bytes))) = SubSeq(bytes, b + 1 + 1, Len(bytes))
  <2>1. b + 1 \in Nat \ {0} /\ b + 1 <= Len(bytes)
    BY <1>1, <1>2
  <2>2. Len(bytes) \in Nat /\ Len(bytes) <= Len(bytes)
    OBVIOUS
  <2>3. QED
    BY <2>1, <2>2, PartShrinks
<1>4. Append(SubSeq(bytes, n + 1, b), bytes[b + 1]) = SubSeq(bytes, n + 1, b + 1)
  <2>1. n + 1 \in Nat \ {0} /\ n + 1 <= b + 1
    BY <1>1
  <2>2. QED
    BY <1>1, <1>2, <2>1, PartGrows
<1>5. stream2 = SubSeq(bytes, n + 1, b + 1) /\ out2 = SubSeq(bytes, b + 1 + 1, Len(bytes))
  BY <1>1, <1>3, <1>4 DEF Longer, Rest, stream2, out2
<1>6. stream2 \in Seq(Bytes) /\ Len(stream2) = (b + 1) - (n + 1) + 1
  <2>1. n + 1 \in Nat \ {0} /\ b + 1 \in Nat /\ b + 1 <= Len(bytes) /\ n + 1 <= b + 1 + 1
    BY <1>1, <1>2
  <2>2. /\ SubSeq(bytes, n + 1, b + 1) \in Seq(Bytes)
        /\ Len(SubSeq(bytes, n + 1, b + 1)) = (b + 1) - (n + 1) + 1
    BY <2>1, Part
  <2>3. QED
    BY <1>5, <2>2
<1>7. n + Len(stream2) = b + 1
  BY <1>1, <1>6
<1>8. out2 \in Seq(Bytes)
  <2>1. b + 1 + 1 \in Nat \ {0} /\ b + 1 + 1 <= Len(bytes) + 1
    BY <1>1, <1>2
  <2>2. Len(bytes) \in Nat /\ Len(bytes) <= Len(bytes)
    OBVIOUS
  <2>3. SubSeq(bytes, b + 1 + 1, Len(bytes)) \in Seq(Bytes)
    BY <2>1, <2>2, Part
  <2>4. QED
    BY <1>5, <2>3
<1>9. n + Len(stream2) <= Len(bytes)
  BY <1>1, <1>2, <1>7
<1>10. InFlight(bytes, n, stream2) /\ out2 = Unwritten(bytes, n + Len(stream2))
  BY <1>1, <1>5, <1>7, <1>9 DEF InFlight, Unwritten
<1>11. QED
  BY <1>6, <1>8, <1>10 DEF OnItsWay, stream2, out2

(* One byte is read.                                                       *)
LEMMA ReadByte ==
  ASSUME NEW bytes \in Seq(Bytes), NEW n \in Nat, NEW stream \in Seq(Bytes),
         InFlight(bytes, n, stream), stream # <<>>
  PROVE  /\ Head(stream) = bytes[n + 1] /\ Rest(stream) \in Seq(Bytes) /\ n < Len(bytes)
         /\ InFlight(bytes, n + 1, Rest(stream)) /\ n + 1 + Len(Rest(stream)) = n + Len(stream)
<1> DEFINE b == n + Len(stream)
           stream2 == Rest(stream)
<1>1. /\ stream2 \in Seq(Bytes) /\ Len(stream2) = Len(stream) - 1
      /\ Len(stream) \in Nat \ {0} /\ Len(bytes) \in Nat
  BY HeadTailProperties DEF Rest
<1>2. b \in Nat /\ b <= Len(bytes) /\ stream = SubSeq(bytes, n + 1, b) /\ b = n + Len(stream)
  BY <1>1 DEF InFlight
<1> HIDE DEF b, stream2
<1>3. /\ Head(SubSeq(bytes, n + 1, b)) = bytes[n + 1]
      /\ Tail(SubSeq(bytes, n + 1, b)) = SubSeq(bytes, n + 1 + 1, b)
  <2>1. n + 1 \in Nat \ {0} /\ n + 1 <= b
    BY <1>1, <1>2
  <2>2. QED
    BY <1>2, <2>1, PartShrinks
<1>4. Head(stream) = bytes[n + 1] /\ stream2 = SubSeq(bytes, n + 1 + 1, b)
  BY <1>2, <1>3 DEF Rest, stream2
<1>5. n + 1 + Len(stream2) = b /\ n < Len(bytes)
  BY <1>1, <1>2
<1>6. InFlight(bytes, n + 1, stream2)
  BY <1>2, <1>4, <1>5 DEF InFlight
<1>7. QED
  BY <1>1, <1>2, <1>4, <1>5, <1>6 DEF stream2

(* What is lost of a stream is its end.                                    *)
LEMMA CutStream ==
  ASSUME NEW bytes \in Seq(Bytes), NEW n \in Nat, NEW stream \in Seq(Bytes),
         InFlight(bytes, n, stream), NEW k \in 0 .. Len(stream),
         NEW stream2, stream2 = SubSeq(stream, 1, k)
  PROVE  stream2 \in Seq(Bytes) /\ InFlight(bytes, n, stream2)
<1>1. /\ stream2 \in Seq(Bytes) /\ Len(stream2) = k - 1 + 1
      /\ \A l \in 1 .. k - 1 + 1 : stream2[l] = stream[1 + l - 1]
  <2>1. 1 \in Nat \ {0} /\ k \in Nat /\ k <= Len(stream) /\ 1 <= k + 1
    OBVIOUS
  <2>2. QED
    BY <2>1, Part
<1>2. /\ Len(stream) \in Nat /\ Len(bytes) \in Nat /\ n + Len(stream) <= Len(bytes)
      /\ stream = SubSeq(bytes, n + 1, n + Len(stream))
  BY DEF InFlight
<1>3. \A l \in 1 .. Len(stream) : stream[l] = bytes[n + l]
  <2>1. /\ n + 1 \in Nat \ {0} /\ n + Len(stream) \in Nat /\ n + 1 <= n + Len(stream) + 1
        /\ (n + Len(stream)) - (n + 1) + 1 = Len(stream)
    BY <1>2
  <2>2. \A l \in 1 .. Len(stream) : stream[l] = bytes[n + 1 + l - 1]
    BY <1>2, <2>1, Part, SMTT(30)
  <2>3. \A l \in 1 .. Len(stream) : n + 1 + l - 1 = n + l
    OBVIOUS
  <2>4. QED
    BY <2>2, <2>3
<1>4. Len(stream2) = k /\ \A l \in 1 .. k : stream2[l] = bytes[n + l]
  <2>1. k - 1 + 1 = k /\ \A l \in 1 .. k : 1 + l - 1 = l /\ l \in 1 .. Len(stream)
    BY <1>2
  <2>2. QED
    BY <1>1, <1>3, <2>1
<1>5. stream2 = SubSeq(bytes, n + 1, n + k)
  <2>1. /\ n + 1 \in Nat \ {0} /\ n + k \in Nat /\ n + k <= Len(bytes) /\ n + 1 <= n + k + 1
        /\ (n + k) - (n + 1) + 1 = k
    BY <1>2
  <2>2. \A l \in 1 .. k : stream2[l] = bytes[n + 1 + l - 1]
    <3>1. \A l \in 1 .. k : n + 1 + l - 1 = n + l
      OBVIOUS
    <3>2. QED
      BY <1>4, <3>1
  <2>3. QED
    BY <1>1, <1>4, <2>1, <2>2, IsPart
<1>6. n + k <= Len(bytes)
  BY <1>2
<1>7. QED
  BY <1>1, <1>4, <1>5, <1>6 DEF InFlight

LEMMA EmptyStream ==
  ASSUME NEW bytes \in Seq(Bytes), NEW n \in Nat, n <= Len(bytes)
  PROVE  InFlight(bytes, n, <<>>) /\ Unwritten(bytes, 0) = bytes
<1>1. n + 0 = n /\ Len(<<>>) = 0
  OBVIOUS
<1>2. SubSeq(bytes, n + 1, n) = <<>>
  BY SubSeqEmpty
<1>3. InFlight(bytes, n, <<>>)
  BY <1>1, <1>2 DEF InFlight
<1>4. SubSeq(bytes, 1, Len(bytes)) = bytes
  OBVIOUS
<1>5. QED
  BY <1>3, <1>4 DEF Unwritten

------------------------------------------------------------------------------
(* What the readers have of the messages.                                  *)

LEMMA LineRead ==
  ASSUME NEW bytes, NEW ends, NEW reader, Reads(reader, bytes, ends),
         NEW l \in 1 .. Len(reader.lines)
  PROVE  reader.lines[l] = SubSeq(bytes, ends[l] + 1, ends[l + 1] - 2)
BY DEF Reads

LEMMA PartIs ==
  ASSUME NEW s \in Seq(Bytes), NEW a \in Nat \ {0}, NEW b \in Nat, b <= Len(s), a <= b + 1,
         NEW t, t = SubSeq(s, a, b)
  PROVE  /\ t \in Seq(Bytes) /\ Len(t) = b - a + 1
         /\ \A k \in 1 .. b - a + 1 : t[k] = s[a + k - 1]
BY Part

LEMMA AllRead ==
  ASSUME NEW bytes, NEW ends \in Seq(Nat), NEW reader \in Readers, Reads(reader, bytes, ends),
         NEW m \in Nat, m = Len(reader.lines), m + 1 = Len(ends)
  PROVE  Position(reader, ends) = ends[m + 1]
<1>1. reader.line = <<>> /\ ~reader.cr
  BY DEF Reads
<1>2. Len(reader.line) = 0
  BY <1>1
<1>3. ends[m + 1] \in Nat
  <2>1. m + 1 \in 1 .. Len(ends)
    OBVIOUS
  <2>2. QED
    BY <2>1, ElementOfSeq
<1>4. QED
  BY <1>1, <1>2, <1>3 DEF Position

LEMMA WordAt ==
  ASSUME NEW s \in Seq(Bytes), NEW i \in Nat \ {0}, i <= Len(s)
  PROVE  SubSeq(s, i, i) = <<s[i]>>
<1> DEFINE t == SubSeq(s, i, i)
           u == <<s[i]>>
<1>1. t \in Seq(Bytes) /\ Len(t) = i - i + 1 /\ \A k \in 1 .. i - i + 1 : t[k] = s[i + k - 1]
  BY Part
<1>2. u \in Seq(Bytes) /\ Len(u) = 1 /\ u[1] = s[i]
  BY ElementOfSeq
<1> HIDE DEF t, u
<1>3. Len(t) = Len(u) /\ \A k \in 1 .. Len(t) : t[k] = u[k]
  BY <1>1, <1>2
<1>4. t = u
  BY <1>1, <1>2, <1>3, SeqEqual
<1>5. QED
  BY <1>4 DEF t, u

(* The server finds the name of the page in the first line of the request. *)
LEMMA RequestedPage ==
  ASSUME NEW reader \in Readers, Reads(reader, Request, RequestEnds), Len(reader.lines) = RequestLines
  PROVE  AnswerTo(reader.lines[1]) = AnswerWith(file) /\ Position(reader, RequestEnds) = 20
<1> DEFINE line == reader.lines[1]
           b == 3
<1>1. Request \in Seq(Bytes)
  BY RequestFramed DEF Framed
<1>2. Len(Request) = 21 /\ Request[2] = "page"
  BY RequestFramed
<1>3. RequestEnds[1] = 0 /\ RequestEnds[1 + 1] = 5 /\ RequestEnds[6 + 1] = 20 /\ Len(RequestEnds) = 7
  BY DEF RequestEnds
<1>4. RequestEnds \in Seq(Nat)
  BY DEF RequestEnds
<1>5. b <= Len(Request) /\ 1 <= b + 1 /\ b \in Nat /\ 1 \in Nat \ {0} /\ b = 3
  BY <1>2
<1>6. line = reader.lines[1]
  OBVIOUS
<1> HIDE DEF line, b
<1>13. line = SubSeq(Request, 1, b)
  <2>1. 1 \in 1 .. Len(reader.lines)
    BY DEF RequestLines
  <2>2. line = SubSeq(Request, RequestEnds[1] + 1, RequestEnds[1 + 1] - 2)
    BY <1>6, <2>1, LineRead
  <2>3. RequestEnds[1] + 1 = 1 /\ RequestEnds[1 + 1] - 2 = b
    BY <1>3, <1>5
  <2>4. QED
    BY <2>2, <2>3
<1>7. /\ line \in Seq(Bytes) /\ Len(line) = b - 1 + 1
      /\ \A k \in 1 .. b - 1 + 1 : line[k] = Request[1 + k - 1]
  <2>1. b <= Len(Request) /\ 1 <= b + 1 /\ b \in Nat /\ 1 \in Nat \ {0}
    BY <1>5
  <2>2. QED
    BY <1>1, <1>13, <2>1, PartIs
<1>8. Len(line) = 3 /\ line[2] = "page"
  <2>1. 2 \in 1 .. b - 1 + 1 /\ 1 + 2 - 1 = 2 /\ b - 1 + 1 = 3
    BY <1>5
  <2>2. line[2] = Request[1 + 2 - 1]
    BY <1>7, <2>1
  <2>3. QED
    BY <1>2, <1>7, <2>1, <2>2
<1>9. SubSeq(line, 2, Len(line) - 1) = <<"page">>
  <2>1. 2 <= Len(line) /\ Len(line) - 1 = 2
    BY <1>8
  <2>2. SubSeq(line, 2, 2) = <<line[2]>>
    BY <1>7, <2>1, WordAt
  <2>3. QED
    BY <1>8, <2>1, <2>2
<1>10. AnswerTo(line) = AnswerWith(file)
  BY <1>9 DEF AnswerTo
<1>11. Position(reader, RequestEnds) = RequestEnds[6 + 1]
  <2>1. 6 \in Nat /\ 6 = Len(reader.lines) /\ 6 + 1 = Len(RequestEnds)
    BY <1>3 DEF RequestLines
  <2>2. QED
    BY <1>4, <2>1, AllRead
<1>12. QED
  BY <1>3, <1>6, <1>10, <1>11

LEMMA AtoiOf ==
  ASSUME NEW n \in 0 .. MaxLength, NEW words, words # <<>>, words[1] = Decimal(n)
  PROVE  Atoi(words) = n
<1>1. \A k \in 0 .. MaxLength : Decimal(k) = words[1] => k = n
  BY DecimalAssumption
<1>2. (CHOOSE k \in 0 .. MaxLength : Decimal(k) = words[1]) = n
  BY <1>1
<1>3. QED
  BY <1>2 DEF Atoi

(* The client finds the code in the first line of the answer and the count *)
(* of bytes in the fourth.                                                 *)
LEMMA AnswerRead ==
  ASSUME NEW a, a.code \in {"200", "403", "404"}, a.text \in Seq(Bytes),
         Len(a.text) \in 0 .. MaxLength, NEW all, all = Message(a),
         NEW reader \in Readers, Reads(reader, all, HeaderEnds)
  PROVE  /\ Len(reader.lines) >= 1 => Len(reader.lines[1]) = 3 /\ reader.lines[1][2] = a.code
         /\ Len(reader.lines) = AnswerLines =>
              /\ Position(reader, HeaderEnds) = 23
              /\ Atoi(SubSeq(reader.lines[4], 2, Len(reader.lines[4]))) = Len(a.text)
<1> DEFINE first == reader.lines[1]
           fourth == reader.lines[4]
           d == 12
           e == 13
           b == 3
<1>0. Framed(all, HeaderEnds) /\ Len(all) = 23 + Len(a.text) /\ all[2] = a.code
      /\ all[13] = Decimal(Len(a.text))
  BY AnswerFramed
<1>1. all \in Seq(Bytes)
  BY <1>0 DEF Framed
<1>2. HeaderEnds \in Seq(Nat)
  BY DEF HeaderEnds
<1>3. /\ HeaderEnds[1] = 0 /\ HeaderEnds[1 + 1] = 5 /\ HeaderEnds[4] = 11 /\ HeaderEnds[4 + 1] = 15
      /\ HeaderEnds[7 + 1] = 23 /\ Len(HeaderEnds) = 7 + 1
  BY DEF HeaderEnds
<1>4. Len(reader.lines) \in Nat /\ Len(all) >= 23
  BY <1>0 DEF Readers
<1>5. /\ b <= Len(all) /\ 1 <= b + 1 /\ 1 \in Nat \ {0} /\ b \in Nat
      /\ e <= Len(all) /\ d <= e + 1 /\ d \in Nat \ {0} /\ e \in Nat
  BY <1>4
<1>9. /\ first = reader.lines[1] /\ fourth = reader.lines[4]
      /\ b = 3 /\ d = 12 /\ e = 13
  OBVIOUS
<1>10. HeaderEnds[1] + 1 = 1 /\ HeaderEnds[1 + 1] - 2 = b
       /\ HeaderEnds[4] + 1 = d /\ HeaderEnds[4 + 1] - 2 = e
  BY <1>3
<1> HIDE DEF first, fourth, b, d, e
<1>6. ASSUME Len(reader.lines) >= 1
      PROVE  Len(first) = 3 /\ first[2] = a.code
  <2>1. first = SubSeq(all, 1, b)
    <3>1. 1 \in 1 .. Len(reader.lines)
      BY <1>4, <1>6
    <3>2. first = SubSeq(all, HeaderEnds[1] + 1, HeaderEnds[1 + 1] - 2)
      BY <1>9, <3>1, LineRead
    <3>3. QED
      BY <1>10, <3>2
  <2>2. Len(first) = b - 1 + 1 /\ \A k \in 1 .. b - 1 + 1 : first[k] = all[1 + k - 1]
    BY <1>1, <1>5, <2>1, PartIs
  <2>3. 2 \in 1 .. b - 1 + 1 /\ 1 + 2 - 1 = 2 /\ b - 1 + 1 = 3
    BY <1>9
  <2>4. first[2] = all[1 + 2 - 1]
    BY <2>2, <2>3
  <2>5. QED
    BY <1>0, <2>2, <2>3, <2>4
<1>7. ASSUME Len(reader.lines) = AnswerLines
      PROVE  /\ Position(reader, HeaderEnds) = 23
             /\ Atoi(SubSeq(fourth, 2, Len(fourth))) = Len(a.text)
  <2>1. 7 = Len(reader.lines) /\ 7 \in Nat /\ 7 + 1 = Len(HeaderEnds)
    BY <1>3, <1>7 DEF AnswerLines
  <2>2. Position(reader, HeaderEnds) = HeaderEnds[7 + 1]
    BY <1>2, <2>1, AllRead
  <2>3. 4 \in 1 .. Len(reader.lines)
    <3>1. Len(reader.lines) >= 7
      BY <1>7 DEF AnswerLines
    <3>2. QED
      BY <1>4, <3>1
  <2>11. fourth = SubSeq(all, d, e)
    <3>1. fourth = SubSeq(all, HeaderEnds[4] + 1, HeaderEnds[4 + 1] - 2)
      BY <1>9, <2>3, LineRead
    <3>2. QED
      BY <1>10, <3>1
  <2>4. /\ fourth \in Seq(Bytes) /\ Len(fourth) = e - d + 1
        /\ \A k \in 1 .. e - d + 1 : fourth[k] = all[d + k - 1]
    BY <1>1, <1>5, <2>11, PartIs
  <2>5. 2 \in 1 .. e - d + 1 /\ d + 2 - 1 = 13 /\ e - d + 1 = 2
    BY <1>9
  <2>6. fourth[2] = all[d + 2 - 1] /\ Len(fourth) = 2
    BY <2>4, <2>5
  <2>7. SubSeq(fourth, 2, 2) = <<fourth[2]>>
    <3>1. fourth \in Seq(Bytes) /\ 2 <= Len(fourth)
      BY <2>4, <2>5
    <3>2. QED
      BY <3>1, WordAt
  <2>8. <<fourth[2]>> # <<>> /\ <<fourth[2]>>[1] = Decimal(Len(a.text))
    BY <1>0, <2>5, <2>6
  <2> DEFINE words == <<fourth[2]>>
  <2>9. Atoi(words) = Len(a.text)
    <3> HIDE DEF words
    <3>1. words # <<>> /\ words[1] = Decimal(Len(a.text))
      BY <2>8 DEF words
    <3>2. QED
      BY <3>1, AtoiOf
  <2>10. QED
    BY <1>3, <2>2, <2>6, <2>7, <2>9
<1>8. QED
  BY <1>6, <1>7, <1>9

------------------------------------------------------------------------------
(* The invariant.                                                          *)

LEMMA TypeFacts ==
  ASSUME ExchangeTypeOK
  PROVE  /\ file \in Files
         /\ up \in Seq(Bytes) /\ down \in Seq(Bytes) /\ cOut \in Seq(Bytes)
         /\ sOut \in Seq(Bytes) /\ content \in Seq(Bytes)
         /\ cpc \in {"write", "lines", "body", "done", "failed", "killed", "gone"}
         /\ spc \in {"read", "answer", "write", "sleep", "closed", "killed", "ended"}
         /\ cReader \in Readers /\ sReader \in Readers
         /\ reset \in {"none", "waits", "read"}
         /\ answer \in {NoAnswer, AnswerWith(file)}
BY DEF ExchangeTypeOK

LEMMA MakeType ==
  ASSUME file \in Files,
         up \in Seq(Bytes), down \in Seq(Bytes), cOut \in Seq(Bytes),
         sOut \in Seq(Bytes), content \in Seq(Bytes),
         cpc \in {"write", "lines", "body", "done", "failed", "killed", "gone"},
         spc \in {"read", "answer", "write", "sleep", "closed", "killed", "ended"},
         cReader \in Readers, sReader \in Readers,
         reset \in {"none", "waits", "read"},
         answer \in {NoAnswer, AnswerWith(file)}
  PROVE  ExchangeTypeOK
BY DEF ExchangeTypeOK

LEMMA AnswerFacts ==
  ASSUME ExchangeTypeOK, answer # NoAnswer
  PROVE  /\ answer.code \in {"200", "403", "404"} /\ answer.text \in Seq(Bytes)
         /\ Len(answer.text) \in 0 .. MaxLength
         /\ Message(answer) \in Seq(Bytes) /\ Len(Message(answer)) = 23 + Len(answer.text)
         /\ Framed(Message(answer), HeaderEnds)
         /\ \A k \in 1 .. Len(answer.text) : Message(answer)[23 + k] = answer.text[k]
<1>1. answer = AnswerWith(file) /\ file \in Files
  BY DEF ExchangeTypeOK
<1>2. /\ answer.code \in {"200", "403", "404"} /\ answer.text \in Seq(Bytes)
      /\ Len(answer.text) \in 0 .. MaxLength
  BY <1>1, AnswerOf
<1> DEFINE all == Message(answer)
<1>3. all = Message(answer)
  OBVIOUS
<1> HIDE DEF all
<1>4. /\ Framed(all, HeaderEnds) /\ Len(all) = 23 + Len(answer.text)
      /\ \A k \in 1 .. Len(answer.text) : all[23 + k] = answer.text[k]
  BY <1>2, <1>3, AnswerFramed
<1>5. all \in Seq(Bytes)
  BY <1>4 DEF Framed
<1>6. QED
  BY <1>2, <1>3, <1>4, <1>5

(* A position is a number, where the request and the answer are read.      *)
LEMMA Positions ==
  ASSUME NEW bytes, NEW ends, Framed(bytes, ends), NEW reader \in Readers, Reads(reader, bytes, ends)
  PROVE  Position(reader, ends) \in Nat
<1>1. Len(reader.lines) \in Nat /\ Len(reader.line) \in Nat /\ Len(ends) \in Nat
  BY DEF Readers, Framed, FramedTo
<1>2. Len(reader.lines) + 1 \in 1 .. Len(ends)
  BY <1>1 DEF Reads
<1>3. ends[Len(reader.lines) + 1] \in Nat
  BY <1>2, ElementOfSeq DEF Framed, FramedTo
<1>4. QED
  BY <1>1, <1>3, SMTT(30) DEF Position

LEMMA RequestSame ==
  ASSUME RequestInv, UNCHANGED <<sReader, up, cOut>>,
         ServerOpen' /\ cpc' # "gone" => ServerOpen /\ cpc # "gone"
  PROVE  RequestInv'
BY DEF RequestInv

LEMMA AnswerSame ==
  ASSUME AnswerInv, UNCHANGED <<file, cReader, content, down, sOut, answer, counted, downloaded>>,
         spc' = "write" /\ ClientOpen' => spc = "write" /\ ClientOpen,
         cpc' = "done" => cpc = "done"
  PROVE  AnswerInv'
BY DEF AnswerInv

(* A reset takes the end of what is on its way.                            *)
LEMMA AnswerCut ==
  ASSUME ExchangeTypeOK, AnswerInv, answer # NoAnswer,
         UNCHANGED <<file, cReader, content, answer, counted, downloaded>>,
         NEW k \in 0 .. Len(down), down' = SubSeq(down, 1, k),
         ~(spc' = "write" /\ ClientOpen'), cpc' = "done" => cpc = "done"
  PROVE  AnswerInv'
<1> DEFINE all == Message(answer)
           n == Position(cReader, HeaderEnds) + Len(content)
<1>1. all \in Seq(Bytes) /\ Framed(all, HeaderEnds)
  BY AnswerFacts
<1>2. cReader \in Readers /\ content \in Seq(Bytes) /\ down \in Seq(Bytes)
  BY TypeFacts
<1>3. Reads(cReader, all, HeaderEnds) /\ InFlight(all, n, down)
  BY DEF AnswerInv
<1>4. n \in Nat
  <2>1. Position(cReader, HeaderEnds) \in Nat
    BY <1>1, <1>2, <1>3, Positions
  <2>2. Len(content) \in Nat
    BY <1>2
  <2>3. QED
    BY <2>1, <2>2
<1>5. InFlight(all, n, down')
  <2> HIDE DEF n, all
  <2>1. QED
    BY <1>1, <1>2, <1>3, <1>4, CutStream
<1>6. QED
  BY <1>5 DEF AnswerInv

LEMMA InitInv == ASSUME Init PROVE ExchangeInv
<1>0. /\ Framed(Request, RequestEnds) /\ RequestEnds[1] = 0 /\ Len(Request) = 21
      /\ Request \in Seq(Bytes)
  BY RequestFramed DEF Framed
<1>1. /\ NewReader \in Readers /\ Reads(NewReader, Request, RequestEnds)
      /\ Position(NewReader, RequestEnds) = 0
  BY <1>0, StartReads
<1>2. InFlight(Request, 0, <<>>) /\ Unwritten(Request, 0) = Request
  BY <1>0, EmptyStream
<1>3. ExchangeTypeOK
  <2>1. <<>> \in Seq(Bytes)
    BY EmptySeq
  <2>2. QED
    BY <1>0, <1>1, <2>1 DEF Init, ExchangeTypeOK
<1>4. RequestInv
  <2>1. Len(<<>>) = 0 /\ 0 + 0 = 0
    OBVIOUS
  <2>2. QED
    BY <1>1, <1>2, <2>1 DEF Init, RequestInv
<1>5. DecidedInv
  BY DEF Init, DecidedInv
<1>6. PhaseInv
  <2>1. Len(NewReader.lines) = 0
    BY DEF NewReader
  <2>2. Request # <<>>
    <3>1. Len(<<>>) = 0
      OBVIOUS
    <3>2. Len(Request) # 0
      BY <1>0
    <3>3. QED
      BY <3>1, <3>2, Zenon
  <2>3. QED
    BY <2>1, <2>2 DEF Init, PhaseInv, RequestLines, AnswerLines
<1>7. QED
  BY <1>3, <1>4, <1>5, <1>6 DEF ExchangeInv

LEMMA WriteRequestInv == ASSUME ExchangeInv, WriteRequest PROVE ExchangeInv'
<1>0. ExchangeTypeOK /\ RequestInv /\ DecidedInv /\ PhaseInv
  BY DEF ExchangeInv
<1>1. /\ cpc = "write" /\ ServerOpen
      /\ up' = Append(up, Head(cOut)) /\ cOut' = Tail(cOut)
      /\ cpc' = IF cOut' = <<>> THEN "lines" ELSE "write"
      /\ UNCHANGED <<file, down, cReader, content, downloaded, reset, lost>>
      /\ UNCHANGED <<spc, sOut, sReader, answer, counted>>
  BY DEF WriteRequest, serverVars
<1> DEFINE n == Position(sReader, RequestEnds)
<1>2. /\ up \in Seq(Bytes) /\ sReader \in Readers
      /\ Framed(Request, RequestEnds) /\ Request \in Seq(Bytes)
  BY <1>0, TypeFacts, RequestFramed DEF Framed
<1>3. /\ Reads(sReader, Request, RequestEnds) /\ InFlight(Request, n, up)
      /\ cOut = Unwritten(Request, n + Len(up))
  BY <1>0, <1>1 DEF RequestInv
<1>4. n \in Nat
  BY <1>2, <1>3, Positions
<1>5. cOut # <<>>
  BY <1>0, <1>1 DEF PhaseInv
<1>6. /\ up' \in Seq(Bytes) /\ cOut' \in Seq(Bytes)
      /\ InFlight(Request, n, up') /\ cOut' = Unwritten(Request, n + Len(up'))
  <2> HIDE DEF n
  <2>1. up' = Longer(up, cOut) /\ cOut' = Rest(cOut)
    BY <1>1 DEF Longer, Rest
  <2>2. OnItsWay(Request, n, up, cOut)
    BY <1>2, <1>3 DEF OnItsWay
  <2>3. OnItsWay(Request, n, Longer(up, cOut), Rest(cOut)) /\ Rest(cOut) \in Seq(Bytes)
    BY <1>2, <1>4, <1>5, <2>2, WriteByte
  <2>4. QED
    BY <2>1, <2>3 DEF OnItsWay
<1>7. ExchangeTypeOK'
  BY <1>0, <1>1, <1>6, TypeFacts DEF ExchangeTypeOK
<1>8. RequestInv'
  BY <1>1, <1>3, <1>6 DEF RequestInv
<1>9. DecidedInv'
  <2>1. CASE answer = NoAnswer
    BY <1>0, <1>1, <2>1 DEF DecidedInv
  <2>2. CASE answer # NoAnswer
    <3>1. AnswerInv
      BY <1>0, <2>2 DEF DecidedInv
    <3>2. AnswerInv'
      BY <1>1, <3>1, AnswerSame DEF ClientOpen
    <3>3. QED
      BY <1>0, <1>1, <2>2, <3>2 DEF DecidedInv
  <2>3. QED
    BY <2>1, <2>2
<1>10. PhaseInv'
  BY <1>0, <1>1 DEF PhaseInv, ServerOpen
<1>11. QED
  BY <1>7, <1>8, <1>9, <1>10 DEF ExchangeInv

(* A reset, at the close of the server or behind it.                       *)
LEMMA ResetInv ==
  ASSUME ExchangeTypeOK, DecidedInv, ResetToClient,
         UNCHANGED <<file, cReader, content, answer, counted, downloaded>>
  PROVE  /\ down' \in Seq(Bytes) /\ reset' = "waits"
         /\ answer = NoAnswer => down' = <<>>
         /\ answer # NoAnswer /\ ~(spc' = "write" /\ ClientOpen') /\ (cpc' = "done" => cpc = "done")
              => AnswerInv'
<1>1. PICK k \in 0 .. Len(down) : down' = SubSeq(down, 1, k)
  BY DEF ResetToClient
<1>2. down \in Seq(Bytes)
  BY TypeFacts
<1>3. down' \in Seq(Bytes)
  <2>1. k \in Nat /\ k <= Len(down) /\ 1 <= k + 1 /\ 1 \in Nat \ {0}
    BY <1>2
  <2>2. SubSeq(down, 1, k) \in Seq(Bytes)
    BY <1>2, <2>1, Part
  <2>3. QED
    BY <1>1, <2>2
<1>4. ASSUME answer = NoAnswer PROVE down' = <<>>
  <2>1. down = <<>>
    BY <1>4 DEF DecidedInv
  <2>2. k = 0
    BY <2>1
  <2>3. SubSeq(down, 1, 0) = <<>>
    BY SubSeqEmpty
  <2>4. QED
    BY <1>1, <2>2, <2>3
<1>5. ASSUME answer # NoAnswer, ~(spc' = "write" /\ ClientOpen'), cpc' = "done" => cpc = "done"
      PROVE  AnswerInv'
  <2>1. AnswerInv
    BY <1>5 DEF DecidedInv
  <2>2. QED
    BY <1>1, <1>5, <2>1, AnswerCut
<1>6. reset' = "waits"
  BY DEF ResetToClient
<1>7. QED
  BY <1>3, <1>4, <1>5, <1>6

LEMMA WriteToNobodyInv == ASSUME ExchangeInv, WriteToNobody PROVE ExchangeInv'
<1>0. ExchangeTypeOK /\ RequestInv /\ DecidedInv /\ PhaseInv
  BY DEF ExchangeInv
<1>1. /\ cpc = "write" /\ ~ServerOpen
      /\ UNCHANGED <<file, up, cReader, content, downloaded>>
      /\ UNCHANGED <<spc, sOut, sReader, answer, counted>>
  BY DEF WriteToNobody, serverVars
<1>2. RequestInv'
  <2>1. ~ServerOpen'
    BY <1>1 DEF ServerOpen
  <2>2. QED
    BY <1>0, <1>1, <2>1 DEF RequestInv
<1>3. spc \in {"closed", "ended"} /\ cReader = NewReader /\ content = <<>>
  BY <1>0, <1>1, TypeFacts DEF PhaseInv, ServerOpen
<1>4. CASE ResetToClient /\ cOut' = Tail(cOut) /\ cpc' = IF cOut' = <<>> THEN "lines" ELSE "write"
  <2>1. /\ down' \in Seq(Bytes) /\ reset' = "waits"
        /\ answer = NoAnswer => down' = <<>>
        /\ answer # NoAnswer => AnswerInv'
    BY <1>0, <1>1, <1>3, <1>4, ResetInv
  <2>2. cOut' \in Seq(Bytes)
    <3>1. cOut \in Seq(Bytes) /\ cOut # <<>>
      BY <1>0, <1>1, TypeFacts DEF PhaseInv
    <3>2. QED
      BY <1>4, <3>1, HeadTailProperties
  <2>3. ExchangeTypeOK'
    BY <1>0, <1>1, <1>4, <2>1, <2>2, TypeFacts DEF ExchangeTypeOK
  <2>4. DecidedInv'
    BY <1>0, <1>1, <1>4, <2>1 DEF DecidedInv
  <2>5. PhaseInv'
    BY <1>0, <1>1, <1>4, <2>1 DEF PhaseInv, ServerOpen
  <2>6. QED
    BY <1>2, <2>3, <2>4, <2>5 DEF ExchangeInv
<1>5. CASE cpc' = "killed" /\ UNCHANGED <<cOut, down, reset, lost>>
  <2>1. ExchangeTypeOK'
    BY <1>0, <1>1, <1>5, TypeFacts DEF ExchangeTypeOK
  <2>2. ASSUME answer # NoAnswer PROVE AnswerInv'
    <3>1. AnswerInv
      BY <1>0, <2>2 DEF DecidedInv
    <3>2. QED
      BY <1>1, <1>3, <1>5, <3>1, AnswerSame
  <2>3. DecidedInv'
    BY <1>0, <1>1, <1>5, <2>2 DEF DecidedInv
  <2>4. PhaseInv'
    BY <1>0, <1>1, <1>5 DEF PhaseInv, ServerOpen
  <2>5. QED
    BY <1>2, <2>1, <2>3, <2>4 DEF ExchangeInv
<1>6. QED
  BY <1>4, <1>5 DEF WriteToNobody

LEMMA ClientEndsInv == ASSUME ExchangeInv, ClientEnds PROVE ExchangeInv'
<1>0. ExchangeTypeOK /\ RequestInv /\ DecidedInv /\ PhaseInv
  BY DEF ExchangeInv
<1>1. /\ ClientOpen /\ cpc' = "gone"
      /\ UNCHANGED <<file, up, down, cOut, cReader, content, downloaded, reset, lost>>
      /\ UNCHANGED <<spc, sOut, sReader, answer, counted>>
  BY DEF ClientEnds, serverVars
<1>2. ExchangeTypeOK'
  BY <1>0, <1>1, TypeFacts DEF ExchangeTypeOK
<1>3. RequestInv'
  BY <1>0, <1>1, RequestSame
<1>4. ASSUME answer # NoAnswer PROVE AnswerInv'
  <2>1. AnswerInv
    BY <1>0, <1>4 DEF DecidedInv
  <2>2. QED
    BY <1>1, <2>1, AnswerSame DEF ClientOpen
<1>5. DecidedInv'
  BY <1>0, <1>1, <1>4 DEF DecidedInv
<1>6. PhaseInv'
  BY <1>0, <1>1 DEF PhaseInv, ServerOpen
<1>7. QED
  BY <1>2, <1>3, <1>5, <1>6 DEF ExchangeInv

(* The server closes its socket, or its process ends.                      *)
LEMMA ShutsInv ==
  ASSUME ExchangeInv, ServerOpen, NEW pc \in {"closed", "ended"}, ShutsAs(pc),
         pc = "closed" => spc = "sleep"
  PROVE  ExchangeInv'
<1>0. ExchangeTypeOK /\ RequestInv /\ DecidedInv /\ PhaseInv
  BY DEF ExchangeInv
<1>1. /\ spc' = pc
      /\ UNCHANGED <<file, up, cpc, cOut, cReader, content, downloaded>>
      /\ UNCHANGED <<sOut, sReader, answer, counted>>
  BY DEF ShutsAs, clientVars
<1>2. ~ServerOpen' /\ ~(spc' = "write")
  BY <1>1 DEF ServerOpen
<1>3. RequestInv'
  BY <1>0, <1>1, <1>2, RequestSame
<1>4. /\ down' \in Seq(Bytes) /\ reset' \in {"none", "waits", "read"}
      /\ answer = NoAnswer => down' = <<>>
      /\ answer # NoAnswer => AnswerInv'
  <2>1. CASE ResetToClient
    BY <1>0, <1>1, <1>2, <2>1, ResetInv
  <2>2. CASE UNCHANGED <<down, reset, lost>>
    <3>1. down \in Seq(Bytes) /\ reset \in {"none", "waits", "read"}
      BY <1>0, TypeFacts
    <3>2. answer = NoAnswer => down = <<>>
      BY <1>0 DEF DecidedInv
    <3>3. ASSUME answer # NoAnswer PROVE AnswerInv'
      <4>1. AnswerInv
        BY <1>0, <3>3 DEF DecidedInv
      <4>2. QED
        BY <1>1, <1>2, <2>2, <4>1, AnswerSame
    <3>4. QED
      BY <2>2, <3>1, <3>2, <3>3
  <2>3. QED
    BY <2>1, <2>2 DEF ShutsAs
<1>5. ExchangeTypeOK'
  BY <1>0, <1>1, <1>4, TypeFacts DEF ExchangeTypeOK
<1>6. DecidedInv'
  <2>1. CASE answer = NoAnswer
    <3>1. pc = "ended"
      BY <1>0, <2>1 DEF DecidedInv
    <3>2. QED
      BY <1>0, <1>1, <1>4, <2>1, <3>1 DEF DecidedInv
  <2>2. CASE answer # NoAnswer
    BY <1>1, <1>4, <2>2 DEF DecidedInv
  <2>3. QED
    BY <2>1, <2>2
<1>7. PhaseInv'
  BY <1>0, <1>1, <1>2 DEF PhaseInv
<1>8. QED
  BY <1>3, <1>5, <1>6, <1>7 DEF ExchangeInv

------------------------------------------------------------------------------
(* The steps that read.                                                    *)

LEMMA TakeNext ==
  ASSUME NEW bytes, NEW ends, Framed(bytes, ends),
         NEW reader \in Readers, Reads(reader, bytes, ends), Len(reader.lines) + 1 < Len(ends),
         NEW byte, byte = bytes[Position(reader, ends) + 1]
  PROVE  /\ Position(reader, ends) \in Nat /\ Position(reader, ends) < Len(bytes)
         /\ Take(reader, byte) \in Readers /\ Reads(Take(reader, byte), bytes, ends)
         /\ Position(Take(reader, byte), ends) = Position(reader, ends) + 1
         /\ \/ Take(reader, byte).lines = reader.lines
            \/ Len(Take(reader, byte).lines) = Len(reader.lines) + 1
         /\ reader.cr => Take(reader, byte) = LineEnds(reader)
<1> DEFINE taken == Take(reader, bytes[Position(reader, ends) + 1])
<1>1. taken = Take(reader, bytes[Position(reader, ends) + 1]) /\ taken = Take(reader, byte)
  OBVIOUS
<1> HIDE DEF taken
<1>2. /\ Position(reader, ends) \in Nat /\ Position(reader, ends) < Len(bytes)
      /\ taken \in Readers /\ Reads(taken, bytes, ends)
      /\ Position(taken, ends) = Position(reader, ends) + 1
      /\ \/ taken.lines = reader.lines
         \/ Len(taken.lines) = Len(reader.lines) + 1
      /\ reader.cr => taken = LineEnds(reader)
  BY <1>1, TakeReads
<1>3. QED
  BY <1>1, <1>2

(* What a side has read, and what is on its way to it, are consecutive     *)
(* parts of bytes.                                                         *)
Reading(bytes, ends, reader, stream) ==
  /\ reader \in Readers /\ Reads(reader, bytes, ends)
  /\ stream \in Seq(Bytes) /\ InFlight(bytes, Position(reader, ends), stream)

(* One byte further on.                                                    *)
ReadingOn(bytes, ends, old, reader, stream) ==
  /\ Reading(bytes, ends, reader, stream)
  /\ Position(reader, ends) = Position(old, ends) + 1
  /\ reader.lines = old.lines \/ Len(reader.lines) = Len(old.lines) + 1

(* A side reads a byte of a line.                                          *)
LEMMA ReadLine ==
  ASSUME NEW bytes \in Seq(Bytes), NEW ends, Framed(bytes, ends),
         NEW reader, NEW stream, Reading(bytes, ends, reader, stream),
         Len(reader.lines) + 1 < Len(ends), stream # <<>>
  PROVE  /\ ReadingOn(bytes, ends, reader, Take(reader, Head(stream)), Rest(stream))
         /\ Position(reader, ends) + 1 + Len(Rest(stream)) = Position(reader, ends) + Len(stream)
<1> DEFINE n == Position(reader, ends)
           byte == Head(stream)
<1>0. /\ reader \in Readers /\ Reads(reader, bytes, ends) /\ stream \in Seq(Bytes)
      /\ InFlight(bytes, Position(reader, ends), stream)
  BY DEF Reading
<1>1. n \in Nat /\ n = Position(reader, ends)
  BY <1>0, Positions
<1>2. byte = Head(stream)
  OBVIOUS
<1> HIDE DEF n, byte
<1>3. /\ byte = bytes[n + 1] /\ Rest(stream) \in Seq(Bytes)
      /\ InFlight(bytes, n + 1, Rest(stream)) /\ n + 1 + Len(Rest(stream)) = n + Len(stream)
  BY <1>0, <1>1, <1>2, ReadByte
<1>4. byte = bytes[Position(reader, ends) + 1]
  BY <1>1, <1>3
<1>5. /\ Take(reader, byte) \in Readers /\ Reads(Take(reader, byte), bytes, ends)
      /\ Position(Take(reader, byte), ends) = Position(reader, ends) + 1
      /\ \/ Take(reader, byte).lines = reader.lines
         \/ Len(Take(reader, byte).lines) = Len(reader.lines) + 1
  BY <1>0, <1>4, TakeNext
<1>6. InFlight(bytes, Position(Take(reader, byte), ends), Rest(stream))
  BY <1>1, <1>3, <1>5
<1>7. ReadingOn(bytes, ends, reader, Take(reader, byte), Rest(stream))
  BY <1>3, <1>5, <1>6 DEF Reading, ReadingOn
<1>8. QED
  BY <1>1, <1>2, <1>3, <1>7

(* Behind a CR, a side takes the end of the stream for the byte it expects. *)
LEMMA ReadEnd ==
  ASSUME NEW bytes \in Seq(Bytes), NEW ends, Framed(bytes, ends),
         NEW reader, NEW stream, Reading(bytes, ends, reader, stream),
         Len(reader.lines) + 1 < Len(ends), stream = <<>>, reader.cr
  PROVE  ReadingOn(bytes, ends, reader, LineEnds(reader), stream)
<1> DEFINE byte == bytes[Position(reader, ends) + 1]
           n == Position(reader, ends)
<1>0. reader \in Readers /\ Reads(reader, bytes, ends)
  BY DEF Reading
<1>1. byte = bytes[Position(reader, ends) + 1] /\ n = Position(reader, ends)
  OBVIOUS
<1> HIDE DEF byte, n
<1>2. /\ Position(reader, ends) \in Nat /\ Position(reader, ends) < Len(bytes)
      /\ Take(reader, byte) \in Readers /\ Reads(Take(reader, byte), bytes, ends)
      /\ Position(Take(reader, byte), ends) = Position(reader, ends) + 1
      /\ \/ Take(reader, byte).lines = reader.lines
         \/ Len(Take(reader, byte).lines) = Len(reader.lines) + 1
      /\ reader.cr => Take(reader, byte) = LineEnds(reader)
  BY <1>0, <1>1, TakeNext
<1>3. n + 1 \in Nat /\ n + 1 <= Len(bytes)
  BY <1>1, <1>2
<1>4. InFlight(bytes, n + 1, <<>>)
  BY <1>3, EmptyStream
<1>5. InFlight(bytes, Position(LineEnds(reader), ends), stream)
  BY <1>1, <1>2, <1>4
<1>6. stream \in Seq(Bytes)
  BY DEF Reading
<1>7. QED
  BY <1>2, <1>5, <1>6 DEF Reading, ReadingOn

LEMMA ReadRequestInv == ASSUME ExchangeInv, ReadRequest PROVE ExchangeInv'
<1>0. ExchangeTypeOK /\ RequestInv /\ DecidedInv /\ PhaseInv
  BY DEF ExchangeInv
<1>1. /\ spc = "read"
      /\ spc' = IF Len(sReader'.lines) = RequestLines THEN "answer" ELSE "read"
      /\ UNCHANGED <<file, down, reset, sOut, answer, counted, lost>>
      /\ UNCHANGED <<cpc, cOut, cReader, content, downloaded>>
  BY DEF ReadRequest, clientVars
<1>2. \/ up # <<>> /\ up' = Tail(up) /\ sReader' = Take(sReader, Head(up))
      \/ up = <<>> /\ ~ClientOpen /\ sReader.cr /\ sReader' = LineEnds(sReader) /\ UNCHANGED up
  BY DEF ReadRequest
<1> DEFINE n == Position(sReader, RequestEnds)
<1>3. /\ up \in Seq(Bytes) /\ sReader \in Readers
      /\ Framed(Request, RequestEnds) /\ Request \in Seq(Bytes)
  BY <1>0, TypeFacts, RequestFramed DEF Framed
<1>4. Reads(sReader, Request, RequestEnds) /\ InFlight(Request, n, up)
  BY <1>0 DEF RequestInv
<1>5. n \in Nat /\ n = Position(sReader, RequestEnds)
  BY <1>3, <1>4, Positions
<1>6. Len(sReader.lines) < 6 /\ Len(sReader.lines) \in Nat
  BY <1>0, <1>1, <1>3 DEF PhaseInv, RequestLines, Readers
<1>7. Len(sReader.lines) + 1 < Len(RequestEnds)
  BY <1>6, RequestFramed
<1> HIDE DEF n
<1>8. /\ sReader' \in Readers /\ Reads(sReader', Request, RequestEnds)
      /\ Position(sReader', RequestEnds) = n + 1
      /\ up' \in Seq(Bytes) /\ InFlight(Request, n + 1, up')
      /\ up # <<>> => n + 1 + Len(up') = n + Len(up)
      /\ sReader'.lines = sReader.lines \/ Len(sReader'.lines) = Len(sReader.lines) + 1
  <2>0. Reading(Request, RequestEnds, sReader, up)
    BY <1>3, <1>4, <1>5 DEF Reading
  <2>1. CASE up # <<>> /\ up' = Tail(up) /\ sReader' = Take(sReader, Head(up))
    <3>1. /\ ReadingOn(Request, RequestEnds, sReader, Take(sReader, Head(up)), Rest(up))
          /\ Position(sReader, RequestEnds) + 1 + Len(Rest(up)) = Position(sReader, RequestEnds) + Len(up)
      BY <1>3, <1>7, <2>0, <2>1, ReadLine
    <3>2. up' = Rest(up) /\ sReader' = Take(sReader, Head(up))
      BY <2>1 DEF Rest
    <3>3. ReadingOn(Request, RequestEnds, sReader, sReader', up')
      BY <3>1, <3>2
    <3>4. n + 1 + Len(up') = n + Len(up)
      BY <1>5, <3>1, <3>2
    <3>5. QED
      BY <1>5, <3>3, <3>4 DEF ReadingOn, Reading
  <2>2. CASE up = <<>> /\ sReader.cr /\ sReader' = LineEnds(sReader) /\ UNCHANGED up
    <3>1. ReadingOn(Request, RequestEnds, sReader, LineEnds(sReader), up)
      BY <1>3, <1>7, <2>0, <2>2, ReadEnd
    <3>2. ReadingOn(Request, RequestEnds, sReader, sReader', up')
      BY <2>2, <3>1
    <3>3. QED
      BY <1>5, <2>2, <3>2 DEF ReadingOn, Reading
  <2>3. QED
    BY <1>2, <2>1, <2>2
<1>9. answer = NoAnswer
  BY <1>0, <1>1 DEF DecidedInv
<1>10. up = <<>> => cpc = "gone"
  <2>1. up = <<>> => ~ClientOpen
    BY <1>2
  <2>2. cpc \notin {"body", "done", "failed"}
    BY <1>0, <1>9 DEF DecidedInv
  <2>3. cpc # "killed"
    BY <1>0, <1>1 DEF PhaseInv, ServerOpen
  <2>4. QED
    BY <1>0, <2>1, <2>2, <2>3, TypeFacts DEF ClientOpen
<1>11. ExchangeTypeOK'
  BY <1>0, <1>1, <1>8, TypeFacts DEF ExchangeTypeOK
<1>12. RequestInv'
  <2>1. ASSUME cpc # "gone" PROVE cOut = Unwritten(Request, n + 1 + Len(up'))
    <3>1. cOut = Unwritten(Request, n + Len(up))
      BY <1>0, <1>1, <1>5, <2>1 DEF RequestInv, ServerOpen
    <3>2. n + 1 + Len(up') = n + Len(up)
      BY <1>8, <1>10, <2>1
    <3>3. QED
      BY <3>1, <3>2
  <2>2. QED
    BY <1>1, <1>8, <2>1 DEF RequestInv
<1>13. DecidedInv'
  BY <1>0, <1>1, <1>9 DEF DecidedInv
<1>14. PhaseInv'
  <2>1. Len(sReader'.lines) = Len(sReader.lines) \/ Len(sReader'.lines) = Len(sReader.lines) + 1
    BY <1>8
  <2>2. spc' = "read" => Len(sReader'.lines) < RequestLines
    <3> DEFINE k == Len(sReader'.lines)
    <3>1. spc' = "read" => k # 6
      BY <1>1 DEF RequestLines
    <3>2. k \in Nat /\ k <= 6
      BY <1>6, <2>1
    <3> HIDE DEF k
    <3>3. k # 6 => k < RequestLines
      BY <3>2 DEF RequestLines
    <3>4. QED
      BY <3>1, <3>3 DEF k
  <2>3. spc' \in {"answer", "write", "sleep"} => Len(sReader'.lines) = RequestLines
    BY <1>1
  <2>4. spc' \in {"read", "answer"}
    BY <1>1
  <2>5. QED
    BY <1>0, <1>1, <2>2, <2>3, <2>4 DEF PhaseInv, ServerOpen
<1>15. QED
  BY <1>11, <1>12, <1>13, <1>14 DEF ExchangeInv

LEMMA ReadLinesInv == ASSUME ExchangeInv, ReadLines PROVE ExchangeInv'
<1>0. ExchangeTypeOK /\ RequestInv /\ DecidedInv /\ PhaseInv
  BY DEF ExchangeInv
<1>1. /\ cpc = "lines"
      /\ cpc' = IF cReader'.lines = cReader.lines THEN cpc ELSE AfterLines(cReader'.lines)
      /\ UNCHANGED <<file, up, cOut, content, downloaded, lost>>
      /\ UNCHANGED <<spc, sOut, sReader, answer, counted>>
  BY DEF ReadLines, serverVars
<1>2. \/ /\ down # <<>> /\ down' = Tail(down)
         /\ cReader' = Take(cReader, Head(down)) /\ UNCHANGED reset
      \/ /\ down = <<>> /\ ~ServerOpen /\ cReader.cr /\ cReader' = LineEnds(cReader)
         /\ UNCHANGED down /\ reset' = IF reset = "waits" THEN "read" ELSE reset
  BY DEF ReadLines
<1> DEFINE all == Message(answer)
           n == Position(cReader, HeaderEnds)
<1>3. answer # NoAnswer
  <2>1. down # <<>> => answer # NoAnswer
    BY <1>0 DEF DecidedInv
  <2>2. ~NewReader.cr
    BY DEF NewReader
  <2>3. cReader.cr => answer # NoAnswer
    BY <1>0, <2>2 DEF DecidedInv
  <2>4. QED
    BY <1>2, <2>1, <2>3
<1>4. /\ down \in Seq(Bytes) /\ cReader \in Readers
      /\ Framed(all, HeaderEnds) /\ all \in Seq(Bytes)
  BY <1>0, <1>3, TypeFacts, AnswerFacts
<1>5. AnswerInv
  BY <1>0, <1>3 DEF DecidedInv
<1>6. content = <<>> /\ Len(cReader.lines) < 7 /\ Len(cReader.lines) \in Nat
  BY <1>0, <1>1, <1>4 DEF PhaseInv, AnswerLines, Readers
<1>7. Len(cReader.lines) + 1 < Len(HeaderEnds)
  <2>1. Len(HeaderEnds) = 8
    BY DEF HeaderEnds
  <2>2. QED
    BY <1>6, <2>1
<1>8. Reads(cReader, all, HeaderEnds) /\ n \in Nat
  <2>1. Reads(cReader, all, HeaderEnds)
    BY <1>5 DEF AnswerInv
  <2> HIDE DEF all
  <2>2. QED
    BY <1>4, <2>1, Positions
<1>9. n + Len(content) = n
  <2>1. Len(content) = 0
    BY <1>6
  <2>2. QED
    BY <1>8, <2>1
<1>10. InFlight(all, n, down)
  <2>1. InFlight(all, n + Len(content), down)
    BY <1>5 DEF AnswerInv
  <2>2. QED
    BY <1>9, <2>1
<1> HIDE DEF all, n
<1>11. /\ cReader' \in Readers /\ Reads(cReader', all, HeaderEnds)
       /\ Position(cReader', HeaderEnds) = n + 1
       /\ down' \in Seq(Bytes) /\ InFlight(all, n + 1, down')
       /\ down # <<>> => n + 1 + Len(down') = n + Len(down)
       /\ cReader'.lines = cReader.lines \/ Len(cReader'.lines) = Len(cReader.lines) + 1
  <2>0. n = Position(cReader, HeaderEnds)
    BY DEF n
  <2>1. Reading(all, HeaderEnds, cReader, down)
    BY <1>4, <1>8, <1>10, <2>0 DEF Reading
  <2>2. CASE down # <<>> /\ down' = Tail(down) /\ cReader' = Take(cReader, Head(down))
    <3>1. /\ ReadingOn(all, HeaderEnds, cReader, Take(cReader, Head(down)), Rest(down))
          /\ Position(cReader, HeaderEnds) + 1 + Len(Rest(down)) = Position(cReader, HeaderEnds) + Len(down)
      BY <1>4, <1>7, <2>1, <2>2, ReadLine
    <3>2. down' = Rest(down) /\ cReader' = Take(cReader, Head(down))
      BY <2>2 DEF Rest
    <3>3. ReadingOn(all, HeaderEnds, cReader, cReader', down')
      BY <3>1, <3>2
    <3>4. n + 1 + Len(down') = n + Len(down)
      BY <2>0, <3>1, <3>2
    <3>5. QED
      BY <2>0, <3>3, <3>4 DEF ReadingOn, Reading
  <2>3. CASE down = <<>> /\ cReader.cr /\ cReader' = LineEnds(cReader) /\ UNCHANGED down
    <3>1. ReadingOn(all, HeaderEnds, cReader, LineEnds(cReader), down)
      BY <1>4, <1>7, <2>1, <2>3, ReadEnd
    <3>2. ReadingOn(all, HeaderEnds, cReader, cReader', down')
      BY <2>3, <3>1
    <3>3. QED
      BY <2>0, <2>3, <3>2 DEF ReadingOn, Reading
  <2>4. QED
    BY <1>2, <2>2, <2>3
<1>12. /\ Len(cReader'.lines) \in Nat
       /\ Len(cReader'.lines) >= 1 => /\ Len(cReader'.lines[1]) = 3
                                      /\ cReader'.lines[1][2] \in {"200", "403", "404"}
  <2>1. Len(cReader'.lines) \in Nat
    BY <1>11 DEF Readers
  <2>2. /\ answer.code \in {"200", "403", "404"} /\ answer.text \in Seq(Bytes)
        /\ Len(answer.text) \in 0 .. MaxLength /\ all = Message(answer)
    BY <1>0, <1>3, AnswerFacts DEF all
  <2>3. Len(cReader'.lines) >= 1 => /\ Len(cReader'.lines[1]) = 3
                                    /\ cReader'.lines[1][2] = answer.code
    BY <1>11, <2>2, AnswerRead
  <2>4. QED
    BY <2>1, <2>2, <2>3
<1>13. \/ cpc' = "body" /\ Len(cReader'.lines) = AnswerLines
       \/ cpc' = "lines" /\ Len(cReader'.lines) < AnswerLines
  <2>1. CASE cReader'.lines = cReader.lines
    BY <1>1, <1>6, <2>1 DEF AnswerLines
  <2>2. CASE cReader'.lines # cReader.lines
    <3>1. Len(cReader'.lines) = Len(cReader.lines) + 1
      BY <1>11, <2>2
    <3>2. Len(cReader'.lines) >= 1 /\ Len(cReader'.lines) <= 7
      BY <1>6, <3>1
    <3>3. cpc' = AfterLines(cReader'.lines)
      BY <1>1, <2>2
    <3>4. ~(Len(cReader'.lines[1]) < 3 \/ cReader'.lines[1][2] \notin {"404", "403", "200"})
      BY <1>12, <3>2, SMTT(30)
    <3>5. cpc' = IF Len(cReader'.lines) = AnswerLines THEN "body" ELSE "lines"
      BY <3>3, <3>4 DEF AfterLines
    <3> DEFINE k == Len(cReader'.lines)
    <3>6. k \in Nat /\ k <= 7
      BY <1>12, <3>2
    <3> HIDE DEF k
    <3>7. k = AnswerLines \/ k < AnswerLines
      BY <3>6 DEF AnswerLines
    <3>8. QED
      BY <3>5, <3>6, <3>7 DEF k, AnswerLines
  <2>3. QED
    BY <2>1, <2>2
<1>14. reset' \in {"none", "waits", "read"} /\ (reset' # "none" => reset # "none")
  BY <1>0, <1>2, TypeFacts
<1>15. ExchangeTypeOK'
  BY <1>0, <1>1, <1>11, <1>13, <1>14, TypeFacts DEF ExchangeTypeOK
<1>16. RequestInv'
  BY <1>0, <1>1, RequestSame DEF ServerOpen
<1>17. AnswerInv'
  <2>1. Message(answer') = all /\ content' = content
    BY <1>1 DEF all
  <2>2. Position(cReader', HeaderEnds) + Len(content) = n + 1
    <3>1. Len(content) = 0
      BY <1>6
    <3>2. QED
      BY <1>8, <1>11, <3>1
  <2>3. ASSUME spc = "write" PROVE sOut = Unwritten(all, n + 1 + Len(down'))
    <3>1. sOut = Unwritten(all, n + Len(content) + Len(down))
      BY <1>1, <1>5, <2>3 DEF AnswerInv, ClientOpen, all, n
    <3>2. down # <<>>
      BY <1>2, <2>3 DEF ServerOpen
    <3>3. n + 1 + Len(down') = n + Len(content) + Len(down)
      BY <1>9, <1>11, <3>2
    <3>4. QED
      BY <3>1, <3>3
  <2>4. cpc' # "done"
    BY <1>13
  <2>5. /\ content = SubSeq(answer.text, 1, Len(content))
        /\ counted = IF answer.code = "200" THEN Len(file.bytes) ELSE 0
    BY <1>5 DEF AnswerInv
  <2>6. QED
    BY <1>1, <1>11, <2>1, <2>2, <2>3, <2>4, <2>5 DEF AnswerInv
<1>18. DecidedInv'
  BY <1>0, <1>1, <1>3, <1>17 DEF DecidedInv
<1>19. PhaseInv'
  BY <1>0, <1>1, <1>6, <1>13, <1>14 DEF PhaseInv, ServerOpen
<1>20. QED
  BY <1>15, <1>16, <1>18, <1>19 DEF ExchangeInv

(* What a client knows that has all lines of the answer.                   *)
LEMMA BodyFacts ==
  ASSUME ExchangeInv, cpc = "body", NEW c, c = Len(content)
  PROVE  /\ answer # NoAnswer /\ AnswerInv /\ c \in Nat /\ c <= Len(answer.text)
         /\ Position(cReader, HeaderEnds) = 23 /\ Len(cReader.lines) = AnswerLines
         /\ ContentSize = Len(answer.text) /\ cReader.lines[1][2] = answer.code
         /\ InFlight(Message(answer), 23 + c, down) /\ content = SubSeq(answer.text, 1, c)
         /\ 23 + c + Len(down) <= 23 + Len(answer.text) /\ Len(down) \in Nat
<1>0. ExchangeTypeOK /\ RequestInv /\ DecidedInv /\ PhaseInv
  BY DEF ExchangeInv
<1>1. answer # NoAnswer /\ AnswerInv
  BY <1>0 DEF DecidedInv
<1> DEFINE all == Message(answer)
<1>2. /\ answer.code \in {"200", "403", "404"} /\ answer.text \in Seq(Bytes)
      /\ Len(answer.text) \in 0 .. MaxLength /\ all = Message(answer)
      /\ Len(all) = 23 + Len(answer.text)
  BY <1>0, <1>1, AnswerFacts
<1>3. Reads(cReader, all, HeaderEnds)
  BY <1>1 DEF AnswerInv
<1>4. cReader \in Readers /\ Len(cReader.lines) = AnswerLines /\ Len(cReader.lines) >= 1
  <2>1. cReader \in Readers /\ Len(cReader.lines) = AnswerLines
    BY <1>0, TypeFacts DEF PhaseInv
  <2>2. AnswerLines >= 1
    BY DEF AnswerLines
  <2>3. QED
    BY <2>1, <2>2
<1> HIDE DEF all
<1>5. /\ cReader.lines[1][2] = answer.code
      /\ Position(cReader, HeaderEnds) = 23
      /\ Atoi(SubSeq(cReader.lines[4], 2, Len(cReader.lines[4]))) = Len(answer.text)
  BY <1>2, <1>3, <1>4, AnswerRead
<1>6. ContentSize = Len(answer.text)
  BY <1>5 DEF ContentSize
<1>7. c \in Nat /\ Len(down) \in Nat
  BY <1>0, TypeFacts
<1>8. InFlight(all, 23 + c, down) /\ content = SubSeq(answer.text, 1, c)
  BY <1>1, <1>5 DEF AnswerInv, all
<1>9. 23 + c + Len(down) <= 23 + Len(answer.text)
  BY <1>2, <1>8 DEF InFlight
<1>10. c <= Len(answer.text)
  BY <1>2, <1>7, <1>9
<1>11. QED
  BY <1>1, <1>2, <1>4, <1>5, <1>6, <1>7, <1>8, <1>9, <1>10

LEMMA ReadContentInv == ASSUME ExchangeInv, ReadContent PROVE ExchangeInv'
<1>0. ExchangeTypeOK /\ RequestInv /\ DecidedInv /\ PhaseInv
  BY DEF ExchangeInv
<1>1. /\ cpc = "body" /\ Len(content) < ContentSize
      /\ UNCHANGED <<file, up, cOut, cReader, downloaded, lost>>
      /\ UNCHANGED <<spc, sOut, sReader, answer, counted>>
  BY DEF ReadContent, serverVars
<1> DEFINE c == Len(content)
           all == Message(answer)
           text == answer.text
<1>2. c = Len(content) /\ all = Message(answer) /\ text = answer.text
  OBVIOUS
<1> HIDE DEF c, all, text
<1>3. /\ answer # NoAnswer /\ AnswerInv /\ c \in Nat
      /\ Position(cReader, HeaderEnds) = 23 /\ Len(cReader.lines) = AnswerLines
      /\ ContentSize = Len(text) /\ InFlight(all, 23 + c, down) /\ content = SubSeq(text, 1, c)
  BY <1>0, <1>1, <1>2, BodyFacts DEF ExchangeInv
<1>4. /\ all \in Seq(Bytes) /\ text \in Seq(Bytes) /\ down \in Seq(Bytes)
      /\ \A k \in 1 .. Len(text) : all[23 + k] = text[k]
  BY <1>0, <1>2, <1>3, AnswerFacts, TypeFacts
<1>5. c < Len(text) /\ Len(text) \in Nat
  BY <1>1, <1>2, <1>3, <1>4
<1>6. RequestInv'
  BY <1>0, <1>1, RequestSame DEF ServerOpen, ReadContent
<1>7. /\ spc = "write" => sOut = Unwritten(all, 23 + c + Len(down))
      /\ Reads(cReader, all, HeaderEnds)
      /\ counted = IF answer.code = "200" THEN Len(file.bytes) ELSE 0
  BY <1>1, <1>2, <1>3 DEF AnswerInv, ClientOpen
<1>8. CASE down # <<>> /\ down' = Tail(down) /\ content' = Append(content, Head(down)) /\ UNCHANGED <<cpc, reset>>
  <2>1. /\ Head(down) = all[23 + c + 1] /\ Rest(down) \in Seq(Bytes)
        /\ InFlight(all, 23 + c + 1, Rest(down)) /\ 23 + c + 1 + Len(Rest(down)) = 23 + c + Len(down)
    <3>1. 23 + c \in Nat
      BY <1>3
    <3>2. QED
      BY <1>3, <1>4, <1>8, <3>1, ReadByte
  <2>2. down' = Rest(down)
    BY <1>8 DEF Rest
  <2>3. Head(down) = text[c + 1]
    <3>1. c + 1 \in 1 .. Len(text) /\ 23 + (c + 1) = 23 + c + 1
      BY <1>3, <1>5
    <3>2. all[23 + (c + 1)] = text[c + 1]
      BY <1>4, <3>1
    <3>3. QED
      BY <2>1, <3>1, <3>2
  <2>4. content' = SubSeq(text, 1, c + 1)
    <3>1. 1 \in Nat \ {0} /\ 1 <= c + 1
      BY <1>3
    <3>2. Append(SubSeq(text, 1, c), text[c + 1]) = SubSeq(text, 1, c + 1)
      BY <1>3, <1>4, <1>5, <3>1, PartGrows
    <3>3. content' = Append(content, Head(down))
      BY <1>8
    <3>4. content' = Append(SubSeq(text, 1, c), text[c + 1])
      BY <1>3, <2>3, <3>3, Zenon
    <3>5. QED
      BY <3>2, <3>4, Zenon
  <2>5. content' \in Seq(Bytes) /\ Len(content') = c + 1
    <3>1. 1 \in Nat \ {0} /\ c + 1 \in Nat /\ c + 1 <= Len(text) /\ 1 <= (c + 1) + 1
          /\ (c + 1) - 1 + 1 = c + 1
      BY <1>3, <1>5
    <3>2. SubSeq(text, 1, c + 1) \in Seq(Bytes) /\ Len(SubSeq(text, 1, c + 1)) = (c + 1) - 1 + 1
      BY <1>4, <3>1, Part
    <3>3. QED
      BY <2>4, <3>1, <3>2
  <2>6. ExchangeTypeOK'
    BY <1>0, <1>1, <1>8, <2>1, <2>2, <2>5, TypeFacts DEF ExchangeTypeOK
  <2>7. AnswerInv'
    <3>1. Position(cReader, HeaderEnds) + Len(content') = 23 + c + 1
      BY <1>3, <2>5
    <3>2. spc = "write" => sOut = Unwritten(all, 23 + c + 1 + Len(Rest(down)))
      BY <1>7, <2>1
    <3>3. content' = SubSeq(text, 1, Len(content'))
      BY <2>4, <2>5
    <3>4. all = Message(answer') /\ text = answer'.text /\ cReader' = cReader /\ cpc' # "done"
      BY <1>1, <1>2, <1>8
    <3>5. QED
      BY <1>1, <1>7, <2>1, <2>2, <3>1, <3>2, <3>3, <3>4 DEF AnswerInv
  <2>8. DecidedInv'
    BY <1>0, <1>1, <1>3, <2>7 DEF DecidedInv
  <2>9. PhaseInv'
    BY <1>0, <1>1, <1>8 DEF PhaseInv, ServerOpen
  <2>10. QED
    BY <1>6, <2>6, <2>8, <2>9 DEF ExchangeInv
<1>9. CASE down = <<>> /\ reset = "waits" /\ cpc' = "failed" /\ reset' = "read" /\ UNCHANGED <<down, content>>
  <2>1. ExchangeTypeOK'
    BY <1>0, <1>1, <1>9, TypeFacts DEF ExchangeTypeOK
  <2>2. AnswerInv'
    BY <1>1, <1>3, <1>9, AnswerSame DEF ClientOpen
  <2>3. DecidedInv'
    BY <1>0, <1>1, <1>3, <1>9, <2>2 DEF DecidedInv
  <2>4. PhaseInv'
    BY <1>0, <1>1, <1>9 DEF PhaseInv, ServerOpen
  <2>5. QED
    BY <1>6, <2>1, <2>3, <2>4 DEF ExchangeInv
<1>10. QED
  BY <1>8, <1>9 DEF ReadContent

(* The client that has got its answer: it is all of it.                    *)
LEMMA FinishFacts ==
  ASSUME ExchangeInv, FinishGet
  PROVE  /\ answer # NoAnswer /\ content = answer.text /\ down = <<>>
         /\ cReader.lines[1][2] = answer.code /\ spc \in {"sleep", "closed", "ended"}
         /\ downloaded' = IF answer.code = "200" THEN Len(content) ELSE 0
<1>0. ExchangeTypeOK /\ RequestInv /\ DecidedInv /\ PhaseInv
  BY DEF ExchangeInv
<1>1. /\ cpc = "body" /\ Len(content) = ContentSize
      /\ downloaded' = IF cReader.lines[1][2] = "200" THEN ContentSize ELSE 0
  BY DEF FinishGet
<1> DEFINE c == Len(content)
           all == Message(answer)
           text == answer.text
<1>2. c = Len(content) /\ all = Message(answer) /\ text = answer.text
  OBVIOUS
<1> HIDE DEF c, all, text
<1>3. /\ answer # NoAnswer /\ AnswerInv /\ c \in Nat
      /\ Position(cReader, HeaderEnds) = 23 /\ ContentSize = Len(text)
      /\ InFlight(all, 23 + c, down) /\ content = SubSeq(text, 1, c)
      /\ 23 + c + Len(down) <= 23 + Len(text) /\ Len(down) \in Nat
      /\ cReader.lines[1][2] = answer.code
  BY <1>0, <1>1, <1>2, BodyFacts DEF ExchangeInv
<1>4. all \in Seq(Bytes) /\ text \in Seq(Bytes) /\ down \in Seq(Bytes) /\ Len(all) = 23 + Len(text)
  BY <1>0, <1>2, <1>3, AnswerFacts, TypeFacts
<1>5. c = Len(text) /\ Len(text) \in Nat
  BY <1>1, <1>2, <1>3, <1>4
<1>6. content = text
  <2>1. SubSeq(text, 1, Len(text)) = text
    BY <1>4
  <2>2. QED
    BY <1>3, <1>5, <2>1
<1>7. Len(down) = 0
  BY <1>3, <1>5
<1>8. down = <<>>
  BY <1>4, <1>7
<1>9. spc # "write"
  <2> SUFFICES ASSUME spc = "write" PROVE FALSE
    OBVIOUS
  <2>1. sOut = Unwritten(all, 23 + c + Len(down))
    BY <1>1, <1>2, <1>3 DEF AnswerInv, ClientOpen
  <2>2. 23 + c + Len(down) = Len(all)
    BY <1>4, <1>5, <1>7
  <2>3. Len(all) \in Nat
    BY <1>4
  <2>4. SubSeq(all, Len(all) + 1, Len(all)) = <<>>
    BY <2>3, SubSeqEmpty
  <2>5. sOut = <<>>
    BY <2>1, <2>2, <2>4 DEF Unwritten
  <2>6. QED
    BY <1>0, <2>5 DEF PhaseInv
<1>10. spc \in {"sleep", "closed", "ended"}
  BY <1>0, <1>1, <1>3, <1>9, TypeFacts DEF DecidedInv, PhaseInv
<1>11. QED
  BY <1>1, <1>2, <1>3, <1>6, <1>8, <1>10

LEMMA FinishGetInv == ASSUME ExchangeInv, FinishGet PROVE ExchangeInv'
<1>0. ExchangeTypeOK /\ RequestInv /\ DecidedInv /\ PhaseInv
  BY DEF ExchangeInv
<1>1. /\ cpc = "body" /\ cpc' = "done"
      /\ UNCHANGED <<file, up, down, cOut, cReader, content, reset, lost>>
      /\ UNCHANGED <<spc, sOut, sReader, answer, counted>>
  BY DEF FinishGet, serverVars
<1>2. /\ answer # NoAnswer /\ content = answer.text /\ spc \in {"sleep", "closed", "ended"}
      /\ downloaded' = IF answer.code = "200" THEN Len(content) ELSE 0
  BY FinishFacts
<1>3. ExchangeTypeOK'
  BY <1>0, <1>1, TypeFacts DEF ExchangeTypeOK
<1>4. RequestInv'
  BY <1>0, <1>1, RequestSame DEF ServerOpen
<1>5. AnswerInv
  BY <1>0, <1>2 DEF DecidedInv
<1>6. AnswerInv'
  BY <1>1, <1>2, <1>5 DEF AnswerInv
<1>7. DecidedInv'
  BY <1>0, <1>1, <1>2, <1>6 DEF DecidedInv
<1>8. PhaseInv'
  BY <1>0, <1>1, <1>2 DEF PhaseInv, ServerOpen
<1>9. QED
  BY <1>3, <1>4, <1>7, <1>8 DEF ExchangeInv

------------------------------------------------------------------------------
(* The steps that write.                                                   *)

LEMMA DecideAnswerInv == ASSUME ExchangeInv, DecideAnswer PROVE ExchangeInv'
<1>0. ExchangeTypeOK /\ RequestInv /\ DecidedInv /\ PhaseInv
  BY DEF ExchangeInv
<1>1. /\ spc = "answer" /\ spc' = "write"
      /\ answer' = AnswerTo(sReader.lines[1])
      /\ counted' = IF answer'.code = "200" THEN Len(file.bytes) ELSE 0
      /\ sOut' = Header(answer') \o answer'.text
      /\ UNCHANGED <<file, up, down, reset, sReader, lost>>
      /\ UNCHANGED <<cpc, cOut, cReader, content, downloaded>>
  BY DEF DecideAnswer, clientVars
<1>2. /\ answer = NoAnswer /\ content = <<>> /\ down = <<>> /\ cReader = NewReader
      /\ cpc \notin {"body", "done", "failed"}
  BY <1>0, <1>1 DEF DecidedInv
<1>3. answer' = AnswerWith(file)
  <2>1. sReader \in Readers /\ Reads(sReader, Request, RequestEnds) /\ Len(sReader.lines) = RequestLines
    BY <1>0, <1>1, TypeFacts DEF RequestInv, PhaseInv
  <2>2. AnswerTo(sReader.lines[1]) = AnswerWith(file)
    BY <2>1, RequestedPage
  <2>3. QED
    BY <1>1, <2>2
<1> DEFINE a == AnswerWith(file)
           all == Message(a)
<1>4. /\ a.code \in {"200", "403", "404"} /\ a.text \in Seq(Bytes)
      /\ Len(a.text) \in 0 .. MaxLength /\ a # NoAnswer
  BY <1>0, TypeFacts, AnswerOf
<1>5. a = AnswerWith(file) /\ all = Message(a)
  OBVIOUS
<1> HIDE DEF a, all
<1>6. /\ Framed(all, HeaderEnds) /\ HeaderEnds[1] = 0 /\ Len(all) = 23 + Len(a.text)
  BY <1>4, <1>5, AnswerFramed
<1>7. all \in Seq(Bytes) /\ Len(all) \in Nat /\ Len(all) # 0
  BY <1>4, <1>6 DEF Framed
<1>8. sOut' = all
  BY <1>1, <1>3, <1>5 DEF Message
<1>9. all # <<>>
  <2>1. Len(<<>>) = 0
    OBVIOUS
  <2>2. QED
    BY <1>7, <2>1, Zenon
<1>10. /\ NewReader \in Readers /\ Reads(NewReader, all, HeaderEnds)
       /\ Position(NewReader, HeaderEnds) = 0
  BY <1>6, StartReads
<1>11. InFlight(all, 0, <<>>) /\ Unwritten(all, 0) = all
  BY <1>7, EmptyStream
<1>12. ExchangeTypeOK'
  <2>1. sOut' \in Seq(Bytes)
    BY <1>7, <1>8
  <2>2. answer' \in {NoAnswer, AnswerWith(file')}
    BY <1>1, <1>3
  <2>3. QED
    BY <1>0, <1>1, <2>1, <2>2, TypeFacts DEF ExchangeTypeOK
<1>13. RequestInv'
  BY <1>0, <1>1, RequestSame DEF ServerOpen
<1>14. AnswerInv'
  <2>1. Message(answer') = all /\ cReader' = NewReader /\ down' = <<>> /\ content' = <<>>
    BY <1>1, <1>2, <1>3, <1>5
  <2>2. Len(<<>>) = 0 /\ 0 + 0 = 0
    OBVIOUS
  <2>3. <<>> = SubSeq(answer'.text, 1, 0)
    BY SubSeqEmpty
  <2>4. cpc' # "done"
    BY <1>1, <1>2
  <2>5. QED
    BY <1>1, <1>8, <1>10, <1>11, <2>1, <2>2, <2>3, <2>4 DEF AnswerInv
<1>15. DecidedInv'
  BY <1>1, <1>3, <1>4, <1>5, <1>14 DEF DecidedInv
<1>16. PhaseInv'
  BY <1>0, <1>1, <1>2, <1>8, <1>9 DEF PhaseInv, ServerOpen
<1>17. QED
  BY <1>12, <1>13, <1>15, <1>16 DEF ExchangeInv

LEMMA WriteAnswerInv == ASSUME ExchangeInv, WriteAnswer PROVE ExchangeInv'
<1>0. ExchangeTypeOK /\ RequestInv /\ DecidedInv /\ PhaseInv
  BY DEF ExchangeInv
<1>1. /\ spc = "write" /\ ClientOpen
      /\ down' = Append(down, Head(sOut)) /\ sOut' = Tail(sOut)
      /\ spc' = IF sOut' = <<>> THEN "sleep" ELSE "write"
      /\ UNCHANGED <<file, up, reset, sReader, answer, counted, lost>>
      /\ UNCHANGED <<cpc, cOut, cReader, content, downloaded>>
  BY DEF WriteAnswer, clientVars
<1>2. answer # NoAnswer /\ AnswerInv
  BY <1>0, <1>1 DEF DecidedInv
<1> DEFINE all == Message(answer)
           n == Position(cReader, HeaderEnds) + Len(content)
<1>3. all = Message(answer) /\ n = Position(cReader, HeaderEnds) + Len(content)
  OBVIOUS
<1> HIDE DEF all, n
<1>4. /\ all \in Seq(Bytes) /\ Framed(all, HeaderEnds) /\ down \in Seq(Bytes)
      /\ cReader \in Readers /\ content \in Seq(Bytes)
  BY <1>0, <1>2, <1>3, AnswerFacts, TypeFacts
<1>5. /\ Reads(cReader, all, HeaderEnds) /\ InFlight(all, n, down)
      /\ sOut = Unwritten(all, n + Len(down))
  BY <1>1, <1>2, <1>3 DEF AnswerInv
<1>6. n \in Nat
  <2>1. Position(cReader, HeaderEnds) \in Nat
    BY <1>4, <1>5, Positions
  <2>2. Len(content) \in Nat
    BY <1>4
  <2>3. QED
    BY <1>3, <2>1, <2>2
<1>7. sOut # <<>>
  BY <1>0, <1>1 DEF PhaseInv
<1>8. /\ Longer(down, sOut) \in Seq(Bytes) /\ Rest(sOut) \in Seq(Bytes)
      /\ InFlight(all, n, Longer(down, sOut))
      /\ Rest(sOut) = Unwritten(all, n + Len(Longer(down, sOut)))
  <2>1. OnItsWay(all, n, down, sOut)
    BY <1>4, <1>5 DEF OnItsWay
  <2>2. OnItsWay(all, n, Longer(down, sOut), Rest(sOut)) /\ Rest(sOut) \in Seq(Bytes)
    BY <1>4, <1>6, <1>7, <2>1, WriteByte
  <2>3. QED
    BY <2>2 DEF OnItsWay
<1>9. down' = Longer(down, sOut) /\ sOut' = Rest(sOut)
  BY <1>1 DEF Longer, Rest
<1>10. ExchangeTypeOK'
  BY <1>0, <1>1, <1>8, <1>9, TypeFacts DEF ExchangeTypeOK
<1>11. RequestInv'
  BY <1>0, <1>1, RequestSame DEF ServerOpen
<1>12. AnswerInv'
  <2>1. /\ InFlight(all, n, down') /\ sOut' = Unwritten(all, n + Len(down'))
        /\ all = Message(answer') /\ n = Position(cReader', HeaderEnds) + Len(content')
    BY <1>1, <1>3, <1>8, <1>9
  <2>2. /\ Reads(cReader', all, HeaderEnds)
        /\ content' = SubSeq(answer'.text, 1, Len(content'))
        /\ counted' = IF answer'.code = "200" THEN Len(file'.bytes) ELSE 0
        /\ cpc' # "done"
    BY <1>1, <1>2, <1>5 DEF AnswerInv, ClientOpen
  <2>3. QED
    BY <2>1, <2>2 DEF AnswerInv
<1>13. DecidedInv'
  BY <1>0, <1>1, <1>2, <1>12 DEF DecidedInv
<1>14. PhaseInv'
  BY <1>0, <1>1 DEF PhaseInv, ServerOpen, ClientOpen
<1>15. QED
  BY <1>10, <1>11, <1>13, <1>14 DEF ExchangeInv

(* Who has closed while the answer is written can only have ended.         *)
LEMMA NobodyIsGone == ASSUME ExchangeInv, spc = "write", ~ClientOpen PROVE cpc = "gone"
<1>1. ExchangeTypeOK /\ PhaseInv
  BY DEF ExchangeInv
<1>2. QED
  BY <1>1, TypeFacts DEF PhaseInv, ClientOpen, ServerOpen

LEMMA WriteAnswerToNobodyInv == ASSUME ExchangeInv, WriteAnswerToNobody PROVE ExchangeInv'
<1>0. ExchangeTypeOK /\ RequestInv /\ DecidedInv /\ PhaseInv
  BY DEF ExchangeInv
<1>1. /\ spc = "write" /\ ~ClientOpen
      /\ \/ sOut' = Tail(sOut) /\ spc' = IF sOut' = <<>> THEN "sleep" ELSE "write"
         \/ spc' = "killed" /\ UNCHANGED sOut
      /\ UNCHANGED <<file, up, down, reset, sReader, answer, counted, lost>>
      /\ UNCHANGED <<cpc, cOut, cReader, content, downloaded>>
  BY DEF WriteAnswerToNobody, clientVars
<1>2. answer # NoAnswer /\ AnswerInv
  BY <1>0, <1>1 DEF DecidedInv
<1>3. cpc = "gone"
  BY <1>1, NobodyIsGone
<1>4. sOut' \in Seq(Bytes)
  <2>1. sOut \in Seq(Bytes) /\ sOut # <<>>
    BY <1>0, <1>1, TypeFacts DEF PhaseInv
  <2>2. Tail(sOut) \in Seq(Bytes)
    BY <2>1, HeadTailProperties
  <2>3. QED
    BY <1>1, <2>1, <2>2
<1>5. ExchangeTypeOK'
  BY <1>0, <1>1, <1>4, TypeFacts DEF ExchangeTypeOK
<1>6. RequestInv'
  BY <1>0, <1>1, <1>3, RequestSame
<1>7. AnswerInv'
  BY <1>1, <1>2, <1>3 DEF AnswerInv, ClientOpen
<1>8. DecidedInv'
  BY <1>0, <1>1, <1>2, <1>7 DEF DecidedInv
<1>9. PhaseInv'
  BY <1>0, <1>1, <1>3 DEF PhaseInv, ServerOpen
<1>10. QED
  BY <1>5, <1>6, <1>8, <1>9 DEF ExchangeInv

LEMMA NextInv == ASSUME ExchangeInv, [Next]_vars PROVE ExchangeInv'
<1>1. CASE ClientStep
  BY <1>1, WriteRequestInv, WriteToNobodyInv, ReadLinesInv, ReadContentInv, FinishGetInv DEF ClientStep
<1>2. CASE CloseSocket
  <2>1. ServerOpen /\ spc = "sleep" /\ ShutsAs("closed")
    BY <1>2 DEF CloseSocket, ServerOpen
  <2>2. QED
    BY <2>1, ShutsInv
<1>3. CASE ServerEnds
  <2>1. ServerOpen /\ ShutsAs("ended")
    BY <1>3 DEF ServerEnds
  <2>2. QED
    BY <2>1, ShutsInv
<1>4. CASE ServerStep
  BY <1>2, <1>4, ReadRequestInv, DecideAnswerInv, WriteAnswerInv, WriteAnswerToNobodyInv DEF ServerStep
<1>5. CASE ClientEnds
  BY <1>5, ClientEndsInv
<1>6. CASE UNCHANGED vars
  <2>1. /\ UNCHANGED <<file, up, down, cpc, cOut, cReader, content, downloaded>>
        /\ UNCHANGED <<reset, spc, sOut, sReader, answer, counted, lost>>
    BY <1>6 DEF vars, clientVars, serverVars
  <2>2. ExchangeTypeOK'
    BY <2>1, TypeFacts DEF ExchangeInv, ExchangeTypeOK
  <2>3. RequestInv'
    BY <2>1 DEF ExchangeInv, RequestInv, ServerOpen
  <2>4. DecidedInv'
    BY <2>1 DEF ExchangeInv, DecidedInv, AnswerInv, ClientOpen
  <2>5. PhaseInv'
    BY <2>1 DEF ExchangeInv, PhaseInv, ServerOpen
  <2>6. QED
    BY <2>2, <2>3, <2>4, <2>5 DEF ExchangeInv
<1>7. QED
  BY <1>1, <1>3, <1>4, <1>5, <1>6 DEF Next

LEMMA AlwaysExchangeInv == Spec => []ExchangeInv
<1>1. Init => ExchangeInv
  BY InitInv
<1>2. ExchangeInv /\ [Next]_vars => ExchangeInv'
  BY NextInv
<1>3. QED
  BY <1>1, <1>2, PTL DEF Spec

------------------------------------------------------------------------------
(* What is said of the exchange.                                           *)

(* At its answer, the server has the whole request but the NUL.            *)
LEMMA OnlyNulLeft ==
  ASSUME ExchangeInv, spc \in {"answer", "write", "sleep"}, cpc # "gone"
  PROVE  up \o cOut = <<"NUL">>
<1>0. ExchangeTypeOK /\ RequestInv /\ PhaseInv
  BY DEF ExchangeInv
<1>1. sReader \in Readers /\ Reads(sReader, Request, RequestEnds) /\ Len(sReader.lines) = RequestLines
  BY <1>0, TypeFacts DEF RequestInv, PhaseInv
<1>2. Position(sReader, RequestEnds) = 20
  BY <1>1, RequestedPage
<1>3. InFlight(Request, 20, up) /\ cOut = Unwritten(Request, 20 + Len(up))
  BY <1>0, <1>2 DEF RequestInv, ServerOpen
<1>4. Request \in Seq(Bytes) /\ Len(Request) = 21 /\ Request[21] = "NUL" /\ up \in Seq(Bytes)
  BY <1>0, RequestFramed, TypeFacts DEF Framed
<1>5. Len(up) \in Nat /\ 20 + Len(up) <= 21 /\ up = SubSeq(Request, 21, 20 + Len(up))
      /\ cOut = SubSeq(Request, 20 + Len(up) + 1, 21)
  BY <1>3, <1>4 DEF InFlight, Unwritten
<1>6. SubSeq(Request, 21, 21) = <<"NUL">>
  <2>1. 21 <= Len(Request) /\ 21 \in Nat \ {0}
    BY <1>4
  <2>2. SubSeq(Request, 21, 21) = <<Request[21]>>
    BY <1>4, <2>1, WordAt
  <2>3. QED
    BY <1>4, <2>2, Zenon
<1>7. SubSeq(Request, 21, 20) = <<>> /\ SubSeq(Request, 22, 21) = <<>>
  BY SubSeqEmpty
<1>8. CASE Len(up) = 0
  <2>1. up = <<>> /\ cOut = <<"NUL">>
    BY <1>5, <1>6, <1>7, <1>8
  <2>2. QED
    BY <2>1
<1>9. CASE Len(up) = 1
  <2> DEFINE b == 20 + Len(up)
             c == 20 + Len(up) + 1
  <2>0. b = 21 /\ c = 22
    BY <1>9
  <2>1. up = SubSeq(Request, 21, b) /\ cOut = SubSeq(Request, c, 21)
    BY <1>5
  <2> HIDE DEF b, c
  <2>2. up = <<"NUL">> /\ cOut = <<>>
    BY <1>6, <1>7, <2>0, <2>1
  <2>3. QED
    BY <2>2
<1>10. QED
  BY <1>5, <1>8, <1>9

(* Nothing is left of the answer for a client that has got it.             *)
LEMMA NothingLeft ==
  ASSUME ExchangeInv, cpc = "done"
  PROVE  /\ spc # "ended" => sOut = <<>>
         /\ down = <<>>
         /\ downloaded = counted \/ Text(file.bytes) # file.bytes
<1>0. ExchangeTypeOK /\ DecidedInv /\ PhaseInv
  BY DEF ExchangeInv
<1>1. answer # NoAnswer /\ AnswerInv
  BY <1>0 DEF DecidedInv
<1> DEFINE all == Message(answer)
           text == answer.text
<1>2. all = Message(answer) /\ text = answer.text
  OBVIOUS
<1>3. /\ answer.code \in {"200", "403", "404"} /\ text \in Seq(Bytes)
      /\ Len(text) \in 0 .. MaxLength /\ Len(all) = 23 + Len(text)
      /\ answer = AnswerWith(file) /\ file \in Files
  <2>1. answer = AnswerWith(file) /\ file \in Files
    BY <1>0, <1>1, TypeFacts
  <2>2. QED
    BY <1>0, <1>1, <2>1, AnswerFacts
<1>4. Len(cReader.lines) = AnswerLines /\ cReader \in Readers /\ down \in Seq(Bytes)
  BY <1>0, TypeFacts DEF PhaseInv
<1>5. /\ Reads(cReader, all, HeaderEnds) /\ content = text
      /\ InFlight(all, Position(cReader, HeaderEnds) + Len(content), down)
      /\ counted = IF answer.code = "200" THEN Len(file.bytes) ELSE 0
      /\ downloaded = IF answer.code = "200" THEN Len(content) ELSE 0
  BY <1>0, <1>1 DEF AnswerInv
<1> HIDE DEF all, text
<1>6. Position(cReader, HeaderEnds) = 23
  <2>1. /\ answer.code \in {"200", "403", "404"} /\ answer.text \in Seq(Bytes)
        /\ Len(answer.text) \in 0 .. MaxLength
    BY <1>2, <1>3
  <2>2. Reads(cReader, all, HeaderEnds) /\ cReader \in Readers
    BY <1>4, <1>5
  <2>3. QED
    BY <1>2, <1>4, <2>1, <2>2, AnswerRead
<1>7. /\ 23 + Len(text) + Len(down) <= 23 + Len(text)
      /\ Len(text) \in Nat /\ Len(down) \in Nat
  <2>1. 23 + Len(text) + Len(down) <= Len(all)
    BY <1>5, <1>6 DEF InFlight
  <2>2. QED
    BY <1>3, <1>4, <2>1
<1>8. down = <<>>
  <2>1. Len(down) = 0
    BY <1>7
  <2>2. QED
    BY <1>4, <2>1
<1>9. downloaded = counted \/ Text(file.bytes) # file.bytes
  <2>1. answer.code = file.code
        /\ (file.code = "200" /\ Text(file.bytes) = file.bytes => text = file.bytes)
    BY <1>2, <1>3, AnswerOf
  <2>2. QED
    BY <1>5, <2>1
<1>10. spc # "ended" => sOut = <<>>
  BY <1>0 DEF PhaseInv
<1>11. QED
  BY <1>8, <1>9, <1>10

(* Wherever reads and writes are split and streams are full, the server    *)
(* answers with nothing but the NUL of the request unread, and the client  *)
(* that has got its answer has left nothing of it and agrees with the      *)
(* server about its bytes, if no NUL cuts the page (serverThread.c:54-57,  *)
(* 105, crawlThread.c:109-127).                                            *)
THEOREM ExchangeFramesMatch == Spec => []FramesMatch
<1>1. ExchangeInv => FramesMatch
  BY OnlyNulLeft, NothingLeft DEF FramesMatch
<1>2. QED
  BY <1>1, AlwaysExchangeInv, PTL

(* No step but these two touches the answer or what the client makes of it.*)
LEMMA OtherSteps ==
  ASSUME Next, ~DecideAnswer, ~FinishGet
  PROVE  /\ UNCHANGED <<file, answer>>
         /\ \/ UNCHANGED <<cpc, cReader, content>>
            \/ cpc # "done" /\ cpc' # "done"
<1>1. CASE WriteRequest
  BY <1>1 DEF WriteRequest, serverVars
<1>2. CASE WriteToNobody
  BY <1>2 DEF WriteToNobody, serverVars
<1>3. CASE ReadLines
  <2>1. AfterLines(cReader'.lines) \in {"failed", "body", "lines"}
    BY Zenon DEF AfterLines
  <2>2. QED
    BY <1>3, <2>1 DEF ReadLines, serverVars
<1>4. CASE ReadContent
  BY <1>4 DEF ReadContent, serverVars
<1>5. CASE ClientEnds
  BY <1>5 DEF ClientEnds, ClientOpen, serverVars
<1>6. CASE ReadRequest
  BY <1>6 DEF ReadRequest, clientVars
<1>7. CASE WriteAnswer \/ WriteAnswerToNobody
  BY <1>7 DEF WriteAnswer, WriteAnswerToNobody, clientVars
<1>8. CASE CloseSocket \/ ServerEnds
  BY <1>8 DEF CloseSocket, ServerEnds, ShutsAs, clientVars
<1>9. QED
  BY <1>1, <1>2, <1>3, <1>4, <1>5, <1>6, <1>7, <1>8 DEF Next, ClientStep, ServerStep

(* The decision of the server is the one that is due.                      *)
LEMMA DecideDecides == ASSUME ExchangeInv, DecideAnswer PROVE Exchange!Decide
<1>0. ExchangeTypeOK /\ RequestInv /\ DecidedInv /\ PhaseInv
  BY DEF ExchangeInv
<1>1. /\ spc = "answer" /\ answer' = AnswerTo(sReader.lines[1])
      /\ UNCHANGED <<file, cpc, cReader, content>>
  BY DEF DecideAnswer, clientVars
<1>2. answer = NoAnswer
  BY <1>0, <1>1 DEF DecidedInv
<1>3. sReader \in Readers /\ Reads(sReader, Request, RequestEnds) /\ Len(sReader.lines) = RequestLines
  BY <1>0, <1>1, TypeFacts DEF RequestInv, PhaseInv
<1>4. AnswerTo(sReader.lines[1]) = AnswerWith(file)
  BY <1>3, RequestedPage
<1>5. QED
  BY <1>1, <1>2, <1>4 DEF Exchange!Decide

(* The client that is done has the answer of the server.                   *)
LEMMA FinishDelivers == ASSUME ExchangeInv, FinishGet PROVE Exchange!Deliver
<1>1. /\ cpc = "body" /\ cpc' = "done"
      /\ UNCHANGED <<file, answer, cReader, content>>
  BY DEF FinishGet, serverVars
<1>2. answer # NoAnswer /\ content = answer.text /\ cReader.lines[1][2] = answer.code
  BY FinishFacts
<1>3. answer = AnswerWith(file)
  BY <1>2 DEF ExchangeInv, ExchangeTypeOK
<1>4. answer = [code |-> answer.code, text |-> answer.text]
  BY <1>3 DEF AnswerWith
<1>5. [code |-> cReader.lines[1][2], text |-> content]' = answer
  BY <1>1, <1>2, <1>4
<1>6. QED
  BY <1>1, <1>2, <1>5 DEF Exchange!Deliver

(* The exchange is the one of RequestReply: the server answers once, with  *)
(* what is due, and the client gets that answer whole or none at all,      *)
(* wherever reads and writes are split and whoever ends                    *)
(* (crawlThread.c:93-143, serverThread.c:62-142).                          *)
THEOREM ExchangeIsRequestReply == Spec => ImplementsExchange
<1>1. Init => Exchange!Init
  BY DEF Init, Exchange!Init
<1>2. ExchangeInv /\ [Next]_vars =>
        [Exchange!Decide \/ Exchange!Deliver]_<<AnswerWith(file), answer,
          IF cpc = "done" THEN [code |-> cReader.lines[1][2], text |-> content] ELSE NoAnswer>>
  <2> SUFFICES ASSUME ExchangeInv, [Next]_vars, ~DecideAnswer, ~FinishGet
               PROVE  UNCHANGED <<AnswerWith(file), answer,
                        IF cpc = "done" THEN [code |-> cReader.lines[1][2], text |-> content]
                                        ELSE NoAnswer>>
    BY DecideDecides, FinishDelivers
  <2>1. /\ UNCHANGED <<file, answer>>
        /\ \/ UNCHANGED <<cpc, cReader, content>>
           \/ cpc # "done" /\ cpc' # "done"
    BY OtherSteps DEF vars, clientVars, serverVars
  <2>2. AnswerWith(file)' = AnswerWith(file)
    BY <2>1 DEF AnswerWith
  <2>3. QED
    BY <2>1, <2>2
<1>3. QED
  BY <1>1, <1>2, AlwaysExchangeInv, PTL DEF Spec, ImplementsExchange, Exchange!Spec

(* The write that ends the serving process is to a client that has ended,  *)
(* never to one that has got its answer or waits for it                    *)
(* (serverThread.c:127-134, crawlThread.c:182).                            *)
THEOREM ExchangeHarmless == Spec => AnsweredClientIsHarmless
<1>1. ExchangeInv /\ [Next]_vars => [spc # "killed" /\ spc' = "killed" => cpc = "gone"]_vars
  <2> SUFFICES ASSUME ExchangeInv, Next, spc # "killed", spc' = "killed"
               PROVE  cpc = "gone"
    OBVIOUS
  <2>1. WriteAnswerToNobody
    BY DEF Next, ClientStep, ServerStep, WriteRequest, WriteToNobody, ReadLines, ReadContent,
      FinishGet, ClientEnds, ServerEnds, ReadRequest, DecideAnswer, WriteAnswer, CloseSocket,
      ShutsAs, serverVars
  <2>2. QED
    BY <2>1, NobodyIsGone DEF WriteAnswerToNobody
<1>2. QED
  BY <1>1, AlwaysExchangeInv, PTL DEF Spec, AnsweredClientIsHarmless
==============================================================================
