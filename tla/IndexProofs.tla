---------------------------- MODULE IndexProofs ----------------------------
(***************************************************************************)
(* Proofs about what the index holds: the counts of every file, the        *)
(* posting lists that a search finds, and the answers to maxcount and      *)
(* mincount, for any letters and any files.                                *)
(***************************************************************************)
EXTENDS TrieProofs, FiniteSetTheorems, SequenceTheorems

------------------------------------------------------------------------------
(* Recursive functions.                                                    *)

(* What holds of 0, and of a number if it holds of the one before, holds   *)
(* of all.                                                                 *)
LEMMA CountUp ==
  ASSUME NEW N \in Nat, NEW S, 0 \in S, \A k \in 1 .. N : k - 1 \in S => k \in S
  PROVE  \A k \in 0 .. N : k \in S
<1> DEFINE R == {k \in 1 .. N + 1 : k - 1 \in S}
<1>1. \A k \in 1 .. N + 1 : (\A l \in 1 .. k - 1 : l \in R) => k \in R
  <2> SUFFICES ASSUME NEW k \in 1 .. N + 1, \A l \in 1 .. k - 1 : l \in R PROVE k - 1 \in S
    OBVIOUS
  <2>1. CASE k = 1
    BY <2>1
  <2>2. CASE k # 1
    <3>1. k - 1 \in 1 .. k - 1 /\ k - 1 \in 1 .. N
      BY <2>2
    <3>2. (k - 1) - 1 \in S
      BY <3>1
    <3>3. QED
      BY <3>1, <3>2
  <2>3. QED
    BY <2>1, <2>2
<1>2. N + 1 \in Nat
  OBVIOUS
<1> HIDE DEF R
<1>3. \A k \in 1 .. N + 1 : k \in R
  BY <1>1, <1>2, Upward
<1> USE DEF R
<1>4. ASSUME NEW k \in 0 .. N PROVE k \in S
  <2>1. k + 1 \in 1 .. N + 1 /\ (k + 1) - 1 = k
    OBVIOUS
  <2>2. QED
    BY <1>3, <2>1
<1>5. QED
  BY <1>4

(* The value of f at a number is made from the one before.                 *)
MadeFrom(f, g, n) == \A k \in 1 .. n : f[k] = g[k][f[k - 1]]

(* There is such a function, whatever its first value is to be.            *)
LEMMA Recursion ==
  ASSUME NEW A, NEW a0 \in A, NEW n \in Nat, NEW g, \A k \in 1 .. n : \A a \in A : g[k][a] \in A
  PROVE  \E f \in [0 .. n -> A] : f[0] = a0 /\ MadeFrom(f, g, n)
<1> DEFINE Fits(m) == \E f \in [0 .. m -> A] : f[0] = a0 /\ MadeFrom(f, g, m)
           S == {m \in 0 .. n : Fits(m)}
<1>1. 0 \in S
  <2> DEFINE f == [k \in 0 .. 0 |-> a0]
  <2>1. f \in [0 .. 0 -> A] /\ f[0] = a0 /\ MadeFrom(f, g, 0)
    BY DEF MadeFrom
  <2> HIDE DEF f
  <2>2. QED
    BY <2>1
<1>2. ASSUME NEW m \in 1 .. n, m - 1 \in S PROVE m \in S
  <2>1. PICK f \in [0 .. m - 1 -> A] : f[0] = a0 /\ MadeFrom(f, g, m - 1)
    BY <1>2
  <2> DEFINE h == [k \in 0 .. m |-> IF k = m THEN g[m][f[m - 1]] ELSE f[k]]
  <2>2. m - 1 \in 0 .. m - 1 /\ \A k \in 0 .. m : k # m => k \in 0 .. m - 1
    OBVIOUS
  <2>3. g[m][f[m - 1]] \in A
    BY <2>2
  <2>4. h \in [0 .. m -> A]
    BY <2>2, <2>3
  <2>5. h[0] = a0
    BY <2>1
  <2>6. ASSUME NEW k \in 1 .. m PROVE h[k] = g[k][h[k - 1]]
    <3>1. h[k - 1] = f[k - 1]
      OBVIOUS
    <3>2. CASE k = m
      BY <3>1, <3>2
    <3>3. CASE k # m
      <4>1. k \in 1 .. m - 1
        BY <3>3
      <4>2. h[k] = f[k]
        BY <3>3
      <4> HIDE DEF h
      <4>3. QED
        BY <2>1, <3>1, <4>1, <4>2 DEF MadeFrom
    <3>4. QED
      BY <3>2, <3>3
  <2> HIDE DEF h
  <2>7. MadeFrom(h, g, m)
    BY <2>6 DEF MadeFrom
  <2>8. QED
    BY <2>4, <2>5, <2>7
<1> HIDE DEF S
<1>3. \A m \in 0 .. n : m \in S
  BY <1>1, <1>2, CountUp
<1>4. n \in S
  BY <1>3
<1>5. QED
  BY <1>4 DEF S


------------------------------------------------------------------------------
(* Sums.                                                                   *)

(* A sum is the last of its partial sums.                                  *)
LEMMA TotalIs ==
  ASSUME NEW c \in Seq(Nat)
  PROVE  \E f \in [0 .. Len(c) -> Nat] :
           /\ f[0] = 0 /\ \A k \in 1 .. Len(c) : f[k] = f[k - 1] + c[k]
           /\ Total(c) = f[Len(c)]
<1> DEFINE n == Len(c)
           sum[k \in 0 .. n] == IF k = 0 THEN 0 ELSE sum[k - 1] + c[k]
           g == [k \in 1 .. n |-> [a \in Nat |-> a + c[k]]]
<1>1. n \in Nat
  OBVIOUS
<1>2. \A k \in 1 .. n : \A a \in Nat : g[k][a] = a + c[k] /\ g[k][a] \in Nat
  OBVIOUS
<1> HIDE DEF g
<1>3. PICK f \in [0 .. n -> Nat] : f[0] = 0 /\ MadeFrom(f, g, n)
  <2>1. 0 \in Nat /\ \A k \in 1 .. n : \A a \in Nat : g[k][a] \in Nat
    BY <1>2
  <2> HIDE DEF n
  <2>2. QED
    BY <1>1, <2>1, Recursion
<1>4. \A k \in 1 .. n : f[k] = f[k - 1] + c[k]
  <2>1. ASSUME NEW k \in 1 .. n PROVE f[k] = f[k - 1] + c[k]
    <3>1. f[k - 1] \in Nat
      BY <1>1, <1>3, SMTT(30)
    <3>2. QED
      BY <1>2, <1>3, <3>1 DEF MadeFrom
  <2>2. QED
    BY <2>1
<1>5. f = [k \in 0 .. n |-> IF k = 0 THEN 0 ELSE f[k - 1] + c[k]]
  <2> DEFINE F(k) == IF k = 0 THEN 0 ELSE f[k - 1] + c[k]
  <2>1. \A k \in 0 .. n : f[k] = F(k)
    BY <1>1, <1>3, <1>4
  <2> HIDE DEF F
  <2>2. f = [k \in 0 .. n |-> F(k)]
    BY <2>1
  <2>3. QED
    BY <2>2 DEF F
<1>6. sum = [k \in 0 .. n |-> IF k = 0 THEN 0 ELSE sum[k - 1] + c[k]]
  BY <1>5
<1>7. Total(c) = sum[n]
  BY DEF Total
<1> HIDE DEF sum
<1>8. sum[0] = 0 /\ \A k \in 1 .. n : sum[k] = sum[k - 1] + c[k]
  BY <1>1, <1>6, SMTT(30)
<1> DEFINE S == {k \in 0 .. n : sum[k] = f[k]}
<1>9. 0 \in S /\ \A k \in 1 .. n : k - 1 \in S => k \in S
  BY <1>1, <1>3, <1>4, <1>8
<1>10. sum[n] = f[n]
  <2> HIDE DEF S, n
  <2>1. \A k \in 0 .. n : k \in S
    BY <1>1, <1>9, CountUp
  <2>2. QED
    BY <1>1, <2>1 DEF S
<1>11. QED
  BY <1>3, <1>4, <1>7, <1>10

(* A sum with one more summand, and the sum of none.                       *)
LEMMA TotalOf ==
  /\ Total(<<>>) = 0
  /\ \A c \in Seq(Nat) : Total(c) \in Nat
  /\ \A c \in Seq(Nat) : \A x \in Nat : Total(Append(c, x)) = Total(c) + x
<1>1. Total(<<>>) = 0
  <2>1. <<>> \in Seq(Nat) /\ Len(<<>>) = 0
    OBVIOUS
  <2>2. QED
    BY <2>1, TotalIs
<1>2. ASSUME NEW c \in Seq(Nat) PROVE Total(c) \in Nat
  BY TotalIs
<1>3. ASSUME NEW c \in Seq(Nat), NEW x \in Nat PROVE Total(Append(c, x)) = Total(c) + x
  <2> DEFINE d == Append(c, x)
             n == Len(c)
  <2>1. n \in Nat /\ d \in Seq(Nat) /\ Len(d) = n + 1 /\ d[n + 1] = x /\ \A k \in 1 .. n : d[k] = c[k]
    OBVIOUS
  <2> HIDE DEF d
  <2>2. PICK f \in [0 .. n -> Nat] : f[0] = 0 /\ (\A k \in 1 .. n : f[k] = f[k - 1] + c[k]) /\ Total(c) = f[n]
    BY TotalIs
  <2>3. PICK h \in [0 .. n + 1 -> Nat] :
          h[0] = 0 /\ (\A k \in 1 .. n + 1 : h[k] = h[k - 1] + d[k]) /\ Total(d) = h[n + 1]
    BY <2>1, TotalIs
  <2> HIDE DEF n
  <2> DEFINE S == {k \in 0 .. n : h[k] = f[k]}
  <2>4. 0 \in S
    BY <2>1, <2>2, <2>3
  <2>5. ASSUME NEW k \in 1 .. n, k - 1 \in S PROVE k \in S
    <3>1. k \in 1 .. n + 1 /\ h[k - 1] = f[k - 1]
      BY <2>1, <2>5
    <3>2. h[k] = h[k - 1] + d[k] /\ f[k] = f[k - 1] + c[k] /\ d[k] = c[k]
      BY <2>1, <2>2, <2>3, <3>1
    <3>3. QED
      BY <2>1, <3>1, <3>2
  <2> HIDE DEF S
  <2>6. \A k \in 0 .. n : k \in S
    BY <2>1, <2>4, <2>5, CountUp
  <2>7. h[n] = f[n]
    BY <2>1, <2>6 DEF S
  <2>8. h[n + 1] = h[n] + x
    BY <2>1, <2>3
  <2>9. QED
    BY <2>2, <2>3, <2>7, <2>8 DEF d
<1>4. QED
  BY <1>1, <1>2, <1>3

------------------------------------------------------------------------------
(* The places where words begin.                                           *)

StartsBefore(line, k) == {s \in WordStarts(line) : s < k}

(* They are counted from character to character.                           *)
LEMMA StartsAre ==
  ASSUME NEW line \in Seq(Chars)
  PROVE  /\ Cardinality(WordStarts(line)) \in Nat
         /\ line = <<>> => Cardinality(WordStarts(line)) = 0
         /\ \A k \in Nat : Cardinality(StartsBefore(line, k)) \in Nat
         /\ Cardinality(StartsBefore(line, 1)) = 0
         /\ StartsBefore(line, Len(line) + 1) = WordStarts(line)
         /\ \A k \in 1 .. Len(line) :
              Cardinality(StartsBefore(line, k + 1)) =
                Cardinality(StartsBefore(line, k)) + (IF k \in WordStarts(line) THEN 1 ELSE 0)
<1> DEFINE all == WordStarts(line)
           upTo(k) == StartsBefore(line, k)
<1>0. Len(line) \in Nat /\ all \subseteq 1 .. Len(line)
  <2>1. \A k \in all : k \in 1 .. Len(line)
    BY Zenon DEF WordStarts
  <2>2. QED
    BY <2>1
<1>1. IsFiniteSet(all) /\ Cardinality(all) \in Nat
  <2>1. IsFiniteSet(1 .. Len(line))
    BY <1>0, FS_Interval
  <2>2. QED
    BY <1>0, <2>1, FS_Subset, FS_CardinalityType
<1>2. \A k : IsFiniteSet(upTo(k)) /\ Cardinality(upTo(k)) \in Nat
  <2>1. \A k : upTo(k) \in SUBSET all
    BY DEF StartsBefore
  <2>2. QED
    BY <1>1, <2>1, FS_Subset, FS_CardinalityType
<1>3. line = <<>> => all = {}
  BY <1>0
<1>4. upTo(1) = {} /\ upTo(Len(line) + 1) = all
  BY <1>0 DEF StartsBefore
<1>5. ASSUME NEW k \in 1 .. Len(line)
      PROVE  Cardinality(upTo(k + 1)) = Cardinality(upTo(k)) + (IF k \in all THEN 1 ELSE 0)
  <2>1. CASE k \in all
    <3>1. upTo(k + 1) = upTo(k) \cup {k} /\ k \notin upTo(k)
      BY <1>0, <2>1 DEF StartsBefore
    <3>2. QED
      BY <1>2, <2>1, <3>1, FS_AddElement
  <2>2. CASE k \notin all
    <3>1. upTo(k + 1) = upTo(k)
      BY <1>0, <2>2 DEF StartsBefore
    <3>2. QED
      BY <1>2, <2>2, <3>1
  <2>3. QED
    BY <2>1, <2>2
<1>6. QED
  BY <1>1, <1>2, <1>3, <1>4, <1>5, FS_EmptySet

------------------------------------------------------------------------------
(* The flags of createTrieFromTextMap.                                     *)

\* The words that have begun.
Begun(t) == t.words + (IF t.resultFlag THEN 1 ELSE 0)

\* No word goes on in t2, but the one that went on in t is counted.
Ended(t, t2) ==
  /\ ~t2.resultFlag
  /\ t2.counter = t.counter
  /\ Begun(t2) = Begun(t)

\* A word goes on in t2.
GoesOn(t, t2) ==
  /\ t2.resultFlag
  /\ t2.counter
  /\ Begun(t2) = IF t.resultFlag THEN Begun(t) ELSE Begun(t) + 1

(* Behind a word.                                                          *)
LEMMA WordEndsFlags ==
  ASSUME NEW t, t \in TrieType, NEW textId, NEW file
  PROVE  Ended(t, WordEnds(t, textId, file))
<1>1. CASE t.resultFlag
  <2> DEFINE n2 == [t.nodes EXCEPT ![t.curTrieNode].index = Post(@, textId, file)]
  <2>1. WordEnds(t, textId, file) =
          [t EXCEPT !.nodes = n2, !.resultFlag = FALSE, !.newContFlag = 0, !.curTrieNode = 1,
                    !.words = t.words + 1]
    BY <1>1 DEF WordEnds
  <2> HIDE DEF n2
  <2>2. /\ ~WordEnds(t, textId, file).resultFlag
        /\ WordEnds(t, textId, file).counter = t.counter
        /\ WordEnds(t, textId, file).words = t.words + 1
    BY <1>1, <2>1 DEF TrieType
  <2>3. t.words + 1 \in Nat /\ (t.words + 1) + 0 = t.words + 1
    BY DEF TrieType
  <2>4. Begun(WordEnds(t, textId, file)) = t.words + 1 /\ Begun(t) = t.words + 1
    BY <1>1, <2>2, <2>3, Zenon DEF Begun
  <2>5. QED
    BY <2>2, <2>4 DEF Ended
<1>2. CASE ~t.resultFlag
  <2>1. WordEnds(t, textId, file) = t
    BY <1>2 DEF WordEnds
  <2>2. t.words \in Nat
    BY DEF TrieType
  <2>3. QED
    BY <1>2, <2>1, <2>2 DEF Ended
<1>3. QED
  BY <1>1, <1>2

(* Behind any character.                                                   *)
LEMMA ParseFlags ==
  ASSUME NEW t, t \in TrieType, NEW c, NEW textId, NEW file
  PROVE  IF c = " " THEN Ended(t, Parse(t, c, textId, file)) ELSE GoesOn(t, Parse(t, c, textId, file))
<1> DEFINE t2 == Parse(t, c, textId, file)
<1>1. CASE c = " "
  <2>1. t2 = WordEnds(t, textId, file)
    BY <1>1 DEF Parse
  <2>2. QED
    BY <1>1, <2>1, WordEndsFlags, Zenon
<1>2. CASE c # " " /\ ~t.counter
  <2> DEFINE n2 == IF t.nodes = <<>> THEN <<newTrieNode(c)>> ELSE t.nodes
  <2>1. t2 = [FirstLetter(t, c) EXCEPT !.counter = TRUE, !.resultFlag = TRUE]
    BY <1>2 DEF Parse
  <2>2. FirstLetter(t, c) = [t EXCEPT !.nodes = n2, !.curTrieNode = 1, !.newContFlag = 1]
    BY DEF FirstLetter
  <2> HIDE DEF t2, n2
  <2>3. t2.resultFlag /\ t2.counter /\ t2.words = t.words
    BY <2>1, <2>2 DEF TrieType
  <2>4. QED
    <3>1. Begun(t2) = IF t.resultFlag THEN Begun(t) ELSE Begun(t) + 1
      <4>1. t.words + 0 + 1 = t.words + 1
        BY DEF TrieType
      <4>2. QED
        BY <2>3, <4>1, Zenon DEF Begun
    <3>2. QED
      BY <1>2, <2>3, <3>1, Zenon DEF t2, GoesOn
<1>3. CASE c # " " /\ t.counter
  <2> DEFINE u == LaterLetter(t, c)
  <2>1. t2 = [u EXCEPT !.resultFlag = TRUE]
    BY <1>3 DEF Parse
  <2>2. \A n2, cur, flag : LET v == [t EXCEPT !.nodes = n2, !.curTrieNode = cur, !.newContFlag = flag]
                                v2 == [v EXCEPT !.resultFlag = TRUE]
                           IN  v2.resultFlag /\ v2.counter = t.counter /\ v2.words = t.words
    BY DEF TrieType
  <2>3. \E n2, cur, flag : u = [t EXCEPT !.nodes = n2, !.curTrieNode = cur, !.newContFlag = flag]
    <3> DEFINE Changed(v) == \E n2, cur, flag : v = [t EXCEPT !.nodes = n2, !.curTrieNode = cur, !.newContFlag = flag]
    <3>1. \A at, link : Changed(Extend(t, c, at, link))
      BY Zenon DEF Extend
    <3>2. \A cur, flag : Changed([t EXCEPT !.curTrieNode = cur, !.newContFlag = flag])
      <4>1. \A cur, flag : [t EXCEPT !.curTrieNode = cur, !.newContFlag = flag] =
                            [t EXCEPT !.nodes = t.nodes, !.curTrieNode = cur, !.newContFlag = flag]
        BY DEF TrieType
      <4>2. QED
        BY <4>1, Zenon
    <3> HIDE DEF Changed
    <3>3. Changed(u)
      BY <3>1, <3>2, Zenon DEF LaterLetter
    <3>4. QED
      BY <3>3 DEF Changed
  <2> HIDE DEF u, t2
  <2>4. t2.resultFlag /\ t2.counter = t.counter /\ t2.words = t.words
    <3>1. PICK n2, cur, flag : u = [t EXCEPT !.nodes = n2, !.curTrieNode = cur, !.newContFlag = flag]
      BY <2>3
    <3> DEFINE v == [t EXCEPT !.nodes = n2, !.curTrieNode = cur, !.newContFlag = flag]
    <3>2. LET v2 == [v EXCEPT !.resultFlag = TRUE]
          IN  v2.resultFlag /\ v2.counter = t.counter /\ v2.words = t.words
      BY <2>2
    <3> HIDE DEF v
    <3>3. u = v
      BY <3>1 DEF v
    <3>4. QED
      BY <2>1, <3>2, <3>3, Zenon
  <2>5. QED
    <3>1. Begun(t2) = IF t.resultFlag THEN Begun(t) ELSE Begun(t) + 1
      <4>1. t.words + 0 + 1 = t.words + 1
        BY DEF TrieType
      <4>2. QED
        BY <2>4, <4>1, Zenon DEF Begun
    <3>2. QED
      BY <1>3, <2>4, <3>1, Zenon DEF t2, GoesOn
<1>4. t.counter \in BOOLEAN
  BY DEF TrieType
<1>5. QED
  BY <1>1, <1>2, <1>3, <1>4

------------------------------------------------------------------------------
(* The place of createTrieFromTextMap.                                     *)

\* A letter stands before character b of line a.
LetterBefore(lines, a, b) ==
  \E l \in 1 .. Len(lines) : \E k \in 1 .. Len(lines[l]) :
     lines[l][k] # " " /\ (l < a \/ (l = a /\ k < b))

(* One more character, and one more line, is behind.                       *)
LEMMA LetterBeforeNext ==
  ASSUME NEW lines \in Seq(Seq(Chars)), NEW a \in 1 .. Len(lines), NEW b \in Nat
  PROVE  /\ b \in 1 .. Len(lines[a]) =>
              (LetterBefore(lines, a, b + 1) <=> LetterBefore(lines, a, b) \/ lines[a][b] # " ")
         /\ b > Len(lines[a]) => (LetterBefore(lines, a + 1, 1) <=> LetterBefore(lines, a, b))
         /\ ~LetterBefore(lines, 1, 1)
<1>1. ASSUME NEW l \in 1 .. Len(lines) PROVE Len(lines[l]) \in Nat
  <2>1. lines[l] \in Seq(Chars)
    OBVIOUS
  <2>2. QED
    BY <2>1
<1>2. ASSUME b \in 1 .. Len(lines[a])
      PROVE  LetterBefore(lines, a, b + 1) <=> LetterBefore(lines, a, b) \/ lines[a][b] # " "
  <2>1. \A l \in 1 .. Len(lines) : \A k \in 1 .. Len(lines[l]) :
          (l < a \/ (l = a /\ k < b + 1)) <=> (l < a \/ (l = a /\ k < b)) \/ (l = a /\ k = b)
    BY <1>1
  <2>2. QED
    BY <1>2, <2>1 DEF LetterBefore
<1>3. ASSUME b > Len(lines[a]) PROVE LetterBefore(lines, a + 1, 1) <=> LetterBefore(lines, a, b)
  <2>1. \A l \in 1 .. Len(lines) : \A k \in 1 .. Len(lines[l]) :
          (l < a + 1 \/ (l = a + 1 /\ k < 1)) <=> (l < a \/ (l = a /\ k < b))
    BY <1>1, <1>3
  <2>2. QED
    BY <2>1 DEF LetterBefore
<1>4. ~LetterBefore(lines, 1, 1)
  <2>1. ASSUME NEW l \in 1 .. Len(lines), NEW k \in 1 .. Len(lines[l])
        PROVE  ~(l < 1 \/ (l = 1 /\ k < 1))
    BY <1>1
  <2>2. QED
    BY <2>1, Zenon DEF LetterBefore
<1>5. QED
  BY <1>2, <1>3, <1>4

(* What InsertChar makes of the place and the flags.                       *)
LEMMA InsertCharIs ==
  ASSUME TrieInv, PlaceInv, InsertChar
  PROVE  /\ phase = "insert" /\ phase' = "insert" /\ text' = text /\ files' = files
         /\ i \in 1 .. Len(text) /\ text[i] \in Seq(Chars) /\ text \in Seq(Seq(Chars))
         /\ j \in Nat /\ j >= 1 /\ (j <= Len(text[i]) \/ (j = 1 /\ text[i] = <<>>))
         /\ Begun(trie) \in Nat
         /\ j < Len(text[i]) => i' = i /\ j' = j + 1
         /\ j >= Len(text[i]) => i' = i + 1 /\ j' = 1
         /\ j > Len(text[i]) => trie' = trie
         /\ j <= Len(text[i]) =>
              /\ trie'.counter <=> trie.counter \/ text[i][j] # " "
              /\ trie'.resultFlag <=> text[i][j] # " " /\ j < Len(text[i])
              /\ Begun(trie') = IF text[i][j] # " " /\ ~trie.resultFlag THEN Begun(trie) + 1 ELSE Begun(trie)
<1> USE DEF InsertChar
<1>1. /\ phase = "insert" /\ phase' = "insert" /\ text' = text /\ files' = files
      /\ i \in 1 .. Len(text) /\ text \in Seq(Seq(Chars))
      /\ j \in Nat /\ j >= 1 /\ Len(files) + 1 \in Nat
  BY DEF TrieInv
<1>2. text[i] \in Seq(Chars)
  BY <1>1
<1>3. j <= Len(text[i]) \/ (j = 1 /\ text[i] = <<>>)
  <2>1. j = 1 \/ j \in 1 .. Len(text[i])
    BY <1>1, Zenon DEF PlaceInv
  <2>2. Len(text[i]) \in Nat /\ (Len(text[i]) = 0 => text[i] = <<>>)
    BY <1>2
  <2>3. QED
    BY <2>1, <2>2
<1>4. /\ j < Len(text[i]) => i' = i /\ j' = j + 1
      /\ j >= Len(text[i]) => i' = i + 1 /\ j' = 1
      /\ j > Len(text[i]) => trie' = trie
  BY <1>1, <1>2
<1>5. TrieOk(trie) /\ TrieInv'
  BY InvIs, TrieKept DEF Next
<1>6. trie \in TrieType /\ trie' \in TrieType
  BY <1>5 DEF TrieInv, TrieType, TrieOk
<1>7. ASSUME j <= Len(text[i])
      PROVE  /\ trie'.counter <=> trie.counter \/ text[i][j] # " "
             /\ trie'.resultFlag <=> text[i][j] # " " /\ j < Len(text[i])
             /\ Begun(trie') = IF text[i][j] # " " /\ ~trie.resultFlag THEN Begun(trie) + 1 ELSE Begun(trie)
  <2> DEFINE f == Len(files) + 1
             c == text[i][j]
             t == Parse(trie, c, i, f)
             t2 == WordEnds(t, i, f)
  <2>1. c \in Chars /\ i \in Nat
    BY <1>1, <1>2, <1>7
  <2>2. TrieOk(t)
    BY <1>1, <1>5, <2>1, ParseKeeps
  <2>3. t \in TrieType
    BY <2>2 DEF TrieOk
  <2>4. IF c = " " THEN Ended(trie, t) ELSE GoesOn(trie, t)
    BY <1>6, ParseFlags, Zenon
  <2>5. Ended(t, t2)
    BY <2>3, WordEndsFlags, Zenon
  <2>6. trie' = IF j = Len(text[i]) THEN t2 ELSE t
    BY <1>7
  <2>7. trie.words \in Nat /\ t.counter \in BOOLEAN
    BY <1>6, <2>3 DEF TrieType
  <2> HIDE DEF t, t2, c
  <2>8. /\ trie'.counter <=> trie.counter \/ c # " "
        /\ trie'.resultFlag <=> c # " " /\ j # Len(text[i])
    BY <2>4, <2>5, <2>6, <2>7, Zenon DEF Ended, GoesOn
  <2>9. Begun(trie') = IF c # " " /\ ~trie.resultFlag THEN Begun(trie) + 1 ELSE Begun(trie)
    BY <2>4, <2>5, <2>6, Zenon DEF Ended, GoesOn
  <2>10. j # Len(text[i]) <=> j < Len(text[i])
    BY <1>1, <1>2, <1>7
  <2>11. QED
    BY <2>8, <2>9, <2>10 DEF c
<1>8. Begun(trie) \in Nat
  <2>1. trie.words \in Nat /\ trie.words + 0 \in Nat /\ trie.words + 1 \in Nat
    BY <1>6 DEF TrieType
  <2>2. QED
    BY <2>1, Zenon DEF Begun
<1>9. QED
  BY <1>1, <1>2, <1>3, <1>4, <1>7, <1>8

(* Every step keeps PlaceInv.                                              *)
LEMMA PlaceKept == TrieInv /\ PlaceInv /\ [Next]_vars => PlaceInv'
<1> SUFFICES ASSUME TrieInv, PlaceInv, [Next]_vars PROVE PlaceInv'
  OBVIOUS
<1>1. phase = "insert" =>
        /\ trie.resultFlag <=> i <= Len(text) /\ j > 1 /\ text[i][j - 1] # " "
        /\ trie.counter <=> LetterBefore(text, i, j)
  BY Zenon DEF PlaceInv, LetterBefore
<1>0. ASSUME /\ i' \in 1 .. Len(text') + 1
             /\ j' = 1 \/ (i' <= Len(text') /\ j' \in 1 .. Len(text'[i']))
             /\ trie'.resultFlag <=> i' <= Len(text') /\ j' > 1 /\ text'[i'][j' - 1] # " "
             /\ trie'.counter <=> LetterBefore(text', i', j')
      PROVE  PlaceInv'
  BY <1>0, Zenon DEF PlaceInv, LetterBefore
<1>2. CASE ReadEOF
  <2>1. i' = 1 /\ j' = 1 /\ text' = text /\ text \in Seq(Seq(Chars)) \ {<<>>}
    BY <1>2 DEF ReadEOF, TrieInv
  <2>2. trie' = [trie EXCEPT !.counter = FALSE, !.resultFlag = FALSE, !.words = 0]
    BY <1>2 DEF ReadEOF
  <2>3. ~trie'.counter /\ ~trie'.resultFlag
    BY <2>2 DEF TrieInv
  <2>4. 1 \in 1 .. Len(text)
    BY <2>1
  <2>5. ~LetterBefore(text, 1, 1)
    BY <2>1, <2>4, LetterBeforeNext
  <2>6. /\ i' \in 1 .. Len(text') + 1 /\ j' = 1
        /\ trie'.resultFlag <=> i' <= Len(text') /\ j' > 1 /\ text'[i'][j' - 1] # " "
        /\ trie'.counter <=> LetterBefore(text', i', j')
    BY <2>1, <2>3, <2>4, <2>5
  <2>7. QED
    BY <1>0, <2>6
<1>3. CASE InsertChar
  <2>1. /\ text' = text
        /\ i \in 1 .. Len(text) /\ text[i] \in Seq(Chars) /\ text \in Seq(Seq(Chars))
        /\ j \in Nat /\ j >= 1 /\ (j <= Len(text[i]) \/ (j = 1 /\ text[i] = <<>>))
        /\ j < Len(text[i]) => i' = i /\ j' = j + 1
        /\ j >= Len(text[i]) => i' = i + 1 /\ j' = 1
    BY <1>3, InsertCharIs
  <2>0. /\ phase = "insert"
        /\ j > Len(text[i]) => trie' = trie
        /\ j <= Len(text[i]) =>
             /\ trie'.counter <=> trie.counter \/ text[i][j] # " "
             /\ trie'.resultFlag <=> text[i][j] # " " /\ j < Len(text[i])
    BY <1>3, InsertCharIs
  <2>2. /\ trie.resultFlag <=> i <= Len(text) /\ j > 1 /\ text[i][j - 1] # " "
        /\ trie.counter <=> LetterBefore(text, i, j)
    BY <1>1, <2>0
  <2> DEFINE n == Len(text[i])
  <2>3. n \in Nat /\ Len(text) \in Nat /\ j + 1 \in Nat /\ (text[i] = <<>> => n = 0)
    BY <2>1
  <2>4. /\ j \in 1 .. n => (LetterBefore(text, i, j + 1) <=> LetterBefore(text, i, j) \/ text[i][j] # " ")
        /\ j > n => (LetterBefore(text, i + 1, 1) <=> LetterBefore(text, i, j))
        /\ j + 1 > n => (LetterBefore(text, i + 1, 1) <=> LetterBefore(text, i, j + 1))
    BY <2>1, <2>3, LetterBeforeNext, Zenon
  <2>5. CASE j < n
    <3>1. i' = i /\ j' = j + 1 /\ j + 1 \in 1 .. n /\ j \in 1 .. n /\ j <= n /\ (j + 1) - 1 = j
          /\ j + 1 > 1 /\ i <= Len(text) /\ i \in 1 .. Len(text) + 1
      BY <2>1, <2>3, <2>5
    <3>2. trie'.counter <=> LetterBefore(text', i', j')
      BY <2>0, <2>1, <2>2, <2>4, <3>1, Zenon
    <3>3. trie'.resultFlag <=> text[i][j] # " "
      BY <2>0, <2>5, <3>1, Zenon
    <3>4. QED
      BY <1>0, <2>1, <3>1, <3>2, <3>3, Zenon
  <2>6. CASE j = n
    <3>1. i' = i + 1 /\ j' = 1 /\ j \in 1 .. n /\ j <= n /\ j >= n /\ j + 1 > n /\ ~(j < n)
          /\ ~(1 > 1) /\ i + 1 \in 1 .. Len(text) + 1
      BY <2>1, <2>3, <2>6
    <3>2. trie'.counter <=> LetterBefore(text', i', j')
      BY <2>0, <2>1, <2>2, <2>4, <3>1, Zenon
    <3>3. ~trie'.resultFlag
      BY <2>0, <3>1, Zenon
    <3>4. QED
      BY <1>0, <2>1, <3>1, <3>2, <3>3, Zenon
  <2>7. CASE j > n
    <3>1. i' = i + 1 /\ j' = 1 /\ j = 1 /\ j >= n /\ j > n
          /\ ~(1 > 1) /\ i + 1 \in 1 .. Len(text) + 1
      BY <2>1, <2>3, <2>7
    <3>2. trie'.counter <=> LetterBefore(text', i', j')
      BY <2>0, <2>1, <2>2, <2>4, <3>1, Zenon
    <3>3. ~trie'.resultFlag
      BY <2>0, <2>2, <3>1, Zenon
    <3>4. QED
      BY <1>0, <2>1, <3>1, <3>2, <3>3, Zenon
  <2>8. QED
    BY <2>1, <2>3, <2>5, <2>6, <2>7
<1>4. CASE UNCHANGED vars
  BY <1>4 DEF PlaceInv, vars
<1>5. CASE \/ \E c \in Chars : ReadChar(c)
           \/ ReadNewline \/ RejectFile \/ OpenFails \/ FinishFile
  <2>1. phase' # "insert"
    BY <1>5 DEF ReadChar, ReadNewline, RejectFile, OpenFails, FileFails, FinishFile, Reads
  <2>2. QED
    BY <2>1 DEF PlaceInv
<1>6. QED
  BY <1>2, <1>3, <1>4, <1>5 DEF Next

------------------------------------------------------------------------------
(* The counts of a file.                                                   *)

(* The sum of a sequence is that of all but its last and its last.         *)
LEMMA TotalSplit ==
  ASSUME NEW n \in Nat, NEW f \in [1 .. n + 1 -> Nat], NEW g \in [1 .. n -> Nat],
         \A k \in 1 .. n : g[k] = f[k]
  PROVE  Total(g) \in Nat /\ Total(f) = Total(g) + f[n + 1]
<1>1. g \in Seq(Nat) /\ f \in Seq(Nat) /\ Len(g) = n /\ Len(f) = n + 1 /\ f[n + 1] \in Nat
  OBVIOUS
<1>2. f = Append(g, f[n + 1])
  <2> DEFINE h == Append(g, f[n + 1])
  <2>1. h \in Seq(Nat) /\ Len(h) = n + 1 /\ \A k \in 1 .. n + 1 : h[k] = f[k]
    BY <1>1
  <2> HIDE DEF h
  <2>2. h = f
    BY <1>1, <2>1
  <2>3. QED
    BY <2>2 DEF h
<1>3. QED
  BY <1>1, <1>2, TotalOf, Zenon

(* The bytes of a file grow with every character and line that is read.    *)
LEMMA BytesGrow ==
  ASSUME NEW file \in Seq(Seq(Chars)), file # <<>>
  PROVE  /\ \A c \in Chars : Total(BytesOf([file EXCEPT ![Len(file)] = Append(@, c)])) = Total(BytesOf(file)) + 1
         /\ Total(BytesOf(Append(file, <<>>))) = Total(BytesOf(file)) + Prefix
         /\ Total(BytesOf(<< <<>> >>)) = Prefix
<1> DEFINE n == Len(file) - 1
           g == [l \in 1 .. n |-> Prefix + Len(file[l])]
<1>0. n \in Nat /\ n + 1 = Len(file) /\ 1 \in 1 .. Len(file)
  OBVIOUS
<1>1. \A l \in 1 .. n + 1 : Len(file[l]) \in Nat /\ file[l] \in Seq(Chars)
  OBVIOUS
<1>2. g \in [1 .. n -> Nat] /\ BytesOf(file) \in [1 .. n + 1 -> Nat]
  BY <1>0, <1>1 DEF BytesOf, Prefix
<1>3. Total(g) \in Nat /\ Total(BytesOf(file)) = Total(g) + (Prefix + Len(file[n + 1]))
  <2>1. \A k \in 1 .. n + 1 : BytesOf(file)[k] = Prefix + Len(file[k])
    BY <1>0 DEF BytesOf
  <2>2. \A k \in 1 .. n : g[k] = BytesOf(file)[k]
    BY <1>0, <2>1
  <2> HIDE DEF g, n
  <2>3. Total(g) \in Nat /\ Total(BytesOf(file)) = Total(g) + BytesOf(file)[n + 1]
    BY <1>0, <1>2, <2>2, TotalSplit
  <2>4. n + 1 \in 1 .. n + 1
    BY <1>0
  <2>5. QED
    BY <2>1, <2>3, <2>4
<1>4. ASSUME NEW c \in Chars
      PROVE  Total(BytesOf([file EXCEPT ![Len(file)] = Append(@, c)])) = Total(BytesOf(file)) + 1
  <2> DEFINE line == Append(file[n + 1], c)
             file2 == [file EXCEPT ![n + 1] = line]
             f == BytesOf(file2)
  <2>1. Len(line) = Len(file[n + 1]) + 1 /\ line \in Seq(Chars) /\ n + 1 \in 1 .. n + 1
    BY <1>0, <1>1
  <2> HIDE DEF line, n
  <2>2. /\ file2 \in Seq(Seq(Chars)) /\ Len(file2) = n + 1 /\ file2[n + 1] = line
        /\ \A k \in 1 .. n : file2[k] = file[k] /\ k \in 1 .. n + 1
    BY <1>0, <2>1
  <2>3. file2 = [file EXCEPT ![Len(file)] = Append(@, c)]
    BY <1>0 DEF line
  <2> HIDE DEF file2, g
  <2>4. f = [l \in 1 .. n + 1 |-> Prefix + Len(file2[l])]
    BY <2>2 DEF BytesOf
  <2>5. \A k \in 1 .. n : f[k] = g[k] /\ Len(file2[k]) \in Nat
    BY <1>1, <2>2, <2>4 DEF g
  <2>6. f[n + 1] = Prefix + (Len(file[n + 1]) + 1) /\ f[n + 1] \in Nat
    BY <1>0, <1>1, <2>1, <2>2, <2>4 DEF Prefix
  <2>7. f \in [1 .. n + 1 -> Nat]
    <3>1. \A k \in 1 .. n + 1 : f[k] \in Nat
      BY <1>0, <1>2, <2>5, <2>6, SMTT(30)
    <3> HIDE DEF f
    <3>2. QED
      BY <2>4, <3>1
  <2> HIDE DEF f
  <2>8. Total(f) = Total(g) + f[n + 1]
    BY <1>0, <1>2, <2>5, <2>7, TotalSplit
  <2>9. Total(f) = Total(BytesOf(file)) + 1
    BY <1>0, <1>1, <1>3, <2>1, <2>6, <2>8 DEF Prefix
  <2>10. QED
    BY <2>3, <2>9, Zenon DEF f
<1>5. Total(BytesOf(Append(file, <<>>))) = Total(BytesOf(file)) + Prefix
  <2> DEFINE file2 == Append(file, <<>>)
             f == BytesOf(file2)
             m == n + 1
  <2>1. /\ Len(file2) = m + 1 /\ Len(file2[m + 1]) = 0 /\ m \in Nat /\ m = Len(file)
        /\ \A k \in 1 .. m : file2[k] = file[k] /\ k \in 1 .. m + 1 /\ Len(file[k]) \in Nat
    BY <1>0, <1>1
  <2> HIDE DEF file2, n, m
  <2>2. f = [l \in 1 .. m + 1 |-> Prefix + Len(file2[l])]
    BY <2>1 DEF BytesOf
  <2>3. f[m + 1] = Prefix /\ \A k \in 1 .. m : BytesOf(file)[k] = f[k] /\ f[k] \in Nat
    BY <2>1, <2>2 DEF BytesOf, Prefix
  <2>4. f \in [1 .. m + 1 -> Nat] /\ BytesOf(file) \in [1 .. m -> Nat]
    BY <1>2, <2>1, <2>2, <2>3 DEF Prefix, m
  <2> HIDE DEF f
  <2>5. Total(f) = Total(BytesOf(file)) + Prefix
    BY <2>1, <2>3, <2>4, TotalSplit
  <2>6. QED
    BY <2>5, Zenon DEF f, file2
<1>6. Total(BytesOf(<< <<>> >>)) = Prefix
  <2>1. BytesOf(<< <<>> >>) = <<Prefix>>
    BY DEF BytesOf, Prefix
  <2>2. <<Prefix>> = Append(<<>>, Prefix) /\ <<>> \in Seq(Nat) /\ Prefix \in Nat /\ 0 + Prefix = Prefix
    BY DEF Prefix
  <2>3. QED
    BY <2>1, <2>2, TotalOf, Zenon
<1>7. QED
  BY <1>4, <1>5, <1>6

\* The words of the lines before line a.
WordsBefore(lines, a) == [l \in 1 .. a - 1 |-> Cardinality(WordStarts(lines[l]))]

(* They are counted line by line.                                          *)
LEMMA WordsAre ==
  ASSUME NEW lines \in Seq(Seq(Chars))
  PROVE  /\ Total(WordsBefore(lines, 1)) = 0
         /\ WordsBefore(lines, Len(lines) + 1) = WordsOf(lines)
         /\ \A a \in 1 .. Len(lines) :
              /\ Total(WordsBefore(lines, a)) \in Nat
              /\ Total(WordsBefore(lines, a + 1)) = Total(WordsBefore(lines, a)) + Cardinality(WordStarts(lines[a]))
<1>1. \A l \in 1 .. Len(lines) : Cardinality(WordStarts(lines[l])) \in Nat
  <2>1. \A l \in 1 .. Len(lines) : lines[l] \in Seq(Chars)
    OBVIOUS
  <2>2. QED
    BY <2>1, StartsAre
<1>2. WordsBefore(lines, 1) = <<>>
  BY DEF WordsBefore
<1>3. WordsBefore(lines, Len(lines) + 1) = WordsOf(lines)
  <2>1. (Len(lines) + 1) - 1 = Len(lines)
    OBVIOUS
  <2>2. QED
    BY <2>1 DEF WordsBefore, WordsOf
<1>4. ASSUME NEW a \in 1 .. Len(lines)
      PROVE  /\ Total(WordsBefore(lines, a)) \in Nat
             /\ Total(WordsBefore(lines, a + 1)) = Total(WordsBefore(lines, a)) + Cardinality(WordStarts(lines[a]))
  <2> DEFINE n == a - 1
             f == WordsBefore(lines, a + 1)
             g == WordsBefore(lines, a)
  <2>1. n \in Nat /\ (a + 1) - 1 = n + 1 /\ n + 1 = a /\ \A l \in 1 .. n + 1 : l \in 1 .. Len(lines)
    OBVIOUS
  <2> HIDE DEF n
  <2>2. f = [l \in 1 .. n + 1 |-> Cardinality(WordStarts(lines[l]))]
    BY <2>1 DEF WordsBefore
  <2>3. g = [l \in 1 .. n |-> Cardinality(WordStarts(lines[l]))]
    BY <2>1 DEF WordsBefore, n
  <2> HIDE DEF f, g
  <2>4. f \in [1 .. n + 1 -> Nat] /\ g \in [1 .. n -> Nat] /\ \A k \in 1 .. n : g[k] = f[k]
    BY <1>1, <2>1, <2>2, <2>3
  <2>5. f[n + 1] = Cardinality(WordStarts(lines[a]))
    BY <2>1, <2>2
  <2>6. Total(g) \in Nat /\ Total(f) = Total(g) + f[n + 1]
    BY <2>1, <2>4, TotalSplit
  <2>7. QED
    BY <2>5, <2>6 DEF f, g
<1>5. QED
  BY <1>2, <1>3, <1>4, TotalOf

\* What wc holds for a file.
CountsOf(file) == [lines |-> Len(file), bytes |-> Total(BytesOf(file)), words |-> Total(WordsOf(file))]

\* The words that have begun at the place of createTrieFromTextMap.
BegunAt(lines, a, b) ==
  Total(WordsBefore(lines, a)) +
  (IF a <= Len(lines) THEN Cardinality(StartsBefore(lines[a], b)) ELSE 0)

(* CountInv in terms of these.                                             *)
LEMMA CountInvIs ==
  CountInv <=> /\ bytes = Total(BytesOf(text))
               /\ phase \in {"read", "insert"} =>
                    /\ Len(wc) = Len(files)
                    /\ \A f \in 1 .. Len(files) : wc[f] = CountsOf(files[f])
               /\ phase = "insert" => Begun(trie) = BegunAt(text, i, j)
BY Zenon DEF CountInv, CountsOf, Begun, BegunAt, WordsBefore, StartsBefore

(* The words that have begun grow with every word that begins.             *)
LEMMA BegunNext ==
  ASSUME NEW lines \in Seq(Seq(Chars)), NEW a \in 1 .. Len(lines), NEW b \in Nat, b >= 1
  PROVE  /\ b < Len(lines[a]) => BegunAt(lines, a, b + 1) =
                BegunAt(lines, a, b) + (IF b \in WordStarts(lines[a]) THEN 1 ELSE 0)
         /\ b = Len(lines[a]) => BegunAt(lines, a + 1, 1) =
                BegunAt(lines, a, b) + (IF b \in WordStarts(lines[a]) THEN 1 ELSE 0)
         /\ lines[a] = <<>> => BegunAt(lines, a + 1, 1) = BegunAt(lines, a, 1)
         /\ BegunAt(lines, 1, 1) = 0
         /\ BegunAt(lines, Len(lines) + 1, 1) = Total(WordsOf(lines))
<1> DEFINE line == lines[a]
           W(k) == Total(WordsBefore(lines, k))
           S(k) == Cardinality(StartsBefore(line, k))
<1>1. line \in Seq(Chars) /\ Len(line) \in Nat /\ Len(lines) \in Nat /\ a + 1 \in Nat
      /\ (line = <<>> => Len(line) = 0)
  OBVIOUS
<1>2. /\ \A k \in Nat : S(k) \in Nat
      /\ S(1) = 0
      /\ StartsBefore(line, Len(line) + 1) = WordStarts(line)
      /\ \A k \in 1 .. Len(line) : S(k + 1) = S(k) + (IF k \in WordStarts(line) THEN 1 ELSE 0)
      /\ line = <<>> => Cardinality(WordStarts(line)) = 0
  BY <1>1, StartsAre
<1>3. /\ W(1) = 0 /\ W(Len(lines) + 1) = Total(WordsOf(lines))
      /\ W(a) \in Nat /\ W(a + 1) = W(a) + Cardinality(WordStarts(line))
  BY WordsAre
<1>4. BegunAt(lines, a, b) = W(a) + S(b) /\ BegunAt(lines, a, b + 1) = W(a) + S(b + 1)
      /\ BegunAt(lines, a, 1) = W(a) + S(1)
  BY DEF BegunAt
<1>5. BegunAt(lines, a + 1, 1) = W(a + 1) /\ BegunAt(lines, 1, 1) = 0
      /\ BegunAt(lines, Len(lines) + 1, 1) = W(Len(lines) + 1)
  <2>1. \A k \in 1 .. Len(lines) + 1 : W(k) \in Nat
    <3>1. ASSUME NEW k \in 1 .. Len(lines) PROVE W(k) \in Nat
      BY WordsAre
    <3>2. W(Len(lines) + 1) \in Nat
      <4>1. WordsOf(lines) \in Seq(Nat)
        <5>1. \A l \in 1 .. Len(lines) : lines[l] \in Seq(Chars)
          OBVIOUS
        <5>2. \A l \in 1 .. Len(lines) : Cardinality(WordStarts(lines[l])) \in Nat
          BY <5>1, StartsAre
        <5>3. QED
          BY <1>1, <5>2 DEF WordsOf
      <4>2. QED
        BY <1>3, <4>1, TotalOf
    <3> HIDE DEF W
    <3>3. QED
      BY <1>1, <3>1, <3>2
  <2>2. \A k \in 1 .. Len(lines) + 1 : BegunAt(lines, k, 1) = W(k)
    <3>1. ASSUME NEW k \in 1 .. Len(lines) PROVE Cardinality(StartsBefore(lines[k], 1)) = 0
      <4>1. lines[k] \in Seq(Chars)
        OBVIOUS
      <4>2. QED
        BY <4>1, StartsAre
    <3>2. ASSUME NEW k \in 1 .. Len(lines) + 1
          PROVE  (IF k <= Len(lines) THEN Cardinality(StartsBefore(lines[k], 1)) ELSE 0) = 0
      BY <1>1, <3>1
    <3> HIDE DEF W
    <3>3. ASSUME NEW k \in 1 .. Len(lines) + 1 PROVE BegunAt(lines, k, 1) = W(k) + 0
      BY <3>2, Zenon DEF BegunAt, W
    <3>4. QED
      BY <2>1, <3>3
  <2>3. a + 1 \in 1 .. Len(lines) + 1 /\ 1 \in 1 .. Len(lines) + 1 /\ Len(lines) + 1 \in 1 .. Len(lines) + 1
    BY <1>1
  <2>4. QED
    BY <1>3, <2>2, <2>3
<1> HIDE DEF W, S, line
<1>6. Cardinality(WordStarts(line)) = S(Len(line) + 1)
  BY <1>2, Zenon DEF S
<1>7. ASSUME b <= Len(line) PROVE S(b + 1) = S(b) + (IF b \in WordStarts(line) THEN 1 ELSE 0)
  BY <1>1, <1>2, <1>7
<1>8. S(b) \in Nat
  BY <1>2
<1>9. b < Len(line) => BegunAt(lines, a, b + 1) = BegunAt(lines, a, b) + (IF b \in WordStarts(line) THEN 1 ELSE 0)
  BY <1>1, <1>3, <1>4, <1>7, <1>8
<1>10. b = Len(line) => BegunAt(lines, a + 1, 1) = BegunAt(lines, a, b) + (IF b \in WordStarts(line) THEN 1 ELSE 0)
  BY <1>1, <1>3, <1>4, <1>5, <1>6, <1>7, <1>8
<1>11. line = <<>> => BegunAt(lines, a + 1, 1) = BegunAt(lines, a, 1)
  BY <1>2, <1>3, <1>4, <1>5
<1>12. QED
  BY <1>3, <1>5, <1>9, <1>10, <1>11 DEF line

(* A further file with its counts.                                         *)
LEMMA CountsAppend ==
  ASSUME NEW S, NEW fs \in Seq(S), NEW ws, NEW file \in S, NEW w,
         \E T : ws \in Seq(T) /\ w \in T,
         Len(ws) = Len(fs), \A f \in 1 .. Len(fs) : ws[f] = CountsOf(fs[f]), w = CountsOf(file)
  PROVE  /\ Len(Append(ws, w)) = Len(Append(fs, file))
         /\ \A f \in 1 .. Len(Append(fs, file)) : Append(ws, w)[f] = CountsOf(Append(fs, file)[f])
<1> DEFINE fs2 == Append(fs, file)
           ws2 == Append(ws, w)
<1>0. PICK T : ws \in Seq(T) /\ w \in T
  OBVIOUS
<1>1. Len(fs) \in Nat /\ Len(fs2) = Len(fs) + 1 /\ fs2[Len(fs) + 1] = file /\ \A f \in 1 .. Len(fs) : fs2[f] = fs[f]
  OBVIOUS
<1>2. Len(ws2) = Len(ws) + 1 /\ ws2[Len(ws) + 1] = w /\ \A f \in 1 .. Len(ws) : ws2[f] = ws[f]
  BY <1>0
<1> HIDE DEF fs2, ws2
<1>3. ASSUME NEW f \in 1 .. Len(fs2) PROVE ws2[f] = CountsOf(fs2[f])
  <2>1. f \in 1 .. Len(fs) \/ f = Len(fs) + 1
    BY <1>1
  <2>2. QED
    BY <1>1, <1>2, <2>1, Zenon
<1>4. QED
  BY <1>1, <1>2, <1>3 DEF fs2, ws2

\* What CountInv says of wc, and that it is a sequence.
CountsKnown ==
  phase \in {"read", "insert"} =>
    /\ wc \in Seq([lines : Nat, bytes : Nat, words : Nat])
    /\ Len(wc) = Len(files)
    /\ \A f \in 1 .. Len(files) : wc[f] = CountsOf(files[f])

(* CountInv with the type of wc: what a step keeps.                        *)
CountOk == CountInv /\ CountsKnown

(* It holds at first.                                                      *)
LEMMA CountInitially == Init => PlaceInv /\ CountOk
<1> SUFFICES ASSUME Init PROVE PlaceInv /\ CountOk
  OBVIOUS
<1>1. PlaceInv
  BY DEF Init, PlaceInv
<1>2. wc = <<>> /\ files = <<>> /\ Len(files) = 0 /\ phase = "read"
  BY DEF Init
<1>3. CountsKnown
  BY <1>2 DEF CountsKnown
<1>4. bytes = Total(BytesOf(text))
  <2>1. <<>> \in Seq(Chars) /\ << <<>> >> \in Seq(Seq(Chars)) /\ << <<>> >> # <<>>
    OBVIOUS
  <2>2. QED
    BY <2>1, BytesGrow, Zenon DEF Init
<1>5. CountInv
  BY <1>2, <1>3, <1>4, CountInvIs DEF CountsKnown
<1>6. QED
  BY <1>1, <1>3, <1>5 DEF CountOk

(* Every step keeps it.                                                    *)
LEMMA CountKept == TrieInv /\ PlaceInv /\ CountOk /\ [Next]_vars => CountOk'
<1> SUFFICES ASSUME TrieInv, PlaceInv, CountOk, [Next]_vars PROVE CountOk'
  OBVIOUS
<1>1. /\ bytes = Total(BytesOf(text))
      /\ CountsKnown
      /\ phase = "insert" => Begun(trie) = BegunAt(text, i, j)
  BY CountInvIs DEF CountOk
<1>2. ASSUME bytes' = Total(BytesOf(text')), CountsKnown',
             phase' = "insert" => Begun(trie') = BegunAt(text', i', j')
      PROVE  CountOk'
  <2>1. CountsKnown' =>
          (phase' \in {"read", "insert"} =>
             /\ Len(wc') = Len(files')
             /\ \A f \in 1 .. Len(files') : wc'[f] = CountsOf(files'[f]))
    BY DEF CountsKnown
  <2>2. CountInv' <=> /\ bytes' = Total(BytesOf(text'))
                      /\ phase' \in {"read", "insert"} =>
                           /\ Len(wc') = Len(files')
                           /\ \A f \in 1 .. Len(files') : wc'[f] = CountsOf(files'[f])
                      /\ phase' = "insert" => Begun(trie') = BegunAt(text', i', j')
    BY Zenon DEF CountInv, CountsOf, Begun, BegunAt, WordsBefore, StartsBefore
  <2>3. QED
    BY <1>2, <2>1, <2>2, Zenon DEF CountOk
<1>3. ASSUME phase' = phase, wc' = wc, files' = files PROVE CountsKnown'
  BY <1>1, <1>3 DEF CountsKnown
<1>4. text \in Seq(Seq(Chars)) /\ text # <<>>
  BY DEF TrieInv
<1>5. ASSUME NEW c \in Chars, ReadChar(c) PROVE CountOk'
  <2>1. /\ bytes' = bytes + 1 /\ phase' # "insert" /\ phase' = phase /\ wc' = wc /\ files' = files
        /\ text' = [text EXCEPT ![Len(text)] = Append(@, c)]
    BY <1>5 DEF ReadChar, Reads
  <2>2. Total(BytesOf(text')) = Total(BytesOf(text)) + 1
    BY <1>4, <2>1, BytesGrow
  <2>3. QED
    BY <1>1, <1>2, <1>3, <2>1, <2>2
<1>6. CASE ReadNewline
  <2>1. /\ bytes' = bytes + Prefix /\ phase' # "insert" /\ phase' = phase /\ wc' = wc /\ files' = files
        /\ text' = Append(text, <<>>)
    BY <1>6 DEF ReadNewline, Reads
  <2>2. Total(BytesOf(text')) = Total(BytesOf(text)) + Prefix
    BY <1>4, <2>1, BytesGrow
  <2>3. QED
    BY <1>1, <1>2, <1>3, <2>1, <2>2
<1>7. CASE RejectFile \/ OpenFails
  <2>1. bytes' = bytes /\ text' = text /\ phase' = "crash"
    BY <1>7 DEF RejectFile, OpenFails, FileFails
  <2>2. CountsKnown'
    BY <2>1 DEF CountsKnown
  <2>3. QED
    BY <1>1, <1>2, <2>1, <2>2
<1>8. CASE ReadEOF
  <2>1. /\ bytes' = bytes /\ text' = text /\ phase' = "insert" /\ wc' = wc /\ files' = files
        /\ i' = 1 /\ j' = 1 /\ phase = "read"
        /\ trie' = [trie EXCEPT !.counter = FALSE, !.resultFlag = FALSE, !.words = 0]
    BY <1>8 DEF ReadEOF, Reads
  <2>2. trie'.words = 0 /\ ~trie'.resultFlag
    BY <2>1 DEF TrieInv
  <2>3. Begun(trie') = 0
    <3>1. 0 + 0 = 0
      OBVIOUS
    <3>2. QED
      BY <2>2, <3>1, Zenon DEF Begun
  <2>4. BegunAt(text, 1, 1) = 0
    <3>1. 1 \in 1 .. Len(text) /\ 1 \in Nat /\ 1 >= 1
      BY <1>4
    <3>2. QED
      BY <1>4, <3>1, BegunNext
  <2>5. CountsKnown'
    BY <1>1, <2>1 DEF CountsKnown
  <2>6. QED
    BY <1>1, <1>2, <2>1, <2>3, <2>4, <2>5
<1>9. CASE InsertChar
  <2>1. bytes' = bytes /\ text' = text /\ phase' = phase /\ wc' = wc /\ files' = files /\ phase = "insert"
    BY <1>9 DEF InsertChar
  <2>2. /\ i \in 1 .. Len(text) /\ text[i] \in Seq(Chars)
        /\ j \in Nat /\ j >= 1 /\ (j <= Len(text[i]) \/ (j = 1 /\ text[i] = <<>>))
        /\ Begun(trie) \in Nat
        /\ j < Len(text[i]) => i' = i /\ j' = j + 1
        /\ j >= Len(text[i]) => i' = i + 1 /\ j' = 1
    BY <1>9, InsertCharIs
  <2>3. /\ j > Len(text[i]) => trie' = trie
        /\ j <= Len(text[i]) =>
             Begun(trie') = IF text[i][j] # " " /\ ~trie.resultFlag THEN Begun(trie) + 1 ELSE Begun(trie)
    BY <1>9, InsertCharIs
  <2>4. /\ j < Len(text[i]) => BegunAt(text, i, j + 1) =
                BegunAt(text, i, j) + (IF j \in WordStarts(text[i]) THEN 1 ELSE 0)
        /\ j = Len(text[i]) => BegunAt(text, i + 1, 1) =
                BegunAt(text, i, j) + (IF j \in WordStarts(text[i]) THEN 1 ELSE 0)
        /\ text[i] = <<>> => BegunAt(text, i + 1, 1) = BegunAt(text, i, 1)
    BY <1>4, <2>2, BegunNext
  <2>5. Begun(trie) = BegunAt(text, i, j)
    BY <1>1, <2>1
  <2>6. ASSUME j <= Len(text[i])
        PROVE  j \in WordStarts(text[i]) <=> text[i][j] # " " /\ ~trie.resultFlag
    <3>1. j \in 1 .. Len(text[i]) /\ i <= Len(text) /\ (j > 1 <=> j # 1)
      BY <2>2, <2>6
    <3>2. trie.resultFlag <=> j > 1 /\ text[i][j - 1] # " "
      BY <2>1, <3>1, Zenon DEF PlaceInv
    <3>3. QED
      BY <3>1, <3>2, Zenon DEF WordStarts
  <2> DEFINE n == Len(text[i])
             start == IF j \in WordStarts(text[i]) THEN 1 ELSE 0
  <2>7. n \in Nat /\ (text[i] = <<>> => n = 0) /\ start \in Nat
    BY <2>2
  <2>8. j <= n => Begun(trie') = Begun(trie) + start
    <3>1. Begun(trie) + 0 = Begun(trie)
      BY <2>2
    <3>2. QED
      BY <2>3, <2>6, <3>1, Zenon
  <2> HIDE DEF n, start
  <2>9. Begun(trie') = BegunAt(text', i', j')
    <3>1. CASE j < n
      <4>1. i' = i /\ j' = j + 1 /\ BegunAt(text, i, j + 1) = BegunAt(text, i, j) + start
        BY <2>2, <2>4, <3>1 DEF n, start
      <4>2. j <= n
        BY <2>2, <2>7, <3>1
      <4>3. QED
        BY <2>1, <2>5, <2>8, <4>1, <4>2, Zenon
    <3>2. CASE j = n
      <4>1. i' = i + 1 /\ j' = 1 /\ BegunAt(text, i + 1, 1) = BegunAt(text, i, j) + start
        BY <2>2, <2>4, <2>7, <3>2 DEF n, start
      <4>2. j <= n
        BY <2>2, <2>7, <3>2
      <4>3. QED
        BY <2>1, <2>5, <2>8, <4>1, <4>2, Zenon
    <3>3. CASE j > n
      <4>1. i' = i + 1 /\ j' = 1 /\ j = 1 /\ text[i] = <<>>
        BY <2>2, <2>7, <3>3 DEF n
      <4>2. QED
        BY <2>1, <2>3, <2>4, <2>5, <3>3, <4>1, Zenon DEF n
    <3>4. QED
      BY <2>2, <2>7, <3>1, <3>2, <3>3
  <2>10. QED
    BY <1>1, <1>2, <1>3, <2>1, <2>9
<1>10. CASE FinishFile
  <2>1. /\ phase = "insert" /\ i > Len(text) /\ text' = << <<>> >> /\ bytes' = Prefix
        /\ files' = Append(files, text) /\ phase' # "insert"
        /\ IF trie.nodes = <<>> THEN wc' = wc /\ phase' = "exit"
           ELSE wc' = Append(wc, [bytes |-> bytes, words |-> trie.words, lines |-> Len(text)])
    BY <1>10 DEF FinishFile, EmptyMap
  <2>2. bytes' = Total(BytesOf(text'))
    BY <1>4, <2>1, BytesGrow
  <2>3. CASE trie.nodes = <<>>
    <3>1. CountsKnown'
      BY <1>1, <2>1, <2>3 DEF CountsKnown
    <3>2. QED
      BY <1>2, <2>1, <2>2, <3>1
  <2>4. CASE trie.nodes # <<>>
    <3> DEFINE w == [bytes |-> bytes, words |-> trie.words, lines |-> Len(text)]
               T == [lines : Nat, bytes : Nat, words : Nat]
    <3>1. i = Len(text) + 1 /\ j = 1 /\ ~trie.resultFlag
      <4>1. /\ i \in 1 .. Len(text) + 1
            /\ j = 1 \/ i <= Len(text)
            /\ trie.resultFlag <=> i <= Len(text) /\ j > 1 /\ text[i][j - 1] # " "
        BY <2>1, Zenon DEF PlaceInv
      <4>2. Len(text) \in Nat
        BY <1>4
      <4>3. i = Len(text) + 1 /\ ~(i <= Len(text))
        <5> HIDE <4>1
        <5>1. i \in 1 .. Len(text) + 1
          BY <4>1
        <5>2. QED
          BY <2>1, <4>2, <5>1
      <4>4. QED
        BY <4>1, <4>3, Zenon
    <3>2. trie.words \in Nat /\ Len(text) \in Nat
      BY <1>4 DEF TrieInv
    <3>3. trie.words = Total(WordsOf(text))
      <4>1. Begun(trie) = trie.words
        <5>1. trie.words + 0 = trie.words
          BY <3>2
        <5>2. QED
          BY <3>1, <5>1, Zenon DEF Begun
      <4>2. 1 \in 1 .. Len(text) /\ 1 \in Nat /\ 1 >= 1
        BY <1>4
      <4>3. BegunAt(text, Len(text) + 1, 1) = Total(WordsOf(text))
        BY <1>4, <4>2, BegunNext
      <4>4. QED
        BY <1>1, <2>1, <3>1, <4>1, <4>3, Zenon
    <3>4. w = CountsOf(text)
      BY <1>1, <3>3 DEF CountsOf
    <3>5. bytes \in Nat
      <4>1. BytesOf(text) \in Seq(Nat)
        <5>1. \A l \in 1 .. Len(text) : Prefix + Len(text[l]) \in Nat
          BY <1>4 DEF Prefix
        <5>2. QED
          BY <3>2, <5>1 DEF BytesOf
      <4>2. QED
        BY <1>1, <4>1, TotalOf, Zenon
    <3>6. w \in T
      BY <3>2, <3>5
    <3>7. files \in Seq(Seq(Seq(Chars))) /\ wc \in Seq(T) /\ wc' = Append(wc, w)
          /\ Len(wc) = Len(files) /\ \A f \in 1 .. Len(files) : wc[f] = CountsOf(files[f])
      BY <1>1, <2>1, <2>4 DEF CountsKnown, TrieInv
    <3> HIDE DEF w, T
    <3>8. Len(wc') = Len(files') /\ \A f \in 1 .. Len(files') : wc'[f] = CountsOf(files'[f])
      BY <1>4, <2>1, <3>4, <3>6, <3>7, CountsAppend
    <3>9. wc' \in Seq(T)
      BY <3>6, <3>7
    <3>10. CountsKnown'
      BY <3>8, <3>9 DEF CountsKnown, T
    <3>11. QED
      BY <1>2, <2>1, <2>2, <3>10
  <2>5. QED
    BY <2>3, <2>4
<1>11. CASE UNCHANGED vars
  <2>1. bytes' = bytes /\ text' = text /\ phase' = phase /\ wc' = wc /\ files' = files
        /\ i' = i /\ j' = j /\ trie' = trie
    BY <1>11 DEF vars
  <2>2. QED
    BY <1>1, <1>2, <1>3, <2>1
<1>12. QED
  BY <1>5, <1>6, <1>7, <1>8, <1>9, <1>10, <1>11 DEF Next

(* As long as no file has failed, wc has the counts of each file, and they *)
(* are right, for any letters and any files (textmap.c:47-102,             *)
(* trie.c:88-91, 194-197, worker.c:313-346).                               *)
THEOREM CountsAreRight == Spec => []CountsRight
<1> DEFINE Inv == TrieInv /\ PlaceInv /\ CountOk
<1>1. Init => Inv
  BY TrieInitially, CountInitially
<1>2. Inv /\ [Next]_vars => Inv'
  BY TrieKept, PlaceKept, CountKept
<1>3. Inv => CountsRight
  <2>1. phase = "read" => phase \in {"read", "insert"}
    OBVIOUS
  <2>2. QED
    BY <2>1, Zenon DEF CountsRight, CountsKnown, CountOk, CountsOf
<1>4. QED
  BY <1>1, <1>2, <1>3, PTL DEF Spec

------------------------------------------------------------------------------
(* Words, and the walk for a word.                                         *)

(* A word with one more letter.                                            *)
LEMMA Longer ==
  ASSUME NEW T, NEW u \in Seq(T), NEW c \in T
  PROVE  /\ Append(u, c) \in Seq(T) /\ Append(u, c) # <<>>
         /\ Len(Append(u, c)) = Len(u) + 1 /\ Append(u, c)[Len(u) + 1] = c
         /\ \A k \in 1 .. Len(u) : Append(u, c)[k] = u[k]
OBVIOUS

(* Every word but the empty one has one letter more than another.          *)
LEMMA Shorter ==
  ASSUME NEW T, NEW w \in Seq(T), w # <<>>
  PROVE  \E u \in Seq(T) : \E c \in T : w = Append(u, c) /\ Len(w) = Len(u) + 1
<1> DEFINE n == Len(w) - 1
           u == [k \in 1 .. n |-> w[k]]
           v == Append(u, w[n + 1])
<1>1. n \in Nat /\ n + 1 = Len(w) /\ \A k \in 1 .. n + 1 : w[k] \in T
  OBVIOUS
<1>2. \A k \in 1 .. n : k \in 1 .. n + 1
  BY <1>1
<1> HIDE DEF n
<1>3. u \in Seq(T) /\ Len(u) = n /\ w[n + 1] \in T /\ \A k \in 1 .. n : u[k] = w[k]
  BY <1>1, <1>2
<1> HIDE DEF u
<1>4. v \in Seq(T) /\ Len(v) = n + 1 /\ v[n + 1] = w[n + 1] /\ \A k \in 1 .. n : v[k] = w[k]
  BY <1>3, Longer
<1> HIDE DEF v
<1>5. \A k \in 1 .. n + 1 : k \in 1 .. n \/ k = n + 1
  BY <1>1
<1>6. v = w
  BY <1>1, <1>4, <1>5
<1>7. QED
  BY <1>1, <1>3, <1>6 DEF v

(* What holds of the empty word, and of a word with one letter more if it  *)
(* holds of that without, holds of all words.                              *)
LEMMA ByLetters ==
  ASSUME NEW T, NEW S, <<>> \in S, \A u \in Seq(T) : \A c \in T : u \in S => Append(u, c) \in S
  PROVE  \A w \in Seq(T) : w \in S
<1> SUFFICES ASSUME NEW w \in Seq(T) PROVE w \in S
  OBVIOUS
<1> DEFINE R == {k \in Nat : \A u \in Seq(T) : Len(u) = k => u \in S}
<1>1. 0 \in R
  <2>1. \A u \in Seq(T) : Len(u) = 0 => u = <<>>
    OBVIOUS
  <2>2. QED
    BY <2>1
<1>2. ASSUME NEW k \in 1 .. Len(w), k - 1 \in R PROVE k \in R
  <2> SUFFICES ASSUME NEW u \in Seq(T), Len(u) = k PROVE u \in S
    OBVIOUS
  <2>1. u # <<>>
    OBVIOUS
  <2>2. PICK v \in Seq(T), c \in T : u = Append(v, c) /\ Len(u) = Len(v) + 1
    BY <2>1, Shorter
  <2>3. Len(v) = k - 1
    BY <2>2
  <2>4. v \in S
    BY <1>2, <2>3
  <2>5. QED
    BY <2>2, <2>4
<1> HIDE DEF R
<1>3. Len(w) \in Nat
  OBVIOUS
<1>4. \A k \in 0 .. Len(w) : k \in R
  BY <1>1, <1>2, <1>3, CountUp
<1>5. Len(w) \in R
  BY <1>3, <1>4
<1>6. QED
  BY <1>5 DEF R

\* Where the walk for a word begins.
Root(n) == IF n = <<>> THEN 0 ELSE 1

\* The chain on which a walk goes on behind a word.
Below(n, u) ==
  IF u = <<>> THEN Root(n) ELSE IF NodeOf(n, u) = 0 THEN 0 ELSE n[NodeOf(n, u)].cont

(* The root and what is below a node are nodes or none.                    *)
LEMMA LinksAre ==
  ASSUME NEW n, Forward(n)
  PROVE  /\ Root(n) \in 0 .. Len(n)
         /\ \A k \in 1 .. Len(n) : n[k].cont \in 0 .. Len(n)
         /\ \A k \in 0 .. Len(n) : \A c : Lookup(n, k, c) \in 0 .. Len(n)
         /\ \A c : Lookup(n, 0, c) = 0
<1>1. Len(n) \in Nat /\ n \in Seq(Node)
  BY DEF Forward
<1>2. Root(n) \in 0 .. Len(n)
  <2>1. n # <<>> => 1 \in 0 .. Len(n)
    BY <1>1
  <2>2. QED
    BY <1>1, <2>1 DEF Root
<1>3. ASSUME NEW k \in 1 .. Len(n) PROVE n[k].cont \in 0 .. Len(n)
  <2>1. n[k].cont # 0 => n[k].cont \in k + 1 .. Len(n)
    BY DEF Forward
  <2>2. QED
    BY <1>1, <2>1
<1>4. ASSUME NEW k \in 0 .. Len(n), NEW c PROVE Lookup(n, k, c) \in 0 .. Len(n)
  <2>1. Lookup(n, k, c) # 0 => Lookup(n, k, c) \in 1 .. Len(n)
    BY LookupIs, OnChainIs, Zenon
  <2>2. QED
    BY <1>1, <2>1
<1>5. ASSUME NEW c PROVE Lookup(n, 0, c) = 0
  BY <1>1, LookupIs, OnChainIs
<1>6. QED
  BY <1>2, <1>3, <1>4, <1>5

\* The steps of the walk for a word: to k, from the node reached before.
StepOf(n, w, k, a) ==
  IF k = 1 THEN Lookup(n, Root(n), w[1]) ELSE IF a = 0 THEN 0 ELSE Lookup(n, n[a].cont, w[k])

(* A walk ends at the last of its steps.                                   *)
LEMMA WalkIs ==
  ASSUME NEW n, Forward(n), NEW w \in Seq(Letters)
  PROVE  \E f \in [0 .. Len(w) -> 0 .. Len(n)] :
           /\ f[0] = 0 /\ \A k \in 1 .. Len(w) : f[k] = StepOf(n, w, k, f[k - 1])
           /\ NodeOf(n, w) = f[Len(w)]
<1> DEFINE m == Len(w)
           N == Len(n)
           at[k \in 0 .. m] ==
             IF k = 0 THEN 0
             ELSE IF k = 1 THEN Lookup(n, IF n = <<>> THEN 0 ELSE 1, w[1])
             ELSE IF at[k - 1] = 0 THEN 0
             ELSE Lookup(n, n[at[k - 1]].cont, w[k])
           g == [k \in 1 .. m |-> [a \in 0 .. N |-> StepOf(n, w, k, a)]]
<1>1. m \in Nat /\ N \in Nat /\ 0 \in 0 .. N
  BY DEF Forward
<1>2. \A k \in 1 .. m : \A a \in 0 .. N : g[k][a] = StepOf(n, w, k, a) /\ g[k][a] \in 0 .. N
  <2>1. \A k \in 1 .. m : \A a \in 0 .. N : StepOf(n, w, k, a) \in 0 .. N
    <3> SUFFICES ASSUME NEW k \in 1 .. m, NEW a \in 0 .. N PROVE StepOf(n, w, k, a) \in 0 .. N
      OBVIOUS
    <3>1. a # 0 => a \in 1 .. N
      BY <1>1
    <3> HIDE DEF m, N
    <3>2. QED
      BY <1>1, <3>1, LinksAre, Zenon DEF StepOf, N
  <2>2. QED
    BY <2>1
<1> HIDE DEF g
<1>3. PICK f \in [0 .. m -> 0 .. N] : f[0] = 0 /\ MadeFrom(f, g, m)
  <2>1. \A k \in 1 .. m : \A a \in 0 .. N : g[k][a] \in 0 .. N
    BY <1>2
  <2> HIDE DEF m, N
  <2>2. QED
    BY <1>1, <2>1, Recursion
<1>4. \A k \in 1 .. m : f[k] = StepOf(n, w, k, f[k - 1])
  <2>1. ASSUME NEW k \in 1 .. m PROVE f[k] = StepOf(n, w, k, f[k - 1])
    <3>1. f[k - 1] \in 0 .. N
      BY <1>1
    <3>2. QED
      BY <1>2, <1>3, <3>1 DEF MadeFrom
  <2>2. QED
    BY <2>1
<1> DEFINE G(h) == [k \in 0 .. m |-> IF k = 0 THEN 0 ELSE StepOf(n, w, k, h[k - 1])]
<1>5. f = G(f)
  <2> DEFINE F(k) == IF k = 0 THEN 0 ELSE StepOf(n, w, k, f[k - 1])
  <2>1. \A k \in 0 .. m : k = 0 \/ k \in 1 .. m
    BY <1>1
  <2>2. \A k \in 0 .. m : f[k] = F(k)
    BY <1>3, <1>4, <2>1, Zenon
  <2> HIDE DEF F
  <2>3. f = [k \in 0 .. m |-> F(k)]
    BY <2>2
  <2>4. QED
    BY <2>3 DEF F
<1>6. \A h : G(h) = [k \in 0 .. m |->
             IF k = 0 THEN 0
             ELSE IF k = 1 THEN Lookup(n, IF n = <<>> THEN 0 ELSE 1, w[1])
             ELSE IF h[k - 1] = 0 THEN 0
             ELSE Lookup(n, n[h[k - 1]].cont, w[k])]
  BY DEF StepOf, Root
<1>7. at = G(at)
  <2>1. at = CHOOSE h : h = [k \in 0 .. m |->
             IF k = 0 THEN 0
             ELSE IF k = 1 THEN Lookup(n, IF n = <<>> THEN 0 ELSE 1, w[1])
             ELSE IF h[k - 1] = 0 THEN 0
             ELSE Lookup(n, n[h[k - 1]].cont, w[k])]
    OBVIOUS
  <2> HIDE DEF at, G
  <2>2. at = CHOOSE h : h = G(h)
    BY <1>6, <2>1
  <2>3. QED
    BY <1>5, <2>2
<1>8. NodeOf(n, w) = at[m]
  BY DEF NodeOf
<1> HIDE DEF at
<1>9. at[0] = 0 /\ \A k \in 1 .. m : at[k] = StepOf(n, w, k, at[k - 1])
  <2>1. \A k \in 0 .. m : at[k] = IF k = 0 THEN 0 ELSE StepOf(n, w, k, at[k - 1])
    BY <1>7, Zenon
  <2>2. 0 \in 0 .. m /\ \A k \in 1 .. m : k \in 0 .. m /\ k # 0
    BY <1>1
  <2>3. QED
    BY <2>1, <2>2, Zenon
<1> DEFINE S == {k \in 0 .. m : at[k] = f[k]}
<1>10. 0 \in S /\ \A k \in 1 .. m : k - 1 \in S => k \in S
  <2>1. 0 \in 0 .. m /\ \A k \in 1 .. m : k \in 0 .. m
    BY <1>1
  <2>2. QED
    BY <1>3, <1>4, <1>9, <2>1, Zenon
<1> HIDE DEF S
<1>11. \A k \in 0 .. m : k \in S
  BY <1>1, <1>10, CountUp
<1>12. at[m] = f[m]
  BY <1>1, <1>11 DEF S
<1>13. QED
  BY <1>3, <1>4, <1>8, <1>12

(* So the walk for a word goes on from that for the word without its last  *)
(* letter.                                                                 *)
LEMMA NodeOfIs ==
  ASSUME NEW n, Forward(n)
  PROVE  /\ NodeOf(n, <<>>) = 0
         /\ \A u \in Seq(Letters) : NodeOf(n, u) \in 0 .. Len(n)
         /\ \A u \in Seq(Letters) : Below(n, u) \in 0 .. Len(n)
         /\ \A u \in Seq(Letters) : \A c \in Letters : NodeOf(n, Append(u, c)) = Lookup(n, Below(n, u), c)
<1>0. Len(n) \in Nat
  BY DEF Forward
<1>1. NodeOf(n, <<>>) = 0
  <2>1. <<>> \in Seq(Letters) /\ Len(<<>>) = 0
    OBVIOUS
  <2>2. QED
    BY <2>1, WalkIs, ZenonT(40)
<1>2. ASSUME NEW u \in Seq(Letters) PROVE NodeOf(n, u) \in 0 .. Len(n)
  <2>1. PICK f \in [0 .. Len(u) -> 0 .. Len(n)] : NodeOf(n, u) = f[Len(u)]
    BY WalkIs
  <2>2. Len(u) \in 0 .. Len(u)
    OBVIOUS
  <2>3. QED
    BY <2>1, <2>2
<1>3. ASSUME NEW u \in Seq(Letters) PROVE Below(n, u) \in 0 .. Len(n)
  <2>1. NodeOf(n, u) # 0 => NodeOf(n, u) \in 1 .. Len(n)
    BY <1>0, <1>2
  <2>2. 0 \in 0 .. Len(n)
    BY <1>0
  <2>3. QED
    BY <2>1, <2>2, LinksAre, Zenon DEF Below
<1>4. ASSUME NEW u \in Seq(Letters), NEW c \in Letters
      PROVE  NodeOf(n, Append(u, c)) = Lookup(n, Below(n, u), c)
  <2> DEFINE w == Append(u, c)
             m == Len(u)
  <2>1. w \in Seq(Letters) /\ Len(w) = m + 1 /\ w[m + 1] = c /\ m \in Nat /\ \A k \in 1 .. m : w[k] = u[k]
    BY Longer
  <2>2. (u = <<>> <=> m = 0)
    OBVIOUS
  <2> HIDE DEF w
  <2>3. PICK f \in [0 .. m -> 0 .. Len(n)] :
          f[0] = 0 /\ (\A k \in 1 .. m : f[k] = StepOf(n, u, k, f[k - 1])) /\ NodeOf(n, u) = f[m]
    BY WalkIs
  <2>4. PICK h \in [0 .. Len(w) -> 0 .. Len(n)] :
          h[0] = 0 /\ (\A k \in 1 .. Len(w) : h[k] = StepOf(n, w, k, h[k - 1])) /\ NodeOf(n, w) = h[Len(w)]
    BY <2>1, WalkIs
  <2> HIDE DEF m
  <2> DEFINE S == {k \in 0 .. m : h[k] = f[k]}
  <2>5. 0 \in S
    BY <2>1, <2>3, <2>4
  <2>6. ASSUME NEW k \in 1 .. m, k - 1 \in S PROVE k \in S
    <3>0. k \in 1 .. Len(w) /\ h[k - 1] = f[k - 1]
      BY <2>1, <2>6
    <3>1. w[k] = u[k] /\ (k = 1 => w[1] = u[1])
      BY <2>1
    <3>2. StepOf(n, w, k, h[k - 1]) = StepOf(n, u, k, f[k - 1])
      BY <3>0, <3>1, Zenon DEF StepOf
    <3>3. h[k] = f[k]
      BY <2>3, <2>4, <3>0, <3>2, Zenon
    <3>4. QED
      BY <2>1, <3>3
  <2> HIDE DEF S
  <2>7. \A k \in 0 .. m : k \in S
    BY <2>1, <2>5, <2>6, CountUp
  <2>8. h[m] = NodeOf(n, u)
    BY <2>1, <2>3, <2>7 DEF S
  <2>9. NodeOf(n, w) = StepOf(n, w, m + 1, NodeOf(n, u))
    BY <2>1, <2>4, <2>8
  <2>10. m + 1 = 1 <=> u = <<>>
    BY <2>1, <2>2
  <2>11. w[m + 1] = c /\ (m + 1 = 1 => w[1] = c)
    BY <2>1
  <2>12. NodeOf(n, w) = Lookup(n, Below(n, u), c)
    BY <2>9, <2>10, <2>11, LinksAre, Zenon DEF StepOf, Below
  <2>13. QED
    BY <2>12 DEF w
<1>5. QED
  BY <1>1, <1>2, <1>3, <1>4

------------------------------------------------------------------------------
(* A walk ends at a node of its own.                                       *)

(* No two nodes of a chain have the same letter.                           *)
LEMMA OneLetter ==
  ASSUME NEW n, ShapeOf(n), NEW x, NEW y, n[x].letter = n[y].letter
  PROVE  \A k \in 1 .. Len(n) : OnChain(n, k, x) /\ OnChain(n, k, y) => x = y
<1> DEFINE N == Len(n)
           S == {k \in 1 .. N : OnChain(n, k, x) /\ OnChain(n, k, y) => x = y}
<1>1. Forward(n) /\ Apart(n) /\ N \in Nat
  BY DEF ShapeOf, Forward
<1>2. ASSUME NEW k \in 1 .. N, \A l \in k + 1 .. N : l \in S PROVE k \in S
  <2> SUFFICES ASSUME OnChain(n, k, x), OnChain(n, k, y) PROVE x = y
    OBVIOUS
  <2>1. (x = k \/ OnChain(n, n[k].next, x)) /\ (y = k \/ OnChain(n, n[k].next, y))
    BY <1>1, OnChainIs
  <2>2. CASE x = k \/ y = k
    BY <1>1, <2>1, <2>2 DEF Apart
  <2>3. CASE x # k /\ y # k
    <3>1. n[k].next # 0
      BY <1>1, <2>1, <2>3, OnChainIs
    <3>2. n[k].next \in S
      BY <1>1, <1>2, <3>1 DEF Forward
    <3>3. QED
      BY <2>1, <2>3, <3>2
  <2>4. QED
    BY <2>2, <2>3
<1> HIDE DEF S
<1>3. \A k \in 1 .. N : k \in S
  BY <1>1, <1>2, Downward
<1>4. QED
  BY <1>3 DEF S

(* So Lookup finds the one node with this letter.                          *)
LEMMA LookupOne ==
  ASSUME NEW n, ShapeOf(n), NEW k \in 0 .. Len(n), NEW m, OnChain(n, k, m)
  PROVE  Lookup(n, k, n[m].letter) = m /\ m \in 1 .. Len(n) /\ m # 0
<1>1. Forward(n) /\ Len(n) \in Nat
  BY DEF ShapeOf, Forward
<1>2. k # 0 /\ m \in 1 .. Len(n)
  BY <1>1, OnChainIs
<1>3. k \in 1 .. Len(n)
  BY <1>1, <1>2
<1>4. Lookup(n, k, n[m].letter) # 0
  BY <1>1, LookupIs
<1>5. OnChain(n, k, Lookup(n, k, n[m].letter)) /\ n[Lookup(n, k, n[m].letter)].letter = n[m].letter
  BY <1>1, <1>4, LookupIs
<1>6. Lookup(n, k, n[m].letter) = m
  BY <1>3, <1>5, OneLetter
<1>7. QED
  BY <1>2, <1>6

(* A chain begins at the root, and below a node.                           *)
LEMMA BeginsBelow ==
  ASSUME NEW n, ShapeOf(n), NEW u \in Seq(Letters), Below(n, u) # 0
  PROVE  Below(n, u) \in 1 .. Len(n) /\ Begins(n, Below(n, u))
<1>1. Forward(n) /\ Tree(n) /\ Len(n) \in Nat
  BY DEF ShapeOf, Forward
<1>2. Below(n, u) \in 1 .. Len(n)
  BY <1>1, NodeOfIs
<1>3. ASSUME NEW p \in 1 .. Len(n) PROVE n[p].next # Below(n, u)
  <2>1. CASE u = <<>>
    <3>1. Below(n, u) = 1
      BY <2>1 DEF Below, Root
    <3>2. QED
      BY <1>1, <3>1, NextIs
  <2>2. CASE u # <<>>
    <3>1. NodeOf(n, u) # 0 /\ Below(n, u) = n[NodeOf(n, u)].cont
      BY <2>2 DEF Below
    <3>2. NodeOf(n, u) \in 1 .. Len(n)
      BY <1>1, <3>1, NodeOfIs
    <3>3. QED
      BY <1>1, <3>1, <3>2 DEF Tree
  <2>3. QED
    BY <2>1, <2>2
<1>4. QED
  BY <1>2, <1>3 DEF Begins

(* Two chains that share a node and begin at the root or below a node are  *)
(* the same.                                                               *)
LEMMA OneBegin ==
  ASSUME NEW n, ShapeOf(n), NEW a \in 1 .. Len(n), NEW b \in 1 .. Len(n), NEW z \in 1 .. Len(n),
         Begins(n, a), Begins(n, b), OnChain(n, a, z), OnChain(n, b, z)
  PROVE  a = b
<1>1. Forward(n) /\ Tree(n)
  BY DEF ShapeOf
<1>2. OnChain(n, a, b)
  BY <1>1, OneWay DEF Begins
<1>3. QED
  BY <1>1, <1>2, Before DEF Begins

(* The walks for two words do not end at the same node.                    *)
LEMMA OneWord ==
  ASSUME NEW n, ShapeOf(n)
  PROVE  \A u \in Seq(Letters) : \A v \in Seq(Letters) :
           NodeOf(n, u) # 0 /\ NodeOf(n, v) = NodeOf(n, u) => u = v
<1> DEFINE Only(u) == \A v \in Seq(Letters) : NodeOf(n, u) # 0 /\ NodeOf(n, v) = NodeOf(n, u) => u = v
           S == {u \in Seq(Letters) : Only(u)}
<1>1. Forward(n) /\ Tree(n) /\ Len(n) \in Nat
  BY DEF ShapeOf, Forward
<1>2. <<>> \in S
  BY <1>1, NodeOfIs
<1>3. ASSUME NEW u \in Seq(Letters), NEW c \in Letters, u \in S PROVE Append(u, c) \in S
  <2> DEFINE w == Append(u, c)
             z == NodeOf(n, w)
  <2>1. w \in Seq(Letters)
    BY Longer
  <2> SUFFICES ASSUME NEW v \in Seq(Letters), z # 0, NodeOf(n, v) = z PROVE w = v
    BY <2>1
  <2>2. v # <<>>
    BY <1>1, NodeOfIs
  <2>3. PICK x \in Seq(Letters), d \in Letters : v = Append(x, d)
    BY <2>2, Shorter
  <2>4. z = Lookup(n, Below(n, u), c) /\ z = Lookup(n, Below(n, x), d)
    BY <1>1, <2>3, NodeOfIs
  <2>5. Below(n, u) \in 0 .. Len(n) /\ Below(n, x) \in 0 .. Len(n)
    BY <1>1, NodeOfIs
  <2> HIDE DEF z, w
  <2>6. OnChain(n, Below(n, u), z) /\ OnChain(n, Below(n, x), z) /\ n[z].letter = c /\ n[z].letter = d
    <3>1. Lookup(n, Below(n, u), c) # 0 /\ Lookup(n, Below(n, x), d) # 0
      BY <2>4
    <3>2. OnChain(n, Below(n, u), Lookup(n, Below(n, u), c)) /\ n[Lookup(n, Below(n, u), c)].letter = c
      BY <1>1, <2>5, <3>1, LookupIs
    <3>3. OnChain(n, Below(n, x), Lookup(n, Below(n, x), d)) /\ n[Lookup(n, Below(n, x), d)].letter = d
      BY <1>1, <2>5, <3>1, LookupIs
    <3>4. QED
      BY <2>4, <3>2, <3>3, Zenon
  <2>7. Below(n, u) # 0 /\ Below(n, x) # 0 /\ z \in 1 .. Len(n)
    BY <1>1, <2>5, <2>6, OnChainIs
  <2>8. /\ Below(n, u) \in 1 .. Len(n) /\ Begins(n, Below(n, u))
        /\ Below(n, x) \in 1 .. Len(n) /\ Begins(n, Below(n, x))
    BY <2>7, BeginsBelow
  <2>9. Below(n, u) = Below(n, x)
    BY <2>6, <2>7, <2>8, OneBegin
  <2>10. ASSUME NEW a \in Seq(Letters), a # <<>>, Below(n, a) # 0
         PROVE  NodeOf(n, a) \in 1 .. Len(n) /\ Below(n, a) = n[NodeOf(n, a)].cont /\ Below(n, a) # 1
    <3>1. NodeOf(n, a) # 0 /\ Below(n, a) = n[NodeOf(n, a)].cont
      BY <2>10 DEF Below
    <3>2. NodeOf(n, a) \in 1 .. Len(n)
      BY <1>1, <3>1, NodeOfIs
    <3>3. n[NodeOf(n, a)].cont \in NodeOf(n, a) + 1 .. Len(n)
      BY <1>1, <2>10, <3>1, <3>2 DEF Forward
    <3>4. QED
      BY <3>1, <3>2, <3>3
  <2>11. u = <<>> <=> x = <<>>
    <3>1. Root(n) \in {0, 1}
      BY DEF Root
    <3>2. QED
      BY <2>7, <2>9, <2>10, <3>1 DEF Below
  <2>12. CASE u = <<>>
    BY <2>3, <2>6, <2>11, <2>12 DEF w
  <2>13. CASE u # <<>>
    <3>1. /\ NodeOf(n, u) \in 1 .. Len(n) /\ Below(n, u) = n[NodeOf(n, u)].cont
          /\ NodeOf(n, x) \in 1 .. Len(n) /\ Below(n, x) = n[NodeOf(n, x)].cont
      BY <2>7, <2>10, <2>11, <2>13
    <3>2. NodeOf(n, u) = NodeOf(n, x)
      BY <1>1, <2>7, <2>9, <3>1 DEF Tree
    <3>3. u = x
      BY <1>3, <3>1, <3>2
    <3>4. QED
      BY <2>3, <2>6, <3>3 DEF w
  <2>14. QED
    BY <2>12, <2>13
<1> HIDE DEF S
<1>4. \A u \in Seq(Letters) : u \in S
  BY <1>2, <1>3, ByLetters
<1>5. QED
  BY <1>4 DEF S

------------------------------------------------------------------------------
(* A new node, or a posting, does not change the walks that were there.    *)

\* The walk for a word ends where it did, or, if nowhere, at a new node.
SameOrNew(n, n2, w) ==
  NodeOf(n2, w) = NodeOf(n, w) \/ (NodeOf(n, w) = 0 /\ NodeOf(n2, w) = Len(n) + 1)

\* Only letters that were not found, and links that were not there, lead to
\* the new node.
OnlyNew(n, n2) ==
  /\ \A k \in 0 .. Len(n) : \A c :
       \/ Lookup(n2, k, c) = Lookup(n, k, c)
       \/ Lookup(n, k, c) = 0 /\ Lookup(n2, k, c) = Len(n) + 1
  /\ \A c : Lookup(n2, Len(n) + 1, c) \in {0, Len(n) + 1}
  /\ \A k \in 1 .. Len(n) : n2[k].cont = n[k].cont \/ (n[k].cont = 0 /\ n2[k].cont = Len(n) + 1)
  /\ n2[Len(n) + 1].cont = 0

(* A node without links that is put below or behind one that had none.     *)
LEMMA NewNode ==
  ASSUME NEW n, NEW n2, ShapeOf(n), ShapeOf(n2), n # <<>>, Len(n2) = Len(n) + 1, OnlyNew(n, n2)
  PROVE  \A w \in Seq(Letters) : SameOrNew(n, n2, w)
<1> DEFINE N == Len(n)
           S == {w \in Seq(Letters) : SameOrNew(n, n2, w)}
<1>1. Forward(n) /\ Forward(n2) /\ N \in Nat
  BY DEF ShapeOf, Forward
<1>2. <<>> \in S
  BY <1>1, NodeOfIs DEF SameOrNew
<1>3. ASSUME NEW u \in Seq(Letters), NEW c \in Letters, u \in S PROVE Append(u, c) \in S
  <2> DEFINE w == Append(u, c)
  <2>1. w \in Seq(Letters)
    BY Longer
  <2>2. NodeOf(n, w) = Lookup(n, Below(n, u), c) /\ NodeOf(n2, w) = Lookup(n2, Below(n2, u), c)
    BY <1>1, NodeOfIs
  <2>3. Below(n, u) \in 0 .. N /\ NodeOf(n, u) \in 0 .. N
    BY <1>1, NodeOfIs
  <2>4. Lookup(n, 0, c) = 0 /\ Lookup(n2, 0, c) = 0
    BY <1>1, LinksAre
  <2>5. n2 # <<>> /\ N + 1 # 0
    BY <1>1
  <2> HIDE DEF w
  <2>6. SameOrNew(n, n2, w)
    <3>1. CASE Below(n2, u) = Below(n, u)
      BY <2>2, <2>3, <3>1 DEF SameOrNew, OnlyNew
    <3>2. CASE Below(n2, u) # Below(n, u)
      <4>1. u # <<>>
        BY <2>5, <3>2 DEF Below, Root
      <4>2. CASE NodeOf(n, u) = 0
        <5>1. Below(n, u) = 0
          BY <4>1, <4>2 DEF Below
        <5>2. NodeOf(n2, u) = N + 1
          BY <1>3, <3>2, <4>1, <4>2 DEF SameOrNew, Below
        <5>3. Below(n2, u) = 0
          BY <2>5, <4>1, <5>2 DEF Below, OnlyNew
        <5>4. QED
          BY <3>2, <5>1, <5>3
      <4>3. CASE NodeOf(n, u) # 0
        <5>1. NodeOf(n2, u) = NodeOf(n, u) /\ NodeOf(n, u) \in 1 .. N
          BY <1>1, <1>3, <2>3, <4>3 DEF SameOrNew
        <5>2. Below(n, u) = n[NodeOf(n, u)].cont /\ Below(n2, u) = n2[NodeOf(n, u)].cont
          BY <4>1, <4>3, <5>1 DEF Below
        <5>3. Below(n, u) = 0 /\ Below(n2, u) = N + 1
          BY <3>2, <5>1, <5>2 DEF OnlyNew
        <5>4. NodeOf(n, w) = 0 /\ NodeOf(n2, w) \in {0, N + 1}
          BY <2>2, <2>4, <5>3 DEF OnlyNew
        <5>5. QED
          BY <5>4 DEF SameOrNew
      <4>4. QED
        BY <4>2, <4>3
    <3>3. QED
      BY <3>1, <3>2
  <2>7. QED
    BY <2>1, <2>6 DEF w
<1> HIDE DEF S
<1>4. \A w \in Seq(Letters) : w \in S
  BY <1>2, <1>3, ByLetters
<1>5. QED
  BY <1>4 DEF S

(* Where a chain has only become longer and letters are as they were, a    *)
(* letter that was found is found where it was.                            *)
LEMMA SameLookup ==
  ASSUME NEW n, NEW n2, ShapeOf(n), ShapeOf(n2), Len(n) <= Len(n2), NEW k \in 0 .. Len(n), NEW c,
         \A m \in 1 .. Len(n) : n2[m].letter = n[m].letter,
         \A m : OnChain(n, k, m) => OnChain(n2, k, m)
  PROVE  /\ Lookup(n, k, c) # 0 => Lookup(n2, k, c) = Lookup(n, k, c)
         /\ Lookup(n, k, c) = 0 /\ Lookup(n2, k, c) # 0 =>
              /\ OnChain(n2, k, Lookup(n2, k, c))
              /\ ~OnChain(n, k, Lookup(n2, k, c))
<1>1. Forward(n) /\ Forward(n2) /\ Len(n) \in Nat /\ Len(n2) \in Nat /\ k \in 0 .. Len(n2)
  <2>1. Forward(n) /\ Forward(n2) /\ Len(n) \in Nat /\ Len(n2) \in Nat
    BY DEF ShapeOf, Forward
  <2>2. QED
    BY <2>1
<1>2. ASSUME Lookup(n, k, c) # 0 PROVE Lookup(n2, k, c) = Lookup(n, k, c)
  <2> DEFINE m == Lookup(n, k, c)
  <2>1. OnChain(n, k, m) /\ n[m].letter = c
    BY <1>1, <1>2, LookupIs
  <2>2. m \in 1 .. Len(n)
    BY <1>1, <2>1, OnChainIs
  <2> HIDE DEF m
  <2>3. OnChain(n2, k, m) /\ n2[m].letter = c
    BY <2>1, <2>2
  <2>4. Lookup(n2, k, n2[m].letter) = m
    BY <1>1, <2>3, LookupOne
  <2>5. QED
    BY <2>3, <2>4 DEF m
<1>3. ASSUME Lookup(n, k, c) = 0, Lookup(n2, k, c) # 0
      PROVE  OnChain(n2, k, Lookup(n2, k, c)) /\ ~OnChain(n, k, Lookup(n2, k, c))
  <2> DEFINE m == Lookup(n2, k, c)
  <2>1. OnChain(n2, k, m) /\ n2[m].letter = c
    BY <1>1, <1>3, LookupIs
  <2>2. \A q : OnChain(n, k, q) => n[q].letter # c /\ q \in 1 .. Len(n)
    BY <1>1, <1>3, LookupIs, OnChainIs
  <2> HIDE DEF m
  <2>3. ~OnChain(n, k, m)
    BY <2>1, <2>2
  <2>4. QED
    BY <2>1, <2>3 DEF m
<1>4. QED
  BY <1>2, <1>3

(* A new node is found by its letter on its own chain.                     *)
LEMMA NewLookup ==
  ASSUME NEW n, ShapeOf(n), NEW z \in 1 .. Len(n), n[z].next = 0
  PROVE  /\ \A c : Lookup(n, z, c) \in {0, z}
         /\ Lookup(n, z, n[z].letter) = z
<1>1. Forward(n) /\ Len(n) \in Nat /\ z \in 0 .. Len(n)
  BY DEF ShapeOf, Forward
<1>2. \A m : OnChain(n, z, m) <=> m = z
  BY <1>1, OnChainIs
<1>3. \A c : Lookup(n, z, c) \in {0, z}
  BY <1>1, <1>2, LookupIs
<1>4. Lookup(n, z, n[z].letter) = z
  BY <1>1, <1>2, LookupOne
<1>5. QED
  BY <1>3, <1>4

(* A node below one that had none below.                                   *)
LEMMA BelowNew ==
  ASSUME NEW n, NEW n2, ShapeOf(n), ShapeOf(n2), NEW at \in 1 .. Len(n), n[at].cont = 0,
         Len(n2) = Len(n) + 1,
         \A k \in 1 .. Len(n) : k # at => n2[k] = n[k],
         n2[at].letter = n[at].letter, n2[at].cont = Len(n) + 1, n2[at].next = n[at].next,
         n2[Len(n) + 1].cont = 0, n2[Len(n) + 1].next = 0
  PROVE  \A w \in Seq(Letters) : SameOrNew(n, n2, w)
<1> DEFINE N == Len(n)
<1>1. Forward(n) /\ Forward(n2) /\ N \in Nat /\ N + 1 \in 1 .. Len(n2) /\ n # <<>> /\ Len(n) <= Len(n2)
  <2>1. Forward(n) /\ Forward(n2) /\ N \in Nat /\ n \in Seq(Node)
    BY DEF ShapeOf, Forward
  <2>2. QED
    BY <2>1
<1>2. \A m \in 1 .. N : n2[m].letter = n[m].letter /\ n2[m].next = n[m].next
  OBVIOUS
<1>3. \A k \in 0 .. N : \A m : OnChain(n2, k, m) <=> OnChain(n, k, m)
  BY <1>1, <1>2, SameChains
<1>4. ASSUME NEW k \in 0 .. N, NEW c
      PROVE  \/ Lookup(n2, k, c) = Lookup(n, k, c)
             \/ Lookup(n, k, c) = 0 /\ Lookup(n2, k, c) = N + 1
  BY <1>1, <1>2, <1>3, SameLookup, SMTT(30)
<1>5. \A c : Lookup(n2, N + 1, c) \in {0, N + 1}
  BY <1>1, NewLookup
<1>6. \A k \in 1 .. N : n2[k].cont = n[k].cont \/ (n[k].cont = 0 /\ n2[k].cont = N + 1)
  OBVIOUS
<1>7. OnlyNew(n, n2)
  BY <1>4, <1>5, <1>6 DEF OnlyNew
<1>8. QED
  BY <1>1, <1>7, NewNode

(* A node behind the last one of a chain.                                  *)
LEMMA BehindNew ==
  ASSUME NEW n, NEW n2, ShapeOf(n), ShapeOf(n2), NEW last \in 1 .. Len(n), n[last].next = 0,
         Len(n2) = Len(n) + 1,
         \A k \in 1 .. Len(n) : k # last => n2[k] = n[k],
         n2[last].letter = n[last].letter, n2[last].cont = n[last].cont, n2[last].next = Len(n) + 1,
         n2[Len(n) + 1].cont = 0, n2[Len(n) + 1].next = 0
  PROVE  /\ \A w \in Seq(Letters) : SameOrNew(n, n2, w)
         /\ \A k \in 0 .. Len(n) : OnChain(n, k, last) => Lookup(n2, k, n2[Len(n) + 1].letter) = Len(n) + 1
<1> DEFINE N == Len(n)
<1>1. Forward(n) /\ Forward(n2) /\ N \in Nat /\ N + 1 \in 1 .. Len(n2) /\ n # <<>> /\ Len(n) <= Len(n2)
      /\ \A k \in 0 .. N : k \in 0 .. Len(n2)
  <2>1. Forward(n) /\ Forward(n2) /\ N \in Nat /\ n \in Seq(Node)
    BY DEF ShapeOf, Forward
  <2>2. QED
    BY <2>1
<1>2. \A m \in 1 .. N : n2[m].letter = n[m].letter /\ (m # last => n2[m].next = n[m].next)
  OBVIOUS
<1>3. \A k \in 0 .. N : \A m : OnChain(n2, k, m) <=> OnChain(n, k, m) \/ (m = N + 1 /\ OnChain(n, k, last))
  BY <1>1, <1>2, LongerChains
<1>4. ASSUME NEW k \in 0 .. N, NEW c
      PROVE  \/ Lookup(n2, k, c) = Lookup(n, k, c)
             \/ Lookup(n, k, c) = 0 /\ Lookup(n2, k, c) = N + 1
  BY <1>1, <1>2, <1>3, SameLookup, SMTT(30)
<1>5. \A c : Lookup(n2, N + 1, c) \in {0, N + 1}
  BY <1>1, NewLookup
<1>6. \A k \in 1 .. N : n2[k].cont = n[k].cont \/ (n[k].cont = 0 /\ n2[k].cont = N + 1)
  OBVIOUS
<1>0. OnlyNew(n, n2)
  BY <1>4, <1>5, <1>6 DEF OnlyNew
<1>7. \A w \in Seq(Letters) : SameOrNew(n, n2, w)
  BY <1>0, <1>1, NewNode
<1>8. ASSUME NEW k \in 0 .. N, OnChain(n, k, last) PROVE Lookup(n2, k, n2[N + 1].letter) = N + 1
  BY <1>1, <1>3, <1>8, LookupOne
<1>9. QED
  BY <1>7, <1>8

(* A new node has no postings, and the others keep theirs.                 *)
LEMMA SearchSame ==
  ASSUME NEW n, NEW n2, Forward(n), Len(n2) = Len(n) + 1,
         \A k \in 1 .. Len(n) : n2[k].index = n[k].index, n2[Len(n) + 1].index = <<>>,
         NEW w \in Seq(Letters), SameOrNew(n, n2, w)
  PROVE  searchWordInTrie(n2, w) = searchWordInTrie(n, w)
<1>1. Len(n) \in Nat /\ NodeOf(n, w) \in 0 .. Len(n)
  BY NodeOfIs DEF Forward
<1>2. CASE NodeOf(n, w) = 0
  BY <1>1, <1>2 DEF SameOrNew, searchWordInTrie
<1>3. CASE NodeOf(n, w) # 0
  BY <1>1, <1>3 DEF SameOrNew, searchWordInTrie
<1>4. QED
  BY <1>2, <1>3

------------------------------------------------------------------------------
(* What a letter and the end of a word do to the walks.                    *)

\* The letters of u were the last to be put in, if there are any.
At(t, u) ==
  IF u = <<>> THEN t.newContFlag = 0
  ELSE /\ NodeOf(t.nodes, u) = t.curTrieNode /\ t.curTrieNode # 0
       /\ t.newContFlag = IF t.nodes[t.curTrieNode].cont = 0 THEN 1 ELSE 3

\* Every search finds in n2 what it finds in n.
SameSearch(n, n2) == \A w \in Seq(Letters) : searchWordInTrie(n2, w) = searchWordInTrie(n, w)

\* From t to t2, c is put in behind u.
PutIn(t, t2, u, c) ==
  /\ SameSearch(t.nodes, t2.nodes)
  /\ At(t2, Append(u, c))
  /\ t2.nodes # <<>>
  /\ t.nodes # <<>> => t2.nodes[1].letter = t.nodes[1].letter

(* The new node of Extend is where the walk ends.                          *)
LEMMA ExtendPuts ==
  ASSUME NEW t, TrieOk(t), NEW c \in Letters, NEW at, NEW link, NEW n2, NEW u \in Seq(Letters),
         n2 = Append([t.nodes EXCEPT ![at][link] = Len(t.nodes) + 1], newTrieNode(c)),
         t.nodes # <<>>, Len(n2) = Len(t.nodes) + 1, n2[Len(n2)].cont = 0,
         SameSearch(t.nodes, n2), n2[1].letter = t.nodes[1].letter,
         NodeOf(n2, Append(u, c)) = Len(n2)
  PROVE  PutIn(t, [Extend(t, c, at, link) EXCEPT !.resultFlag = TRUE], u, c)
<1> DEFINE N == Len(t.nodes)
           t2 == [Extend(t, c, at, link) EXCEPT !.resultFlag = TRUE]
<1>1. Extend(t, c, at, link) = [t EXCEPT !.nodes = n2, !.curTrieNode = N + 1, !.newContFlag = 1]
  BY DEF Extend
<1>2. t \in TrieType /\ N \in Nat
  BY DEF TrieOk, TrieType
<1>3. t2 = [t EXCEPT !.nodes = n2, !.curTrieNode = N + 1, !.newContFlag = 1, !.resultFlag = TRUE]
  BY <1>1, <1>2 DEF TrieType
<1> HIDE DEF t2
<1>4. t2.nodes = n2 /\ t2.curTrieNode = N + 1 /\ t2.newContFlag = 1
  BY <1>2, <1>3 DEF TrieType
<1>5. Append(u, c) # <<>> /\ N + 1 # 0 /\ n2 # <<>>
  BY <1>2, Longer
<1>6. At(t2, Append(u, c))
  BY <1>4, <1>5, Zenon DEF At
<1>7. PutIn(t, t2, u, c)
  BY <1>4, <1>5, <1>6, Zenon DEF PutIn
<1>8. QED
  BY <1>7 DEF t2

(* A later letter goes on from where the walk for the letters before ends. *)
LEMMA LaterLetterPuts ==
  ASSUME NEW t, TrieOk(t), NEW c \in Letters, t.nodes # <<>>, NEW u \in Seq(Letters), At(t, u)
  PROVE  PutIn(t, [LaterLetter(t, c) EXCEPT !.resultFlag = TRUE], u, c)
<1> DEFINE n     == t.nodes
           at    == IF t.newContFlag = 3 THEN n[t.curTrieNode].cont ELSE t.curTrieNode
           chain == Chain(n, at)
           last  == chain[Len(chain)]
           hit   == Lookup(n, at, c)
           t2    == [LaterLetter(t, c) EXCEPT !.resultFlag = TRUE]
<1>1. /\ t \in TrieType /\ n \in Seq(Node) /\ t.curTrieNode \in 1 .. Len(n)
      /\ ShapeOf(n) /\ Forward(n) /\ Tree(n) /\ Len(n) \in Nat
  BY DEF TrieOk, TrieType, ShapeOf
<1>2. at \in 1 .. Len(n)
  <2>1. t.newContFlag = 3 => n[t.curTrieNode].cont \in t.curTrieNode + 1 .. Len(n)
    BY <1>1 DEF TrieOk, Forward
  <2>2. QED
    BY <1>1, <2>1
<1>3. LaterLetter(t, c) =
        IF t.newContFlag = 1 THEN Extend(t, c, at, "cont")
        ELSE IF hit = 0 THEN Extend(t, c, last, "next")
        ELSE [t EXCEPT !.curTrieNode = hit, !.newContFlag = IF n[hit].cont = 0 THEN 1 ELSE 3]
  BY DEF LaterLetter
<1>4. TrieOk(t2)
  BY LaterLetterKeeps
<1>5. IF t.newContFlag = 1 THEN u # <<>> /\ at = t.curTrieNode /\ NodeOf(n, u) = at /\ n[at].cont = 0
      ELSE Below(n, u) = at
  <2>1. CASE u = <<>>
    <3>1. t.newContFlag = 0 /\ t.curTrieNode = 1
      BY <2>1 DEF At, TrieOk
    <3>2. at = 1 /\ Below(n, u) = 1
      BY <2>1, <3>1 DEF Below, Root
    <3>3. QED
      BY <3>1, <3>2
  <2>2. CASE u # <<>>
    <3>1. /\ NodeOf(n, u) = t.curTrieNode /\ t.curTrieNode # 0
          /\ t.newContFlag = IF n[t.curTrieNode].cont = 0 THEN 1 ELSE 3
      BY <2>2, Zenon DEF At
    <3>2. Below(n, u) = n[t.curTrieNode].cont
      BY <2>2, <3>1, Zenon DEF Below
    <3>3. CASE n[t.curTrieNode].cont = 0
      BY <2>2, <3>1, <3>3
    <3>4. CASE n[t.curTrieNode].cont # 0
      BY <3>1, <3>2, <3>4
    <3>5. QED
      BY <3>3, <3>4
  <2>3. QED
    BY <2>1, <2>2
<1>6. t.newContFlag # 1 => Begins(n, at)
  <2>1. at # 0
    BY <1>2
  <2> HIDE DEF at
  <2>2. QED
    BY <1>1, <1>5, <2>1, BeginsBelow
<1> HIDE DEF n, at, chain, last, hit, t2
<1>7. CASE t.newContFlag = 1
  <2> DEFINE n2 == Append([n EXCEPT ![at]["cont"] = Len(n) + 1], newTrieNode(c))
  <2>1. /\ n2 \in Seq(Node) /\ Len(n2) = Len(n) + 1
        /\ \A k \in 1 .. Len(n) : k # at => n2[k] = n[k]
        /\ n2[at].letter = n[at].letter /\ n2[at].index = n[at].index
        /\ n2[at].cont = Len(n) + 1
        /\ n2[at].next = n[at].next
        /\ n2[Len(n) + 1] = [letter |-> c, cont |-> 0, next |-> 0, index |-> <<>>]
    <3>1. "cont" \in {"cont", "next"} /\ "cont" # "next"
      OBVIOUS
    <3>2. QED
      BY <1>1, <1>2, <3>1, Extended, ZenonT(40)
  <2>0. n2 = Append([t.nodes EXCEPT ![at]["cont"] = Len(t.nodes) + 1], newTrieNode(c))
    BY DEF n
  <2> HIDE DEF n2
  <2>2. n2[Len(n) + 1].cont = 0 /\ n2[Len(n) + 1].next = 0 /\ n2[Len(n) + 1].letter = c
        /\ n2[Len(n) + 1].index = <<>>
    BY <2>1
  <2>3. ShapeOf(n2)
    BY <1>1, <1>2, <2>1, <2>2, ExtendBelow, SMTT(30)
  <2>4. u # <<>> /\ NodeOf(n, u) = at /\ n[at].cont = 0
    BY <1>5, <1>7
  <2>5. \A w \in Seq(Letters) : SameOrNew(n, n2, w)
    BY <1>1, <1>2, <2>1, <2>2, <2>3, <2>4, BelowNew
  <2>6. \A k \in 1 .. Len(n) : n2[k].index = n[k].index /\ n2[k].letter = n[k].letter
    BY <2>1
  <2>7. SameSearch(n, n2)
    BY <1>1, <2>1, <2>2, <2>5, <2>6, SearchSame DEF SameSearch
  <2>8. NodeOf(n2, u) = at /\ at # 0
    BY <1>2, <2>4, <2>5 DEF SameOrNew
  <2>9. Below(n2, u) = Len(n) + 1
    BY <2>1, <2>4, <2>8 DEF Below
  <2>10. NodeOf(n2, Append(u, c)) = Len(n) + 1
    <3>1. Len(n) + 1 \in 1 .. Len(n2) /\ Forward(n2)
      BY <1>1, <2>1, <2>3 DEF ShapeOf
    <3>2. Lookup(n2, Len(n) + 1, c) = Len(n) + 1
      BY <2>2, <2>3, <3>1, NewLookup
    <3>3. QED
      BY <2>9, <3>1, <3>2, NodeOfIs
  <2>11. n2[1].letter = n[1].letter /\ n # <<>>
    <3>1. 1 \in 1 .. Len(n)
      BY <1>2
    <3>2. QED
      BY <2>6, <3>1 DEF n
  <2>12. PutIn(t, [Extend(t, c, at, "cont") EXCEPT !.resultFlag = TRUE], u, c)
    BY <2>0, <2>1, <2>2, <2>7, <2>10, <2>11, ExtendPuts DEF n
  <2>13. QED
    BY <1>3, <1>7, <2>12, Zenon DEF t2
<1>8. CASE t.newContFlag # 1 /\ hit = 0
  <2> DEFINE n2 == Append([n EXCEPT ![last]["next"] = Len(n) + 1], newTrieNode(c))
  <2>1. last \in 1 .. Len(n) /\ OnChain(n, at, last) /\ n[last].next = 0
    BY <1>1, <1>2, LastOnChain DEF last, chain
  <2>2. Begins(n, at) /\ Lookup(n, at, c) = 0 /\ Below(n, u) = at
    BY <1>5, <1>6, <1>8 DEF hit
  <2>3. last \in 1 .. Len(n) /\ "next" \in {"cont", "next"} /\ "next" # "cont"
    BY <2>1
  <2>4. /\ n2 \in Seq(Node) /\ Len(n2) = Len(n) + 1
        /\ \A k \in 1 .. Len(n) : k # last => n2[k] = n[k]
        /\ n2[last].letter = n[last].letter /\ n2[last].index = n[last].index
        /\ n2[last].cont = n[last].cont
        /\ n2[last].next = Len(n) + 1
        /\ n2[Len(n) + 1] = [letter |-> c, cont |-> 0, next |-> 0, index |-> <<>>]
    BY <1>1, <2>3, Extended, ZenonT(40)
  <2>0. n2 = Append([t.nodes EXCEPT ![last]["next"] = Len(t.nodes) + 1], newTrieNode(c))
    BY DEF n
  <2> HIDE DEF n2
  <2>5. n2[Len(n) + 1].cont = 0 /\ n2[Len(n) + 1].next = 0 /\ n2[Len(n) + 1].letter = c
        /\ n2[Len(n) + 1].index = <<>>
    BY <2>4
  <2>6. ShapeOf(n2)
    BY <1>1, <1>2, <2>1, <2>2, <2>4, <2>5, ExtendChain
  <2>7. \A w \in Seq(Letters) : SameOrNew(n, n2, w)
    BY <1>1, <2>1, <2>4, <2>5, <2>6, BehindNew
  <2>8. \A k \in 1 .. Len(n) : n2[k].index = n[k].index /\ n2[k].letter = n[k].letter /\ n2[k].cont = n[k].cont
    BY <2>4
  <2>9. SameSearch(n, n2)
    BY <1>1, <2>4, <2>5, <2>7, <2>8, SearchSame DEF SameSearch
  <2>10. Below(n2, u) = at
    <3>1. CASE u = <<>>
      <4>1. n2 # <<>> /\ n # <<>>
        BY <1>1, <2>4 DEF n
      <4>2. QED
        BY <2>2, <3>1, <4>1 DEF Below, Root
    <3>2. CASE u # <<>>
      <4>1. NodeOf(n, u) # 0 /\ n[NodeOf(n, u)].cont = at
        BY <1>2, <2>2, <3>2 DEF Below
      <4>2. NodeOf(n, u) \in 1 .. Len(n) /\ NodeOf(n2, u) = NodeOf(n, u)
        BY <1>1, <2>7, <4>1, NodeOfIs DEF SameOrNew
      <4>3. QED
        BY <2>8, <3>2, <4>1, <4>2 DEF Below
    <3>3. QED
      BY <3>1, <3>2
  <2>11. NodeOf(n2, Append(u, c)) = Len(n) + 1
    <3>1. at \in 0 .. Len(n) /\ Forward(n2)
      BY <1>1, <1>2, <2>6 DEF ShapeOf
    <3>2. Lookup(n2, at, n2[Len(n) + 1].letter) = Len(n) + 1
      BY <1>1, <2>1, <2>4, <2>5, <2>6, <3>1, BehindNew
    <3>3. QED
      BY <2>5, <2>10, <3>1, <3>2, NodeOfIs
  <2>12. n2[1].letter = n[1].letter /\ n # <<>>
    <3>1. 1 \in 1 .. Len(n)
      BY <1>2
    <3>2. QED
      BY <2>8, <3>1 DEF n
  <2>13. PutIn(t, [Extend(t, c, last, "next") EXCEPT !.resultFlag = TRUE], u, c)
    BY <2>0, <2>4, <2>5, <2>9, <2>11, <2>12, ExtendPuts DEF n
  <2>14. QED
    BY <1>3, <1>8, <2>13, Zenon DEF t2
<1>9. CASE t.newContFlag # 1 /\ hit # 0
  <2> DEFINE flag == IF n[hit].cont = 0 THEN 1 ELSE 3
  <2>1. LaterLetter(t, c) = [t EXCEPT !.curTrieNode = hit, !.newContFlag = flag]
    BY <1>3, <1>9
  <2>2. t2 = [t EXCEPT !.curTrieNode = hit, !.newContFlag = flag, !.resultFlag = TRUE]
    BY <1>1, <2>1 DEF TrieType, t2
  <2> HIDE DEF flag
  <2>3. t2.nodes = n /\ t2.newContFlag = flag /\ t2.curTrieNode = hit
    BY <1>1, <2>2 DEF TrieType, n
  <2>4. NodeOf(n, Append(u, c)) = hit
    BY <1>1, <1>5, <1>9, NodeOfIs DEF hit
  <2>5. Append(u, c) # <<>>
    BY Longer
  <2>6. At(t2, Append(u, c))
    BY <1>9, <2>3, <2>4, <2>5, Zenon DEF At, flag
  <2>7. SameSearch(t.nodes, t2.nodes)
    BY <2>3 DEF SameSearch, n
  <2>8. PutIn(t, t2, u, c)
    BY <2>3, <2>6, <2>7 DEF PutIn, n
  <2>9. QED
    BY <2>8 DEF t2
<1>10. QED
  BY <1>7, <1>8, <1>9

(* The first letter of a file is the root, if it is the root's.            *)
LEMMA FirstLetterPuts ==
  ASSUME NEW t, TrieOk(t), NEW c \in Letters, t.nodes # <<>> => t.nodes[1].letter = c
  PROVE  LET t2 == [FirstLetter(t, c) EXCEPT !.counter = TRUE, !.resultFlag = TRUE]
         IN  /\ SameSearch(t.nodes, t2.nodes)
             /\ t2.nodes # <<>>
             /\ t2.curTrieNode = 1 /\ NodeOf(t2.nodes, Append(<<>>, c)) = 1
             /\ t2.newContFlag = 1
             /\ t.nodes # <<>> => t2.nodes = t.nodes
             /\ t.nodes = <<>> => t2.nodes[1].cont = 0
<1> DEFINE n == t.nodes
           n2 == IF n = <<>> THEN <<newTrieNode(c)>> ELSE n
           t2 == [FirstLetter(t, c) EXCEPT !.counter = TRUE, !.resultFlag = TRUE]
<1>1. t \in TrieType /\ n \in Seq(Node) /\ ShapeOf(n) /\ Forward(n) /\ TrieOk(t2)
  BY FirstLetterKeeps DEF TrieOk, TrieType, ShapeOf
<1>2. t2 = [t EXCEPT !.nodes = n2, !.curTrieNode = 1, !.newContFlag = 1,
                     !.counter = TRUE, !.resultFlag = TRUE]
  BY <1>1 DEF FirstLetter, TrieType
<1> HIDE DEF t2
<1>3. t2.nodes = n2 /\ t2.newContFlag = 1 /\ t2.curTrieNode = 1
  BY <1>1, <1>2 DEF TrieType
<1>4. n2 \in Seq(Node) /\ n2 # <<>> /\ ShapeOf(n2) /\ n2[1].letter = c /\ (n = <<>> => n2[1].cont = 0 /\ n2[1].index = <<>> /\ Len(n2) = 1)
  <2>1. ShapeOf(n2)
    BY <1>1, <1>3 DEF TrieOk
  <2>2. n2 \in Seq(Node)
    BY <2>1 DEF ShapeOf, Forward
  <2>3. n = <<>> => n2 = <<newTrieNode(c)>>
    OBVIOUS
  <2>4. newTrieNode(c).cont = 0 /\ newTrieNode(c).index = <<>> /\ newTrieNode(c).letter = c
    BY DEF newTrieNode
  <2>5. n # <<>> => n2 = n
    OBVIOUS
  <2> HIDE DEF n2
  <2>6. QED
    BY <2>1, <2>2, <2>3, <2>4, <2>5 DEF n
<1> HIDE DEF n2
<1>5. NodeOf(n2, Append(<<>>, c)) = 1
  <2>1. Below(n2, <<>>) = 1 /\ <<>> \in Seq(Letters)
    BY <1>4 DEF Below, Root
  <2>2. Forward(n2) /\ 1 \in 1 .. Len(n2) /\ 1 \in 0 .. Len(n2)
    BY <1>4 DEF ShapeOf
  <2>3. Lookup(n2, 1, c) = 1
    BY <1>4, <2>2, OnChainIs, LookupOne
  <2>4. QED
    BY <2>1, <2>2, <2>3, NodeOfIs
<1>6. SameSearch(n, n2)
  <2>1. CASE n # <<>>
    BY <2>1 DEF SameSearch, n2
  <2>2. CASE n = <<>>
    <3> SUFFICES ASSUME NEW w \in Seq(Letters) PROVE searchWordInTrie(n2, w) = searchWordInTrie(n, w)
      BY DEF SameSearch
    <3>1. NodeOf(n, w) \in 0 .. Len(n) /\ NodeOf(n2, w) \in 0 .. Len(n2)
      BY <1>1, <1>4, NodeOfIs DEF ShapeOf
    <3>2. Len(n) = 0 /\ Len(n2) = 1
      BY <1>4, <2>2
    <3>3. NodeOf(n, w) = 0 /\ NodeOf(n2, w) \in {0, 1}
      BY <3>1, <3>2
    <3>4. QED
      BY <1>4, <2>2, <3>3 DEF searchWordInTrie
  <2>3. QED
    BY <2>1, <2>2
<1>7. QED
  BY <1>3, <1>4, <1>5, <1>6, Zenon DEF t2, n, n2

(* Walks are as they were where no link and no letter is changed.          *)
LEMMA SameWalks ==
  ASSUME NEW n, NEW n2, ShapeOf(n), ShapeOf(n2), Len(n2) = Len(n),
         \A k \in 1 .. Len(n) : n2[k].cont = n[k].cont /\ n2[k].next = n[k].next /\ n2[k].letter = n[k].letter
  PROVE  \A w \in Seq(Letters) : NodeOf(n2, w) = NodeOf(n, w)
<1> DEFINE N == Len(n)
           S == {w \in Seq(Letters) : NodeOf(n2, w) = NodeOf(n, w)}
<1>1. Forward(n) /\ Forward(n2) /\ N \in Nat /\ N <= Len(n2) /\ Len(n2) \in Nat
      /\ n \in Seq(Node) /\ n2 \in Seq(Node)
  <2>1. Forward(n) /\ Forward(n2) /\ N \in Nat
    BY DEF ShapeOf, Forward
  <2>2. QED
    BY <2>1 DEF Forward
<1>2. \A k \in 0 .. N : \A m : OnChain(n2, k, m) <=> OnChain(n, k, m)
  BY <1>1, SameChains
<1>3. ASSUME NEW k \in 0 .. N, NEW c PROVE Lookup(n2, k, c) = Lookup(n, k, c)
  BY <1>1, <1>2, SameLookup
<1>4. <<>> \in S
  BY <1>1, NodeOfIs
<1>5. ASSUME NEW u \in Seq(Letters), NEW c \in Letters, u \in S PROVE Append(u, c) \in S
  <2>1. Append(u, c) \in Seq(Letters)
    BY Longer
  <2>2. NodeOf(n, Append(u, c)) = Lookup(n, Below(n, u), c) /\ NodeOf(n2, Append(u, c)) = Lookup(n2, Below(n2, u), c)
    BY <1>1, NodeOfIs
  <2>3. Below(n, u) \in 0 .. N /\ NodeOf(n, u) \in 0 .. N
    BY <1>1, NodeOfIs
  <2>4. Below(n2, u) = Below(n, u)
    <3>1. n = <<>> <=> n2 = <<>>
      BY <1>1
    <3>2. NodeOf(n2, u) = NodeOf(n, u)
      BY <1>5
    <3>3. NodeOf(n, u) # 0 => NodeOf(n, u) \in 1 .. N
      BY <1>1, <2>3
    <3> HIDE DEF S
    <3>4. QED
      BY <3>1, <3>2, <3>3, Zenon DEF Below, Root
  <2>5. QED
    BY <1>3, <2>1, <2>2, <2>3, <2>4
<1> HIDE DEF S
<1>6. \A w \in Seq(Letters) : w \in S
  BY <1>4, <1>5, ByLetters
<1>7. QED
  BY <1>6 DEF S

(* The end of a word changes what is found for this word only.             *)
LEMMA WordEndsPuts ==
  ASSUME NEW t, TrieOk(t), NEW textId \in Nat, NEW file \in Nat, t.resultFlag,
         NEW u \in Seq(Letters), NodeOf(t.nodes, u) = t.curTrieNode
  PROVE  LET n2 == WordEnds(t, textId, file).nodes
         IN  \A w \in Seq(Letters) :
               searchWordInTrie(n2, w) =
                 IF w = u THEN Post(searchWordInTrie(t.nodes, u), textId, file)
                          ELSE searchWordInTrie(t.nodes, w)
<1> DEFINE n == t.nodes
           q == t.curTrieNode
           node == [n[q] EXCEPT !.index = Post(@, textId, file)]
           n2 == [n EXCEPT ![q] = node]
           t2 == WordEnds(t, textId, file)
<1>1. n \in Seq(Node) /\ n # <<>> /\ q \in 1 .. Len(n) /\ ShapeOf(n) /\ Forward(n)
  BY DEF TrieOk, TrieType, ShapeOf
<1>2. n[q] \in Node
  <2> HIDE DEF n, q
  <2>1. QED
    BY <1>1
<1>3. /\ node.cont = n[q].cont /\ node.next = n[q].next /\ node.letter = n[q].letter
      /\ node.index = Post(n[q].index, textId, file)
  BY <1>2 DEF Node
<1>4. t2 = [t EXCEPT !.nodes = n2, !.resultFlag = FALSE, !.newContFlag = 0,
                     !.curTrieNode = 1, !.words = t.words + 1]
  BY DEF WordEnds
<1> HIDE DEF node, t2
<1>5. TrieOk(t2)
  BY WordEndsKeeps DEF t2
<1>6. /\ Len(n2) = Len(n)
      /\ \A k \in 1 .. Len(n) : /\ n2[k].cont = n[k].cont /\ n2[k].next = n[k].next
                                /\ n2[k].letter = n[k].letter
                                /\ n2[k].index = IF k = q THEN Post(n[q].index, textId, file) ELSE n[k].index
  BY <1>1, <1>3
<1> HIDE DEF n2
<1>7. t2.nodes = n2
  <2>1. t \in TrieType
    BY DEF TrieOk
  <2>2. QED
    BY <1>4, <2>1 DEF TrieType
<1>8. ShapeOf(n2)
  BY <1>5, <1>7 DEF TrieOk
<1> HIDE DEF n, q
<1>9. \A w \in Seq(Letters) : NodeOf(n2, w) = NodeOf(n, w)
  BY <1>1, <1>6, <1>8, SameWalks
<1>10. NodeOf(n, u) = q /\ q # 0
  BY <1>1 DEF n, q
<1>11. ASSUME NEW w \in Seq(Letters)
       PROVE  searchWordInTrie(n2, w) =
                IF w = u THEN Post(searchWordInTrie(n, u), textId, file) ELSE searchWordInTrie(n, w)
  <2>1. NodeOf(n, w) = q <=> w = u
    BY <1>1, <1>10, OneWord
  <2>2. NodeOf(n, w) \in 0 .. Len(n) /\ Len(n) \in Nat
    BY <1>1, NodeOfIs
  <2>3. CASE w = u
    BY <1>1, <1>6, <1>9, <1>10, <2>3 DEF searchWordInTrie
  <2>4. CASE w # u
    BY <1>6, <1>9, <2>1, <2>2, <2>4 DEF searchWordInTrie
  <2>5. QED
    BY <2>3, <2>4
<1>12. QED
  BY <1>7, <1>11 DEF n, t2

(* The letter of the root stays.                                           *)
LEMMA RootStays ==
  ASSUME NEW t, TrieOk(t), t.nodes # <<>>, NEW c \in Chars, NEW textId \in Nat, NEW file \in Nat
  PROVE  /\ Parse(t, c, textId, file).nodes[1].letter = t.nodes[1].letter
         /\ WordEnds(t, textId, file).nodes[1].letter = t.nodes[1].letter
<1> DEFINE n == t.nodes
<1>1. /\ t \in TrieType /\ n \in Seq(Node) /\ t.curTrieNode \in 1 .. Len(n) /\ 1 \in 1 .. Len(n)
      /\ Forward(n)
  BY DEF TrieOk, TrieType, ShapeOf
<1>2. WordEnds(t, textId, file).nodes[1].letter = t.nodes[1].letter
  <2>1. CASE t.resultFlag
    <3> DEFINE q == t.curTrieNode
               node == [n[q] EXCEPT !.index = Post(@, textId, file)]
               n2 == [n EXCEPT ![q] = node]
    <3>1. WordEnds(t, textId, file) =
            [t EXCEPT !.nodes = n2, !.resultFlag = FALSE, !.newContFlag = 0,
                      !.curTrieNode = 1, !.words = t.words + 1]
      BY <2>1 DEF WordEnds
    <3>2. n[q] \in Node
      <4> HIDE DEF n, q
      <4>1. QED
        BY <1>1 DEF q
    <3>3. node.letter = n[q].letter
      BY <3>2 DEF Node
    <3> HIDE DEF node
    <3>4. n2[1].letter = n[1].letter
      BY <1>1, <3>3
    <3> HIDE DEF n2
    <3>5. WordEnds(t, textId, file).nodes = n2
      BY <1>1, <3>1 DEF TrieType
    <3>6. QED
      BY <3>4, <3>5
  <2>2. CASE ~t.resultFlag
    BY <2>2 DEF WordEnds
  <2>3. QED
    BY <2>1, <2>2
<1>3. CASE c = " "
  BY <1>2, <1>3 DEF Parse
<1>4. CASE c # " " /\ ~t.counter
  <2>1. Parse(t, c, textId, file) = [FirstLetter(t, c) EXCEPT !.counter = TRUE, !.resultFlag = TRUE]
    BY <1>4 DEF Parse
  <2>2. FirstLetter(t, c) = [t EXCEPT !.nodes = n, !.curTrieNode = 1, !.newContFlag = 1]
    BY DEF FirstLetter
  <2>3. Parse(t, c, textId, file).nodes = n
    BY <1>1, <2>1, <2>2 DEF TrieType
  <2>4. QED
    BY <1>2, <2>3
<1>5. CASE c # " " /\ t.counter
  <2> DEFINE at    == IF t.newContFlag = 3 THEN n[t.curTrieNode].cont ELSE t.curTrieNode
             last  == Chain(n, at)[Len(Chain(n, at))]
             hit   == Lookup(n, at, c)
             u     == LaterLetter(t, c)
  <2>1. at \in 1 .. Len(n) /\ c \in Letters
    <3>1. t.newContFlag = 3 => n[t.curTrieNode].cont \in t.curTrieNode + 1 .. Len(n)
      BY <1>1 DEF TrieOk, Forward
    <3>2. at \in 1 .. Len(n)
      BY <1>1, <3>1
    <3>3. c \in Letters
      BY <1>5 DEF Chars
    <3>4. QED
      BY <3>2, <3>3
  <2>2. last \in 1 .. Len(n)
    <3> HIDE DEF at
    <3>1. QED
      BY <1>1, <2>1, LastOnChain
  <2>3. u = IF t.newContFlag = 1 THEN Extend(t, c, at, "cont")
            ELSE IF hit = 0 THEN Extend(t, c, last, "next")
            ELSE [t EXCEPT !.curTrieNode = hit, !.newContFlag = IF n[hit].cont = 0 THEN 1 ELSE 3]
    BY DEF LaterLetter
  <2> HIDE DEF at, last, hit, u
  <2>4. ASSUME NEW b \in 1 .. Len(n), NEW link \in {"cont", "next"}
        PROVE  Extend(t, c, b, link).nodes[1].letter = n[1].letter
    <3> DEFINE n2 == Append([n EXCEPT ![b][link] = Len(n) + 1], newTrieNode(c))
    <3>1. /\ \A k \in 1 .. Len(n) : k # b => n2[k] = n[k]
          /\ n2[b].letter = n[b].letter
      BY <1>1, <2>1, Extended, SMTT(30)
    <3>2. Extend(t, c, b, link) = [t EXCEPT !.nodes = n2, !.curTrieNode = Len(n) + 1, !.newContFlag = 1]
      BY DEF Extend
    <3> HIDE DEF n2
    <3>3. Extend(t, c, b, link).nodes = n2
      BY <1>1, <3>2 DEF TrieType
    <3>4. QED
      BY <1>1, <3>1, <3>3
  <2>5. [t EXCEPT !.curTrieNode = hit, !.newContFlag = IF n[hit].cont = 0 THEN 1 ELSE 3].nodes = n
    BY <1>1 DEF TrieType
  <2>6. u.nodes[1].letter = n[1].letter
    BY <2>1, <2>2, <2>3, <2>4, <2>5
  <2>7. Parse(t, c, textId, file) = [u EXCEPT !.resultFlag = TRUE]
    BY <1>5 DEF Parse, u
  <2>8. Parse(t, c, textId, file).nodes = u.nodes
    BY <2>7
  <2>9. QED
    BY <1>2, <2>6, <2>8
<1>6. t.counter \in BOOLEAN
  BY <1>1 DEF TrieType
<1>7. QED
  BY <1>2, <1>3, <1>4, <1>5, <1>6

------------------------------------------------------------------------------
(* Where words are in a line.                                              *)

Blank(line, k) == line[k] = " "

\* A word of letters stands between s and e, and may go on there.
Between(line, s, e) ==
  /\ s \in 1 .. Len(line) /\ s < e
  /\ s = 1 \/ Blank(line, s - 1)
  /\ \A k \in s .. e - 1 : ~Blank(line, k)

\* A word cannot go on there.
Stops(line, e) == e = Len(line) + 1 \/ Blank(line, e)

\* Its letters.
Piece(line, s, e) == SubSeq(line, s, e - 1)

(* A character that is not a blank is a letter.                            *)
LEMMA LetterIs ==
  ASSUME NEW line \in Seq(Chars), NEW k \in 1 .. Len(line)
  PROVE  line[k] \in Chars /\ (Blank(line, k) <=> line[k] \notin Letters)
<1>1. line[k] \in Chars
  OBVIOUS
<1>2. line[k] \in Letters \/ line[k] = " "
  BY <1>1 DEF Chars
<1>3. QED
  BY <1>1, <1>2, IndexAssumption, Zenon DEF Blank

(* The letters of a word that goes on, one by one.                         *)
LEMMA PieceIs ==
  ASSUME NEW line \in Seq(Chars), NEW s \in Nat, NEW e \in 1 .. Len(line) + 1, Between(line, s, e)
  PROVE  /\ s \in 1 .. Len(line) /\ s < e
         /\ Piece(line, s, e) \in Seq(Letters)
         /\ Len(Piece(line, s, e)) = e - s
         /\ \A k \in 1 .. e - s : Piece(line, s, e)[k] = line[s + k - 1]
<1>1. s \in 1 .. Len(line) /\ s < e /\ Len(line) \in Nat
  BY DEF Between
<1>2. \A k \in s .. e - 1 : line[k] \in Letters
  <2>1. ASSUME NEW k \in s .. e - 1 PROVE line[k] \in Letters
    <3>1. k \in 1 .. Len(line) /\ ~Blank(line, k)
      BY <1>1 DEF Between
    <3>2. QED
      BY <3>1, LetterIs
  <2>2. QED
    BY <2>1
<1>3. s \in Int /\ e - 1 \in Int /\ s <= e - 1 /\ (e - 1) - s + 1 = e - s
  BY <1>1
<1>4. QED
  BY <1>1, <1>2, <1>3, SubSeqProperties DEF Piece

(* Where a word is, with these.                                            *)
LEMMA OccurrencesAre ==
  ASSUME NEW line \in Seq(Chars), NEW w \in Seq(Letters)
  PROVE  /\ Occurrences(w, line) =
              {k \in 1 .. Len(line) - Len(w) + 1 :
                 /\ Piece(line, k, k + Len(w)) = w
                 /\ k = 1 \/ Blank(line, k - 1)
                 /\ k + Len(w) > Len(line) \/ Blank(line, k + Len(w))}
         /\ Occurrences(w, line) \subseteq Nat
<1>1. Occurrences(w, line) =
        {k \in 1 .. Len(line) - Len(w) + 1 :
           /\ Piece(line, k, k + Len(w)) = w
           /\ k = 1 \/ Blank(line, k - 1)
           /\ k + Len(w) > Len(line) \/ Blank(line, k + Len(w))}
  <2> DEFINE P(k) == /\ SubSeq(line, k, k + Len(w) - 1) = w
                     /\ k = 1 \/ line[k - 1] = " "
                     /\ k + Len(w) > Len(line) \/ line[k + Len(w)] = " "
             Q(k) == /\ Piece(line, k, k + Len(w)) = w
                     /\ k = 1 \/ Blank(line, k - 1)
                     /\ k + Len(w) > Len(line) \/ Blank(line, k + Len(w))
  <2>1. \A k \in Int : P(k) <=> Q(k)
    <3>1. \A k \in Int : Piece(line, k, k + Len(w)) = SubSeq(line, k, k + Len(w) - 1)
      <4>1. \A k \in Int : k + Len(w) - 1 = (k + Len(w)) - 1
        OBVIOUS
      <4>2. QED
        BY <4>1 DEF Piece
    <3>2. \A k : Blank(line, k) <=> line[k] = " "
      BY Zenon DEF Blank
    <3>3. QED
      BY <3>1, <3>2, Zenon
  <2>2. Occurrences(w, line) = {k \in 1 .. Len(line) - Len(w) + 1 : P(k)}
    BY Zenon DEF Occurrences
  <2> HIDE DEF P, Q
  <2>3. Occurrences(w, line) = {k \in 1 .. Len(line) - Len(w) + 1 : Q(k)}
    BY <2>1, <2>2
  <2>4. QED
    BY <2>3 DEF Q
<1>2. QED
  BY <1>1

(* An occurrence of a word, character by character.                        *)
LEMMA OccurrenceIs ==
  ASSUME NEW line \in Seq(Chars), NEW w \in Seq(Letters), w # <<>>, NEW s \in Nat
  PROVE  s \in Occurrences(w, line) <=>
           /\ Between(line, s, s + Len(w)) /\ s + Len(w) <= Len(line) + 1
           /\ Stops(line, s + Len(w)) /\ w = Piece(line, s, s + Len(w))
<1> DEFINE e == s + Len(w)
<1>1. Len(line) \in Nat /\ Len(w) \in Nat /\ Len(w) > 0 /\ e \in Nat
  BY EmptySeq
<1>2. s \in Occurrences(w, line) <=>
        /\ s \in 1 .. Len(line) - Len(w) + 1
        /\ Piece(line, s, e) = w
        /\ s = 1 \/ Blank(line, s - 1)
        /\ e > Len(line) \/ Blank(line, e)
  BY OccurrencesAre
<1>3. ASSUME s \in Occurrences(w, line)
      PROVE  Between(line, s, e) /\ e <= Len(line) + 1 /\ Stops(line, e) /\ w = Piece(line, s, e)
  <2>1. s \in 1 .. Len(line) - Len(w) + 1
    BY <1>2, <1>3
  <2>2. s \in 1 .. Len(line) /\ s < e /\ e <= Len(line) + 1 /\ s \in Int /\ e - 1 \in Int
    BY <1>1, <2>1
  <2>3. ASSUME NEW k \in s .. e - 1 PROVE ~Blank(line, k)
    <3> DEFINE m == k - s + 1
    <3>1. /\ m \in 1 .. (e - 1) - s + 1 /\ s + m - 1 = k /\ m \in 1 .. Len(w) /\ k \in 1 .. Len(line)
      BY <1>1, <2>2
    <3>2. \A l \in s .. e - 1 : line[l] \in Chars
      BY <1>1, <2>2
    <3>3. \A l \in 1 .. (e - 1) - s + 1 : SubSeq(line, s, e - 1)[l] = line[s + l - 1]
      BY <2>2, <3>2, SubSeqProperties
    <3>4. w = SubSeq(line, s, e - 1)
      BY <1>2, <1>3 DEF Piece
    <3>5. w[m] = line[k]
      BY <3>1, <3>3, <3>4, Zenon
    <3>6. w[m] \in Letters
      BY <3>1
    <3>7. QED
      BY <3>1, <3>5, <3>6, LetterIs
  <2>4. Stops(line, e)
    BY <1>1, <1>2, <1>3, <2>2 DEF Stops
  <2>5. QED
    BY <1>2, <1>3, <2>2, <2>3, <2>4 DEF Between
<1>4. ASSUME Between(line, s, e), e <= Len(line) + 1, Stops(line, e), w = Piece(line, s, e)
      PROVE  s \in Occurrences(w, line)
  <2>1. s \in 1 .. Len(line) - Len(w) + 1 /\ (s = 1 \/ Blank(line, s - 1))
    BY <1>1, <1>4 DEF Between
  <2>2. e > Len(line) \/ Blank(line, e)
    BY <1>1, <1>4 DEF Stops
  <2>3. QED
    BY <1>2, <1>4, <2>1, <2>2
<1>5. QED
  BY <1>3, <1>4

\* The occurrences of a word that end before e.
EndsAt(w, line, e) == {k \in Occurrences(w, line) : k + Len(w) = e}

(* No word ends behind a blank or within letters, and behind letters just  *)
(* the one that they are.                                                  *)
LEMMA EndsAre ==
  ASSUME NEW line \in Seq(Chars), NEW w \in Seq(Letters), w # <<>>, NEW e \in 1 .. Len(line) + 1
  PROVE  /\ e = 1 \/ Blank(line, e - 1) => EndsAt(w, line, e) = {}
         /\ ~Stops(line, e) => EndsAt(w, line, e) = {}
         /\ \A s \in Nat : Between(line, s, e) /\ Stops(line, e) =>
              EndsAt(w, line, e) = IF w = Piece(line, s, e) THEN {s} ELSE {}
<1>1. Len(line) \in Nat /\ Len(w) \in Nat /\ Len(w) > 0
  BY EmptySeq
<1>2. ASSUME NEW k \in EndsAt(w, line, e)
      PROVE  /\ k \in 1 .. Len(line) /\ k < e
             /\ Between(line, k, e) /\ Stops(line, e) /\ w = Piece(line, k, e)
  <2>1. k \in Occurrences(w, line) /\ k + Len(w) = e
    BY DEF EndsAt
  <2>2. k \in Nat
    BY <2>1, OccurrencesAre
  <2>3. Between(line, k, e) /\ Stops(line, e) /\ w = Piece(line, k, e)
    BY <2>1, <2>2, OccurrenceIs
  <2>4. QED
    BY <2>3 DEF Between
<1>3. ASSUME e = 1 \/ Blank(line, e - 1), NEW k \in EndsAt(w, line, e) PROVE FALSE
  <2>1. k \in 1 .. Len(line) /\ k < e /\ Between(line, k, e)
    BY <1>2
  <2>2. e - 1 \in k .. e - 1 /\ e # 1
    BY <1>1, <2>1
  <2>3. QED
    BY <1>3, <2>1, <2>2 DEF Between
<1>4. ASSUME ~Stops(line, e), NEW k \in EndsAt(w, line, e) PROVE FALSE
  BY <1>2, <1>4
<1>5. ASSUME NEW s \in Nat, Between(line, s, e), Stops(line, e)
      PROVE  EndsAt(w, line, e) = IF w = Piece(line, s, e) THEN {s} ELSE {}
  <2>1. s \in 1 .. Len(line) /\ s < e
    BY <1>5, PieceIs
  <2>2. ASSUME NEW k \in EndsAt(w, line, e) PROVE k = s
    <3>1. k \in 1 .. Len(line) /\ k < e /\ Between(line, k, e)
      BY <1>2
    <3>2. ~(k < s)
      <4>1. SUFFICES ASSUME k < s PROVE FALSE
        OBVIOUS
      <4>2. Blank(line, s - 1)
        BY <1>5, <2>1, <3>1, <4>1 DEF Between
      <4>3. s - 1 \in k .. e - 1
        BY <2>1, <3>1, <4>1
      <4>4. QED
        BY <3>1, <4>2, <4>3 DEF Between
    <3>3. ~(s < k)
      <4>1. SUFFICES ASSUME s < k PROVE FALSE
        OBVIOUS
      <4>2. Blank(line, k - 1)
        BY <2>1, <3>1, <4>1 DEF Between
      <4>3. k - 1 \in s .. e - 1
        BY <2>1, <3>1, <4>1, <4>2
      <4>4. QED
        BY <1>5, <4>2, <4>3 DEF Between
    <3>4. QED
      BY <2>1, <3>1, <3>2, <3>3
  <2>3. ASSUME w = Piece(line, s, e) PROVE s \in EndsAt(w, line, e)
    <3>1. Len(w) = e - s
      BY <1>5, <2>3, PieceIs
    <3>2. s + Len(w) = e
      BY <2>1, <3>1
    <3>3. e <= Len(line) + 1
      BY <1>1
    <3>4. s \in Occurrences(w, line)
      BY <1>5, <2>3, <3>2, <3>3, OccurrenceIs
    <3>5. QED
      BY <3>2, <3>4 DEF EndsAt
  <2>4. \A k \in EndsAt(w, line, e) : w = Piece(line, s, e)
    BY <1>2, <2>2
  <2>5. QED
    BY <2>2, <2>3, <2>4
<1>6. QED
  BY <1>3, <1>4, <1>5

(* A word that begins, and one that goes on.                               *)
LEMMA PieceGrows ==
  ASSUME NEW line \in Seq(Chars), NEW e \in 1 .. Len(line), ~Blank(line, e)
  PROVE  /\ e = 1 \/ Blank(line, e - 1) => Between(line, e, e + 1) /\ Piece(line, e, e + 1) = Append(<<>>, line[e])
         /\ \A s \in Nat : Between(line, s, e) =>
              /\ Between(line, s, e + 1)
              /\ Piece(line, s, e) # <<>>
              /\ Piece(line, s, e + 1) = Append(Piece(line, s, e), line[e])
<1>1. Len(line) \in Nat /\ e + 1 \in 1 .. Len(line) + 1 /\ e \in Nat /\ e \in 1 .. Len(line) + 1
  OBVIOUS
<1>2. ASSUME e = 1 \/ Blank(line, e - 1)
      PROVE  Between(line, e, e + 1) /\ Piece(line, e, e + 1) = Append(<<>>, line[e])
  <2>1. \A k \in e .. (e + 1) - 1 : k = e
    OBVIOUS
  <2>2. e < e + 1
    OBVIOUS
  <2>3. Between(line, e, e + 1)
    BY <1>2, <2>1, <2>2 DEF Between
  <2>4. /\ Piece(line, e, e + 1) \in Seq(Letters)
        /\ Len(Piece(line, e, e + 1)) = (e + 1) - e
        /\ \A k \in 1 .. (e + 1) - e : Piece(line, e, e + 1)[k] = line[e + k - 1]
    BY <1>1, <2>3, PieceIs
  <2>5. /\ Len(Piece(line, e, e + 1)) = 1 /\ Piece(line, e, e + 1)[1] = line[e]
    <3>1. (e + 1) - e = 1 /\ 1 \in 1 .. (e + 1) - e /\ e + 1 - 1 = e
      OBVIOUS
    <3>2. QED
      BY <2>4, <3>1
  <2>6. Piece(line, e, e + 1) = Append(<<>>, line[e])
    <3>1. line[e] \in Letters /\ <<>> \in Seq(Letters)
      BY LetterIs
    <3>2. /\ Append(<<>>, line[e]) \in Seq(Letters) /\ Len(Append(<<>>, line[e])) = 1
          /\ Append(<<>>, line[e])[1] = line[e]
      BY <3>1
    <3> DEFINE u == Piece(line, e, e + 1)
               v == Append(<<>>, line[e])
    <3>3. u \in Seq(Letters) /\ v \in Seq(Letters) /\ Len(u) = 1 /\ Len(v) = 1 /\ u[1] = v[1]
      BY <2>4, <2>5, <3>2
    <3> HIDE DEF u, v
    <3>4. u = v
      BY <3>3, SeqEqual
    <3>5. QED
      BY <3>4 DEF u, v
  <2>7. QED
    BY <2>3, <2>6
<1>3. ASSUME NEW s \in Nat, Between(line, s, e)
      PROVE  /\ Between(line, s, e + 1)
             /\ Piece(line, s, e) # <<>>
             /\ Piece(line, s, e + 1) = Append(Piece(line, s, e), line[e])
  <2> DEFINE u == Piece(line, s, e)
             v == Piece(line, s, e + 1)
             c == line[e]
  <2>1. s \in 1 .. Len(line) /\ s < e /\ s < e + 1
    BY <1>3 DEF Between
  <2>2. \A k \in s .. (e + 1) - 1 : k = e \/ k \in s .. e - 1
    BY <2>1
  <2>3. Between(line, s, e + 1)
    BY <1>3, <2>1, <2>2 DEF Between
  <2>4. /\ u \in Seq(Letters) /\ Len(u) = e - s /\ \A k \in 1 .. e - s : u[k] = line[s + k - 1]
        /\ v \in Seq(Letters) /\ Len(v) = (e + 1) - s /\ \A k \in 1 .. (e + 1) - s : v[k] = line[s + k - 1]
    BY <1>1, <1>3, <2>3, PieceIs
  <2>5. c \in Letters /\ c = line[e]
    BY LetterIs
  <2> HIDE DEF u, v, c
  <2>6. u # <<>>
    BY <2>1, <2>4
  <2>7. u \in Seq(Letters) /\ c \in Letters
    BY <2>4, <2>5
  <2>8. /\ Append(u, c) \in Seq(Letters) /\ Len(Append(u, c)) = Len(u) + 1
        /\ Append(u, c)[Len(u) + 1] = c /\ \A k \in 1 .. Len(u) : Append(u, c)[k] = u[k]
    BY <2>7, Longer
  <2>9. Len(v) = Len(Append(u, c)) /\ Len(v) = e - s + 1 /\ Len(v) \in Nat
    BY <2>1, <2>4, <2>8
  <2>10. ASSUME NEW k \in 1 .. Len(v) PROVE v[k] = Append(u, c)[k]
    <3>1. CASE k = Len(v)
      <4>1. k \in 1 .. (e + 1) - s /\ s + k - 1 = e /\ k = Len(u) + 1
        BY <2>1, <2>4, <2>9, <3>1
      <4>2. v[k] = line[e] /\ Append(u, c)[k] = c
        BY <2>4, <2>8, <4>1, Zenon
      <4>3. QED
        BY <2>5, <4>2
    <3>2. CASE k # Len(v)
      <4>1. k \in 1 .. (e + 1) - s /\ k \in 1 .. e - s /\ k \in 1 .. Len(u)
        BY <2>1, <2>4, <2>9, <3>2
      <4>2. v[k] = line[s + k - 1] /\ Append(u, c)[k] = u[k] /\ u[k] = line[s + k - 1]
        BY <2>4, <2>8, <4>1, Zenon
      <4>3. QED
        BY <4>2
    <3>3. QED
      BY <3>1, <3>2
  <2>11. v = Append(u, c)
    BY <2>4, <2>8, <2>9, <2>10, SeqEqual
  <2>12. QED
    BY <2>3, <2>6, <2>11 DEF u, v, c
<1>4. QED
  BY <1>2, <1>3

------------------------------------------------------------------------------
(* Posting lists.                                                          *)

LineOf(posting) == [file |-> posting.file, textId |-> posting.textId]

\* The lines of a posting list are in their order, none of them twice.
Ordered(post) ==
  \A a, b \in 1 .. Len(post) : a < b =>
    \/ post[a].file < post[b].file
    \/ post[a].file = post[b].file /\ post[a].textId < post[b].textId

Line == [file : Nat, textId : Nat]

\* A posting list names the lines whose count in met is not 0, each with it,
\* in their order.
Posted(post, met) ==
  /\ \A a \in 1 .. Len(post) :
       LineOf(post[a]) \in DOMAIN met /\ post[a].wordFrq = met[LineOf(post[a])] /\ post[a].wordFrq # 0
  /\ \A p \in DOMAIN met : met[p] # 0 => \E a \in 1 .. Len(post) : LineOf(post[a]) = p
  /\ Ordered(post)

\* No posting of a line behind l of file f.
UpTo(met, f, l) ==
  \A p \in DOMAIN met : met[p] # 0 => p.file < f \/ (p.file = f /\ p.textId <= l)

\* One more is met in line l of file f.
OneMore(met, met2, f, l) ==
  LET p0 == [file |-> f, textId |-> l]
  IN  /\ p0 \in DOMAIN met /\ DOMAIN met2 = DOMAIN met
      /\ met2[p0] = met[p0] + 1
      /\ \A p \in DOMAIN met : p # p0 => met2[p] = met[p]

(* Post counts it.                                                         *)
LEMMA PostKeeps ==
  ASSUME NEW post \in Seq(Posting), NEW met, NEW met2, NEW f \in Nat, NEW l \in Nat,
         DOMAIN met \subseteq Line, \A p \in DOMAIN met : met[p] \in Nat,
         Posted(post, met), UpTo(met, f, l), OneMore(met, met2, f, l)
  PROVE  Posted(Post(post, l, f), met2)
<1> DEFINE p0 == [file |-> f, textId |-> l]
           same == {k \in 1 .. Len(post) : post[k].textId = l /\ post[k].file = f}
           post2 == Post(post, l, f)
<1>1. /\ Len(post) \in Nat
      /\ \A a \in 1 .. Len(post) : post[a] \in Posting
      /\ \A a \in 1 .. Len(post) : post[a].file \in Nat /\ post[a].textId \in Nat /\ post[a].wordFrq \in Nat
  <2>1. \A a \in 1 .. Len(post) : post[a] \in Posting
    OBVIOUS
  <2>2. QED
    BY <2>1, SMTT(30) DEF Posting
<1>2. /\ \A a \in 1 .. Len(post) :
           LineOf(post[a]) \in DOMAIN met /\ post[a].wordFrq = met[LineOf(post[a])] /\ post[a].wordFrq # 0
      /\ \A p \in DOMAIN met : met[p] # 0 => \E a \in 1 .. Len(post) : LineOf(post[a]) = p
      /\ Ordered(post)
  BY Zenon DEF Posted
<1>3. \A a \in 1 .. Len(post) : a \in same <=> LineOf(post[a]) = p0
  BY DEF LineOf
<1>4. /\ p0 \in DOMAIN met /\ DOMAIN met2 = DOMAIN met
      /\ met2[p0] = met[p0] + 1 /\ met[p0] \in Nat
      /\ \A p \in DOMAIN met : p # p0 => met2[p] = met[p]
  BY DEF OneMore
<1>5. p0.file = f /\ p0.textId = l
  OBVIOUS
<1>6. ASSUME same = {} PROVE Posted(post2, met2)
  <2> DEFINE x == newPlistNode(l, f)
  <2>1. post2 = Append(post, x)
    BY <1>6 DEF Post
  <2>2. /\ x \in Posting /\ x.file = f /\ x.textId = l /\ x.wordFrq = 1
        /\ LineOf(x) = p0
    BY DEF newPlistNode, Posting, LineOf
  <2>3. \A a \in 1 .. Len(post) : LineOf(post[a]) # p0
    BY <1>3, <1>6
  <2>4. met[p0] = 0
    BY <1>2, <1>4, <2>3
  <2>5. met2[p0] = 1
    BY <1>4, <2>4
  <2> HIDE DEF x, post2, p0
  <2>6. /\ Len(post2) = Len(post) + 1 /\ post2[Len(post) + 1] = x
        /\ \A a \in 1 .. Len(post) : post2[a] = post[a]
    BY <2>1, <2>2
  <2>7. \A a \in 1 .. Len(post2) : a \in 1 .. Len(post) \/ a = Len(post) + 1
    BY <1>1, <2>6
  <2>8. ASSUME NEW a \in 1 .. Len(post2)
        PROVE  LineOf(post2[a]) \in DOMAIN met2 /\ post2[a].wordFrq = met2[LineOf(post2[a])] /\ post2[a].wordFrq # 0
    <3>1. CASE a \in 1 .. Len(post)
      <4>1. post2[a] = post[a] /\ LineOf(post[a]) # p0
        BY <2>3, <2>6, <3>1
      <4>2. QED
        BY <1>2, <1>4, <3>1, <4>1
    <3>2. CASE a = Len(post) + 1
      BY <1>4, <2>2, <2>5, <2>6, <3>2
    <3>3. QED
      BY <2>7, <3>1, <3>2
  <2>9. ASSUME NEW p \in DOMAIN met2, met2[p] # 0 PROVE \E a \in 1 .. Len(post2) : LineOf(post2[a]) = p
    <3>1. CASE p = p0
      <4>1. Len(post) + 1 \in 1 .. Len(post2)
        BY <1>1, <2>6
      <4>2. QED
        BY <2>2, <2>6, <3>1, <4>1
    <3>2. CASE p # p0
      <4>1. PICK a \in 1 .. Len(post) : LineOf(post[a]) = p
        BY <1>2, <1>4, <2>9, <3>2
      <4>2. a \in 1 .. Len(post2)
        BY <1>1, <2>6
      <4>3. QED
        BY <2>6, <4>1, <4>2
    <3>3. QED
      BY <3>1, <3>2
  <2>10. ASSUME NEW a \in 1 .. Len(post2), NEW b \in 1 .. Len(post2), a < b
         PROVE  \/ post2[a].file < post2[b].file
                \/ post2[a].file = post2[b].file /\ post2[a].textId < post2[b].textId
    <3>1. a \in 1 .. Len(post)
      BY <1>1, <2>6, <2>10
    <3>2. post2[a] = post[a]
      BY <2>6, <3>1
    <3>3. CASE b \in 1 .. Len(post)
      <4>1. post2[b] = post[b]
        BY <2>6, <3>3
      <4>2. QED
        BY <1>2, <2>10, <3>1, <3>2, <3>3, <4>1 DEF Ordered
    <3>4. CASE b = Len(post) + 1
      <4>1. post2[b].file = f /\ post2[b].textId = l
        BY <2>2, <2>6, <3>4
      <4> DEFINE p == LineOf(post[a])
      <4>2. p.file = post[a].file /\ p.textId = post[a].textId /\ p # p0
        BY <2>3, <3>1 DEF LineOf
      <4>3. p \in DOMAIN met /\ met[p] # 0
        BY <1>2, <3>1
      <4>4. p.file < f \/ (p.file = f /\ p.textId <= l)
        BY <4>3 DEF UpTo
      <4>5. ~(p.file = f /\ p.textId = l)
        BY <4>2 DEF LineOf, p0
      <4>6. QED
        BY <1>1, <3>1, <3>2, <4>1, <4>2, <4>4, <4>5
    <3>5. QED
      BY <2>7, <3>3, <3>4
  <2>11. QED
    BY <2>8, <2>9, <2>10, Zenon DEF Posted, Ordered
<1>7. ASSUME same # {} PROVE Posted(post2, met2)
  <2> DEFINE z == Min(same)
             x == [post[z] EXCEPT !.wordFrq = @ + 1]
  <2>1. z \in same
    <3>1. same \subseteq Nat
      BY <1>1
    <3>2. \E m \in same : \A k \in same : m <= k
      <4> HIDE DEF same
      <4>1. QED
        BY <1>7, <3>1, LeastOf
    <3>3. QED
      BY <3>2 DEF Min
  <2>2. z \in 1 .. Len(post) /\ LineOf(post[z]) = p0
    BY <1>3, <2>1
  <2>3. post2 = [post EXCEPT ![z].wordFrq = @ + 1]
    BY <1>7 DEF Post
  <2> HIDE DEF z, same
  <2>4. post2 = [post EXCEPT ![z] = x]
    BY <2>3
  <2>5. /\ x.file = post[z].file /\ x.textId = post[z].textId /\ x.wordFrq = post[z].wordFrq + 1
    BY <1>1, <2>2 DEF Posting
  <2>6. post[z].wordFrq = met[p0]
    BY <1>2, <2>2
  <2>7. \A b \in 1 .. Len(post) : LineOf(post[b]) = p0 => b = z
    <3>1. SUFFICES ASSUME NEW b \in 1 .. Len(post), LineOf(post[b]) = p0, b # z PROVE FALSE
      OBVIOUS
    <3>2. post[b].file = f /\ post[b].textId = l /\ post[z].file = f /\ post[z].textId = l
      BY <2>2, <3>1 DEF LineOf
    <3>3. b < z \/ z < b
      BY <2>2, <3>1
    <3>4. \A c, d \in 1 .. Len(post) : c < d =>
            post[c].file < post[d].file \/ (post[c].file = post[d].file /\ post[c].textId < post[d].textId)
      BY <1>2 DEF Ordered
    <3>5. b < z => post[b].file < post[z].file \/ (post[b].file = post[z].file /\ post[b].textId < post[z].textId)
      BY <2>2, <3>4, Zenon
    <3>6. z < b => post[z].file < post[b].file \/ (post[z].file = post[b].file /\ post[z].textId < post[b].textId)
      BY <2>2, <3>4, Zenon
    <3>7. QED
      BY <3>2, <3>3, <3>5, <3>6
  <2> HIDE DEF x, post2, p0
  <2>8. /\ Len(post2) = Len(post) /\ post2[z] = x
        /\ \A b \in 1 .. Len(post) : b # z => post2[b] = post[b]
    BY <1>1, <2>2, <2>4
  <2>9. \A b \in 1 .. Len(post) : post2[b].file = post[b].file /\ post2[b].textId = post[b].textId
    BY <2>5, <2>8
  <2>10. \A b \in 1 .. Len(post) : LineOf(post2[b]) = LineOf(post[b])
    BY <2>9 DEF LineOf
  <2>11. ASSUME NEW a \in 1 .. Len(post2)
         PROVE  LineOf(post2[a]) \in DOMAIN met2 /\ post2[a].wordFrq = met2[LineOf(post2[a])] /\ post2[a].wordFrq # 0
    <3>1. CASE a = z
      BY <1>4, <2>2, <2>5, <2>6, <2>8, <2>10, <3>1
    <3>2. CASE a # z
      <4>1. post2[a] = post[a] /\ LineOf(post[a]) # p0
        BY <2>7, <2>8, <3>2
      <4>2. QED
        BY <1>2, <1>4, <2>8, <4>1
    <3>3. QED
      BY <3>1, <3>2
  <2>12. ASSUME NEW p \in DOMAIN met2, met2[p] # 0 PROVE \E a \in 1 .. Len(post2) : LineOf(post2[a]) = p
    <3>1. CASE p = p0
      BY <2>2, <2>8, <2>10, <3>1
    <3>2. CASE p # p0
      BY <1>2, <1>4, <2>8, <2>10, <2>12, <3>2
    <3>3. QED
      BY <3>1, <3>2
  <2>13. Ordered(post2)
    <3> SUFFICES ASSUME NEW a \in 1 .. Len(post2), NEW b \in 1 .. Len(post2), a < b
                 PROVE  \/ post2[a].file < post2[b].file
                        \/ post2[a].file = post2[b].file /\ post2[a].textId < post2[b].textId
      BY Zenon DEF Ordered
    <3>1. a \in 1 .. Len(post) /\ b \in 1 .. Len(post)
      BY <2>8, Zenon
    <3>2. \/ post[a].file < post[b].file
          \/ post[a].file = post[b].file /\ post[a].textId < post[b].textId
      BY <1>2, <3>1, Zenon DEF Ordered
    <3>3. QED
      BY <2>9, <3>1, <3>2, Zenon
  <2>14. QED
    BY <2>11, <2>12, <2>13, Zenon DEF Posted
<1>8. QED
  BY <1>6, <1>7

------------------------------------------------------------------------------
(* How often a word was met.                                               *)

File == Seq(Seq(Chars))

\* Where w was met in line p, when the first n files are in and the next is
\* read up to character b of line a.
MetAt(all, n, a, b, w, p) ==
  {k \in Occurrences(w, all[p.file][p.textId]) :
     p.file <= n \/ p.textId < a \/ (p.textId = a /\ k + Len(w) < b)}

CountsAt(all, n, a, b, w) == [p \in PositionsIn(all) |-> Cardinality(MetAt(all, n, a, b, w, p))]

(* The lines of some files.                                                *)
LEMMA PositionsAre ==
  ASSUME NEW all \in Seq(File)
  PROVE  /\ \A p \in PositionsIn(all) :
              /\ p \in Line /\ p.file \in 1 .. Len(all) /\ p.textId \in 1 .. Len(all[p.file])
              /\ all[p.file][p.textId] \in Seq(Chars)
         /\ \A f \in 1 .. Len(all) : \A l \in 1 .. Len(all[f]) : [file |-> f, textId |-> l] \in PositionsIn(all)
<1>1. ASSUME NEW p \in PositionsIn(all)
      PROVE  /\ p \in Line /\ p.file \in 1 .. Len(all) /\ p.textId \in 1 .. Len(all[p.file])
             /\ all[p.file][p.textId] \in Seq(Chars)
  <2>1. PICK f \in 1 .. Len(all) : p \in {[file |-> f, textId |-> l] : l \in 1 .. Len(all[f])}
    BY DEF PositionsIn
  <2>2. PICK l \in 1 .. Len(all[f]) : p = [file |-> f, textId |-> l]
    BY <2>1
  <2>3. all[f] \in Seq(Seq(Chars)) /\ f \in Nat
    BY DEF File
  <2>4. l \in Nat /\ all[f][l] \in Seq(Chars)
    BY <2>3
  <2>5. p.file = f /\ p.textId = l
    BY <2>2
  <2>6. QED
    BY <2>2, <2>3, <2>4, <2>5 DEF Line
<1>2. ASSUME NEW f \in 1 .. Len(all), NEW l \in 1 .. Len(all[f])
      PROVE  [file |-> f, textId |-> l] \in PositionsIn(all)
  BY DEF PositionsIn
<1>3. QED
  BY <1>1, <1>2

(* The places of a word in a line are finitely many.                       *)
LEMMA OccurrencesFinite ==
  ASSUME NEW line \in Seq(Chars), NEW w \in Seq(Letters)
  PROVE  /\ IsFiniteSet(Occurrences(w, line))
         /\ \A T : T \subseteq Occurrences(w, line) => IsFiniteSet(T) /\ Cardinality(T) \in Nat
<1>1. Occurrences(w, line) \in SUBSET (1 .. Len(line) - Len(w) + 1)
  BY OccurrencesAre
<1>2. 1 \in Int /\ Len(line) - Len(w) + 1 \in Int
  OBVIOUS
<1>3. IsFiniteSet(Occurrences(w, line))
  BY <1>1, <1>2, FS_Interval, FS_Subset
<1>4. QED
  BY <1>3, FS_Subset, FS_CardinalityType

(* The counts are numbers, and there are none behind line a of the file    *)
(* that is read.                                                           *)
LEMMA CountsAre ==
  ASSUME NEW all \in Seq(File), NEW n \in Nat, n + 1 = Len(all), NEW a \in Nat, NEW b \in Nat,
         NEW w \in Seq(Letters)
  PROVE  /\ DOMAIN CountsAt(all, n, a, b, w) = PositionsIn(all)
         /\ DOMAIN CountsAt(all, n, a, b, w) \subseteq Line
         /\ \A p \in DOMAIN CountsAt(all, n, a, b, w) : CountsAt(all, n, a, b, w)[p] \in Nat
         /\ UpTo(CountsAt(all, n, a, b, w), n + 1, a)
<1> DEFINE met == CountsAt(all, n, a, b, w)
<1>1. /\ DOMAIN met = PositionsIn(all)
      /\ \A p \in PositionsIn(all) : met[p] = Cardinality(MetAt(all, n, a, b, w, p))
  BY DEF CountsAt
<1> HIDE DEF met
<1>2. ASSUME NEW p \in PositionsIn(all)
      PROVE  /\ p \in Line /\ met[p] \in Nat
             /\ met[p] # 0 => p.file < n + 1 \/ (p.file = n + 1 /\ p.textId <= a)
  <2>1. p \in Line /\ p.file \in 1 .. n + 1 /\ p.textId \in Nat /\ all[p.file][p.textId] \in Seq(Chars)
    BY PositionsAre
  <2> DEFINE at == MetAt(all, n, a, b, w, p)
  <2>2. at \subseteq Occurrences(w, all[p.file][p.textId])
    BY DEF MetAt
  <2>3. met[p] \in Nat
    BY <1>1, <2>1, <2>2, OccurrencesFinite, Zenon
  <2>4. ASSUME ~(p.file < n + 1), ~(p.file = n + 1 /\ p.textId <= a) PROVE met[p] = 0
    <3>1. ~(p.file <= n \/ p.textId < a \/ p.textId = a)
      BY <2>1, <2>4
    <3>2. at = {}
      BY <3>1 DEF MetAt
    <3>3. QED
      BY <1>1, <3>2, FS_EmptySet, Zenon
  <2>5. QED
    BY <2>1, <2>3, <2>4
<1>3. QED
  BY <1>1, <1>2 DEF met, UpTo

(* What one more character of line a adds are the words that end there.    *)
LEMMA CountsNext ==
  ASSUME NEW all \in Seq(File), NEW n \in Nat, n + 1 = Len(all), NEW a \in 1 .. Len(all[n + 1]), NEW e \in Nat,
         NEW w \in Seq(Letters)
  PROVE  /\ EndsAt(w, all[n + 1][a], e) = {} => CountsAt(all, n, a, e + 1, w) = CountsAt(all, n, a, e, w)
         /\ \A s : EndsAt(w, all[n + 1][a], e) = {s} =>
              OneMore(CountsAt(all, n, a, e, w), CountsAt(all, n, a, e + 1, w), n + 1, a)
<1> DEFINE met == CountsAt(all, n, a, e, w)
           met2 == CountsAt(all, n, a, e + 1, w)
           p0 == [file |-> n + 1, textId |-> a]
           line == all[n + 1][a]
           at(p) == MetAt(all, n, a, e, w, p)
           at2(p) == MetAt(all, n, a, e + 1, w, p)
<1>1. /\ DOMAIN met = PositionsIn(all) /\ DOMAIN met2 = PositionsIn(all)
      /\ \A p \in PositionsIn(all) : met[p] = Cardinality(at(p)) /\ met2[p] = Cardinality(at2(p))
  BY DEF CountsAt
<1>2. /\ n + 1 \in 1 .. Len(all) /\ a \in Nat /\ all[n + 1] \in Seq(Seq(Chars))
  BY DEF File
<1>3. p0 \in PositionsIn(all) /\ p0.file = n + 1 /\ p0.textId = a /\ line \in Seq(Chars)
  <2>1. p0 \in PositionsIn(all)
    BY <1>2, PositionsAre
  <2>2. QED
    BY <1>2, <2>1
<1>4. Occurrences(w, line) \subseteq Nat /\ Len(w) \in Nat
  BY <1>3, OccurrencesAre
<1>5. /\ at2(p0) = at(p0) \cup EndsAt(w, line, e)
      /\ at(p0) \cap EndsAt(w, line, e) = {}
      /\ at(p0) \subseteq Occurrences(w, line)
  <2>1. ~(p0.file <= n) /\ ~(p0.textId < a) /\ p0.textId = a /\ all[p0.file][p0.textId] = line
    BY <1>2, <1>3
  <2>2. /\ at(p0) = {k \in Occurrences(w, line) : k + Len(w) < e}
        /\ at2(p0) = {k \in Occurrences(w, line) : k + Len(w) < e + 1}
    BY <2>1 DEF MetAt
  <2> HIDE DEF at, at2, line
  <2>3. \A k \in Occurrences(w, line) : k + Len(w) < e + 1 <=> k + Len(w) < e \/ k + Len(w) = e
    BY <1>4
  <2>4. \A k \in Occurrences(w, line) : ~(k + Len(w) < e /\ k + Len(w) = e)
    BY <1>4
  <2>5. QED
    BY <2>2, <2>3, <2>4 DEF EndsAt
<1>6. ASSUME NEW p \in PositionsIn(all), p # p0 PROVE at2(p) = at(p)
  <2>1. p \in Line /\ p.file \in 1 .. n + 1 /\ p.textId \in Nat
    BY PositionsAre
  <2>2. ~(p.file = n + 1 /\ p.textId = a)
    BY <1>6, <2>1 DEF Line
  <2>3. p.file <= n \/ p.textId # a
    BY <2>1, <2>2
  <2>4. \A k : (p.file <= n \/ p.textId < a \/ (p.textId = a /\ k + Len(w) < e + 1)) <=>
               (p.file <= n \/ p.textId < a \/ (p.textId = a /\ k + Len(w) < e))
    BY <2>3, Zenon
  <2>5. QED
    BY <2>4, Zenon DEF MetAt
<1>7. ASSUME EndsAt(w, line, e) = {} PROVE met2 = met
  <2>1. \A p \in PositionsIn(all) : at2(p) = at(p)
    BY <1>5, <1>6, <1>7
  <2>2. QED
    BY <2>1, Zenon DEF CountsAt
<1>8. ASSUME NEW s, EndsAt(w, line, e) = {s} PROVE OneMore(met, met2, n + 1, a)
  <2>1. IsFiniteSet(at(p0)) /\ at2(p0) = at(p0) \cup {s} /\ s \notin at(p0)
    BY <1>3, <1>5, <1>8, OccurrencesFinite
  <2> HIDE DEF at, at2
  <2>2. Cardinality(at2(p0)) = Cardinality(at(p0)) + 1
    BY <2>1, FS_AddElement
  <2> HIDE DEF met, met2, p0
  <2>3. met2[p0] = met[p0] + 1
    BY <1>1, <1>3, <2>2
  <2>4. \A p \in DOMAIN met : p # p0 => met2[p] = met[p]
    BY <1>1, <1>6
  <2>5. QED
    BY <1>1, <1>3, <2>3, <2>4 DEF OneMore, p0
<1>9. QED
  BY <1>7, <1>8

(* Behind the last character of a line, and at the places where the file   *)
(* is begun and where it is in.                                            *)
LEMMA CountsAround ==
  ASSUME NEW all \in Seq(File), NEW n \in Nat, n + 1 = Len(all), NEW w \in Seq(Letters)
  PROVE  /\ \A a \in 1 .. Len(all[n + 1]) :
              CountsAt(all, n, a + 1, 1, w) = CountsAt(all, n, a, Len(all[n + 1][a]) + 2, w)
         /\ \A b \in Nat : CountsAt(all, n + 1, Len(all[n + 1]) + 1, b, w) = CountsAt(all, n, Len(all[n + 1]) + 1, b, w)
<1>1. n + 1 \in 1 .. Len(all) /\ all[n + 1] \in Seq(Seq(Chars)) /\ Len(all[n + 1]) \in Nat
  BY DEF File
<1>2. ASSUME NEW a \in 1 .. Len(all[n + 1])
      PROVE  CountsAt(all, n, a + 1, 1, w) = CountsAt(all, n, a, Len(all[n + 1][a]) + 2, w)
  <2> DEFINE line == all[n + 1][a]
             e == Len(line) + 2
  <2>1. ASSUME NEW p \in PositionsIn(all) PROVE MetAt(all, n, a + 1, 1, w, p) = MetAt(all, n, a, e, w, p)
    <3>1. /\ p \in Line /\ p.file \in 1 .. n + 1 /\ p.textId \in Nat /\ all[p.file][p.textId] \in Seq(Chars)
      BY PositionsAre
    <3> DEFINE lp == all[p.file][p.textId]
    <3>2. Occurrences(w, lp) \subseteq 1 .. Len(lp) - Len(w) + 1 /\ Len(lp) \in Nat /\ Len(w) \in Nat
      BY <3>1, OccurrencesAre, SMTT(30)
    <3>3. p.file > n /\ p.textId = a => lp = line
      <4>1. p.file > n => p.file = n + 1
        BY <3>1
      <4>2. QED
        BY <4>1
    <3> HIDE DEF lp, line
    <3>4. \A k \in Occurrences(w, lp) :
            (p.file <= n \/ p.textId < a + 1 \/ (p.textId = a + 1 /\ k + Len(w) < 1)) <=>
            (p.file <= n \/ p.textId < a \/ (p.textId = a /\ k + Len(w) < e))
      <4>1. \A k \in Occurrences(w, lp) : k + Len(w) \in Int /\ ~(k + Len(w) < 1) /\ k + Len(w) < Len(lp) + 2
        BY <3>2
      <4>2. p.textId < a + 1 <=> p.textId < a \/ p.textId = a
        BY <1>1, <3>1
      <4>3. ~(p.file <= n) => p.file > n
        BY <3>1
      <4>4. ~(p.file <= n) /\ p.textId = a => e = Len(lp) + 2
        BY <3>3, <4>3
      <4>5. QED
        BY <4>1, <4>2, <4>4, Zenon
    <3>5. MetAt(all, n, a + 1, 1, w, p) =
            {k \in Occurrences(w, lp) : p.file <= n \/ p.textId < a + 1 \/ (p.textId = a + 1 /\ k + Len(w) < 1)}
      BY DEF MetAt, lp
    <3>6. MetAt(all, n, a, e, w, p) =
            {k \in Occurrences(w, lp) : p.file <= n \/ p.textId < a \/ (p.textId = a /\ k + Len(w) < e)}
      BY DEF MetAt, lp
    <3>7. QED
      BY <3>4, <3>5, <3>6
  <2>2. QED
    BY <2>1, Zenon DEF CountsAt
<1>3. ASSUME NEW b \in Nat
      PROVE  CountsAt(all, n + 1, Len(all[n + 1]) + 1, b, w) = CountsAt(all, n, Len(all[n + 1]) + 1, b, w)
  <2> DEFINE a == Len(all[n + 1]) + 1
  <2>1. ASSUME NEW p \in PositionsIn(all) PROVE MetAt(all, n + 1, a, b, w, p) = MetAt(all, n, a, b, w, p)
    <3>1. p.file \in 1 .. n + 1 /\ p.textId \in 1 .. Len(all[p.file])
      BY PositionsAre
    <3>2. p.file <= n \/ p.file = n + 1
      BY <3>1
    <3>3. p.file = n + 1 => p.textId < a
      BY <1>1, <3>1
    <3>4. (p.file <= n \/ p.textId < a) /\ (p.file <= n + 1 \/ p.textId < a)
      <4>1. p.file <= n + 1
        BY <3>1
      <4>2. QED
        BY <3>2, <3>3, <4>1
    <3> HIDE DEF a
    <3>5. MetAt(all, n + 1, a, b, w, p) = Occurrences(w, all[p.file][p.textId])
      BY <3>4 DEF MetAt
    <3>6. MetAt(all, n, a, b, w, p) = Occurrences(w, all[p.file][p.textId])
      BY <3>4 DEF MetAt
    <3>7. QED
      BY <3>5, <3>6
  <2>2. QED
    BY <2>1, Zenon DEF CountsAt
<1>4. QED
  BY <1>2, <1>3

------------------------------------------------------------------------------
(* The posting lists, from character to character.                         *)

\* What At says of a word that has begun.
FlagOf(t) == IF t.nodes[t.curTrieNode].cont = 0 THEN 1 ELSE 3

\* A word that begins at s goes on before b, and the walk for it is at the
\* current node.
GoingOn(t, line, s, b) ==
  /\ Between(line, s, b)
  /\ NodeOf(t.nodes, Piece(line, s, b)) = t.curTrieNode
  /\ b <= Len(line) /\ ~Blank(line, b) => t.newContFlag = FlagOf(t)

\* The word that is found when the loop is at character b of the line.
Goes(t, line, b) ==
  IF t.resultFlag THEN \E s \in Nat : GoingOn(t, line, s, b) ELSE b = 1 \/ Blank(line, b - 1)

\* A search for any word finds the lines of the counts.
Finds(t, all, n, a, b) ==
  \A w \in Seq(Letters) \ {<<>>} : Posted(searchWordInTrie(t.nodes, w), CountsAt(all, n, a, b, w))

(* A search finds a posting list.                                          *)
LEMMA SearchType ==
  ASSUME NEW n \in Seq(Node), Forward(n), NEW w \in Seq(Letters)
  PROVE  searchWordInTrie(n, w) \in Seq(Posting)
<1>1. NodeOf(n, w) \in 0 .. Len(n)
  BY NodeOfIs
<1>2. CASE NodeOf(n, w) = 0
  BY <1>2 DEF searchWordInTrie
<1>3. CASE NodeOf(n, w) # 0
  <2> DEFINE q == NodeOf(n, w)
  <2>1. q \in 1 .. Len(n)
    BY <1>1, <1>3
  <2>2. searchWordInTrie(n, w) = n[q].index
    BY <1>3 DEF searchWordInTrie
  <2> HIDE DEF q
  <2>3. n[q] \in Node
    BY <2>1
  <2>4. QED
    BY <2>2, <2>3 DEF Node
<1>4. QED
  BY <1>2, <1>3

(* Where a word may end, the one that ends is counted.                     *)
LEMMA EndFinds ==
  ASSUME NEW t, TrieOk(t), NEW all \in Seq(File), NEW n \in Nat, n + 1 = Len(all),
         NEW a \in 1 .. Len(all[n + 1]), NEW e \in 1 .. Len(all[n + 1][a]) + 1,
         Stops(all[n + 1][a], e), Goes(t, all[n + 1][a], e), Finds(t, all, n, a, e)
  PROVE  Finds(WordEnds(t, a, n + 1), all, n, a, e + 1)
<1> DEFINE line == all[n + 1][a]
           n2 == WordEnds(t, a, n + 1).nodes
<1>1. n + 1 \in 1 .. Len(all) /\ a \in Nat /\ e \in Nat /\ line \in Seq(Chars) /\ Len(line) \in Nat
  <2>1. n + 1 \in 1 .. Len(all)
    OBVIOUS
  <2>2. all[n + 1] \in Seq(Seq(Chars))
    BY <2>1 DEF File
  <2>3. line \in Seq(Chars) /\ a \in Nat
    BY <2>2
  <2>4. QED
    BY <2>1, <2>3
<1>2. t.nodes \in Seq(Node) /\ Forward(t.nodes)
  BY DEF TrieOk, TrieType, ShapeOf
<1>3. \A w \in Seq(Letters) \ {<<>>} :
        Posted(searchWordInTrie(t.nodes, w), CountsAt(all, n, a, e, w))
  BY DEF Finds
<1>4. CASE t.resultFlag
  <2>1. PICK s \in Nat : GoingOn(t, line, s, e)
    BY <1>4, Zenon DEF Goes
  <2> DEFINE u == Piece(line, s, e)
  <2>2. Between(line, s, e) /\ NodeOf(t.nodes, u) = t.curTrieNode
    BY <1>1, <2>1, Zenon DEF GoingOn
  <2>3. u \in Seq(Letters)
    BY <1>1, <2>2, PieceIs
  <2>4. \A w \in Seq(Letters) :
          searchWordInTrie(n2, w) =
            IF w = u THEN Post(searchWordInTrie(t.nodes, u), a, n + 1) ELSE searchWordInTrie(t.nodes, w)
    BY <1>1, <1>4, <2>2, <2>3, WordEndsPuts
  <2> HIDE DEF u, n2
  <2>5. ASSUME NEW w \in Seq(Letters), w # <<>>
        PROVE  Posted(searchWordInTrie(n2, w), CountsAt(all, n, a, e + 1, w))
    <3> DEFINE met == CountsAt(all, n, a, e, w)
               met2 == CountsAt(all, n, a, e + 1, w)
               post == searchWordInTrie(t.nodes, w)
    <3>1. EndsAt(w, line, e) = IF w = u THEN {s} ELSE {}
      BY <1>1, <2>2, <2>5, EndsAre DEF u
    <3>2. Posted(post, met)
      BY <1>3, <2>5
    <3>3. CASE w = u
      <4>1. OneMore(met, met2, n + 1, a)
        BY <1>1, <3>1, <3>3, CountsNext
      <4>2. /\ DOMAIN met \subseteq Line /\ \A p \in DOMAIN met : met[p] \in Nat
            /\ UpTo(met, n + 1, a)
        BY <1>1, CountsAre
      <4>3. post \in Seq(Posting)
        BY <1>2, SearchType
      <4> HIDE DEF met, met2, post
      <4>4. Posted(Post(post, a, n + 1), met2)
        BY <1>1, <3>2, <4>1, <4>2, <4>3, PostKeeps, SMTT(30)
      <4>5. QED
        BY <2>4, <3>3, <4>4 DEF met2, post
    <3>4. CASE w # u
      <4>1. met2 = met
        BY <1>1, <3>1, <3>4, CountsNext
      <4>2. searchWordInTrie(n2, w) = post
        BY <2>4, <3>4
      <4>3. QED
        BY <3>2, <4>1, <4>2
    <3>5. QED
      BY <3>3, <3>4
  <2>6. QED
    BY <2>5 DEF Finds, n2
<1>5. CASE ~t.resultFlag
  <2>1. WordEnds(t, a, n + 1) = t
    BY <1>5 DEF WordEnds
  <2>2. e = 1 \/ Blank(line, e - 1)
    BY <1>5, Zenon DEF Goes
  <2>3. ASSUME NEW w \in Seq(Letters), w # <<>>
        PROVE  CountsAt(all, n, a, e + 1, w) = CountsAt(all, n, a, e, w)
    <3>1. EndsAt(w, line, e) = {}
      BY <1>1, <2>2, <2>3, EndsAre
    <3>2. QED
      BY <1>1, <3>1, CountsNext
  <2>4. QED
    BY <1>3, <2>1, <2>3 DEF Finds
<1>6. QED
  BY <1>4, <1>5

(* Where none may end, nothing changes.                                    *)
LEMMA LetterFinds ==
  ASSUME NEW t, NEW t2, NEW all \in Seq(File), NEW n \in Nat, n + 1 = Len(all),
         NEW a \in 1 .. Len(all[n + 1]), NEW e \in 1 .. Len(all[n + 1][a]),
         ~Stops(all[n + 1][a], e), SameSearch(t.nodes, t2.nodes), Finds(t, all, n, a, e)
  PROVE  Finds(t2, all, n, a, e + 1)
<1> DEFINE line == all[n + 1][a]
<1>1. n + 1 \in 1 .. Len(all) /\ a \in Nat /\ e \in Nat /\ line \in Seq(Chars) /\ e \in 1 .. Len(line) + 1
  <2>1. n + 1 \in 1 .. Len(all)
    OBVIOUS
  <2>2. all[n + 1] \in Seq(Seq(Chars))
    BY <2>1 DEF File
  <2>3. line \in Seq(Chars) /\ a \in Nat
    BY <2>2
  <2>4. Len(line) \in Nat
    BY <2>3
  <2>5. QED
    BY <2>1, <2>3, <2>4
<1>2. ASSUME NEW w \in Seq(Letters), w # <<>>
      PROVE  Posted(searchWordInTrie(t2.nodes, w), CountsAt(all, n, a, e + 1, w))
  <2>1. EndsAt(w, line, e) = {}
    BY <1>1, <1>2, EndsAre
  <2>2. CountsAt(all, n, a, e + 1, w) = CountsAt(all, n, a, e, w)
    BY <1>1, <2>1, CountsNext
  <2>3. searchWordInTrie(t2.nodes, w) = searchWordInTrie(t.nodes, w)
    BY DEF SameSearch
  <2>4. Posted(searchWordInTrie(t.nodes, w), CountsAt(all, n, a, e, w))
    BY <1>2 DEF Finds
  <2>5. QED
    BY <2>2, <2>3, <2>4
<1>3. QED
  BY <1>2 DEF Finds

(* A letter begins a word, or the word goes on.                            *)
LEMMA LetterGoes ==
  ASSUME NEW t, TrieOk(t), NEW line \in Seq(Chars), NEW b \in 1 .. Len(line), ~Blank(line, b),
         NEW textId \in Nat, NEW file \in Nat,
         Goes(t, line, b), t.resultFlag => t.counter, t.counter /\ ~t.resultFlag => t.newContFlag = 0,
         ~t.counter /\ t.nodes # <<>> => t.nodes[1].letter = line[b] /\ Stops(line, b + 1)
  PROVE  LET t2 == Parse(t, line[b], textId, file)
         IN  SameSearch(t.nodes, t2.nodes) /\ t2.resultFlag /\ Goes(t2, line, b + 1)
<1> DEFINE c == line[b]
           t2 == Parse(t, c, textId, file)
<1>1. c \in Letters /\ b + 1 \in Nat /\ b \in Nat /\ b \in 1 .. Len(line) + 1 /\ Len(line) \in Nat
  <2>1. c \in Letters
    BY LetterIs
  <2>2. QED
    BY <2>1
<1>0. c # " "
  BY <1>1, IndexAssumption, Zenon
<1>2. t \in TrieType /\ t.counter \in BOOLEAN /\ t.resultFlag \in BOOLEAN
  BY DEF TrieOk, TrieType
<1>3. TrieOk(t2)
  <2>1. c \in Chars
    BY <1>1 DEF Chars
  <2>2. QED
    BY <2>1, ParseKeeps
<1>4. t2.resultFlag
  BY <1>0, <1>2, ParseFlags, Zenon DEF GoesOn
<1>5. CASE ~t.counter
  <2>1. t2 = [FirstLetter(t, c) EXCEPT !.counter = TRUE, !.resultFlag = TRUE]
    BY <1>0, <1>5, Zenon DEF Parse
  <2>2. t.nodes # <<>> => t.nodes[1].letter = c
    BY <1>5
  <2>3. /\ SameSearch(t.nodes, t2.nodes)
        /\ t2.curTrieNode = 1 /\ NodeOf(t2.nodes, Append(<<>>, c)) = 1
        /\ t2.newContFlag = 1
        /\ t.nodes = <<>> => t2.nodes[1].cont = 0
    <3> HIDE DEF c
    <3>1. QED
      BY <1>1, <2>1, <2>2, FirstLetterPuts
  <2>4. b = 1 \/ Blank(line, b - 1)
    BY <1>5, Zenon DEF Goes
  <2>5. Between(line, b, b + 1) /\ Piece(line, b, b + 1) = Append(<<>>, c)
    BY <2>4, PieceGrows
  <2> HIDE DEF t2
  <2>6. ASSUME b + 1 <= Len(line), ~Blank(line, b + 1) PROVE t2.newContFlag = FlagOf(t2)
    <3>1. ~Stops(line, b + 1)
      BY <1>1, <2>6 DEF Stops
    <3>2. t.nodes = <<>>
      BY <1>5, <3>1
    <3>3. QED
      BY <2>3, <3>2 DEF FlagOf
  <2>7. GoingOn(t2, line, b, b + 1)
    BY <1>1, <2>3, <2>5, <2>6, Zenon DEF GoingOn
  <2>8. Goes(t2, line, b + 1)
    BY <1>1, <1>4, <2>7, Zenon DEF Goes, t2
  <2>9. QED
    BY <1>4, <2>3, <2>8 DEF t2
<1>6. CASE t.counter
  <2>1. t2 = [LaterLetter(t, c) EXCEPT !.resultFlag = TRUE]
    BY <1>0, <1>6, Zenon DEF Parse
  <2>2. t.nodes # <<>>
    BY <1>6 DEF TrieOk
  <2>3. ASSUME NEW s \in Nat, NEW u \in Seq(Letters), At(t, u),
               Between(line, s, b + 1), Piece(line, s, b + 1) = Append(u, c)
        PROVE  SameSearch(t.nodes, t2.nodes) /\ Goes(t2, line, b + 1)
    <3>1. PutIn(t, t2, u, c)
      <4> HIDE DEF c
      <4>1. QED
        BY <1>1, <2>1, <2>2, <2>3, LaterLetterPuts, SMTT(30)
    <3>2. Append(u, c) # <<>>
      BY <1>1, Longer
    <3> HIDE DEF t2, c
    <3>3. SameSearch(t.nodes, t2.nodes) /\ At(t2, Append(u, c))
      BY <3>1 DEF PutIn
    <3>4. NodeOf(t2.nodes, Append(u, c)) = t2.curTrieNode /\ t2.newContFlag = FlagOf(t2)
      BY <3>2, <3>3 DEF At, FlagOf
    <3>5. GoingOn(t2, line, s, b + 1)
      BY <1>1, <2>3, <3>4, Zenon DEF GoingOn
    <3>6. QED
      BY <1>1, <1>4, <3>3, <3>5, Zenon DEF Goes, t2
  <2>4. CASE t.resultFlag
    <3>1. PICK s \in Nat : GoingOn(t, line, s, b)
      BY <2>4, Zenon DEF Goes
    <3> DEFINE u == Piece(line, s, b)
    <3>2. Between(line, s, b) /\ NodeOf(t.nodes, u) = t.curTrieNode /\ t.newContFlag = FlagOf(t)
      <4>1. b <= Len(line)
        BY <1>1
      <4>2. QED
        BY <1>1, <3>1, <4>1, Zenon DEF GoingOn
    <3>3. b \in 1 .. Len(line) + 1
      BY <1>1
    <3>4. u \in Seq(Letters)
      BY <3>2, <3>3, PieceIs
    <3>5. Between(line, s, b + 1) /\ u # <<>> /\ Piece(line, s, b + 1) = Append(u, c)
      BY <3>2, PieceGrows
    <3>6. t.curTrieNode # 0
      BY <2>2 DEF TrieOk
    <3>7. At(t, u)
      BY <3>2, <3>5, <3>6 DEF At, FlagOf
    <3>8. QED
      BY <1>4, <2>3, <3>4, <3>5, <3>7
  <2>5. CASE ~t.resultFlag
    <3>1. b = 1 \/ Blank(line, b - 1)
      BY <2>5, Zenon DEF Goes
    <3>2. Between(line, b, b + 1) /\ Piece(line, b, b + 1) = Append(<<>>, c)
      BY <3>1, PieceGrows
    <3>3. At(t, <<>>) /\ <<>> \in Seq(Letters)
      BY <1>6, <2>5 DEF At
    <3>4. QED
      BY <1>1, <1>4, <2>3, <3>2, <3>3
  <2>6. QED
    BY <2>4, <2>5
<1>7. QED
  BY <1>5, <1>6

------------------------------------------------------------------------------
(* The files.                                                              *)

(* A least number is the least.                                            *)
LEMMA MinIs ==
  ASSUME NEW T \in SUBSET Nat, NEW m \in T, \A k \in T : m <= k
  PROVE  Min(T) = m
<1>1. Min(T) \in T /\ \A k \in T : Min(T) <= k
  BY DEF Min
<1>2. Min(T) <= m /\ m <= Min(T) /\ m \in Nat /\ Min(T) \in Nat
  BY <1>1
<1>3. QED
  BY <1>2

(* Where the first letter of a file stands, and what follows it.           *)
LEMMA FirstIs ==
  ASSUME NEW file \in File, NEW a \in 1 .. Len(file), NEW b \in 1 .. Len(file[a]),
         ~Blank(file[a], b), ~LetterBefore(file, a, b), NEW r \in Letters, BeginsWith(file, r)
  PROVE  r = file[a][b] /\ Stops(file[a], b + 1)
<1> DEFINE line == file[a]
           firsts == {l \in 1 .. Len(file) : WordStarts(file[l]) # {}}
<1>1. /\ Len(file) \in Nat /\ line \in Seq(Chars) /\ Len(line) \in Nat
      /\ \A l \in 1 .. Len(file) : Len(file[l]) \in Nat
  <2>1. \A l \in 1 .. Len(file) : file[l] \in Seq(Chars)
    BY DEF File
  <2>2. QED
    BY <2>1 DEF File
<1>2. \A l \in 1 .. Len(file) : \A k \in 1 .. Len(file[l]) : ~Blank(file[l], k) => ~(l < a \/ (l = a /\ k < b))
  BY Zenon DEF LetterBefore, Blank
<1>3. \A l \in 1 .. Len(file) : \A k :
        k \in WordStarts(file[l]) <=>
          k \in 1 .. Len(file[l]) /\ ~Blank(file[l], k) /\ (k = 1 \/ Blank(file[l], k - 1))
  BY Zenon DEF WordStarts, Blank
<1>4. \A l \in firsts : l \in 1 .. Len(file) /\ a <= l
  <2>1. SUFFICES ASSUME NEW l \in firsts PROVE l \in 1 .. Len(file) /\ a <= l
    OBVIOUS
  <2>2. l \in 1 .. Len(file) /\ WordStarts(file[l]) # {}
    OBVIOUS
  <2>3. PICK k : k \in WordStarts(file[l])
    BY <2>2
  <2>4. ~(l < a)
    BY <1>2, <1>3, <2>2, <2>3
  <2>5. QED
    BY <1>1, <2>2, <2>4
<1>5. b = 1 \/ Blank(line, b - 1)
  <2>1. SUFFICES ASSUME b # 1 PROVE Blank(line, b - 1)
    OBVIOUS
  <2>2. b - 1 \in 1 .. Len(line) /\ b - 1 < b
    BY <1>1, <2>1
  <2>3. QED
    BY <1>2, <2>2
<1>6. b \in WordStarts(line) /\ \A k \in WordStarts(line) : k \in Nat /\ b <= k
  <2>1. b \in WordStarts(line)
    BY <1>3, <1>5
  <2>2. ASSUME NEW k \in WordStarts(line) PROVE k \in Nat /\ b <= k
    <3>1. k \in 1 .. Len(line) /\ ~Blank(line, k)
      BY <1>3
    <3>2. ~(k < b)
      BY <1>2, <3>1
    <3>3. QED
      BY <1>1, <3>1, <3>2
  <2>3. QED
    BY <2>1, <2>2
<1>7. a \in firsts /\ firsts \in SUBSET Nat
  BY <1>4, <1>6
<1>8. Min(firsts) = a
  <2> HIDE DEF firsts
  <2>1. QED
    BY <1>4, <1>7, MinIs
<1>9. WordStarts(line) \in SUBSET Nat
  BY <1>6
<1>10. Min(WordStarts(line)) = b
  BY <1>6, <1>9, MinIs
<1>11. b \in Occurrences(<<r>>, line)
  BY <1>7, <1>8, <1>10, Zenon DEF BeginsWith
<1>12. Between(line, b, b + 1) /\ Piece(line, b, b + 1) = Append(<<>>, line[b])
  BY <1>1, <1>5, PieceGrows
<1>13. <<r>> \in Seq(Letters) /\ <<r>> # <<>> /\ Len(<<r>>) = 1 /\ b \in Nat /\ b + Len(<<r>>) = b + 1
  OBVIOUS
<1>14. Stops(line, b + 1) /\ <<r>> = Piece(line, b, b + 1)
  <2> DEFINE w == <<r>>
  <2>1. w \in Seq(Letters) /\ w # <<>> /\ b + Len(w) = b + 1 /\ b \in Occurrences(w, line)
    BY <1>11, <1>13
  <2> HIDE DEF w
  <2>2. Stops(line, b + Len(w)) /\ w = Piece(line, b, b + Len(w))
    BY <1>1, <1>13, <2>1, OccurrenceIs
  <2>3. QED
    BY <2>1, <2>2 DEF w
<1>15. <<r>>[1] = r /\ Append(<<>>, line[b])[1] = line[b]
  <2>1. line[b] \in Letters
    BY <1>1, LetterIs
  <2>2. QED
    BY <2>1
<1>16. QED
  BY <1>12, <1>14, <1>15

------------------------------------------------------------------------------
(* The end of a file, and the beginning of the next.                       *)

(* Lines where nothing was met do not change what is right.                *)
LEMMA PostedMore ==
  ASSUME NEW post, NEW met, NEW met2, Posted(post, met), DOMAIN met \subseteq DOMAIN met2,
         \A p \in DOMAIN met : met2[p] = met[p], \A p \in DOMAIN met2 : p \notin DOMAIN met => met2[p] = 0
  PROVE  Posted(post, met2)
<1>1. /\ \A a \in 1 .. Len(post) :
           LineOf(post[a]) \in DOMAIN met /\ post[a].wordFrq = met[LineOf(post[a])] /\ post[a].wordFrq # 0
      /\ \A p \in DOMAIN met : met[p] # 0 => \E a \in 1 .. Len(post) : LineOf(post[a]) = p
      /\ Ordered(post)
  BY Zenon DEF Posted
<1>2. \A a \in 1 .. Len(post) :
        LineOf(post[a]) \in DOMAIN met2 /\ post[a].wordFrq = met2[LineOf(post[a])] /\ post[a].wordFrq # 0
  BY <1>1
<1>3. \A p \in DOMAIN met2 : met2[p] # 0 => \E a \in 1 .. Len(post) : LineOf(post[a]) = p
  BY <1>1
<1>4. QED
  BY <1>1, <1>2, <1>3, Zenon DEF Posted

(* A file that is begun has no words yet.                                  *)
LEMMA FileBegins ==
  ASSUME NEW t, NEW all \in Seq(File), NEW file \in File, NEW a, NEW b, Finds(t, all, Len(all), a, b)
  PROVE  Finds(t, Append(all, file), Len(all), 1, 1)
<1> DEFINE n == Len(all)
           all2 == Append(all, file)
<1>1. /\ n \in Nat /\ all2 \in Seq(File) /\ Len(all2) = n + 1
      /\ \A f \in 1 .. n : all2[f] = all[f]
  OBVIOUS
<1>2. ASSUME NEW w \in Seq(Letters), w # <<>>
      PROVE  Posted(searchWordInTrie(t.nodes, w), CountsAt(all2, n, 1, 1, w))
  <2> DEFINE met == CountsAt(all, n, a, b, w)
             met2 == CountsAt(all2, n, 1, 1, w)
  <2>1. /\ DOMAIN met = PositionsIn(all) /\ DOMAIN met2 = PositionsIn(all2)
        /\ \A p \in PositionsIn(all) : met[p] = Cardinality(MetAt(all, n, a, b, w, p))
        /\ \A p \in PositionsIn(all2) : met2[p] = Cardinality(MetAt(all2, n, 1, 1, w, p))
    BY DEF CountsAt
  <2> HIDE DEF met, met2, all2
  <2>2. ASSUME NEW p \in PositionsIn(all) PROVE p \in PositionsIn(all2) /\ met2[p] = met[p]
    <3>1. p \in Line /\ p.file \in 1 .. n /\ p.textId \in 1 .. Len(all[p.file])
      BY PositionsAre
    <3>2. all2[p.file] = all[p.file] /\ p.file \in 1 .. Len(all2) /\ p.file <= n
      BY <1>1, <3>1
    <3>3. [file |-> p.file, textId |-> p.textId] \in PositionsIn(all2)
      BY <1>1, <3>1, <3>2, PositionsAre
    <3>4. p = [file |-> p.file, textId |-> p.textId]
      BY <3>1 DEF Line
    <3>5. MetAt(all2, n, 1, 1, w, p) = Occurrences(w, all2[p.file][p.textId])
      BY <3>2 DEF MetAt
    <3>6. MetAt(all, n, a, b, w, p) = Occurrences(w, all[p.file][p.textId])
      BY <3>2 DEF MetAt
    <3>7. p \in PositionsIn(all2)
      BY <3>3, <3>4
    <3>8. QED
      BY <2>1, <3>2, <3>5, <3>6, <3>7
  <2>3. ASSUME NEW p \in PositionsIn(all2), p \notin PositionsIn(all) PROVE met2[p] = 0
    <3>1. /\ p \in Line /\ p.file \in 1 .. n + 1 /\ p.textId \in 1 .. Len(all2[p.file])
          /\ all2[p.file][p.textId] \in Seq(Chars)
      BY <1>1, PositionsAre
    <3>2. ~(p.file <= n)
      <4>1. SUFFICES ASSUME p.file <= n PROVE FALSE
        OBVIOUS
      <4>2. p.file \in 1 .. n /\ all2[p.file] = all[p.file]
        BY <1>1, <3>1, <4>1
      <4>3. [file |-> p.file, textId |-> p.textId] \in PositionsIn(all)
        BY <3>1, <4>2, PositionsAre
      <4>4. p = [file |-> p.file, textId |-> p.textId]
        BY <3>1 DEF Line
      <4>5. QED
        BY <2>3, <4>3, <4>4
    <3>3. Occurrences(w, all2[p.file][p.textId]) \subseteq Nat /\ Len(w) \in Nat
      BY <3>1, OccurrencesAre
    <3>4. ~(p.textId < 1) /\ \A k \in Nat : ~(k + Len(w) < 1)
      <4>1. Len(w) > 0
        BY <1>2, EmptySeq
      <4>2. p.textId \in Nat /\ p.textId >= 1
        BY <3>1
      <4>3. QED
        BY <3>3, <4>1, <4>2
    <3>5. MetAt(all2, n, 1, 1, w, p) = {}
      BY <3>2, <3>3, <3>4 DEF MetAt
    <3>6. QED
      BY <2>1, <3>5, FS_EmptySet, Zenon
  <2>4. Posted(searchWordInTrie(t.nodes, w), met)
    BY <1>2 DEF Finds, met
  <2>5. QED
    BY <2>1, <2>2, <2>3, <2>4, PostedMore DEF met2
<1>3. QED
  BY <1>2 DEF Finds

(* The counts at the end of a line and of a file.                          *)
LEMMA FindsAround ==
  ASSUME NEW t, NEW all \in Seq(File), NEW n \in Nat, n + 1 = Len(all)
  PROVE  /\ \A a \in 1 .. Len(all[n + 1]) :
              Finds(t, all, n, a, Len(all[n + 1][a]) + 2) => Finds(t, all, n, a + 1, 1)
         /\ \A b \in Nat : Finds(t, all, n, Len(all[n + 1]) + 1, b) => Finds(t, all, n + 1, Len(all[n + 1]) + 1, b)
<1>1. ASSUME NEW a \in 1 .. Len(all[n + 1]), Finds(t, all, n, a, Len(all[n + 1][a]) + 2)
      PROVE  Finds(t, all, n, a + 1, 1)
  BY <1>1, CountsAround DEF Finds
<1>2. ASSUME NEW b \in Nat, Finds(t, all, n, Len(all[n + 1]) + 1, b)
      PROVE  Finds(t, all, n + 1, Len(all[n + 1]) + 1, b)
  BY <1>2, CountsAround DEF Finds
<1>3. QED
  BY <1>1, <1>2

------------------------------------------------------------------------------
(* The invariant.                                                          *)

\* The files that are in the trie, with the one that is put there.
Inserted == IF phase = "insert" THEN Append(files, text) ELSE files

SoundSoFar == SoundWith(Inserted, trie.nodes[1].letter)

\* No letter of the file has been put in without the root.
NodesInv == phase # "exit" => (trie.nodes = <<>> <=> files = <<>> /\ ~(phase = "insert" /\ trie.counter))

\* Below the root, no word goes on.
FlagInv == phase = "insert" /\ trie.counter /\ ~trie.resultFlag => trie.newContFlag = 0

\* The word that goes on is found.
GoesInv == phase = "insert" /\ SoundSoFar => Goes(trie, text[i], j)

FindsInv == phase # "exit" /\ SoundSoFar => Finds(trie, Inserted, Len(files), i, j)

IndexInv == TrieInv /\ PlaceInv /\ NodesInv /\ FlagInv /\ GoesInv /\ FindsInv

(* What is known of the place where a character is put in.                 *)
LEMMA AtPlace ==
  ASSUME TrieInv, PlaceInv, phase = "insert", i <= Len(text)
  PROVE  /\ text \in File /\ files \in Seq(File) /\ Len(files) \in Nat
         /\ Inserted = Append(files, text) /\ Inserted \in Seq(File)
         /\ Len(files) + 1 = Len(Inserted) /\ Inserted[Len(files) + 1] = text
         /\ i \in 1 .. Len(text) /\ text[i] \in Seq(Chars) /\ Len(text[i]) \in Nat
         /\ j = 1 \/ j \in 1 .. Len(text[i])
         /\ trie.resultFlag => trie.counter
         /\ trie.resultFlag <=> j > 1 /\ ~Blank(text[i], j - 1)
         /\ trie.counter <=> LetterBefore(text, i, j)
<1>1. text \in File /\ files \in Seq(File) /\ i \in Nat
  BY Zenon DEF TrieInv, File
<1>2. Inserted = Append(files, text)
  BY DEF Inserted
<1>3. /\ Len(files) \in Nat /\ Inserted \in Seq(File)
      /\ Len(files) + 1 = Len(Inserted) /\ Inserted[Len(files) + 1] = text
  BY <1>1, <1>2
<1>4. i \in 1 .. Len(text) + 1
  BY Zenon DEF PlaceInv
<1>5. i \in 1 .. Len(text) /\ text[i] \in Seq(Chars) /\ Len(text[i]) \in Nat
  <2>1. i \in 1 .. Len(text)
    BY <1>4
  <2>2. text[i] \in Seq(Chars)
    BY <1>1, <2>1 DEF File
  <2>3. QED
    BY <2>1, <2>2
<1>6. j = 1 \/ j \in 1 .. Len(text[i])
  BY Zenon DEF PlaceInv
<1>7. trie.resultFlag <=> j > 1 /\ ~Blank(text[i], j - 1)
  BY Zenon DEF PlaceInv, Blank
<1>8. trie.counter <=> LetterBefore(text, i, j)
  BY Zenon DEF PlaceInv, LetterBefore
<1>9. ASSUME trie.resultFlag PROVE trie.counter
  <2>1. j > 1 /\ ~Blank(text[i], j - 1)
    BY <1>7, <1>9
  <2>2. j - 1 \in 1 .. Len(text[i]) /\ j - 1 < j
    BY <1>5, <1>6, <2>1
  <2>3. LetterBefore(text, i, j)
    BY <1>5, <2>1, <2>2, Zenon DEF LetterBefore, Blank
  <2>4. QED
    BY <1>8, <2>3
<1>10. QED
  BY <1>1, <1>2, <1>3, <1>5, <1>6, <1>7, <1>8, <1>9, Zenon

(* InsertChar, when the files are sound.                                   *)
LEMMA InsertFinds ==
  ASSUME IndexInv, InsertChar, SoundSoFar
  PROVE  Goes(trie', text[i'], j') /\ Finds(trie', Inserted, Len(files), i', j')
<1> DEFINE n == Len(files)
           all == Append(files, text)
           line == text[i]
           t == Parse(trie, line[j], i, n + 1)
<1>0. phase = "insert" /\ i <= Len(text)
  BY DEF InsertChar
<1>1. /\ text \in File /\ files \in Seq(File) /\ n \in Nat
      /\ Inserted = all /\ all \in Seq(File)
      /\ n + 1 = Len(all) /\ all[n + 1] = text
      /\ i \in 1 .. Len(text) /\ line \in Seq(Chars) /\ Len(line) \in Nat
      /\ j = 1 \/ j \in 1 .. Len(line)
  BY <1>0, AtPlace DEF IndexInv
<1>2. /\ trie.resultFlag => trie.counter
      /\ trie.resultFlag <=> j > 1 /\ ~Blank(line, j - 1)
      /\ trie.counter <=> LetterBefore(text, i, j)
  BY <1>0, AtPlace DEF IndexInv
<1>3. TrieOk(trie) /\ trie \in TrieType
  BY InvIs DEF IndexInv, TrieOk
<1>4. Goes(trie, line, j) /\ Finds(trie, all, n, i, j)
  BY <1>0, <1>1 DEF IndexInv, GoesInv, FindsInv
<1>5. /\ j < Len(line) => i' = i /\ j' = j + 1
      /\ j >= Len(line) => i' = i + 1 /\ j' = 1
      /\ j > Len(line) => trie' = trie
  BY InsertCharIs DEF IndexInv
<1>6. j <= Len(line) => trie' = IF j = Len(line) THEN WordEnds(t, i, n + 1) ELSE t
  BY DEF InsertChar
<1>7. i \in Nat /\ n + 1 \in Nat /\ j \in Nat
  BY <1>1
<1>8. ASSUME j > Len(line)
      PROVE  Goes(trie', text[i'], j') /\ Finds(trie', Inserted, n, i', j')
  <2>1. j = 1 /\ Len(line) = 0 /\ i' = i + 1 /\ j' = 1 /\ trie' = trie
    BY <1>1, <1>5, <1>8
  <2>2. ~trie.resultFlag
    BY <1>2, <2>1
  <2>3. Goes(trie', text[i'], j')
    BY <2>1, <2>2, Zenon DEF Goes
  <2>4. Stops(line, 1) /\ 1 \in 1 .. Len(line) + 1
    BY <2>1 DEF Stops
  <2>5. WordEnds(trie, i, n + 1) = trie
    BY <2>2 DEF WordEnds
  <2>6. Finds(trie, all, n, i, 1 + 1)
    <3> HIDE DEF all, n
    <3>1. QED
      BY <1>1, <1>3, <1>4, <2>1, <2>4, <2>5, EndFinds
  <2>7. Finds(trie, all, n, i, Len(line) + 2)
    BY <2>1, <2>6
  <2>8. Finds(trie, all, n, i + 1, 1)
    <3> HIDE DEF all, n
    <3>1. QED
      BY <1>1, <2>7, FindsAround
  <2>9. QED
    BY <1>1, <2>1, <2>3, <2>8
<1>9. ASSUME j <= Len(line)
      PROVE  TrieOk(t) /\ Goes(t, line, j + 1) /\ Finds(t, all, n, i, j + 1)
  <2>0. j \in 1 .. Len(line) /\ j \in 1 .. Len(line) + 1
    BY <1>1, <1>7, <1>9
  <2>1. TrieOk(t)
    <3>1. line[j] \in Chars
      BY <1>1, <2>0
    <3>2. QED
      BY <1>3, <1>7, <3>1, ParseKeeps
  <2>2. CASE Blank(line, j)
    <3>1. line[j] = " "
      BY <2>2, Zenon DEF Blank
    <3>2. t = WordEnds(trie, i, n + 1)
      BY <3>1, Zenon DEF Parse
    <3>3. ~t.resultFlag
      BY <1>3, <3>2, WordEndsFlags, Zenon DEF Ended
    <3>4. (j + 1) - 1 = j
      BY <1>7
    <3>5. Goes(t, line, j + 1)
      BY <2>2, <3>3, <3>4, Zenon DEF Goes
    <3>6. Stops(line, j)
      BY <2>2 DEF Stops
    <3>7. Finds(t, all, n, i, j + 1)
      <4> HIDE DEF all, n, t
      <4>1. QED
        BY <1>1, <1>3, <1>4, <2>0, <3>2, <3>6, EndFinds
    <3>8. QED
      BY <2>1, <3>5, <3>7
  <2>3. CASE ~Blank(line, j)
    <3>1. ~Stops(line, j)
      BY <1>1, <1>9, <2>3 DEF Stops
    <3>2. trie.counter /\ ~trie.resultFlag => trie.newContFlag = 0
      BY <1>0, Zenon DEF IndexInv, FlagInv
    <3>3. ASSUME ~trie.counter, trie.nodes # <<>>
          PROVE  trie.nodes[1].letter = line[j] /\ Stops(line, j + 1)
      <4>1. files # <<>>
        BY <1>0, <3>3, Zenon DEF IndexInv, NodesInv
      <4>2. n >= 1
        BY <1>1, <4>1
      <4>3. n + 1 \in 2 .. Len(all)
        BY <1>1, <4>2
      <4> DEFINE r == trie.nodes[1].letter
      <4>4. SoundWith(all, r)
        BY <1>1, Zenon DEF SoundSoFar
      <4>5. BeginsWith(text, r)
        BY <1>1, <4>3, <4>4, Zenon DEF SoundWith
      <4>6. trie.nodes \in Seq(Node)
        BY <1>3 DEF TrieType
      <4>7. r \in Letters
        <5>1. trie.nodes[1] \in Node
          BY <3>3, <4>6
        <5>2. QED
          BY <5>1 DEF Node
      <4>8. ~LetterBefore(text, i, j)
        BY <1>2, <3>3
      <4> HIDE DEF r
      <4>9. r = line[j] /\ Stops(line, j + 1)
        BY <1>1, <2>0, <2>3, <4>5, <4>7, <4>8, FirstIs
      <4>10. QED
        BY <4>9 DEF r
    <3>4. SameSearch(trie.nodes, t.nodes) /\ Goes(t, line, j + 1)
      BY <1>1, <1>2, <1>3, <1>4, <1>7, <2>0, <2>3, <3>2, <3>3, LetterGoes
    <3>5. Finds(t, all, n, i, j + 1)
      <4> HIDE DEF all, n, t
      <4>1. QED
        BY <1>1, <1>4, <2>0, <3>1, <3>4, LetterFinds
    <3>6. QED
      BY <2>1, <3>4, <3>5
  <2>4. QED
    BY <2>2, <2>3
<1>10. CASE j < Len(line)
  <2>1. j <= Len(line) /\ j # Len(line)
    BY <1>1, <1>7, <1>10
  <2>2. trie' = t /\ i' = i /\ j' = j + 1
    BY <1>5, <1>6, <1>10, <2>1
  <2>3. QED
    BY <1>1, <1>9, <2>1, <2>2
<1>11. CASE j = Len(line)
  <2>1. j <= Len(line) /\ j >= Len(line)
    BY <1>1, <1>11
  <2>2. trie' = WordEnds(t, i, n + 1) /\ i' = i + 1 /\ j' = 1
    BY <1>5, <1>6, <1>11, <2>1
  <2>3. TrieOk(t) /\ Goes(t, line, j + 1) /\ Finds(t, all, n, i, j + 1)
    BY <1>9, <2>1
  <2>4. ~trie'.resultFlag
    <3>1. t \in TrieType
      BY <2>3 DEF TrieOk
    <3>2. QED
      BY <2>2, <3>1, WordEndsFlags, Zenon DEF Ended
  <2>5. Goes(trie', text[i'], j')
    BY <2>2, <2>4, Zenon DEF Goes
  <2>6. Stops(line, j + 1) /\ j + 1 \in 1 .. Len(line) + 1 /\ (j + 1) + 1 = Len(line) + 2
    BY <1>1, <1>11 DEF Stops
  <2>7. Finds(trie', all, n, i, (j + 1) + 1)
    <3> HIDE DEF all, n, t
    <3>1. QED
      BY <1>1, <2>2, <2>3, <2>6, EndFinds
  <2>8. Finds(trie', all, n, i + 1, 1)
    <3> HIDE DEF all, n
    <3>1. QED
      BY <1>1, <2>6, <2>7, FindsAround
  <2>9. QED
    BY <1>1, <2>2, <2>5, <2>8
<1>12. QED
  BY <1>1, <1>7, <1>8, <1>10, <1>11

(* InsertChar keeps the rest of it.                                        *)
LEMMA InsertKeeps ==
  ASSUME IndexInv, InsertChar, TrieInv'
  PROVE  NodesInv' /\ FlagInv' /\ GoesInv' /\ FindsInv'
<1> DEFINE line == text[i]
           t == Parse(trie, line[j], i, Len(files) + 1)
<1>1. /\ phase = "insert" /\ phase' = "insert" /\ text' = text /\ files' = files
      /\ i \in 1 .. Len(text)
      /\ j \in Nat /\ (j <= Len(line) \/ (j = 1 /\ line = <<>>)) /\ Len(line) \in Nat
      /\ j > Len(line) => trie' = trie
  <2>1. /\ phase = "insert" /\ phase' = "insert" /\ text' = text /\ files' = files
        /\ i \in 1 .. Len(text) /\ line \in Seq(Chars)
        /\ j \in Nat /\ (j <= Len(line) \/ (j = 1 /\ line = <<>>))
        /\ j > Len(line) => trie' = trie
    BY InsertCharIs, Zenon DEF IndexInv
  <2>2. QED
    BY <2>1
<1>2. /\ j <= Len(line) => (trie'.counter <=> trie.counter \/ line[j] # " ")
      /\ j <= Len(line) => trie' = IF j = Len(line) THEN WordEnds(t, i, Len(files) + 1) ELSE t
  <2>1. j <= Len(line) => (trie'.counter <=> trie.counter \/ line[j] # " ")
    BY InsertCharIs, Zenon DEF IndexInv
  <2>2. j <= Len(line) => trie' = IF j = Len(line) THEN WordEnds(t, i, Len(files) + 1) ELSE t
    BY DEF InsertChar
  <2>3. QED
    BY <2>1, <2>2, Zenon
<1>3. TrieOk(trie) /\ trie \in TrieType /\ trie.counter \in BOOLEAN /\ trie.resultFlag \in BOOLEAN
  BY InvIs DEF IndexInv, TrieOk, TrieType
<1>4. trie.counter => trie.nodes # <<>>
  BY <1>3 DEF TrieOk
<1>5. trie'.counter => trie'.nodes # <<>>
  BY Zenon DEF TrieInv
<1>6. Inserted' = Inserted
  BY <1>1, Zenon DEF Inserted
<1>7. ASSUME ~trie'.counter PROVE trie' = trie
  <2>1. CASE j > Len(line)
    BY <1>1, <2>1
  <2>2. CASE j <= Len(line)
    <3>1. ~trie.counter /\ line[j] = " "
      BY <1>2, <1>7, <2>2, Zenon
    <3>2. ~trie.resultFlag
      <4>1. trie.resultFlag => trie.counter
        <5>1. i <= Len(text)
          BY <1>1
        <5>2. QED
          BY <1>1, <5>1, AtPlace DEF IndexInv
      <4>2. QED
        BY <3>1, <4>1
    <3>3. WordEnds(trie, i, Len(files) + 1) = trie
      BY <3>2 DEF WordEnds
    <3>4. t = trie
      BY <3>1, <3>3, Zenon DEF Parse
    <3>5. QED
      BY <1>2, <2>2, <3>3, <3>4, Zenon
  <2>3. QED
    BY <1>1, <2>1, <2>2
<1>8. NodesInv'
  <2>1. CASE trie'.counter
    BY <1>1, <1>5, <2>1, Zenon DEF NodesInv
  <2>2. CASE ~trie'.counter
    BY <1>1, <1>7, <2>2, Zenon DEF IndexInv, NodesInv
  <2>3. QED
    BY <2>1, <2>2
<1>9. FlagInv'
  <2> DEFINE Rests(u) == u.counter /\ ~u.resultFlag => u.newContFlag = 0
  <2>1. Rests(trie)
    BY <1>1, Zenon DEF IndexInv, FlagInv
  <2>2. ASSUME NEW u, u \in TrieType, Rests(u) PROVE Rests(WordEnds(u, i, Len(files) + 1))
    <3>1. CASE u.resultFlag
      <4> DEFINE nodes2 == [u.nodes EXCEPT ![u.curTrieNode].index = Post(@, i, Len(files) + 1)]
      <4>1. WordEnds(u, i, Len(files) + 1) =
              [u EXCEPT !.nodes = nodes2, !.resultFlag = FALSE, !.newContFlag = 0,
                        !.curTrieNode = 1, !.words = u.words + 1]
        BY <3>1 DEF WordEnds
      <4> HIDE DEF nodes2
      <4>2. WordEnds(u, i, Len(files) + 1).newContFlag = 0
        BY <2>2, <4>1 DEF TrieType
      <4>3. QED
        BY <4>2
    <3>2. CASE ~u.resultFlag
      BY <2>2, <3>2 DEF WordEnds
    <3>3. QED
      BY <3>1, <3>2
  <2>3. CASE j > Len(line)
    BY <1>1, <2>1, <2>3, Zenon DEF FlagInv
  <2>4. CASE j <= Len(line)
    <3>1. Rests(t) /\ TrieOk(t)
      <4>1. TrieOk(t)
        <5>1. line[j] \in Chars /\ i \in Nat /\ Len(files) + 1 \in Nat
          <6>1. i <= Len(text)
            BY <1>1
          <6>2. line \in Seq(Chars) /\ Len(files) \in Nat /\ (j = 1 \/ j \in 1 .. Len(line))
            BY <1>1, <6>1, AtPlace DEF IndexInv
          <6>3. j \in 1 .. Len(line)
            BY <1>1, <2>4, <6>2
          <6>4. QED
            BY <1>1, <6>2, <6>3
        <5>2. QED
          BY <1>3, <5>1, ParseKeeps
      <4>2. CASE line[j] = " "
        <5>1. t = WordEnds(trie, i, Len(files) + 1)
          BY <4>2, Zenon DEF Parse
        <5>2. QED
          BY <1>3, <2>1, <2>2, <4>1, <5>1, Zenon
      <4>3. CASE line[j] # " "
        <5>1. t.resultFlag
          BY <1>3, <4>3, ParseFlags, Zenon DEF GoesOn
        <5>2. QED
          BY <4>1, <5>1
      <4>4. QED
        BY <4>2, <4>3
    <3>2. t \in TrieType
      BY <3>1 DEF TrieOk
    <3>3. Rests(WordEnds(t, i, Len(files) + 1))
      BY <2>2, <3>1, <3>2, Zenon
    <3> HIDE DEF t
    <3>4. Rests(trie')
      BY <1>2, <2>4, <3>1, <3>3
    <3>5. QED
      BY <3>4, Zenon DEF FlagInv
  <2>5. QED
    BY <1>1, <2>3, <2>4
<1>10. SoundSoFar' => SoundSoFar
  <2>1. CASE trie.nodes = <<>>
    <3>1. files = <<>>
      BY <1>1, <2>1, Zenon DEF IndexInv, NodesInv
    <3>2. Len(Inserted) = 1
      BY <1>1, <3>1 DEF Inserted
    <3>3. \A r : SoundWith(Inserted, r)
      BY <3>2 DEF SoundWith
    <3>4. QED
      BY <3>3, Zenon DEF SoundSoFar
  <2>2. CASE trie.nodes # <<>>
    <3>1. trie'.nodes[1].letter = trie.nodes[1].letter
      <4>1. CASE j > Len(line)
        BY <1>1, <4>1
      <4>2. CASE j <= Len(line)
        <5>1. line[j] \in Chars /\ i \in Nat /\ Len(files) + 1 \in Nat
          <6>1. i <= Len(text)
            BY <1>1
          <6>2. line \in Seq(Chars) /\ Len(files) \in Nat /\ (j = 1 \/ j \in 1 .. Len(line))
            BY <1>1, <6>1, AtPlace DEF IndexInv
          <6>3. j \in 1 .. Len(line)
            BY <1>1, <4>2, <6>2
          <6>4. QED
            BY <1>1, <6>2, <6>3
        <5>2. t.nodes[1].letter = trie.nodes[1].letter /\ TrieOk(t)
          BY <1>3, <2>2, <5>1, RootStays, ParseKeeps
        <5>3. t.nodes # <<>>
          <6>1. CASE line[j] = " "
            <7>1. t = WordEnds(trie, i, Len(files) + 1)
              BY <6>1, Zenon DEF Parse
            <7> DEFINE nodes2 == [trie.nodes EXCEPT ![trie.curTrieNode].index = Post(@, i, Len(files) + 1)]
            <7>2. t.nodes = IF trie.resultFlag THEN nodes2 ELSE trie.nodes
              BY <1>3, <7>1 DEF WordEnds, TrieType
            <7>3. nodes2 # <<>>
              BY <1>3, <2>2 DEF TrieType
            <7>4. QED
              BY <2>2, <7>2, <7>3
          <6>2. CASE line[j] # " "
            <7>1. t.resultFlag
              BY <1>3, <6>2, ParseFlags, Zenon DEF GoesOn
            <7>2. QED
              BY <5>2, <7>1 DEF TrieOk
          <6>3. QED
            BY <6>1, <6>2
        <5> HIDE DEF t
        <5>4. WordEnds(t, i, Len(files) + 1).nodes[1].letter = t.nodes[1].letter
          BY <5>1, <5>2, <5>3, RootStays
        <5>5. QED
          BY <1>2, <4>2, <5>2, <5>4
      <4>3. QED
        BY <1>1, <4>1, <4>2
    <3>2. QED
      BY <1>6, <3>1, Zenon DEF SoundSoFar
  <2>3. QED
    BY <2>1, <2>2
<1>11. SoundSoFar => Goes(trie', text[i'], j') /\ Finds(trie', Inserted, Len(files), i', j')
  BY InsertFinds
<1>12. GoesInv'
  BY <1>1, <1>10, <1>11, Zenon DEF GoesInv
<1>13. FindsInv'
  BY <1>1, <1>6, <1>10, <1>11, Zenon DEF FindsInv
<1>14. QED
  BY <1>8, <1>9, <1>12, <1>13

------------------------------------------------------------------------------
(* The steps.                                                              *)

(* Steps that read, or fail to, change nothing of it.                      *)
LEMMA ReadKeeps ==
  ASSUME IndexInv, phase = "read", phase' \in {"read", "crash"},
         UNCHANGED <<i, j, trie, files>>
  PROVE  NodesInv' /\ FlagInv' /\ GoesInv' /\ FindsInv'
<1>1. trie' = trie /\ files' = files /\ i' = i /\ j' = j /\ phase' # "insert" /\ phase # "exit" /\ phase # "insert"
  OBVIOUS
<1>2. NodesInv'
  BY <1>1, Zenon DEF IndexInv, NodesInv
<1>3. FlagInv' /\ GoesInv'
  BY <1>1, Zenon DEF FlagInv, GoesInv
<1>4. Inserted' = Inserted
  BY <1>1, Zenon DEF Inserted
<1>5. SoundSoFar' => SoundSoFar
  BY <1>1, <1>4, Zenon DEF SoundSoFar
<1>6. FindsInv'
  BY <1>1, <1>4, <1>5, Zenon DEF IndexInv, FindsInv
<1>7. QED
  BY <1>2, <1>3, <1>6

(* The call of createTrieFromTextMap.                                      *)
LEMMA ReadEOFKeeps ==
  ASSUME IndexInv, ReadEOF
  PROVE  NodesInv' /\ FlagInv' /\ GoesInv' /\ FindsInv'
<1>1. phase = "read" /\ phase' = "insert" /\ i' = 1 /\ j' = 1 /\ text' = text /\ files' = files
  BY Zenon DEF ReadEOF, Reads
<1>2. /\ trie'.nodes = trie.nodes /\ ~trie'.counter /\ ~trie'.resultFlag
  <2>1. trie \in TrieType
    BY InvIs DEF IndexInv, TrieOk
  <2>2. trie' = [trie EXCEPT !.counter = FALSE, !.resultFlag = FALSE, !.words = 0]
    BY DEF ReadEOF
  <2>3. QED
    BY <2>1, <2>2 DEF TrieType
<1>3. text \in File /\ files \in Seq(File)
  BY Zenon DEF IndexInv, TrieInv, File
<1>4. Inserted' = Append(files, text) /\ Inserted = files
  BY <1>1 DEF Inserted
<1>5. NodesInv'
  BY <1>1, <1>2, Zenon DEF IndexInv, NodesInv
<1>6. FlagInv'
  BY <1>2, Zenon DEF FlagInv
<1>7. GoesInv'
  BY <1>1, <1>2, Zenon DEF GoesInv, Goes
<1>8. SoundSoFar' => SoundSoFar
  <2> DEFINE r == trie.nodes[1].letter
  <2>1. SoundWith(Append(files, text), r) => SoundWith(files, r)
    <3>1. \A f \in 2 .. Len(files) : f \in 2 .. Len(Append(files, text)) /\ Append(files, text)[f] = files[f]
      BY <1>3
    <3>2. QED
      BY <3>1, Zenon DEF SoundWith
  <2>2. QED
    BY <1>2, <1>4, <2>1, Zenon DEF SoundSoFar
<1>9. ASSUME SoundSoFar PROVE Finds(trie', Append(files, text), Len(files), 1, 1)
  <2>1. Finds(trie, files, Len(files), i, j)
    BY <1>1, <1>4, <1>9, Zenon DEF IndexInv, FindsInv
  <2>2. Finds(trie, Append(files, text), Len(files), 1, 1)
    BY <1>3, <2>1, FileBegins
  <2>3. QED
    BY <1>2, <2>2, Zenon DEF Finds
<1>10. FindsInv'
  BY <1>1, <1>4, <1>8, <1>9, Zenon DEF FindsInv
<1>11. QED
  BY <1>5, <1>6, <1>7, <1>10

(* The end of a file.                                                      *)
LEMMA FinishKeeps ==
  ASSUME IndexInv, FinishFile
  PROVE  NodesInv' /\ FlagInv' /\ GoesInv' /\ FindsInv'
<1>1. /\ phase = "insert" /\ phase' = IF trie.nodes = <<>> THEN "exit" ELSE "read"
      /\ files' = Append(files, text) /\ trie' = trie /\ i' = i /\ j' = j
  BY Zenon DEF FinishFile
<1>2. text \in File /\ files \in Seq(File) /\ i \in Nat /\ j \in Nat /\ Len(text) \in Nat
  <2>1. text \in File /\ files \in Seq(File) /\ i \in Nat /\ j \in Nat
    BY Zenon DEF IndexInv, TrieInv, File
  <2>2. QED
    BY <2>1 DEF File
<1>3. i = Len(text) + 1
  <2>1. i \in 1 .. Len(text) + 1
    BY <1>1, Zenon DEF IndexInv, PlaceInv
  <2>2. i > Len(text)
    BY Zenon DEF FinishFile
  <2>3. QED
    BY <1>2, <2>1, <2>2
<1>4. /\ Append(files, text) \in Seq(File) /\ Append(files, text) # <<>>
      /\ Len(files) \in Nat /\ Len(files) + 1 = Len(Append(files, text))
      /\ Append(files, text)[Len(files) + 1] = text
  BY <1>2
<1>5. phase' # "insert"
  BY <1>1
<1>6. Inserted = Append(files, text) /\ Inserted' = Append(files, text)
  BY <1>1, <1>5, Zenon DEF Inserted
<1>7. NodesInv'
  <2>1. phase' # "exit" => trie.nodes # <<>>
    BY <1>1
  <2>2. QED
    BY <1>1, <1>4, <1>5, <2>1, Zenon DEF NodesInv
<1>8. FlagInv' /\ GoesInv'
  BY <1>5, Zenon DEF FlagInv, GoesInv
<1>9. SoundSoFar' => SoundSoFar
  BY <1>1, <1>6, Zenon DEF SoundSoFar
<1>10. ASSUME SoundSoFar PROVE Finds(trie, Append(files, text), Len(Append(files, text)), i, j)
  <2> DEFINE all == Append(files, text)
  <2>1. Finds(trie, all, Len(files), i, j)
    BY <1>1, <1>6, <1>10 DEF IndexInv, FindsInv
  <2>2. Finds(trie, all, Len(files), Len(all[Len(files) + 1]) + 1, j)
    BY <1>3, <1>4, <2>1
  <2> HIDE DEF all
  <2>3. Finds(trie, all, Len(files) + 1, Len(all[Len(files) + 1]) + 1, j)
    BY <1>2, <1>4, <2>2, FindsAround DEF all
  <2>4. QED
    BY <1>3, <1>4, <2>3 DEF all
<1>11. FindsInv'
  BY <1>1, <1>6, <1>9, <1>10, Zenon DEF FindsInv
<1>12. QED
  BY <1>7, <1>8, <1>11

(* It holds at first.                                                      *)
LEMMA IndexInitially == Init => IndexInv
<1> SUFFICES ASSUME Init PROVE IndexInv
  OBVIOUS
<1>1. TrieInv /\ PlaceInv
  BY TrieInitially, CountInitially
<1>2. phase = "read" /\ files = <<>> /\ trie.nodes = <<>>
  BY DEF Init
<1>3. NodesInv /\ FlagInv /\ GoesInv
  BY <1>2 DEF NodesInv, FlagInv, GoesInv
<1>4. Inserted = <<>>
  BY <1>2 DEF Inserted
<1>5. Finds(trie, <<>>, Len(files), i, j)
  <2>1. PositionsIn(<<>>) = {}
    BY DEF PositionsIn
  <2>2. ASSUME NEW w \in Seq(Letters), w # <<>>
        PROVE  Posted(searchWordInTrie(trie.nodes, w), CountsAt(<<>>, Len(files), i, j, w))
    <3>1. DOMAIN CountsAt(<<>>, Len(files), i, j, w) = {}
      BY <2>1 DEF CountsAt
    <3>2. Forward(<<>>)
      BY DEF Forward
    <3>3. NodeOf(<<>>, w) \in 0 .. Len(<<>>)
      BY <3>2, NodeOfIs
    <3>4. NodeOf(<<>>, w) = 0
      BY <3>3
    <3>5. searchWordInTrie(trie.nodes, w) = <<>>
      BY <1>2, <3>4 DEF searchWordInTrie
    <3>6. QED
      BY <3>1, <3>5 DEF Posted, Ordered
  <2>3. QED
    BY <2>2 DEF Finds
<1>6. FindsInv
  BY <1>4, <1>5, Zenon DEF FindsInv
<1>7. QED
  BY <1>1, <1>3, <1>6 DEF IndexInv

(* Every step keeps it.                                                    *)
LEMMA IndexKept == IndexInv /\ [Next]_vars => IndexInv'
<1> SUFFICES ASSUME IndexInv, [Next]_vars PROVE IndexInv'
  OBVIOUS
<1>1. TrieInv' /\ PlaceInv'
  BY TrieKept, PlaceKept DEF IndexInv
<1>2. CASE \E c \in Chars : ReadChar(c)
  <2>1. phase = "read" /\ phase' = "read" /\ UNCHANGED <<i, j, trie, files>>
    BY <1>2 DEF ReadChar, Reads
  <2>2. QED
    BY <1>1, <2>1, ReadKeeps DEF IndexInv
<1>3. CASE ReadNewline
  <2>1. phase = "read" /\ phase' = "read" /\ UNCHANGED <<i, j, trie, files>>
    BY <1>3 DEF ReadNewline, Reads
  <2>2. QED
    BY <1>1, <2>1, ReadKeeps DEF IndexInv
<1>4. CASE RejectFile \/ OpenFails
  <2>1. phase = "read" /\ phase' = "crash" /\ UNCHANGED <<i, j, trie, files>>
    BY <1>4 DEF RejectFile, OpenFails, FileFails, Reads
  <2>2. QED
    BY <1>1, <2>1, ReadKeeps DEF IndexInv
<1>5. CASE ReadEOF
  BY <1>1, <1>5, ReadEOFKeeps DEF IndexInv
<1>6. CASE InsertChar
  BY <1>1, <1>6, InsertKeeps DEF IndexInv
<1>7. CASE FinishFile
  BY <1>1, <1>7, FinishKeeps DEF IndexInv
<1>8. CASE UNCHANGED vars
  <2>1. /\ phase' = phase /\ text' = text /\ i' = i /\ j' = j /\ trie' = trie /\ files' = files
    BY <1>8 DEF vars
  <2>2. Inserted' = Inserted
    BY <2>1, Zenon DEF Inserted
  <2>3. SoundSoFar' => SoundSoFar
    BY <2>1, <2>2, Zenon DEF SoundSoFar
  <2>4. NodesInv' /\ FlagInv'
    BY <2>1, Zenon DEF IndexInv, NodesInv, FlagInv
  <2>5. GoesInv'
    BY <2>1, <2>3, Zenon DEF IndexInv, GoesInv
  <2>6. FindsInv'
    BY <2>1, <2>2, <2>3, Zenon DEF IndexInv, FindsInv
  <2>7. QED
    BY <1>1, <2>4, <2>5, <2>6 DEF IndexInv
<1>9. QED
  BY <1>2, <1>3, <1>4, <1>5, <1>6, <1>7, <1>8 DEF Next

------------------------------------------------------------------------------
(* What a search finds.                                                    *)

(* Between two files, a search for any word finds the lines that have it.  *)
LEMMA FoundIs ==
  ASSUME IndexInv, phase = "read", Sound, NEW w \in Seq(Letters), w # <<>>
  PROVE  LET met == [p \in Positions |-> Cardinality(Occurrences(w, LineAt(p)))]
         IN  /\ Posted(searchWordInTrie(trie.nodes, w), met)
             /\ searchWordInTrie(trie.nodes, w) \in Seq(Posting)
<1> DEFINE met == [p \in Positions |-> Cardinality(Occurrences(w, LineAt(p)))]
<1>1. Inserted = files /\ phase # "exit" /\ files \in Seq(File)
  <2>1. files \in Seq(File)
    BY Zenon DEF IndexInv, TrieInv, File
  <2>2. QED
    BY <2>1 DEF Inserted
<1>2. SoundSoFar
  BY <1>1, Zenon DEF SoundSoFar, Sound
<1>3. Posted(searchWordInTrie(trie.nodes, w), CountsAt(files, Len(files), i, j, w))
  <2>1. Finds(trie, files, Len(files), i, j)
    BY <1>1, <1>2, Zenon DEF IndexInv, FindsInv
  <2>2. QED
    BY <2>1 DEF Finds
<1>4. CountsAt(files, Len(files), i, j, w) = met
  <2>1. ASSUME NEW p \in PositionsIn(files)
        PROVE  MetAt(files, Len(files), i, j, w, p) = Occurrences(w, files[p.file][p.textId])
    <3>1. p.file \in 1 .. Len(files)
      BY <1>1, PositionsAre
    <3>2. p.file <= Len(files)
      BY <3>1
    <3>3. QED
      BY <3>2 DEF MetAt
  <2>2. QED
    BY <2>1, Zenon DEF CountsAt, Positions, LineAt
<1>5. searchWordInTrie(trie.nodes, w) \in Seq(Posting)
  <2>1. trie.nodes \in Seq(Node) /\ Forward(trie.nodes)
    BY InvIs DEF IndexInv, TrieOk, TrieType, ShapeOf
  <2>2. QED
    BY <2>1, SearchType
<1>6. QED
  BY <1>3, <1>4, <1>5

(* A posting list has as many postings as there are lines with a count.    *)
LEMMA PostedLines ==
  ASSUME NEW post \in Seq(Posting), NEW met, DOMAIN met \subseteq Line, Posted(post, met)
  PROVE  LET due == {p \in DOMAIN met : met[p] # 0}
         IN  /\ Len(post) = Cardinality(due)
             /\ ToSet(post) = {[file |-> p.file, textId |-> p.textId, wordFrq |-> met[p]] : p \in due}
<1> DEFINE due == {p \in DOMAIN met : met[p] # 0}
           f == [a \in 1 .. Len(post) |-> LineOf(post[a])]
<1>1. /\ Len(post) \in Nat
      /\ \A a \in 1 .. Len(post) : post[a] \in Posting
      /\ \A a \in 1 .. Len(post) : post[a].file \in Nat /\ post[a].textId \in Nat
  <2>1. \A a \in 1 .. Len(post) : post[a] \in Posting
    OBVIOUS
  <2>2. QED
    BY <2>1 DEF Posting
<1>2. /\ \A a \in 1 .. Len(post) :
           LineOf(post[a]) \in DOMAIN met /\ post[a].wordFrq = met[LineOf(post[a])] /\ post[a].wordFrq # 0
      /\ \A p \in DOMAIN met : met[p] # 0 => \E a \in 1 .. Len(post) : LineOf(post[a]) = p
      /\ Ordered(post)
  BY Zenon DEF Posted
<1>3. f \in [1 .. Len(post) -> due]
  BY <1>2
<1>4. \A p \in due : \E a \in 1 .. Len(post) : f[a] = p
  BY <1>2
<1>5. ASSUME NEW a \in 1 .. Len(post), NEW b \in 1 .. Len(post), f[a] = f[b] PROVE a = b
  <2>1. post[a].file = post[b].file /\ post[a].textId = post[b].textId
    <3>1. LineOf(post[a]) = LineOf(post[b])
      BY <1>5
    <3>2. QED
      BY <3>1 DEF LineOf
  <2>2. \A c, d \in 1 .. Len(post) : c < d =>
          post[c].file < post[d].file \/ (post[c].file = post[d].file /\ post[c].textId < post[d].textId)
    BY <1>2 DEF Ordered
  <2>3. a < b => post[a].file < post[b].file \/ (post[a].file = post[b].file /\ post[a].textId < post[b].textId)
    BY <2>2, Zenon
  <2>4. b < a => post[b].file < post[a].file \/ (post[b].file = post[a].file /\ post[b].textId < post[a].textId)
    BY <2>2, Zenon
  <2>5. ~(a < b) /\ ~(b < a)
    BY <1>1, <2>1, <2>3, <2>4
  <2>6. QED
    BY <2>5
<1> HIDE DEF due, f
<1>6. f \in Bijection(1 .. Len(post), due)
  BY <1>3, <1>4, <1>5 DEF Bijection, Injection, Surjection, IsInjective
<1>7. Len(post) = Cardinality(due)
  <2>1. ExistsBijection(1 .. Len(post), due)
    BY <1>6 DEF ExistsBijection
  <2>2. IsFiniteSet(1 .. Len(post)) /\ Cardinality(1 .. Len(post)) = Len(post)
    <3>1. 1 \in Int /\ Len(post) \in Int
      BY <1>1
    <3>2. IsFiniteSet(1 .. Len(post)) /\ Cardinality(1 .. Len(post)) = IF 1 > Len(post) THEN 0 ELSE Len(post) - 1 + 1
      BY <3>1, FS_Interval
    <3>3. QED
      BY <1>1, <3>2
  <2>3. QED
    BY <2>1, <2>2, FS_Bijection
<1>8. ToSet(post) = {[file |-> p.file, textId |-> p.textId, wordFrq |-> met[p]] : p \in due}
  <2> DEFINE R(p) == [file |-> p.file, textId |-> p.textId, wordFrq |-> met[p]]
  <2>1. ASSUME NEW a \in 1 .. Len(post) PROVE LineOf(post[a]) \in due /\ post[a] = R(LineOf(post[a]))
    <3>1. LineOf(post[a]) \in due /\ post[a].wordFrq = met[LineOf(post[a])]
      BY <1>2 DEF due
    <3>2. LineOf(post[a]).file = post[a].file /\ LineOf(post[a]).textId = post[a].textId
      BY DEF LineOf
    <3>3. post[a] = [file |-> post[a].file, textId |-> post[a].textId, wordFrq |-> post[a].wordFrq]
      BY <1>1 DEF Posting
    <3>4. QED
      BY <3>1, <3>2, <3>3
  <2>2. ToSet(post) = {post[a] : a \in 1 .. Len(post)}
    BY <1>1 DEF ToSet
  <2>3. \A p \in due : \E a \in 1 .. Len(post) : LineOf(post[a]) = p
    BY <1>2 DEF due
  <2> HIDE DEF R
  <2>4. \A x \in ToSet(post) : x \in {R(p) : p \in due}
    BY <2>1, <2>2
  <2>5. ASSUME NEW p \in due PROVE R(p) \in ToSet(post)
    BY <2>1, <2>2, <2>3
  <2>6. ToSet(post) = {R(p) : p \in due}
    BY <2>4, <2>5
  <2>7. QED
    BY <2>6 DEF R
<1>9. QED
  BY <1>7, <1>8 DEF due

(* So what is found is right, for any word.                                *)
LEMMA FoundRight ==
  ASSUME IndexInv, phase = "read", Sound, NEW word \in Seq(Letters), word # <<>>
  PROVE  FoundIn(word)
<1> DEFINE post == searchWordInTrie(trie.nodes, word)
           due == {p \in Positions : Occurrences(word, LineAt(p)) # {}}
           met == [p \in Positions |-> Cardinality(Occurrences(word, LineAt(p)))]
<1>2. Posted(post, met) /\ post \in Seq(Posting)
  BY FoundIs
<1>3. files \in Seq(File)
  BY Zenon DEF IndexInv, TrieInv, File
<1>4. DOMAIN met \subseteq Line
  BY <1>3, PositionsAre DEF Positions
<1>5. \A p \in Positions : met[p] # 0 <=> Occurrences(word, LineAt(p)) # {}
  <2>1. SUFFICES ASSUME NEW p \in Positions PROVE met[p] # 0 <=> Occurrences(word, LineAt(p)) # {}
    OBVIOUS
  <2>2. LineAt(p) \in Seq(Chars)
    BY <1>3, PositionsAre DEF Positions, LineAt
  <2>3. IsFiniteSet(Occurrences(word, LineAt(p)))
    BY <2>2, OccurrencesFinite
  <2>4. QED
    BY <2>3, FS_EmptySet
<1>6. DOMAIN met = Positions
  OBVIOUS
<1>7. \A p \in Positions : met[p] = Cardinality(Occurrences(word, LineAt(p)))
  OBVIOUS
<1> HIDE DEF met
<1>8. {p \in DOMAIN met : met[p] # 0} = due
  BY <1>5, <1>6
<1> HIDE DEF post, due
<1>9. /\ Len(post) = Cardinality(due)
      /\ ToSet(post) = {[file |-> p.file, textId |-> p.textId, wordFrq |-> met[p]] : p \in due}
  BY <1>2, <1>4, <1>8, PostedLines
<1>10. {[file |-> p.file, textId |-> p.textId, wordFrq |-> met[p]] : p \in due} =
        {[file |-> p.file, textId |-> p.textId, wordFrq |-> Cardinality(Occurrences(word, LineAt(p)))] : p \in due}
  <2>1. \A p \in due : met[p] = Cardinality(Occurrences(word, LineAt(p)))
    BY <1>7 DEF due
  <2>2. QED
    BY <2>1
<1>11. QED
  BY <1>9, <1>10 DEF post, due, FoundIn

(* The words of SearchIsRight are some of these.                           *)
LEMMA WordsOfLetters == Words \subseteq Seq(Letters) \ {<<>>}
<1> SUFFICES ASSUME NEW word \in Words PROVE word \in Seq(Letters) \ {<<>>}
  OBVIOUS
<1>1. PICK n \in 1 .. 3 : word \in [1 .. n -> Letters]
  BY DEF Words
<1>2. word \in Seq(Letters) /\ Len(word) = n
  BY <1>1
<1>3. QED
  BY <1>2

\* Whatever the word is.
AnyWordFound == phase = "read" /\ Sound => \A word \in Seq(Letters) \ {<<>>} : FoundIn(word)

(* A search finds exactly the lines of exactly the files that have the     *)
(* word, each with the number of times, for any letters, any files and any *)
(* word (trie.c:88-200, 210-250, postinglist.c, textmap.c:47-102).         *)
THEOREM SearchFindsAnyWord == Spec => []AnyWordFound
<1>1. Init => IndexInv
  BY IndexInitially
<1>2. IndexInv /\ [Next]_vars => IndexInv'
  BY IndexKept
<1>3. IndexInv => AnyWordFound
  BY FoundRight DEF AnyWordFound
<1>4. QED
  BY <1>1, <1>2, <1>3, PTL DEF Spec

(* The words that a run asks for are among them.                           *)
THEOREM SearchFindsRight == Spec => []SearchIsRight
<1>1. AnyWordFound => SearchIsRight
  BY WordsOfLetters DEF AnyWordFound, SearchIsRight
<1>2. QED
  BY <1>1, SearchFindsAnyWord, PTL

------------------------------------------------------------------------------
(* maxcount and mincount: the results.                                     *)

Tallied == [file : Nat, wordFrq : Nat]

\* How many of the first k postings are of each file.
TallyOf(post, k) == [f \in Nat |-> Cardinality({a \in 1 .. k : post[a].file = f})]

\* Results for the files whose number in c is not 0, each with it, in the
\* order of the files.
Tally(results, c) ==
  /\ \A x \in 1 .. Len(results) : results[x].wordFrq = c[results[x].file] /\ results[x].wordFrq # 0
  /\ \A f \in Nat : c[f] # 0 => \E x \in 1 .. Len(results) : results[x].file = f
  /\ \A x, y \in 1 .. Len(results) : x < y => results[x].file < results[y].file

(* The types of the results.                                               *)
LEMMA TalliedIs ==
  ASSUME NEW results \in Seq(Tallied)
  PROVE  /\ Len(results) \in Nat
         /\ \A x \in 1 .. Len(results) : results[x] \in Tallied
         /\ \A x \in 1 .. Len(results) : results[x].file \in Nat /\ results[x].wordFrq \in Nat
<1>1. Len(results) \in Nat /\ \A x \in 1 .. Len(results) : results[x] \in Tallied
  OBVIOUS
<1>2. \A r \in Tallied : r.file \in Nat /\ r.wordFrq \in Nat
  BY DEF Tallied
<1>3. QED
  BY <1>1, <1>2, Zenon

(* One more of a file.                                                     *)
LEMMA OneMoreIs ==
  ASSUME NEW r \in Tallied
  PROVE  /\ [r EXCEPT !.wordFrq = @ + 1] \in Tallied
         /\ [r EXCEPT !.wordFrq = @ + 1].file = r.file
         /\ [r EXCEPT !.wordFrq = @ + 1].wordFrq = r.wordFrq + 1
BY DEF Tallied

(* The numbers up to n and the one behind them.                            *)
LEMMA OnePast ==
  ASSUME NEW n \in Nat, NEW m, m = n + 1
  PROVE  /\ \A x \in 1 .. m : x \in 1 .. n \/ x = n + 1
         /\ \A x, y \in 1 .. m : x < y => x \in 1 .. n
OBVIOUS

(* One more posting of the last file, or of one behind it.                 *)
LEMMA CountFileKeeps ==
  ASSUME NEW results \in Seq(Tallied), NEW c \in [Nat -> Nat], NEW c2 \in [Nat -> Nat], NEW f \in Nat,
         Tally(results, c), \A g \in Nat : c[g] # 0 => g <= f,
         c2[f] = c[f] + 1, \A g \in Nat : g # f => c2[g] = c[g]
  PROVE  CountFile(results, f) \in Seq(Tallied) /\ Tally(CountFile(results, f), c2)
<1> DEFINE same == {k \in 1 .. Len(results) : results[k].file = f}
           r2 == CountFile(results, f)
<1>1. /\ Len(results) \in Nat
      /\ \A x \in 1 .. Len(results) : results[x] \in Tallied
      /\ \A x \in 1 .. Len(results) : results[x].file \in Nat /\ results[x].wordFrq \in Nat
  BY TalliedIs
<1>2. /\ \A x \in 1 .. Len(results) : results[x].wordFrq = c[results[x].file] /\ results[x].wordFrq # 0
      /\ \A g \in Nat : c[g] # 0 => \E x \in 1 .. Len(results) : results[x].file = g
      /\ \A x, y \in 1 .. Len(results) : x < y => results[x].file < results[y].file
  BY Zenon DEF Tally
<1>3. ASSUME same = {} PROVE r2 \in Seq(Tallied) /\ Tally(r2, c2)
  <2> DEFINE new == [file |-> f, wordFrq |-> 1]
  <2>1. r2 = Append(results, new)
    BY <1>3 DEF CountFile
  <2>2. new \in Tallied /\ new.file = f /\ new.wordFrq = 1
    BY DEF Tallied
  <2>3. \A x \in 1 .. Len(results) : results[x].file # f
    BY <1>3
  <2>4. c[f] = 0 /\ c2[f] = 1
    <3>1. c[f] = 0
      BY <1>2, <2>3
    <3>2. QED
      BY <3>1
  <2> HIDE DEF new, r2
  <2>5. /\ r2 \in Seq(Tallied) /\ Len(r2) = Len(results) + 1 /\ r2[Len(results) + 1] = new
        /\ \A x \in 1 .. Len(results) : r2[x] = results[x]
    BY <2>1, <2>2
  <2>6. /\ \A x \in 1 .. Len(r2) : x \in 1 .. Len(results) \/ x = Len(results) + 1
        /\ \A x, y \in 1 .. Len(r2) : x < y => x \in 1 .. Len(results)
    <3>1. Len(r2) = Len(results) + 1 /\ Len(results) \in Nat
      BY <1>1, <2>5
    <3>2. QED
      BY <3>1, OnePast
  <2>7. \A x \in 1 .. Len(r2) : r2[x].wordFrq = c2[r2[x].file] /\ r2[x].wordFrq # 0
    <3>1. ASSUME NEW x \in 1 .. Len(r2) PROVE r2[x].wordFrq = c2[r2[x].file] /\ r2[x].wordFrq # 0
      <4>1. CASE x \in 1 .. Len(results)
        <5>1. r2[x] = results[x] /\ results[x].file \in Nat /\ results[x].file # f
          BY <1>1, <2>3, <2>5, <4>1
        <5>2. QED
          BY <1>2, <4>1, <5>1, ZenonT(40)
      <4>2. CASE x = Len(results) + 1
        <5>1. r2[x] = new
          BY <2>5, <4>2
        <5>2. r2[x].wordFrq = 1 /\ r2[x].file = f
          BY <2>2, <5>1
        <5>3. QED
          BY <2>4, <5>2
      <4>3. QED
        BY <2>6, <4>1, <4>2
    <3>2. QED
      BY <3>1
  <2>8. ASSUME NEW g \in Nat, c2[g] # 0 PROVE \E x \in 1 .. Len(r2) : r2[x].file = g
    <3>1. CASE g = f
      <4>1. Len(results) + 1 \in 1 .. Len(r2)
        BY <1>1, <2>5
      <4>2. QED
        BY <2>2, <2>5, <3>1, <4>1
    <3>2. CASE g # f
      <4>1. PICK x \in 1 .. Len(results) : results[x].file = g
        BY <1>2, <2>8, <3>2
      <4>2. x \in 1 .. Len(r2)
        BY <1>1, <2>5
      <4>3. QED
        BY <2>5, <4>1, <4>2
    <3>3. QED
      BY <3>1, <3>2
  <2>9. ASSUME NEW x \in 1 .. Len(r2), NEW y \in 1 .. Len(r2), x < y PROVE r2[x].file < r2[y].file
    <3>1. x \in 1 .. Len(results) /\ r2[x] = results[x]
      BY <2>5, <2>6, <2>9
    <3>2. CASE y \in 1 .. Len(results)
      BY <1>2, <2>5, <2>9, <3>1, <3>2
    <3>3. CASE y = Len(results) + 1
      <4>1. r2[y].file = f
        BY <2>2, <2>5, <3>3
      <4>2. results[x].file \in Nat /\ results[x].file # f /\ c[results[x].file] # 0
        BY <1>1, <1>2, <2>3, <3>1
      <4>3. results[x].file <= f
        BY <4>2
      <4> DEFINE h == results[x].file
      <4>4. h < f
        <5>1. h \in Nat /\ h <= f /\ h # f
          BY <4>2, <4>3
        <5> HIDE DEF h
        <5>2. QED
          BY <5>1
      <4>5. QED
        BY <3>1, <4>1, <4>4
    <3>4. QED
      BY <2>6, <3>2, <3>3
  <2>10. QED
    BY <2>5, <2>7, <2>8, <2>9, Zenon DEF Tally
<1>4. ASSUME same # {} PROVE r2 \in Seq(Tallied) /\ Tally(r2, c2)
  <2> DEFINE z == Min(same)
             new == [results[z] EXCEPT !.wordFrq = @ + 1]
  <2>1. z \in same
    <3>1. same \subseteq Nat
      BY <1>1
    <3>2. \E m \in same : \A k \in same : m <= k
      <4> HIDE DEF same
      <4>1. QED
        BY <1>4, <3>1, LeastOf
    <3>3. QED
      BY <3>2 DEF Min
  <2>2. z \in 1 .. Len(results) /\ results[z].file = f
    BY <2>1
  <2>3. r2 = [results EXCEPT ![z].wordFrq = @ + 1]
    BY <1>4 DEF CountFile
  <2> HIDE DEF z, same
  <2>4. r2 = [results EXCEPT ![z] = new]
    BY <2>3
  <2>5. new.file = f /\ new.wordFrq = results[z].wordFrq + 1 /\ new \in Tallied
    <3>1. results[z] \in Tallied
      BY <1>1, <2>2
    <3>2. QED
      BY <2>2, <3>1, OneMoreIs
  <2>6. \A y \in 1 .. Len(results) : results[y].file = f => y = z
    <3>1. SUFFICES ASSUME NEW y \in 1 .. Len(results), results[y].file = f, y # z PROVE FALSE
      OBVIOUS
    <3>2. y < z \/ z < y
      BY <2>2, <3>1
    <3>3. y < z => results[y].file < results[z].file
      BY <1>2, <2>2, Zenon
    <3>4. z < y => results[z].file < results[y].file
      BY <1>2, <2>2, Zenon
    <3>5. QED
      BY <2>2, <3>1, <3>2, <3>3, <3>4
  <2> HIDE DEF new, r2
  <2>7. /\ r2 \in Seq(Tallied) /\ Len(r2) = Len(results) /\ r2[z] = new
        /\ \A y \in 1 .. Len(results) : y # z => r2[y] = results[y]
    BY <1>1, <2>2, <2>4, <2>5
  <2>8. \A y \in 1 .. Len(results) : r2[y].file = results[y].file
    BY <2>2, <2>5, <2>7
  <2>9. ASSUME NEW x \in 1 .. Len(r2) PROVE r2[x].wordFrq = c2[r2[x].file] /\ r2[x].wordFrq # 0
    <3>1. CASE x = z
      <4>1. results[z].wordFrq = c[f] /\ results[z].wordFrq \in Nat
        BY <1>1, <1>2, <2>2
      <4>2. r2[x].wordFrq = results[z].wordFrq + 1 /\ r2[x].file = f
        BY <2>5, <2>7, <3>1
      <4>3. c2[f] = c[f] + 1
        OBVIOUS
      <4> DEFINE m == results[z].wordFrq
      <4> HIDE DEF m
      <4>4. r2[x].wordFrq = m + 1 /\ m \in Nat /\ c2[r2[x].file] = m + 1
        BY <4>1, <4>2, <4>3, Zenon DEF m
      <4>5. QED
        BY <4>4
    <3>2. CASE x # z
      <4>1. r2[x] = results[x] /\ results[x].file # f /\ results[x].file \in Nat /\ x \in 1 .. Len(results)
        BY <1>1, <2>6, <2>7, <3>2
      <4>2. QED
        BY <1>2, <4>1, ZenonT(40)
    <3>3. QED
      BY <3>1, <3>2
  <2>10. ASSUME NEW g \in Nat, c2[g] # 0 PROVE \E x \in 1 .. Len(r2) : r2[x].file = g
    <3>1. CASE g = f
      BY <2>2, <2>7, <2>8, <3>1
    <3>2. CASE g # f
      <4>1. PICK x \in 1 .. Len(results) : results[x].file = g
        BY <1>2, <2>10, <3>2
      <4>2. QED
        BY <2>7, <2>8, <4>1
    <3>3. QED
      BY <3>1, <3>2
  <2>11. \A x, y \in 1 .. Len(r2) : x < y => r2[x].file < r2[y].file
    BY <1>2, <2>7, <2>8
  <2>12. QED
    BY <2>7, <2>9, <2>10, <2>11, Zenon DEF Tally
<1>5. QED
  BY <1>3, <1>4

(* The postings of each file are counted one by one.                       *)
LEMMA TallyNext ==
  ASSUME NEW post \in Seq(Posting), Ordered(post)
  PROVE  /\ \A k \in 0 .. Len(post) : TallyOf(post, k) \in [Nat -> Nat]
         /\ \A f \in Nat : TallyOf(post, 0)[f] = 0
         /\ \A k \in 1 .. Len(post) :
              /\ post[k].file \in Nat
              /\ \A f \in Nat : TallyOf(post, k - 1)[f] # 0 => f <= post[k].file
              /\ TallyOf(post, k)[post[k].file] = TallyOf(post, k - 1)[post[k].file] + 1
              /\ \A f \in Nat : f # post[k].file => TallyOf(post, k)[f] = TallyOf(post, k - 1)[f]
<1> DEFINE of(k, f) == {a \in 1 .. k : post[a].file = f}
<1>1. /\ Len(post) \in Nat
      /\ \A a \in 1 .. Len(post) : post[a].file \in Nat /\ post[a].textId \in Nat
  <2>1. \A a \in 1 .. Len(post) : post[a] \in Posting
    OBVIOUS
  <2>2. QED
    BY <2>1 DEF Posting
<1>2. \A k \in Nat : \A f : IsFiniteSet(of(k, f)) /\ Cardinality(of(k, f)) \in Nat
  <2>1. SUFFICES ASSUME NEW k \in Nat, NEW f PROVE IsFiniteSet(of(k, f)) /\ Cardinality(of(k, f)) \in Nat
    OBVIOUS
  <2>2. of(k, f) \in SUBSET (1 .. k)
    OBVIOUS
  <2>3. IsFiniteSet(1 .. k)
    BY FS_Interval
  <2>4. QED
    BY <2>2, <2>3, FS_Subset, FS_CardinalityType
<1>3. \A k \in Nat : \A f \in Nat : TallyOf(post, k)[f] = Cardinality(of(k, f))
  BY DEF TallyOf
<1>4. \A k \in 0 .. Len(post) : TallyOf(post, k) \in [Nat -> Nat]
  <2>1. SUFFICES ASSUME NEW k \in 0 .. Len(post) PROVE TallyOf(post, k) \in [Nat -> Nat]
    OBVIOUS
  <2>2. k \in Nat
    BY <1>1
  <2>3. TallyOf(post, k) = [f \in Nat |-> Cardinality(of(k, f))]
    BY DEF TallyOf
  <2> HIDE DEF of
  <2>4. QED
    BY <1>2, <2>2, <2>3
<1>5. \A f \in Nat : TallyOf(post, 0)[f] = 0
  <2>1. \A f : of(0, f) = {}
    OBVIOUS
  <2> HIDE DEF of
  <2>2. Cardinality({}) = 0 /\ 0 \in Nat
    BY FS_EmptySet
  <2>3. QED
    BY <1>3, <2>1, <2>2, Zenon
<1>6. ASSUME NEW k \in 1 .. Len(post)
      PROVE  /\ post[k].file \in Nat
             /\ \A f \in Nat : TallyOf(post, k - 1)[f] # 0 => f <= post[k].file
             /\ TallyOf(post, k)[post[k].file] = TallyOf(post, k - 1)[post[k].file] + 1
             /\ \A f \in Nat : f # post[k].file => TallyOf(post, k)[f] = TallyOf(post, k - 1)[f]
  <2>1. k \in Nat /\ k - 1 \in Nat /\ post[k].file \in Nat
    BY <1>1
  <2>2. \A f : of(k, f) = of(k - 1, f) \cup (IF f = post[k].file THEN {k} ELSE {})
    <3>1. \A a : a \in 1 .. k <=> a \in 1 .. k - 1 \/ a = k
      BY <2>1
    <3>2. QED
      BY <3>1
  <2>3. \A f : k \notin of(k - 1, f)
    BY <2>1
  <2>4. ASSUME NEW f \in Nat, TallyOf(post, k - 1)[f] # 0 PROVE f <= post[k].file
    <3>1. of(k - 1, f) # {}
      <4> HIDE DEF of
      <4>1. Cardinality(of(k - 1, f)) # 0
        BY <1>3, <2>1, <2>4
      <4>2. QED
        BY <4>1, FS_EmptySet
    <3>2. PICK a \in 1 .. k - 1 : post[a].file = f
      BY <3>1
    <3>3. a \in 1 .. Len(post) /\ a < k
      BY <1>1
    <3>4. post[a].file < post[k].file \/ (post[a].file = post[k].file /\ post[a].textId < post[k].textId)
      BY <3>3, Zenon DEF Ordered
    <3>5. QED
      BY <1>1, <3>2, <3>3, <3>4
  <2> HIDE DEF of
  <2>5. Cardinality(of(k, post[k].file)) = Cardinality(of(k - 1, post[k].file)) + 1
    <3>1. of(k, post[k].file) = of(k - 1, post[k].file) \cup {k}
      BY <2>2
    <3>2. QED
      BY <1>2, <2>1, <2>3, <3>1, FS_AddElement
  <2>6. \A f \in Nat : f # post[k].file => of(k, f) = of(k - 1, f)
    BY <2>2
  <2>7. QED
    BY <1>3, <2>1, <2>4, <2>5, <2>6
<1>7. QED
  BY <1>4, <1>5, <1>6

(* The results are these.                                                  *)
LEMMA ResultsAre ==
  ASSUME NEW post \in Seq(Posting), Ordered(post)
  PROVE  createCountResults(post) \in Seq(Tallied) /\ Tally(createCountResults(post), TallyOf(post, Len(post)))
<1> DEFINE n == Len(post)
           upTo[k \in 0 .. n] == IF k = 0 THEN <<>> ELSE CountFile(upTo[k - 1], post[k].file)
           g == [k \in 1 .. n |-> [r \in Seq(Tallied) |->
                   IF CountFile(r, post[k].file) \in Seq(Tallied) THEN CountFile(r, post[k].file) ELSE <<>>]]
<1>1. n \in Nat /\ <<>> \in Seq(Tallied)
  OBVIOUS
<1>2. \A k \in 1 .. n : \A r \in Seq(Tallied) :
        /\ g[k][r] = IF CountFile(r, post[k].file) \in Seq(Tallied) THEN CountFile(r, post[k].file) ELSE <<>>
        /\ g[k][r] \in Seq(Tallied)
  OBVIOUS
<1> HIDE DEF g
<1>3. PICK f \in [0 .. n -> Seq(Tallied)] : f[0] = <<>> /\ MadeFrom(f, g, n)
  <2> HIDE DEF n
  <2>1. QED
    BY <1>1, <1>2, Recursion
<1> DEFINE S == {k \in 0 .. n : Tally(f[k], TallyOf(post, k))}
<1>4. 0 \in S
  <2>1. Tally(<<>>, TallyOf(post, 0))
    BY TallyNext DEF Tally
  <2>2. QED
    BY <1>1, <1>3, <2>1
<1>5. ASSUME NEW k \in 1 .. n, k - 1 \in S
      PROVE  k \in S /\ f[k] = CountFile(f[k - 1], post[k].file)
  <2> DEFINE r == f[k - 1]
             c == TallyOf(post, k - 1)
             c2 == TallyOf(post, k)
             file == post[k].file
  <2>1. k - 1 \in 0 .. n /\ k \in 0 .. n /\ r \in Seq(Tallied) /\ Tally(r, c)
    BY <1>1, <1>5
  <2>2. /\ c \in [Nat -> Nat] /\ c2 \in [Nat -> Nat] /\ file \in Nat
        /\ \A h \in Nat : c[h] # 0 => h <= file
        /\ c2[file] = c[file] + 1 /\ \A h \in Nat : h # file => c2[h] = c[h]
    BY <2>1, TallyNext
  <2>3. f[k] = g[k][r]
    BY <1>3 DEF MadeFrom
  <2> HIDE DEF r, c, c2, file
  <2>4. CountFile(r, file) \in Seq(Tallied) /\ Tally(CountFile(r, file), c2)
    BY <2>1, <2>2, CountFileKeeps
  <2>5. f[k] = CountFile(r, file)
    BY <1>2, <2>1, <2>3, <2>4 DEF file
  <2>6. QED
    BY <2>1, <2>4, <2>5 DEF r, c2, file
<1>6. \A k \in 0 .. n : k \in S
  <2> HIDE DEF S, n
  <2>1. \A k \in 1 .. n : k - 1 \in S => k \in S
    BY <1>5
  <2>2. QED
    BY <1>1, <1>4, <2>1, CountUp
<1>7. \A k \in 1 .. n : f[k] = CountFile(f[k - 1], post[k].file)
  <2>1. ASSUME NEW k \in 1 .. n PROVE f[k] = CountFile(f[k - 1], post[k].file)
    <3>1. k - 1 \in 0 .. n
      BY <1>1
    <3> HIDE DEF S
    <3>2. QED
      BY <1>5, <1>6, <3>1
  <2>2. QED
    BY <2>1
<1>8. f = [k \in 0 .. n |-> IF k = 0 THEN <<>> ELSE CountFile(f[k - 1], post[k].file)]
  <2> DEFINE G(k) == IF k = 0 THEN <<>> ELSE CountFile(f[k - 1], post[k].file)
  <2>1. \A k \in 0 .. n : f[k] = G(k)
    BY <1>1, <1>3, <1>7
  <2> HIDE DEF G
  <2>2. f = [k \in 0 .. n |-> G(k)]
    BY <2>1
  <2>3. QED
    BY <2>2 DEF G
<1>9. upTo = [k \in 0 .. n |-> IF k = 0 THEN <<>> ELSE CountFile(upTo[k - 1], post[k].file)]
  BY <1>8
<1>10. createCountResults(post) = upTo[n]
  BY DEF createCountResults
<1> HIDE DEF upTo
<1>11. upTo[0] = <<>> /\ \A k \in 1 .. n : upTo[k] = CountFile(upTo[k - 1], post[k].file)
  BY <1>1, <1>9
<1> DEFINE E == {k \in 0 .. n : upTo[k] = f[k]}
<1>12. 0 \in E /\ \A k \in 1 .. n : k - 1 \in E => k \in E
  BY <1>1, <1>3, <1>7, <1>11
<1>13. upTo[n] = f[n] /\ n \in S
  <2> HIDE DEF E, S, n
  <2>1. \A k \in 0 .. n : k \in E
    BY <1>1, <1>12, CountUp
  <2>2. QED
    BY <1>1, <1>6, <2>1 DEF E
<1>14. QED
  BY <1>1, <1>10, <1>13

------------------------------------------------------------------------------
(* The loops over the results.                                             *)

\* g says which of two results is preferred, the one so far and the next.
Prefers(g, n) == \A k \in 2 .. n : \A a \in 1 .. n : g[k][a] \in {a, k}

(* A loop over the results that keeps the one it prefers.                  *)
LEMMA Preferred ==
  ASSUME NEW n \in Nat, n # 0, NEW g, Prefers(g, n)
  PROVE  \E f \in [1 .. n -> 1 .. n] : f[1] = 1 /\ \A k \in 2 .. n : f[k] = g[k][f[k - 1]]
<1> DEFINE h == [k \in 1 .. n - 1 |-> [a \in 1 .. n |-> g[k + 1][a]]]
<1>1. n - 1 \in Nat /\ 1 \in 1 .. n
  OBVIOUS
<1>2. \A k \in 1 .. n - 1 : \A a \in 1 .. n : h[k][a] = g[k + 1][a] /\ h[k][a] \in 1 .. n
  <2>1. \A k \in 1 .. n - 1 : k + 1 \in 2 .. n /\ k + 1 \in 1 .. n
    OBVIOUS
  <2>2. \A k \in 1 .. n - 1 : \A a \in 1 .. n : h[k][a] = g[k + 1][a]
    OBVIOUS
  <2> HIDE DEF h
  <2>3. ASSUME NEW k \in 1 .. n - 1, NEW a \in 1 .. n PROVE h[k][a] \in 1 .. n
    <3>1. g[k + 1][a] = a \/ g[k + 1][a] = k + 1
      BY <2>1 DEF Prefers
    <3>2. QED
      BY <2>1, <2>2, <3>1
  <2>4. QED
    BY <2>2, <2>3
<1> HIDE DEF h
<1>3. PICK e \in [0 .. n - 1 -> 1 .. n] : e[0] = 1 /\ MadeFrom(e, h, n - 1)
  <2> DEFINE A == 1 .. n
  <2>1. 1 \in A /\ \A k \in 1 .. n - 1 : \A a \in A : h[k][a] \in A
    BY <1>1, <1>2
  <2> HIDE DEF A
  <2>2. \E e \in [0 .. n - 1 -> A] : e[0] = 1 /\ MadeFrom(e, h, n - 1)
    BY <1>1, <2>1, Recursion
  <2>3. QED
    BY <2>2 DEF A
<1> DEFINE f == [k \in 1 .. n |-> e[k - 1]]
<1>4. f \in [1 .. n -> 1 .. n] /\ f[1] = 1 /\ \A k \in 1 .. n : f[k] = e[k - 1]
  <2>1. \A k \in 1 .. n : k - 1 \in 0 .. n - 1
    OBVIOUS
  <2>2. QED
    BY <1>1, <1>3, <2>1
<1>5. ASSUME NEW k \in 2 .. n PROVE f[k] = g[k][f[k - 1]]
  <2>1. k - 1 \in 1 .. n - 1 /\ k - 1 \in 1 .. n /\ k \in 1 .. n /\ (k - 1) + 1 = k /\ (k - 1) - 1 \in 0 .. n - 1
    OBVIOUS
  <2>2. e[k - 1] = h[k - 1][e[(k - 1) - 1]]
    BY <1>3, <2>1 DEF MadeFrom
  <2>3. e[(k - 1) - 1] \in 1 .. n
    BY <2>1
  <2>4. h[k - 1][e[(k - 1) - 1]] = g[(k - 1) + 1][e[(k - 1) - 1]]
    BY <1>2, <2>1, <2>3
  <2> HIDE DEF f
  <2>5. f[k] = e[k - 1] /\ f[k - 1] = e[(k - 1) - 1]
    BY <1>4, <2>1
  <2>6. QED
    BY <2>1, <2>2, <2>4, <2>5
<1> HIDE DEF f
<1>6. QED
  BY <1>4, <1>5

\* The last of the largest, and the first of the smallest, of the first k.
LastLargest(results, k, m) ==
  /\ m \in 1 .. k
  /\ \A x \in 1 .. k : results[x].wordFrq <= results[m].wordFrq
  /\ \A x \in 1 .. k : results[x].wordFrq = results[m].wordFrq => x <= m

FirstSmallest(results, k, m) ==
  /\ m \in 1 .. k
  /\ \A x \in 1 .. k : results[m].wordFrq <= results[x].wordFrq
  /\ \A x \in 1 .. k : results[x].wordFrq = results[m].wordFrq => m <= x

(* One more result.                                                        *)
LEMMA BestNext ==
  ASSUME NEW results \in Seq(Tallied), NEW k \in 2 .. Len(results), NEW m
  PROVE  /\ LastLargest(results, k - 1, m) =>
              LastLargest(results, k, IF results[m].wordFrq <= results[k].wordFrq THEN k ELSE m)
         /\ FirstSmallest(results, k - 1, m) =>
              FirstSmallest(results, k, IF results[m].wordFrq > results[k].wordFrq THEN k ELSE m)
<1> DEFINE v(x) == results[x].wordFrq
<1>1. Len(results) \in Nat /\ \A x \in 1 .. Len(results) : v(x) \in Nat
  BY TalliedIs
<1> HIDE DEF v
<1>2. \A x \in 1 .. k : (x \in 1 .. k - 1 \/ x = k) /\ v(x) \in Nat
  BY <1>1
<1>3. k \in 1 .. k
  OBVIOUS
<1>4. ASSUME LastLargest(results, k - 1, m)
      PROVE  LastLargest(results, k, IF v(m) <= v(k) THEN k ELSE m)
  <2>1. /\ m \in 1 .. k - 1
        /\ \A x \in 1 .. k - 1 : v(x) <= v(m)
        /\ \A x \in 1 .. k - 1 : v(x) = v(m) => x <= m
    BY <1>4 DEF LastLargest, v
  <2>2. m \in 1 .. k
    BY <2>1
  <2>3. CASE v(m) <= v(k)
    <3>1. \A x \in 1 .. k : v(x) <= v(k)
      BY <1>2, <1>3, <2>1, <2>2, <2>3
    <3>2. \A x \in 1 .. k : x <= k
      OBVIOUS
    <3>3. LastLargest(results, k, k)
      BY <1>3, <3>1, <3>2 DEF LastLargest, v
    <3>4. QED
      BY <2>3, <3>3
  <2>4. CASE ~(v(m) <= v(k))
    <3>1. v(k) < v(m)
      BY <1>2, <1>3, <2>2, <2>4
    <3>2. \A x \in 1 .. k : v(x) <= v(m)
      BY <1>2, <2>1, <2>2, <3>1
    <3>3. \A x \in 1 .. k : v(x) = v(m) => x <= m
      BY <1>2, <1>3, <2>1, <2>2, <3>1
    <3>4. LastLargest(results, k, m)
      BY <2>2, <3>2, <3>3 DEF LastLargest, v
    <3>5. QED
      BY <2>4, <3>4
  <2>5. QED
    BY <2>3, <2>4
<1>5. ASSUME FirstSmallest(results, k - 1, m)
      PROVE  FirstSmallest(results, k, IF v(m) > v(k) THEN k ELSE m)
  <2>1. /\ m \in 1 .. k - 1
        /\ \A x \in 1 .. k - 1 : v(m) <= v(x)
        /\ \A x \in 1 .. k - 1 : v(x) = v(m) => m <= x
    BY <1>5 DEF FirstSmallest, v
  <2>2. m \in 1 .. k /\ m <= k
    BY <2>1
  <2>3. CASE v(m) > v(k)
    <3>1. \A x \in 1 .. k : v(k) <= v(x)
      BY <1>2, <1>3, <2>1, <2>2, <2>3
    <3>2. \A x \in 1 .. k : v(x) = v(k) => k <= x
      BY <1>2, <1>3, <2>1, <2>2, <2>3
    <3>3. FirstSmallest(results, k, k)
      BY <1>3, <3>1, <3>2 DEF FirstSmallest, v
    <3>4. QED
      BY <2>3, <3>3
  <2>4. CASE ~(v(m) > v(k))
    <3>1. v(m) <= v(k)
      BY <1>2, <1>3, <2>2, <2>4
    <3>2. \A x \in 1 .. k : v(m) <= v(x)
      BY <1>2, <2>1, <2>2, <3>1
    <3>3. \A x \in 1 .. k : v(x) = v(m) => m <= x
      BY <1>2, <1>3, <2>1, <2>2
    <3>4. FirstSmallest(results, k, m)
      BY <2>2, <3>2, <3>3 DEF FirstSmallest, v
    <3>5. QED
      BY <2>4, <3>4
  <2>5. QED
    BY <2>3, <2>4
<1>6. QED
  BY <1>4, <1>5 DEF v

(* The result that is put at the head stands there.                        *)
LEMMA HeadIs ==
  ASSUME NEW results \in Seq(Tallied), NEW m \in 1 .. Len(results)
  PROVE  Answer(ToHead(results, m)) = results[m]
<1> DEFINE r2 == [results EXCEPT ![1] = results[m], ![m] = results[1]]
<1>1. Len(results) \in Nat /\ results # <<>> /\ 1 \in 1 .. Len(results)
  OBVIOUS
<1>2. ToHead(results, m) = r2
  BY <1>1 DEF ToHead
<1>3. results[m] \in Tallied /\ results[1] \in Tallied
  BY <1>1, TalliedIs
<1>4. r2 \in Seq(Tallied) /\ Len(r2) = Len(results) /\ r2[1] = results[m]
  BY <1>1, <1>3
<1> HIDE DEF r2
<1>5. r2 # <<>> /\ Head(r2) = r2[1]
  BY <1>1, <1>4
<1>6. QED
  BY <1>2, <1>4, <1>5 DEF Answer

(* maxFinder and minFinder find these.                                     *)
LEMMA FindersAre ==
  ASSUME NEW results \in Seq(Tallied), results # <<>>
  PROVE  /\ \E m : LastLargest(results, Len(results), m) /\ Answer(maxFinder(results)) = results[m]
         /\ \E m : FirstSmallest(results, Len(results), m) /\ Answer(minFinder(results)) = results[m]
<1> DEFINE n == Len(results)
           largest[k \in 1 .. n] ==
             IF k = 1 THEN 1
             ELSE IF results[largest[k - 1]].wordFrq <= results[k].wordFrq THEN k ELSE largest[k - 1]
           smallest[k \in 1 .. n] ==
             IF k = 1 THEN 1
             ELSE IF results[smallest[k - 1]].wordFrq > results[k].wordFrq THEN k ELSE smallest[k - 1]
           over(k, a) == IF results[a].wordFrq <= results[k].wordFrq THEN k ELSE a
           under(k, a) == IF results[a].wordFrq > results[k].wordFrq THEN k ELSE a
<1>1. n \in Nat /\ n # 0 /\ 1 \in 1 .. n
  OBVIOUS
<1>2. largest[1] = 1 /\ \A k \in 2 .. n : largest[k] = over(k, largest[k - 1])
  <2> DEFINE g == [k \in 2 .. n |-> [a \in 1 .. n |-> over(k, a)]]
  <2>1. \A k \in 2 .. n : \A a \in 1 .. n : g[k][a] = over(k, a) /\ over(k, a) \in {a, k}
    OBVIOUS
  <2> HIDE DEF g, over
  <2>2. PICK f \in [1 .. n -> 1 .. n] : f[1] = 1 /\ \A k \in 2 .. n : f[k] = g[k][f[k - 1]]
    <3> HIDE DEF n
    <3>1. Prefers(g, n)
      BY <2>1 DEF Prefers
    <3>2. QED
      BY <1>1, <3>1, Preferred
  <2>3. \A k \in 2 .. n : f[k] = over(k, f[k - 1])
    <3>1. \A k \in 2 .. n : k - 1 \in 1 .. n
      OBVIOUS
    <3>2. QED
      BY <2>1, <2>2, <3>1
  <2>4. \A k \in 1 .. n : f[k] = IF k = 1 THEN 1 ELSE over(k, f[k - 1])
    <3>1. \A k \in 1 .. n : k = 1 \/ k \in 2 .. n
      OBVIOUS
    <3>2. QED
      BY <2>2, <2>3, <3>1
  <2>5. f = [k \in 1 .. n |-> IF k = 1 THEN 1 ELSE over(k, f[k - 1])]
    BY <2>4
  <2>6. largest = [k \in 1 .. n |-> IF k = 1 THEN 1 ELSE over(k, largest[k - 1])]
    BY <2>5 DEF over
  <2> HIDE DEF largest
  <2>7. \A k \in 2 .. n : k \in 1 .. n /\ k # 1
    OBVIOUS
  <2>8. QED
    BY <1>1, <2>6, <2>7
<1>3. smallest[1] = 1 /\ \A k \in 2 .. n : smallest[k] = under(k, smallest[k - 1])
  <2> DEFINE g == [k \in 2 .. n |-> [a \in 1 .. n |-> under(k, a)]]
  <2>1. \A k \in 2 .. n : \A a \in 1 .. n : g[k][a] = under(k, a) /\ under(k, a) \in {a, k}
    OBVIOUS
  <2> HIDE DEF g, under
  <2>2. PICK f \in [1 .. n -> 1 .. n] : f[1] = 1 /\ \A k \in 2 .. n : f[k] = g[k][f[k - 1]]
    <3> HIDE DEF n
    <3>1. Prefers(g, n)
      BY <2>1 DEF Prefers
    <3>2. QED
      BY <1>1, <3>1, Preferred
  <2>3. \A k \in 2 .. n : f[k] = under(k, f[k - 1])
    <3>1. \A k \in 2 .. n : k - 1 \in 1 .. n
      OBVIOUS
    <3>2. QED
      BY <2>1, <2>2, <3>1
  <2>4. \A k \in 1 .. n : f[k] = IF k = 1 THEN 1 ELSE under(k, f[k - 1])
    <3>1. \A k \in 1 .. n : k = 1 \/ k \in 2 .. n
      OBVIOUS
    <3>2. QED
      BY <2>2, <2>3, <3>1
  <2>5. f = [k \in 1 .. n |-> IF k = 1 THEN 1 ELSE under(k, f[k - 1])]
    BY <2>4
  <2>6. smallest = [k \in 1 .. n |-> IF k = 1 THEN 1 ELSE under(k, smallest[k - 1])]
    BY <2>5 DEF under
  <2> HIDE DEF smallest
  <2>7. \A k \in 2 .. n : k \in 1 .. n /\ k # 1
    OBVIOUS
  <2>8. QED
    BY <1>1, <2>6, <2>7
<1>4. maxFinder(results) = ToHead(results, largest[n]) /\ minFinder(results) = ToHead(results, smallest[n])
  BY DEF maxFinder, minFinder
<1> HIDE DEF largest, smallest
<1> DEFINE S == {k \in 0 .. n - 1 : LastLargest(results, k + 1, largest[k + 1]) /\ FirstSmallest(results, k + 1, smallest[k + 1])}
<1>5. 0 \in S
  <2>1. LastLargest(results, 1, 1) /\ FirstSmallest(results, 1, 1)
    <3>1. results[1].wordFrq \in Nat
      BY <1>1, TalliedIs
    <3>2. \A x \in 1 .. 1 : x = 1
      OBVIOUS
    <3>3. results[1].wordFrq <= results[1].wordFrq
      BY <3>1
    <3>4. QED
      BY <3>2, <3>3 DEF LastLargest, FirstSmallest
  <2>2. QED
    BY <1>1, <1>2, <1>3, <2>1
<1>6. ASSUME NEW k \in 1 .. n - 1, k - 1 \in S PROVE k \in S
  <2>1. k + 1 \in 2 .. n /\ (k + 1) - 1 = k /\ (k - 1) + 1 = k /\ k \in 0 .. n - 1
    BY <1>1
  <2>2. LastLargest(results, (k + 1) - 1, largest[k]) /\ FirstSmallest(results, (k + 1) - 1, smallest[k])
    BY <1>6, <2>1
  <2>3. largest[k + 1] = over(k + 1, largest[k]) /\ smallest[k + 1] = under(k + 1, smallest[k])
    BY <1>2, <1>3, <2>1
  <2>4. LastLargest(results, k + 1, over(k + 1, largest[k])) /\ FirstSmallest(results, k + 1, under(k + 1, smallest[k]))
    BY <2>1, <2>2, BestNext
  <2>5. QED
    BY <2>1, <2>3, <2>4
<1>7. n - 1 \in S
  <2> HIDE DEF S, n
  <2>1. n - 1 \in Nat
    BY <1>1
  <2>2. \A k \in 0 .. n - 1 : k \in S
    BY <1>5, <1>6, <2>1, CountUp
  <2>3. QED
    BY <2>1, <2>2
<1>8. (n - 1) + 1 = n
  BY <1>1
<1>9. LastLargest(results, n, largest[n]) /\ FirstSmallest(results, n, smallest[n])
  BY <1>7, <1>8
<1>10. largest[n] \in 1 .. n /\ smallest[n] \in 1 .. n
  BY <1>9 DEF LastLargest, FirstSmallest
<1>11. Answer(maxFinder(results)) = results[largest[n]] /\ Answer(minFinder(results)) = results[smallest[n]]
  BY <1>4, <1>10, HeadIs
<1>12. QED
  BY <1>9, <1>11

(* A greatest number is the greatest.                                      *)
LEMMA MaxIs ==
  ASSUME NEW T \in SUBSET Nat, NEW m \in T, \A k \in T : k <= m
  PROVE  Max(T) = m
<1>1. Max(T) \in T /\ \A k \in T : Max(T) >= k
  BY DEF Max
<1>2. Max(T) <= m /\ m <= Max(T) /\ m \in Nat /\ Max(T) \in Nat
  BY <1>1
<1>3. QED
  BY <1>2

\* The numbers of c are those of the first n files.
Agrees(c, lines, n) == \A f \in Nat : c[f] = IF f \in 1 .. n THEN lines[f] ELSE 0

(* The results that are found are of the last file with the most lines and *)
(* the first with the fewest.                                              *)
LEMMA BestIs ==
  ASSUME NEW results \in Seq(Tallied), NEW c, Tally(results, c),
         NEW n \in Nat, NEW lines \in [1 .. n -> Nat], Agrees(c, lines, n)
  PROVE  LET having == {f \in 1 .. n : lines[f] > 0}
             most   == {f \in having : \A g \in having : lines[f] >= lines[g]}
             fewest == {f \in having : \A g \in having : lines[f] <= lines[g]}
         IN  /\ having = {} <=> results = <<>>
             /\ \A m : LastLargest(results, Len(results), m) =>
                  results[m] = [file |-> Max(most), wordFrq |-> lines[Max(most)]]
             /\ \A m : FirstSmallest(results, Len(results), m) =>
                  results[m] = [file |-> Min(fewest), wordFrq |-> lines[Min(fewest)]]
<1> DEFINE having == {f \in 1 .. n : lines[f] > 0}
           most   == {f \in having : \A g \in having : lines[f] >= lines[g]}
           fewest == {f \in having : \A g \in having : lines[f] <= lines[g]}
<1>1. /\ Len(results) \in Nat
      /\ \A x \in 1 .. Len(results) : results[x] \in Tallied
      /\ \A x \in 1 .. Len(results) : results[x].file \in Nat /\ results[x].wordFrq \in Nat
  BY TalliedIs
<1>2. /\ \A x \in 1 .. Len(results) : results[x].wordFrq = c[results[x].file] /\ results[x].wordFrq # 0
      /\ \A f \in Nat : c[f] # 0 => \E x \in 1 .. Len(results) : results[x].file = f
      /\ \A x, y \in 1 .. Len(results) : x < y => results[x].file < results[y].file
  BY Zenon DEF Tally
<1>3. \A f \in 1 .. n : c[f] = lines[f] /\ lines[f] \in Nat /\ f \in Nat
  BY DEF Agrees
<1>4. ASSUME NEW x \in 1 .. Len(results)
      PROVE  results[x].file \in having /\ results[x].wordFrq = lines[results[x].file]
  <2> DEFINE f == results[x].file
             v == results[x].wordFrq
  <2>1. f \in Nat /\ v \in Nat /\ v = c[f] /\ v # 0
    BY <1>1, <1>2
  <2> HIDE DEF f, v
  <2>2. f \in 1 .. n
    BY <2>1 DEF Agrees
  <2>3. lines[f] = v /\ lines[f] > 0
    BY <1>3, <2>1, <2>2
  <2>4. QED
    BY <2>2, <2>3 DEF f, v
<1>5. ASSUME NEW f \in having PROVE \E x \in 1 .. Len(results) : results[x].file = f
  <2>1. f \in Nat /\ c[f] # 0
    BY <1>3
  <2>2. QED
    BY <1>2, <2>1
<1>6. having = {} <=> results = <<>>
  <2>1. results = <<>> => having = {}
    <3>1. SUFFICES ASSUME results = <<>>, having # {} PROVE FALSE
      OBVIOUS
    <3>2. PICK f : f \in having
      BY <3>1
    <3>3. PICK x \in 1 .. Len(results) : results[x].file = f
      BY <1>5, <3>2
    <3>4. QED
      BY <3>1, <3>3
  <2>2. results # <<>> => having # {}
    <3>1. SUFFICES ASSUME results # <<>> PROVE having # {}
      OBVIOUS
    <3>2. 1 \in 1 .. Len(results)
      BY <3>1
    <3> HIDE DEF having
    <3>3. QED
      BY <1>4, <3>2
  <2>3. QED
    BY <2>1, <2>2
<1>7. having \subseteq 1 .. n /\ most \subseteq having /\ fewest \subseteq having
  OBVIOUS
<1>8. \A f \in having : f \in Nat /\ lines[f] \in Nat
  BY <1>3
<1>9. ASSUME NEW m \in 1 .. Len(results), NEW f \in Nat, results[m].file = f, results[m].wordFrq = lines[f]
      PROVE  results[m] = [file |-> f, wordFrq |-> lines[f]]
  BY <1>1, <1>9 DEF Tallied
<1>10. ASSUME NEW m, LastLargest(results, Len(results), m)
       PROVE  results[m] = [file |-> Max(most), wordFrq |-> lines[Max(most)]]
  <2> DEFINE z == results[m].file
  <2>1. /\ m \in 1 .. Len(results)
        /\ \A x \in 1 .. Len(results) : results[x].wordFrq <= results[m].wordFrq
        /\ \A x \in 1 .. Len(results) : results[x].wordFrq = results[m].wordFrq => x <= m
    BY <1>10 DEF LastLargest
  <2>2. z \in having /\ results[m].wordFrq = lines[z]
    BY <1>4, <2>1
  <2> HIDE DEF having
  <2>3. \A g \in having : lines[z] >= lines[g]
    <3>1. SUFFICES ASSUME NEW g \in having PROVE lines[z] >= lines[g]
      OBVIOUS
    <3>2. PICK x \in 1 .. Len(results) : results[x].file = g
      BY <1>5
    <3>3. results[x].wordFrq = lines[g]
      BY <1>4, <3>2
    <3>4. lines[g] <= lines[z]
      BY <2>1, <2>2, <3>2, <3>3, Zenon
    <3> HIDE DEF z
    <3>5. QED
      BY <1>8, <2>2, <3>4
  <2>4. z \in most
    BY <2>2, <2>3
  <2>5. ASSUME NEW g \in most PROVE g <= z
    <3>1. g \in having /\ lines[g] >= lines[z]
      BY <2>2, <2>5
    <3>2. lines[g] = lines[z]
      <4>1. lines[z] >= lines[g]
        BY <2>3, <3>1
      <4> HIDE DEF z
      <4>2. QED
        BY <1>8, <2>2, <3>1, <4>1
    <3>3. PICK x \in 1 .. Len(results) : results[x].file = g
      BY <1>5, <3>1
    <3>4. results[x].wordFrq = results[m].wordFrq
      BY <1>4, <2>2, <3>2, <3>3, Zenon
    <3>5. x <= m
      BY <2>1, <3>4
    <3>6. x < m => g < z
      BY <1>2, <2>1, <3>3, Zenon
    <3>7. x = m => g = z
      BY <3>3
    <3> HIDE DEF z
    <3>8. QED
      BY <1>8, <2>1, <2>2, <3>1, <3>5, <3>6, <3>7
  <2>6. most \subseteq Nat
    BY <1>7, <1>8
  <2> HIDE DEF most
  <2>7. Max(most) = z
    BY <2>4, <2>5, <2>6, MaxIs
  <2>8. QED
    BY <1>8, <1>9, <2>1, <2>2, <2>7
<1>11. ASSUME NEW m, FirstSmallest(results, Len(results), m)
       PROVE  results[m] = [file |-> Min(fewest), wordFrq |-> lines[Min(fewest)]]
  <2> DEFINE z == results[m].file
  <2>1. /\ m \in 1 .. Len(results)
        /\ \A x \in 1 .. Len(results) : results[m].wordFrq <= results[x].wordFrq
        /\ \A x \in 1 .. Len(results) : results[x].wordFrq = results[m].wordFrq => m <= x
    BY <1>11 DEF FirstSmallest
  <2>2. z \in having /\ results[m].wordFrq = lines[z]
    BY <1>4, <2>1
  <2> HIDE DEF having
  <2>3. \A g \in having : lines[z] <= lines[g]
    <3>1. SUFFICES ASSUME NEW g \in having PROVE lines[z] <= lines[g]
      OBVIOUS
    <3>2. PICK x \in 1 .. Len(results) : results[x].file = g
      BY <1>5
    <3>3. results[x].wordFrq = lines[g]
      BY <1>4, <3>2
    <3>4. QED
      BY <2>1, <2>2, <3>2, <3>3, Zenon
  <2>4. z \in fewest
    BY <2>2, <2>3
  <2>5. ASSUME NEW g \in fewest PROVE z <= g
    <3>1. g \in having /\ lines[g] <= lines[z]
      BY <2>2, <2>5
    <3>2. lines[g] = lines[z]
      <4>1. lines[z] <= lines[g]
        BY <2>3, <3>1
      <4> HIDE DEF z
      <4>2. QED
        BY <1>8, <2>2, <3>1, <4>1
    <3>3. PICK x \in 1 .. Len(results) : results[x].file = g
      BY <1>5, <3>1
    <3>4. results[x].wordFrq = results[m].wordFrq
      BY <1>4, <2>2, <3>2, <3>3, Zenon
    <3>5. m <= x
      BY <2>1, <3>4
    <3>6. m < x => z < g
      BY <1>2, <2>1, <3>3, Zenon
    <3>7. x = m => g = z
      BY <3>3
    <3> HIDE DEF z
    <3>8. QED
      BY <1>8, <2>1, <2>2, <3>1, <3>5, <3>6, <3>7
  <2>6. fewest \subseteq Nat
    BY <1>7, <1>8
  <2> HIDE DEF fewest
  <2>7. Min(fewest) = z
    BY <2>4, <2>5, <2>6, MinIs
  <2>8. QED
    BY <1>8, <1>9, <2>1, <2>2, <2>7
<1>12. QED
  BY <1>6, <1>10, <1>11

(* Between two files, the postings of a file are as many as its lines that *)
(* have the word.                                                          *)
LEMMA TallyIs ==
  ASSUME IndexInv, phase = "read", Sound, NEW word \in Seq(Letters), word # <<>>
  PROVE  LET post == searchWordInTrie(trie.nodes, word)
         IN  /\ post \in Seq(Posting) /\ Ordered(post)
             /\ LinesWith(word) \in [1 .. Len(files) -> Nat]
             /\ Agrees(TallyOf(post, Len(post)), LinesWith(word), Len(files))
<1> DEFINE post == searchWordInTrie(trie.nodes, word)
           met == [p \in Positions |-> Cardinality(Occurrences(word, LineAt(p)))]
           of(f) == {a \in 1 .. Len(post) : post[a].file = f}
           lines(f) == {l \in 1 .. Len(files[f]) : Occurrences(word, files[f][l]) # {}}
<1>1. Posted(post, met) /\ post \in Seq(Posting)
  BY FoundIs
<1>2. files \in Seq(File)
  BY Zenon DEF IndexInv, TrieInv, File
<1>3. /\ DOMAIN met = Positions
      /\ \A p \in Positions : met[p] = Cardinality(Occurrences(word, files[p.file][p.textId]))
  BY DEF LineAt
<1>4. /\ \A p \in Positions :
           /\ p \in Line /\ p.file \in 1 .. Len(files) /\ p.textId \in 1 .. Len(files[p.file])
           /\ files[p.file][p.textId] \in Seq(Chars)
      /\ \A f \in 1 .. Len(files) : \A l \in 1 .. Len(files[f]) : [file |-> f, textId |-> l] \in Positions
  BY <1>2, PositionsAre DEF Positions
<1> HIDE DEF met, post
<1>5. \A p \in Positions : met[p] # 0 <=> Occurrences(word, files[p.file][p.textId]) # {}
  <2>1. SUFFICES ASSUME NEW p \in Positions
                 PROVE  met[p] # 0 <=> Occurrences(word, files[p.file][p.textId]) # {}
    OBVIOUS
  <2>2. IsFiniteSet(Occurrences(word, files[p.file][p.textId]))
    BY <1>4, OccurrencesFinite
  <2>3. QED
    BY <1>3, <2>2, FS_EmptySet
<1>6. /\ \A a \in 1 .. Len(post) :
           LineOf(post[a]) \in DOMAIN met /\ post[a].wordFrq = met[LineOf(post[a])] /\ post[a].wordFrq # 0
      /\ \A p \in DOMAIN met : met[p] # 0 => \E a \in 1 .. Len(post) : LineOf(post[a]) = p
      /\ Ordered(post)
  BY <1>1, Zenon DEF Posted
<1>7. /\ Len(post) \in Nat
      /\ \A a \in 1 .. Len(post) : post[a].file \in Nat /\ post[a].textId \in Nat
  <2>1. Len(post) \in Nat /\ \A a \in 1 .. Len(post) : post[a] \in Posting
    BY <1>1
  <2>2. QED
    BY <2>1 DEF Posting
<1>8. ASSUME NEW a \in 1 .. Len(post)
      PROVE  /\ post[a].file \in 1 .. Len(files)
             /\ post[a].textId \in lines(post[a].file)
  <2> DEFINE p == LineOf(post[a])
  <2>1. p.file = post[a].file /\ p.textId = post[a].textId
    BY DEF LineOf
  <2>2. p \in Positions /\ met[p] # 0
    BY <1>3, <1>6
  <2> HIDE DEF p
  <2>3. p.file \in 1 .. Len(files) /\ p.textId \in 1 .. Len(files[p.file])
    BY <1>4, <2>2
  <2>4. Occurrences(word, files[p.file][p.textId]) # {}
    BY <1>5, <2>2
  <2>5. QED
    BY <2>1, <2>3, <2>4
<1>9. ASSUME NEW f \in 1 .. Len(files)
      PROVE  IsFiniteSet(lines(f)) /\ Cardinality(lines(f)) \in Nat /\ Cardinality(of(f)) = Cardinality(lines(f))
  <2> DEFINE h == [a \in of(f) |-> post[a].textId]
  <2>1. h \in [of(f) -> lines(f)]
    BY <1>8
  <2>2. ASSUME NEW a \in of(f), NEW b \in of(f), h[a] = h[b] PROVE a = b
    <3>1. /\ a \in 1 .. Len(post) /\ b \in 1 .. Len(post) /\ post[a].file = f /\ post[b].file = f
          /\ post[a].textId = post[b].textId
      BY <2>2
    <3>2. a < b => post[a].file < post[b].file \/ (post[a].file = post[b].file /\ post[a].textId < post[b].textId)
      BY <1>6, <3>1, Zenon DEF Ordered
    <3>3. b < a => post[b].file < post[a].file \/ (post[b].file = post[a].file /\ post[b].textId < post[a].textId)
      BY <1>6, <3>1, Zenon DEF Ordered
    <3>4. f \in Nat /\ post[a].textId \in Nat
      BY <1>7, <3>1
    <3>5. ~(a < b) /\ ~(b < a)
      BY <3>1, <3>2, <3>3, <3>4
    <3>6. QED
      BY <1>7, <3>1, <3>5
  <2>3. ASSUME NEW l \in lines(f) PROVE \E a \in of(f) : h[a] = l
    <3> DEFINE p == [file |-> f, textId |-> l]
    <3>1. p \in Positions /\ p.file = f /\ p.textId = l
      BY <1>4
    <3> HIDE DEF p
    <3>2. met[p] # 0
      BY <1>5, <3>1
    <3>3. PICK a \in 1 .. Len(post) : LineOf(post[a]) = p
      BY <1>3, <1>6, <3>1, <3>2
    <3>4. post[a].file = f /\ post[a].textId = l
      BY <3>1, <3>3 DEF LineOf
    <3>5. QED
      BY <3>4
  <2>4. IsFiniteSet(of(f))
    <3>1. of(f) \in SUBSET (1 .. Len(post))
      OBVIOUS
    <3>2. 1 \in Int /\ Len(post) \in Int
      BY <1>7
    <3> HIDE DEF of
    <3>3. QED
      BY <3>1, <3>2, FS_Interval, FS_Subset
  <2> HIDE DEF of, lines, h
  <2>5. h \in Bijection(of(f), lines(f))
    BY <2>1, <2>2, <2>3 DEF Bijection, Injection, Surjection, IsInjective
  <2>6. ExistsBijection(of(f), lines(f))
    BY <2>5 DEF ExistsBijection
  <2>7. QED
    BY <2>4, <2>6, FS_Bijection, FS_CardinalityType
<1>10. /\ \A f \in 1 .. Len(files) : LinesWith(word)[f] = Cardinality(lines(f))
       /\ LinesWith(word) = [f \in 1 .. Len(files) |-> Cardinality(lines(f))]
  BY DEF LinesWith
<1>11. \A f \in Nat : TallyOf(post, Len(post))[f] = Cardinality(of(f))
  BY DEF TallyOf
<1>12. \A f \in Nat : f \notin 1 .. Len(files) => of(f) = {}
  BY <1>8
<1> HIDE DEF of, lines
<1>13. LinesWith(word) \in [1 .. Len(files) -> Nat]
  BY <1>9, <1>10
<1>14. Agrees(TallyOf(post, Len(post)), LinesWith(word), Len(files))
  <2>1. Cardinality({}) = 0
    BY FS_EmptySet
  <2>2. QED
    BY <1>9, <1>10, <1>11, <1>12, <2>1 DEF Agrees
<1>15. QED
  BY <1>1, <1>6, <1>13, <1>14 DEF post

(* So what is answered is right, for any word.                             *)
LEMMA AnswersRight ==
  ASSUME IndexInv, phase = "read", Sound, NEW word \in Seq(Letters), word # <<>>
  PROVE  AnswersTo(word)
<1> DEFINE post == searchWordInTrie(trie.nodes, word)
           results == createCountResults(post)
           n == Len(files)
           lines == LinesWith(word)
           having == {f \in 1 .. n : lines[f] > 0}
           most   == {f \in having : \A g \in having : lines[f] >= lines[g]}
           fewest == {f \in having : \A g \in having : lines[f] <= lines[g]}
           none   == [file |-> "nofile", wordFrq |-> 0]
<1>1. /\ post \in Seq(Posting) /\ Ordered(post)
      /\ lines \in [1 .. n -> Nat] /\ Agrees(TallyOf(post, Len(post)), lines, n)
  BY TallyIs
<1>2. n \in Nat
  <2>1. files \in Seq(File)
    BY Zenon DEF IndexInv, TrieInv, File
  <2>2. QED
    BY <2>1
<1>3. MaxCount(word) = Answer(maxFinder(results)) /\ MinCount(word) = Answer(minFinder(results))
  BY Zenon DEF MaxCount, MinCount
<1>4. ( /\ having = {} => MaxCount(word) = none /\ MinCount(word) = none
        /\ having # {} =>
             /\ MaxCount(word) = [file |-> Max(most), wordFrq |-> lines[Max(most)]]
             /\ MinCount(word) = [file |-> Min(fewest), wordFrq |-> lines[Min(fewest)]] ) => AnswersTo(word)
  BY Zenon DEF AnswersTo
<1> HIDE DEF post, lines, n
<1>5. results \in Seq(Tallied) /\ Tally(results, TallyOf(post, Len(post)))
  BY <1>1, ResultsAre
<1> HIDE DEF results
<1>6. /\ having = {} <=> results = <<>>
      /\ \A m : LastLargest(results, Len(results), m) =>
           results[m] = [file |-> Max(most), wordFrq |-> lines[Max(most)]]
      /\ \A m : FirstSmallest(results, Len(results), m) =>
           results[m] = [file |-> Min(fewest), wordFrq |-> lines[Min(fewest)]]
  BY <1>1, <1>2, <1>5, BestIs
<1> HIDE DEF having, most, fewest
<1>7. ASSUME having = {} PROVE MaxCount(word) = none /\ MinCount(word) = none
  <2>1. results = <<>>
    BY <1>6, <1>7
  <2>2. maxFinder(<<>>) = <<>> /\ minFinder(<<>>) = <<>>
    BY Zenon DEF maxFinder, minFinder, ToHead
  <2>3. Answer(<<>>) = none
    BY Zenon DEF Answer
  <2>4. QED
    BY <1>3, <2>1, <2>2, <2>3, Zenon
<1>8. ASSUME having # {}
      PROVE  /\ MaxCount(word) = [file |-> Max(most), wordFrq |-> lines[Max(most)]]
             /\ MinCount(word) = [file |-> Min(fewest), wordFrq |-> lines[Min(fewest)]]
  <2>1. results # <<>>
    BY <1>6, <1>8
  <2>2. /\ \E m : LastLargest(results, Len(results), m) /\ Answer(maxFinder(results)) = results[m]
        /\ \E m : FirstSmallest(results, Len(results), m) /\ Answer(minFinder(results)) = results[m]
    BY <1>5, <2>1, FindersAre
  <2>3. QED
    BY <1>3, <1>6, <2>2, Zenon
<1>9. QED
  BY <1>4, <1>7, <1>8, Zenon

\* Whatever the word is.
AnyWordAnswered == phase = "read" /\ Sound => \A word \in Seq(Letters) \ {<<>>} : AnswersTo(word)

(* maxcount and mincount are right, for any letters, any files and any     *)
(* word (trie.c:210-340, worker.c:143-167).                                *)
THEOREM MaxMinAnswersAnyWord == Spec => []AnyWordAnswered
<1>1. Init => IndexInv
  BY IndexInitially
<1>2. IndexInv /\ [Next]_vars => IndexInv'
  BY IndexKept
<1>3. IndexInv => AnyWordAnswered
  BY AnswersRight DEF AnyWordAnswered
<1>4. QED
  BY <1>1, <1>2, <1>3, PTL DEF Spec

(* So are they for the words of the runs.                                  *)
THEOREM MaxMinAnswersRight == Spec => []MaxMinRight
<1>1. AnyWordAnswered => MaxMinRight
  <2>1. ASSUME phase = "read" /\ Sound => \A word \in Seq(Letters) \ {<<>>} : AnswersTo(word)
        PROVE  phase = "read" /\ Sound => \A word \in Words : AnswersTo(word)
    BY <2>1, WordsOfLetters
  <2>2. QED
    BY <2>1 DEF AnyWordAnswered, MaxMinRight
<1>2. QED
  BY <1>1, MaxMinAnswersAnyWord, PTL
==============================================================================
