------------------------------ MODULE TrieIndex ------------------------------
(***************************************************************************)
(* The index of a worker of the search engine: a file is read into a map   *)
(* of its lines (textmap.c), the words of the map are put into the trie    *)
(* (trie.c) with their posting lists (postinglist.c), and the trie is      *)
(* searched and the results are counted by file for maxcount and mincount  *)
(* (worker.c).  The loop that calls them stands in a comment of worker.c   *)
(* (301-353) at this commit, its commands are handled in waitForSignal     *)
(* (132-227).                                                              *)
(*                                                                         *)
(* A line is the sequence of its characters after its number.  Whether the *)
(* number is read as the one that is due is left open: atoi looks at       *)
(* characters that no one has set behind those of `table'.                 *)
(***************************************************************************)
EXTENDS Integers, Sequences, SequencesExt, FiniteSetsExt

CONSTANTS
  Letters,
  MaxChars,  \* a bound on the characters and lines that are read
  Unset      \* what an int may hold that no one has set

ASSUME IndexAssumption == " " \notin Letters /\ MaxChars \in Nat

VARIABLES
  phase,   \* "read" a file, "insert" its words, or the end: "exit" or "crash"
  text,    \* the map: the lines read so far
  bytes,   \* of the file
  i, j,    \* the line and character that createTrieFromTextMap is at
  trie,    \* the trie and the local variables of createTrieFromTextMap
  wc,      \* the counts of each file
  files,   \* the files that were put into the trie
  chars    \* how much has been read

vars == <<phase, text, bytes, i, j, trie, wc, files, chars>>

Chars == Letters \cup {" "}

------------------------------------------------------------------------------
(* The trie.  A pointer is the position of a node in `nodes', 0 is NULL,   *)
(* and the root is 1.                                                      *)

newTrieNode(c) == [letter |-> c, cont |-> 0, next |-> 0, index |-> <<>>]
newPlistNode(textId, file) == [file |-> file, textId |-> textId, wordFrq |-> 1]

\* A node and those that its chain of `next' leads to.
Chain(nodes, n) ==
  LET from[k \in 0 .. Len(nodes)] == IF k = 0 THEN <<>> ELSE <<k>> \o from[nodes[k].next]
  IN  from[n]

\* The first node of the chain with this letter, or 0.
Lookup(nodes, n, c) ==
  LET chain == Chain(nodes, n)
      found == {k \in 1 .. Len(chain) : nodes[chain[k]].letter = c}
  IN  IF found = {} THEN 0 ELSE chain[Min(found)]

\* A new node for c behind `at', where its `link' is.
Extend(t, c, at, link) ==
  LET new == Len(t.nodes) + 1
  IN  [t EXCEPT !.nodes = Append([t.nodes EXCEPT ![at][link] = new], newTrieNode(c)),
                !.curTrieNode = new, !.newContFlag = 1]

\* The first letter of a file is taken to be the root's, whatever it is.
FirstLetter(t, c) ==
  [t EXCEPT !.nodes = IF @ = <<>> THEN <<newTrieNode(c)>> ELSE @,
            !.curTrieNode = 1, !.newContFlag = 1]

\* Mutant of LaterLetter: a letter that is not there is put behind the first
\* node of the chain.
LaterLetterBehind(t, c) ==
  LET at  == IF t.newContFlag = 3 THEN t.nodes[t.curTrieNode].cont ELSE t.curTrieNode
      hit == Lookup(t.nodes, at, c)
  IN  IF t.newContFlag = 1 THEN Extend(t, c, at, "cont")
      ELSE IF hit = 0 THEN Extend(t, c, at, "next")
      ELSE [t EXCEPT !.curTrieNode = hit,
                     !.newContFlag = IF t.nodes[hit].cont = 0 THEN 1 ELSE 3]

\* Mutant of LaterLetter: only the first node of the chain is compared.
LaterLetterUnsought(t, c) ==
  LET at    == IF t.newContFlag = 3 THEN t.nodes[t.curTrieNode].cont ELSE t.curTrieNode
      chain == Chain(t.nodes, at)
  IN  IF t.newContFlag = 1 THEN Extend(t, c, at, "cont")
      ELSE IF t.nodes[at].letter # c THEN Extend(t, c, chain[Len(chain)], "next")
      ELSE [t EXCEPT !.curTrieNode = at,
                     !.newContFlag = IF t.nodes[at].cont = 0 THEN 1 ELSE 3]

\* newContFlag: 1, a next letter gets a new node below this one; 3, it is
\* looked for below this one; 0, a word begins at the root.
LaterLetter(t, c) ==
  LET at    == IF t.newContFlag = 3 THEN t.nodes[t.curTrieNode].cont ELSE t.curTrieNode
      chain == Chain(t.nodes, at)
      hit   == Lookup(t.nodes, at, c)
  IN  IF t.newContFlag = 1 THEN Extend(t, c, at, "cont")
      ELSE IF hit = 0 THEN Extend(t, c, chain[Len(chain)], "next")
      ELSE [t EXCEPT !.curTrieNode = hit,
                     !.newContFlag = IF t.nodes[hit].cont = 0 THEN 1 ELSE 3]

\* The posting of this line and file counts one more, or there is a new one.
Post(index, textId, file) ==
  LET same == {k \in 1 .. Len(index) : index[k].textId = textId /\ index[k].file = file}
  IN  IF same = {} THEN Append(index, newPlistNode(textId, file))
                   ELSE [index EXCEPT ![Min(same)].wordFrq = @ + 1]

\* Behind a blank, and at the end of a line, where a word may have ended.
WordEnds(t, textId, file) ==
  IF ~t.resultFlag THEN t
  ELSE [t EXCEPT !.nodes[t.curTrieNode].index = Post(@, textId, file),
                 !.resultFlag = FALSE, !.newContFlag = 0, !.curTrieNode = 1,
                 !.words = @ + 1]

\* One turn of the loop over the characters of a line.
Parse(t, c, textId, file) ==
  CASE c = " " -> WordEnds(t, textId, file)
    [] c # " " /\ ~t.counter -> [FirstLetter(t, c) EXCEPT !.counter = TRUE, !.resultFlag = TRUE]
    [] OTHER -> [LaterLetter(t, c) EXCEPT !.resultFlag = TRUE]

\* The node that the walk for a word ends at, or 0.
NodeOf(nodes, word) ==
  LET at[k \in 0 .. Len(word)] ==
        IF k = 0 THEN 0
        ELSE IF k = 1 THEN Lookup(nodes, IF nodes = <<>> THEN 0 ELSE 1, word[1])
        ELSE IF at[k - 1] = 0 THEN 0
        ELSE Lookup(nodes, nodes[at[k - 1]].cont, word[k])
  IN  at[Len(word)]

searchWordInTrie(nodes, word) ==
  IF NodeOf(nodes, word) = 0 THEN <<>> ELSE nodes[NodeOf(nodes, word)].index

------------------------------------------------------------------------------
(* maxcount and mincount.                                                  *)

\* One more posting of this file.
CountFile(results, file) ==
  LET same == {k \in 1 .. Len(results) : results[k].file = file}
  IN  IF same = {} THEN Append(results, [file |-> file, wordFrq |-> 1])
                   ELSE [results EXCEPT ![Min(same)].wordFrq = @ + 1]

\* The files of a posting list, each with the number of its postings.
createCountResults(post) ==
  LET upTo[k \in 0 .. Len(post)] ==
        IF k = 0 THEN <<>> ELSE CountFile(upTo[k - 1], post[k].file)
  IN  upTo[Len(post)]

\* The result that a loop over the results ends with is put at their head.
ToHead(results, best) ==
  IF results = <<>> THEN results
  ELSE [results EXCEPT ![1] = results[best], ![best] = results[1]]

maxFinder(results) ==
  LET largest[k \in 1 .. Len(results)] ==
        IF k = 1 THEN 1
        ELSE IF results[largest[k - 1]].wordFrq <= results[k].wordFrq THEN k ELSE largest[k - 1]
  IN  ToHead(results, largest[Len(results)])

\* Mutant of minFinder: the comparison is that of maxFinder.
minFinderOfMax(results) == maxFinder(results)
minFinder(results) ==
  LET smallest[k \in 1 .. Len(results)] ==
        IF k = 1 THEN 1
        ELSE IF results[smallest[k - 1]].wordFrq > results[k].wordFrq THEN k ELSE smallest[k - 1]
  IN  ToHead(results, smallest[Len(results)])

\* The answer to a command: the first of the results.
Answer(results) == IF results = <<>> THEN [file |-> "nofile", wordFrq |-> 0] ELSE Head(results)

MaxCount(word) == Answer(maxFinder(createCountResults(searchWordInTrie(trie.nodes, word))))
MinCount(word) == Answer(minFinder(createCountResults(searchWordInTrie(trie.nodes, word))))

------------------------------------------------------------------------------
(* The steps.  The name of a file is the number it has among all that were *)
(* put into the trie.                                                      *)

Prefix == 2   \* the number of a line and the blank behind it

EmptyMap == text' = << <<>> >> /\ bytes' = Prefix

Init ==
  /\ phase = "read" /\ text = << <<>> >> /\ bytes = Prefix
  /\ i = 0 /\ j = 0
  /\ trie = [nodes |-> <<>>, curTrieNode |-> 0, newContFlag |-> 0,
             resultFlag |-> FALSE, counter |-> FALSE, words |-> 0]
  /\ wc = <<>> /\ files = <<>> /\ chars = 0

Reads == phase = "read" /\ chars < MaxChars /\ chars' = chars + 1

ReadChar(c) ==
  /\ Reads
  /\ text' = [text EXCEPT ![Len(text)] = Append(@, c)]
  /\ bytes' = bytes + 1
  /\ UNCHANGED <<phase, i, j, trie, wc, files>>

ReadNewline ==
  /\ Reads
  /\ text' = Append(text, <<>>)
  /\ bytes' = bytes + Prefix
  /\ UNCHANGED <<phase, i, j, trie, wc, files>>

\* addFileToMaps returns NULL.  The counts of the file are kept all the same,
\* no words and an N that no one has set among them, and freeTexts follows the
\* null pointer, though the worker has said `on to next one'.
FileFails(counted) ==
  /\ Reads /\ phase' = "crash"
  /\ \E n \in Unset : wc' = Append(wc, [bytes |-> counted, words |-> 0, lines |-> n])
  /\ UNCHANGED <<text, bytes, i, j, trie, files>>

\* The number of the last line is not the one that is due, or there is no
\* memory for it.
RejectFile == FileFails(bytes)

\* fopen fails, before anything is read.
OpenFails == text = << <<>> >> /\ FileFails(0)

\* The end of the file, and the call of createTrieFromTextMap.
ReadEOF ==
  /\ Reads /\ phase' = "insert"
  /\ i' = 1 /\ j' = 1
  /\ trie' = [trie EXCEPT !.counter = FALSE, !.resultFlag = FALSE, !.words = 0]
  /\ UNCHANGED <<text, bytes, wc, files>>

\* Mutant of InsertChar: no word ends with its line.
InsertCharOnly ==
  /\ phase = "insert" /\ i <= Len(text)
  /\ IF j <= Len(text[i])
       THEN trie' = Parse(trie, text[i][j], i, Len(files) + 1)
       ELSE UNCHANGED trie
  /\ IF j >= Len(text[i]) THEN i' = i + 1 /\ j' = 1 ELSE i' = i /\ j' = j + 1
  /\ UNCHANGED <<phase, text, bytes, wc, files, chars>>

InsertChar ==
  /\ phase = "insert" /\ i <= Len(text)
  /\ IF j <= Len(text[i])
       THEN LET t == Parse(trie, text[i][j], i, Len(files) + 1)
            IN  trie' = IF j = Len(text[i]) THEN WordEnds(t, i, Len(files) + 1) ELSE t
       ELSE UNCHANGED trie
  /\ IF j >= Len(text[i]) THEN i' = i + 1 /\ j' = 1 ELSE i' = i /\ j' = j + 1
  /\ UNCHANGED <<phase, text, bytes, wc, files, chars>>

\* The counts of the file are kept, and its map freed.  If there is no trie
\* yet the worker exits.
FinishFile ==
  /\ phase = "insert" /\ i > Len(text)
  /\ files' = Append(files, text)
  /\ wc' = IF trie.nodes = <<>> THEN wc
           ELSE Append(wc, [bytes |-> bytes, words |-> trie.words, lines |-> Len(text)])
  /\ phase' = IF trie.nodes = <<>> THEN "exit" ELSE "read"
  /\ EmptyMap
  /\ UNCHANGED <<i, j, trie, chars>>

Next ==
  \/ \E c \in Chars : ReadChar(c)
  \/ ReadNewline \/ RejectFile \/ OpenFails \/ ReadEOF
  \/ InsertChar \/ FinishFile

Spec == Init /\ [][Next]_vars

------------------------------------------------------------------------------
(* Properties, of the files as they are, without a trie.                   *)

Words == UNION {[1 .. n -> Letters] : n \in 1 .. 3}

\* Where a word is in a line.
Occurrences(word, line) ==
  {k \in 1 .. Len(line) - Len(word) + 1 :
     /\ SubSeq(line, k, k + Len(word) - 1) = word
     /\ k = 1 \/ line[k - 1] = " "
     /\ k + Len(word) > Len(line) \/ line[k + Len(word)] = " "}

WordStarts(line) == {k \in 1 .. Len(line) : line[k] # " " /\ (k = 1 \/ line[k - 1] = " ")}

PositionsIn(all) == UNION {{[file |-> f, textId |-> l] : l \in 1 .. Len(all[f])} : f \in 1 .. Len(all)}
Positions == PositionsIn(files)

LineAt(p) == files[p.file][p.textId]

\* The first word of a file is this letter, or it has none.
BeginsWith(file, letter) ==
  LET firsts == {l \in 1 .. Len(file) : WordStarts(file[l]) # {}}
      line   == file[Min(firsts)]
  IN  firsts # {} => Min(WordStarts(line)) \in Occurrences(<<letter>>, line)

SoundWith(all, letter) == \A f \in 2 .. Len(all) : BeginsWith(all[f], letter)
Sound == SoundWith(files, trie.nodes[1].letter)

(* The trie is a tree, its pointers lead to nodes that were made later,    *)
(* and no two nodes of a chain have the same letter, so that a search ends *)
(* and cannot take a wrong turn, also where a file overwrites a part of    *)
(* the trie (trie.c:109-162).                                              *)
TrieShape ==
  LET n == trie.nodes
      links == [k \in 1 .. Len(n) |-> {n[k].cont, n[k].next} \ {0}]
  IN  /\ trie.curTrieNode \in (IF n = <<>> THEN {0} ELSE 1 .. Len(n))
      /\ \A k \in 1 .. Len(n) :
           /\ links[k] \subseteq k + 1 .. Len(n)
           /\ n[k].cont = n[k].next => n[k].cont = 0
           /\ \A l \in 1 .. k - 1 : links[k] \cap links[l] = {}
           /\ Lookup(n, n[k].next, n[k].letter) = 0

\* What makes TrieShape inductive: the types, and where the flags may stand.
Posting == [file : Nat, textId : Nat, wordFrq : Nat]
Node == [letter : Letters, cont : Nat, next : Nat, index : Seq(Posting)]

TrieInv ==
  /\ phase \in {"read", "insert", "exit", "crash"}
  /\ text \in Seq(Seq(Chars)) \ {<<>>} /\ files \in Seq(Seq(Seq(Chars)))
  /\ i \in Nat /\ j \in Nat /\ (phase = "insert" => i > 0 /\ j > 0)
  /\ trie \in [nodes : Seq(Node), curTrieNode : Nat, newContFlag : {0, 1, 3},
               resultFlag : BOOLEAN, counter : BOOLEAN, words : Nat]
  /\ trie.counter \/ trie.resultFlag => trie.nodes # <<>>
  /\ trie.newContFlag = 0 /\ trie.nodes # <<>> => trie.curTrieNode = 1
  /\ trie.newContFlag = 3 => trie.nodes # <<>> /\ trie.nodes[trie.curTrieNode].cont # 0
  /\ TrieShape

FoundIn(word) ==
  LET post == searchWordInTrie(trie.nodes, word)
      due  == {p \in Positions : Occurrences(word, LineAt(p)) # {}}
  IN  /\ Len(post) = Cardinality(due)
      /\ ToSet(post) = {[file |-> p.file, textId |-> p.textId,
                         wordFrq |-> Cardinality(Occurrences(word, LineAt(p)))] : p \in due}

(* A search finds exactly the lines of exactly the files that have the     *)
(* word, each with the number of times; for a further file only if its     *)
(* first word is the one letter of the root, since trie.c:95-106 does not  *)
(* compare its first letter.  (Of a worker whose files could all be read:  *)
(* with any other there is nothing to search in, see FileFails.)           *)
SearchIsRight == phase = "read" /\ Sound => \A word \in Words : FoundIn(word)

\* In how many lines of each file the word is.
LinesWith(word) ==
  [f \in 1 .. Len(files) |->
     Cardinality({l \in 1 .. Len(files[f]) : Occurrences(word, files[f][l]) # {}})]

AnswersTo(word) ==
  LET lines  == LinesWith(word)
      having == {f \in 1 .. Len(files) : lines[f] > 0}
      most   == {f \in having : \A g \in having : lines[f] >= lines[g]}
      fewest == {f \in having : \A g \in having : lines[f] <= lines[g]}
      none   == [file |-> "nofile", wordFrq |-> 0]
  IN  IF having = {} THEN MaxCount(word) = none /\ MinCount(word) = none
      ELSE /\ MaxCount(word) = [file |-> Max(most), wordFrq |-> lines[Max(most)]]
           /\ MinCount(word) = [file |-> Min(fewest), wordFrq |-> lines[Min(fewest)]]

(* maxcount and mincount name a file with the most and one with the fewest *)
(* lines that have the word, the last and the first of these, and no file  *)
(* if none has it (trie.c:252-340, worker.c:143-167).                      *)
MaxMinRight == phase = "read" /\ Sound => \A word \in Words : AnswersTo(word)

Total(counts) ==
  LET sum[k \in 0 .. Len(counts)] == IF k = 0 THEN 0 ELSE sum[k - 1] + counts[k]
  IN  sum[Len(counts)]

BytesOf(file) == [l \in 1 .. Len(file) |-> Prefix + Len(file[l])]
WordsOf(file) == [l \in 1 .. Len(file) |-> Cardinality(WordStarts(file[l]))]

(* wc counts the characters, words and lines of every file that is in, the *)
(* words also where the trie loses some of them, as long as every file     *)
(* could be read (textmap.c:47-102, trie.c:88-91, 194-197,                 *)
(* worker.c:313-346).                                                      *)
CountsRight ==
  phase = "read" =>
    /\ Len(wc) = Len(files)
    /\ \A f \in 1 .. Len(files) :
         wc[f] = [lines |-> Len(files[f]),
                  bytes |-> Total(BytesOf(files[f])),
                  words |-> Total(WordsOf(files[f]))]

------------------------------------------------------------------------------
(* What makes CountsRight inductive.                                       *)

\* The place of createTrieFromTextMap, and what the flags say of it.
PlaceInv ==
  phase = "insert" =>
    /\ i \in 1 .. Len(text) + 1
    /\ j = 1 \/ (i <= Len(text) /\ j \in 1 .. Len(text[i]))
    /\ trie.resultFlag <=> i <= Len(text) /\ j > 1 /\ text[i][j - 1] # " "
    /\ trie.counter <=> \E l \in 1 .. Len(text) : \E k \in 1 .. Len(text[l]) :
                          text[l][k] # " " /\ (l < i \/ (l = i /\ k < j))

\* The words that have begun so far are counted, but for the one that goes on.
CountInv ==
  /\ bytes = Total(BytesOf(text))
  /\ phase \in {"read", "insert"} =>
       /\ Len(wc) = Len(files)
       /\ \A f \in 1 .. Len(files) :
            wc[f] = [lines |-> Len(files[f]), bytes |-> Total(BytesOf(files[f])),
                     words |-> Total(WordsOf(files[f]))]
  /\ phase = "insert" =>
       trie.words + (IF trie.resultFlag THEN 1 ELSE 0) =
         Total([l \in 1 .. i - 1 |-> Cardinality(WordStarts(text[l]))]) +
         (IF i <= Len(text) THEN Cardinality({k \in WordStarts(text[i]) : k < j}) ELSE 0)
==============================================================================
