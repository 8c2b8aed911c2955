----------------------------- MODULE MCTrieIndex -----------------------------
EXTENDS TrieIndex, TLC

LetterSymmetry == Permutations(Letters)
==============================================================================
