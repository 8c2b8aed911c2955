CONSTANTS
  Letters = {a, b, c}
  MaxChars = 7
  Unset = {0, 99}
SPECIFICATION Spec
SYMMETRY LetterSymmetry
INVARIANTS TrieShape SearchIsRight MaxMinRight CountsRight
CHECK_DEADLOCK FALSE
