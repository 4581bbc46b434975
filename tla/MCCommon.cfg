SPECIFICATION MCSpec
CONSTANTS
  ListHead = {h1, h2}
  Entry = {e1, e2, e3}
  NULL = NULL
  SliceVar = {s1, s2}
  Block = {b1, b2}
  inline_cap = 6
  Suffixes <- MCSuffixes
  Strings <- MCStrings
  Ints = {0, 12}
  INT_MAX = 63
  Sixteenths <- MCSixteenths
  AfterPoints = {0, 2}
  MaxSize = 8
  Algos = {"kmp", "boyermoore", "binary"}
  Letter = {a, b}
  Words = {1, 2, 3}
  MaxText = 5
  MaxMixed = 4
  MaxQuery = 4
INVARIANTS ListTypeOK Represents WalkSound SliceTypeOK StorageSound  LeaksOnlyAtCap NoneSkipped PrefixTable
PROPERTIES WalkEnds SearchAnswers FailureEnds
CHECK_DEADLOCK FALSE
