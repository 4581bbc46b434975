SPECIFICATION SearchSpec
CONSTANTS
  Algos = {"kmp"}
  Letter = {a, b}
  Words = {}
  MaxText = 6
  MaxMixed = 4
  MaxQuery = 4
  PROPERTY KmpAnswers
CHECK_DEADLOCK FALSE
