SPECIFICATION SliceSpec
CONSTANTS
  SliceVar = {s1}
  Block = {b1}
  inline_cap = 6
  INT_MAX = 63
  Suffixes = {}
  Strings = {}
  Ints = {12}
  Sixteenths = {24}
  AfterPoints = {2, 7}
  MaxSize = 8
INVARIANT StorageSound
