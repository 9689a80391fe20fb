CONSTANTS
  CAP = 3
  Bytes <- TwoBytes
  Unset = Unset
  Object <- FunctionObject
  Strings <- SomeStrings
  Nested <- OnlyReads
SPECIFICATION Spec
INVARIANTS TypeOK NothingSkipped
PROPERTY TapeSpec
