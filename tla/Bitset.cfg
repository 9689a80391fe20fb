CONSTANTS
  BYTE = 2
  MaxLen = 6
SPECIFICATION Spec
INVARIANTS
  TypeOK
  CountIsTrue
  UintIsBitVector
PROPERTY BitVectorSpec
