\* Words of four exponent and two fraction bits, every operation on them.
CONSTANTS
  ExpBits = 4
  FracBits = 2
  Operation <- AllOperations
SPECIFICATION Spec
INVARIANTS TypeOK SumsTruncated ProductsTruncated ConvertsTruncating ComparesValues
