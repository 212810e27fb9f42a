\* Words of four exponent and two fraction bits; sums that are rounded up
\* included.
CONSTANTS
  ExpBits = 4
  FracBits = 2
  Operation <- AllOperations
SPECIFICATION Spec
INVARIANT SumsClose
