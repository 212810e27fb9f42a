\* One kernel, whose body of four threads is one assignment.
CONSTANTS
  Programs <- OneKernel
  AvailableRegisters = {7, 8, 9, 10, 11, 12, 13, 14}
  VectorRegisters = {106, 107, 108, 109, 110, 111, 112, 113, 114, 115, 116, 117}
  Slack = 8
  Fuel = 20
  Lanes = {0, 1}
SPECIFICATION Spec
PROPERTY KernelsEnd
