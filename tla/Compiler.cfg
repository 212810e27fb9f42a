\* Functions with four variables and an array of two, of up to eight
\* statements. Eight registers are fewer than the compiler has, and 8 bytes of
\* slack fewer than its 128, so that functions run into both limits. Kernels
\* of up to five threads have two warps; two lanes tell threads apart.
CONSTANTS
  Programs <- MCPrograms
  AvailableRegisters = {7, 8, 9, 10, 11, 12, 13, 14}
  VectorRegisters = {106, 107, 108, 109, 110, 111, 112, 113, 114, 115, 116, 117}
  Slack = 8
  Fuel = 20
  Lanes = {0, 1}
SPECIFICATION Spec
INVARIANTS TypeOK Computes FrameHolds AreasInitialised LanesHaveStack
PROPERTIES LosesOnlyThese Finishes KernelComputes
\* a function ends, or is refused
CHECK_DEADLOCK FALSE
