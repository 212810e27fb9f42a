\* The driver's two cycles with one core and kernels of up to two blocks.
CONSTANTS
  NUM_CORES = 1
  MaxBlocks = 2
  MAX_ITER = 2
SPECIFICATION Spec
INVARIANT ResultsFresh
