\* One core; kernels of up to three blocks; reset at any time.
CONSTANTS
  NUM_CORES = 1
  MaxBlocks = 3
  HoldsConfig = TRUE
  MayReset = TRUE
SPECIFICATION FairSpec
INVARIANTS TypeOK Accounting DoneMeansExecuted
PROPERTIES RunsKernel NotCutShort KernelCompletes
