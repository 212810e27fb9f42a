\* Two cores, which need not finish their blocks at the same time.
CONSTANTS
  NUM_CORES = 2
  MaxBlocks = 2
  HoldsConfig = TRUE
  MayReset = FALSE
SPECIFICATION Spec
INVARIANT DoneMeansExecuted
