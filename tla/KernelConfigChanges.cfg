\* One core, a host that changes num_blocks while a kernel runs.
CONSTANTS
  NUM_CORES = 1
  MaxBlocks = 2
  HoldsConfig = FALSE
  MayReset = FALSE
SPECIFICATION Spec
INVARIANT NoBlockLost
