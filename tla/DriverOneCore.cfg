\* The driver's two cycles with one core and kernels of up to three blocks.
CONSTANTS
  NUM_CORES = 1
  MaxBlocks = 3
  MAX_ITER = 2
SPECIFICATION FairSpec
INVARIANTS TypeOK FirstResultsFresh HostAlone
PROPERTIES DriverFinishes
