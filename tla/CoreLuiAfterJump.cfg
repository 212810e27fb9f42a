\* One warp; programs with lui behind a jump.
CONSTANTS
  NUM_WARPS = 1
  THREADS_PER_WARP = 2
  M = 4
  NUM_CHANNELS = 2
  AnswerSets <- CommonAnswers
  Programs <- Leaping
  StartMemory <- Memory
  Kept = {"ADDI"}
  NUM_BLOCKS = 1
SPECIFICATION Spec
CHECK_DEADLOCK FALSE
PROPERTY ExecutesIsa
