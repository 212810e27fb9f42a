\* Two warps that share the lanes.
CONSTANTS
  NUM_WARPS = 2
  THREADS_PER_WARP = 2
  M = 4
  NUM_CHANNELS = 2
  AnswerSets <- CommonAnswers
  Programs <- Counting
  StartMemory <- Memory
  Kept = {"ADDI"}
  NUM_BLOCKS = 1
SPECIFICATION Spec
CHECK_DEADLOCK FALSE
PROPERTY ExecutesIsa
