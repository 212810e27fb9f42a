\* One warp of two threads, two channels whose ready inputs move together, a
\* memory of any latency; every program of three instructions, run by two blocks.
CONSTANTS
  NUM_WARPS = 1
  THREADS_PER_WARP = 2
  M = 4
  NUM_CHANNELS = 2
  AnswerSets <- CommonAnswers
  Programs <- Mixed
  StartMemory <- Memory
  Kept = {"FADD", "SEQI"}
  NUM_BLOCKS = 2
SPECIFICATION FairSpec
CHECK_DEADLOCK FALSE
INVARIANTS TypeOK AnswersFresh ResetsQuietly
PROPERTIES ExecutesIsa BlocksComplete
