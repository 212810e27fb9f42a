\* Two consumers and two channels whose ready inputs move together, a memory
\* of any latency.
SPECIFICATION FairSpec
CONSTANTS
  NUM_CONSUMERS = 2
  NUM_CHANNELS = 2
  WRITE_ENABLE = TRUE
  Address = {a1, a2}
  Data = {d1, d2}
  ZeroAddress = a1
  ZeroData = d1
  AnswerSets <- CommonAnswers
  a1 = a1
  a2 = a2
  d1 = d1
  d2 = d2
INVARIANTS
  TypeOK
  Coherent
  Lockstep
PROPERTIES
  ActsAtomically
  FirstConsumerServed
