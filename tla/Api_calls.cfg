CONSTANTS
  Ops = {"read", "write", "other", "boot"}
  MaxKeys = 2
  MaxBytes = 2
  MaxCount = 2
  LineMax = 2
  OutRing = 1
  RxRing = 1
  SampleDelay = 0
  Typing = "slow"
  Breaks = "calm"
SPECIFICATION Spec
INVARIANTS
  TypeOK
  ReadsTheLine
  StreamsInOrder
PROPERTIES
  Answers
  CallsAnswered
