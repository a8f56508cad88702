SPECIFICATION FairSpec
CONSTANTS
  RxBufferSize = 4
  First = 3
  FifoSize = 2
  Commands = {{"dtr", "rxi", "txi"}}
  Repeat = 1
  MaxEvents = 2
INVARIANTS
  TypeOK
PROPERTIES
  ImplementsLine
  EachByteOnce
  StatusSettles
  ReceiverGoesOn
