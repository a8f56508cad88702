CONSTANTS
  Images <- OneTape
  Kinds = {"LFS", "FAT"}
  Word = 64
  HeaderLen = 4
  MBUF_SIZE = 6
  LeadInLen = 1
  Bits = 2
  Commands = {"PLAY", "REC", "READ_BIT", "REW", "FFW"}
  Recordings = {"mark"}
  Junk = {"sync"}
  Positions = {2, 20}
  MaxLen = 11
  MaxRecords = 1
SPECIFICATION Spec
INVARIANTS
  TypeOK
  RecordedIsSafe
PROPERTIES
  SearchFindsNext
  CommandsTaken
