SPECIFICATION MCSpec
CONSTANTS
  kGcMinVa = 2
  kGcMaxVa = 10
  kSaveGprPattern <- SavePattern
  kRestGprPattern <- RestPattern
  AbiSize = 2
  Garbage <- Unwritten
  None = None
  cmd_list <- sCommands
  U32 = 32
  ULong = 128
  Blanks <- MCBlanks
  Readable <- Paths
  Writable <- Writables
  TestElf <- Test
  WordSize = 2
  DefaultDot <- Default
  Argvs <- ArgvSet
  DolFiles <- DolSet
  ElfFiles <- ElfSet
INVARIANTS MemoryShowsTheFile AbiRoutinesAreFound RunAsWritten ListingShowsTheFile GraphGoesWhereAsked
CHECK_DEADLOCK FALSE
