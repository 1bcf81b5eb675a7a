SPECIFICATION MCSpec
CONSTANTS
  a = a
  b = b
  Mailboxes <- TwoMailboxes
  Threads = {t1, t2}
  Main = main
  Ids = {1, 2, 3}
  Milli <- MilliOf
  Home <- LastInB
  MaxMessages = 1
  Persist = TRUE
  DiskFails = TRUE
  MaxCalls = 4
SYMMETRY Symmetry
INVARIANTS
  TypeOK
  IndexAgrees
  Capacity
  AckedIsKept
  DeletedStaysDeleted
  FlagIsSaved
  WholeFiles
PROPERTY
  KeepsPromises
