SPECIFICATION MCSpec
CONSTANTS
  a = a
  b = b
  Mailboxes <- OneMailbox
  Threads = {t1, t2}
  Main = main
  Ids = {1, 2, 3}
  Milli <- MilliOf
  Home <- AllInOne
  MaxMessages = 2
  Persist = TRUE
  DiskFails = FALSE
  MaxCalls = 3

INVARIANT
  SortingRestoresOrder
