SPECIFICATION Spec
CONSTANTS
  a = a
  b = b
  ua = ua
  ub = ub
  Mailboxes = {a}
  Ids = {1, 2}
  Home <- HomeOf
  MaxMessages = 2
  Conns = {c1, c2}
  Users = {ua}
  MailboxOf <- MailboxOfUser
  ExclusiveLock = TRUE
  HasTLS = TRUE
INVARIANTS
  TypeOK
  OneSessionPerMailbox
  ExclusiveView
  OnlyAskedFor
  QuitDeletes
PROPERTIES
  LockIsReleased
  QuitEnds
