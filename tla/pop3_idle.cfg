SPECIFICATION Spec
CONSTANTS
  a = a
  b = b
  ua = ua
  ub = ub
  Mailboxes = {a, b}
  Ids = {1}
  Home <- HomeOf
  MaxMessages = 2
  Conns = {c1}
  Users = {ua, ub}
  MailboxOf <- MailboxOfUser
  ExclusiveLock = TRUE
  HasTLS = TRUE
PROPERTIES
  IdleTimeout
