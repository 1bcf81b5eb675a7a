SPECIFICATION Spec
CONSTANTS
  inbox = inbox
  outbox = outbox
  r1 = r1
  r2 = r2
  r3 = r3
  fits = fits
  edge = edge
  large = large
  marked = marked
  app = app
  other = other
  Conns = {c1}
  Mailboxes = {inbox, outbox}
  Default = outbox
  Recipients = {r1, r2, r3}
  Routes <- RoutesOf
  Users = {app, other}
  UserBox <- BoxOfUser
  UserRouting = TRUE
  Mails = {fits, edge, large, marked}
  Header <- HeaderOf
  HeaderRouting = TRUE
  Size <- SizeOf
  AddReceived = TRUE
  MaxRecipients = 2
  Auth = "required"
  HasTLS = TRUE
  MaxTries = 2
INVARIANTS
  TypeOK
  AcceptedIsStored
  TLSMeansTLS
  OnlyAuthenticated
  EnvelopeIsCurrent
PROPERTY
  KeepsSubmission
