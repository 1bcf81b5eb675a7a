SPECIFICATION Spec
CONSTANTS
  web = web
  smtps = smtps
  pop3 = pop3
  cw = cw
  cs = cs
  ct = ct
  Specs <- SpecsAll
  ServerOf <- ServerOfAll
  ImplicitTLS = {smtps}
  Conns = {cw, cs, ct}
  ListenerOf <- ListenerOfAll
INVARIANTS
  TypeOK
  StragglersOnly
  StatusTellsTruth
  NothingListens
PROPERTY
  ShutdownEnds
