SPECIFICATION Spec
CONSTANTS
  MaxDepth = 2
  DefaultLimit = 2
  MaxLimit = 3
  Kinds = {"text", "dialog", "view", "page", "entity", "request", "cids", "pattern"}
  MaxText = 6
  MaxLine = 2
  MaxPattern = 5
INVARIANTS
  OctetsAnnounced
  NoEarlyEnd
  TopSendsPrefix
  PageAndTopAgree
  ListAgreesWithRetr
  RefusedExactlyIfTooLarge
  RoundTrip
  PagesShowAll
  EveryPartShown
  ComposedAsMeant
  RoutesMatch
