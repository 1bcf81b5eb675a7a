SPECIFICATION Spec
CONSTANTS
  MaxDepth = 2
  DefaultLimit = 2
  MaxLimit = 3
  Kinds = {"cids"}
  MaxText = 6
  MaxLine = 2
  MaxPattern = 5
INVARIANT
  InlineImagesRender
