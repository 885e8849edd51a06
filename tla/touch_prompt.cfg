SPECIFICATION Spec
CONSTANTS
  Capacity = 6
  UrlSize = 7
  Texts = {1, 5}
  KeepsUp = TRUE
INVARIANT UrlFits
INVARIANT NoStuckButton
PROPERTY ClickHits
