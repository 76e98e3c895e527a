SPECIFICATION FairResolverSpec

CONSTANTS
  HighestHash = 5
  SearchLimit = 4
  MaxReorgDepth = 2

INVARIANTS
  AncestorExact
  PathReconnects

PROPERTY
  Returns
