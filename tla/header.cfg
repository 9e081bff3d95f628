\* Every pair of declarations, with header guards and without, and triples
\* inside a linkage specification, and headers with something that the parser
\* cannot read; the code of the header is kept.
SPECIFICATION Spec
CONSTANTS
  NONE = NONE
  Headers <- MCHeaders
  IgnoreTokens <- MCIgnoreTokens
  PointerNames <- MCPointerNames
  WrangleTypedefs = TRUE
INVARIANTS
  ParserTypeOK
  ReferencesAreFunctions
  GuardsMatch
  RoomToPutBack
  PutBackInPlace
  NothingIsLost
  RefusesExactly
PROPERTY
  ImplementsCatalogue
