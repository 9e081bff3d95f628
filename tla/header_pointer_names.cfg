\* A function that returns a pointer to a function, named as such a pointer.
SPECIFICATION Spec
CONSTANTS
  NONE = NONE
  Headers <- MCPointerHeaders
  IgnoreTokens <- MCIgnoreTokens
  PointerNames <- MCPointerNames
  WrangleTypedefs = FALSE
INVARIANT
  AllFunctionsListed
