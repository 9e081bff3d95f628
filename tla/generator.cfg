\* Two runs of the generator over editions of the headers, stopped anywhere.
SPECIFICATION Spec
CONSTANTS
  REFUSED = REFUSED
  Tables <- MCTables
  Editions <- MCEditions
  DictOrders <- MCDictOrders
  MaxRuns = 2
INVARIANTS
  GeneratorTypeOK
  DoneMeansCurrent
  RefusalKeepsPairs
  StopTearsOne
  WrappersForward
  WrappersFitFunctors
CHECK_DEADLOCK FALSE
