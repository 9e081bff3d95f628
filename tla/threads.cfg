SPECIFICATION FairSpec
CONSTANTS
  Soname <- MCSoname
  Sym <- MCSym
  Deps <- MCDeps
  Installs <- MCInstalls
  Editions <- MCEditions
  NULL = NULL
  Wrapper = Wrapper
  Exported = {}
  Module = {"XCB"}
  Lib <- MCLib
  Libs <- MCLibs
  Required <- MCRequired
  Paths <- MCPaths
  Syms <- MCSyms
  LibOf <- MCLibOf
  Thread = {"t1", "t2"}
  App = App
  MaxCleanups = 1
INVARIANTS TypeOK HandlesHeld HandlerBeforeHandle AttemptsBounded AvailableMeansCallable FailureIsJustified
PROPERTIES BoundFunctorsStay InitReturns
CHECK_DEADLOCK FALSE
