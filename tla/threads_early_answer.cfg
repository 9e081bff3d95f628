SPECIFICATION Spec
CONSTANTS
  Soname <- MCSoname
  Sym <- MCSym
  Deps <- MCDeps
  Installs <- MCInstalls
  Editions <- MCEditions
  NULL = NULL
  Wrapper = Wrapper
  Exported = {}
  Module = {"XCB"}
  Lib <- MCLib
  Libs <- MCLibs
  Required <- MCRequired
  Paths <- MCPaths
  Syms <- MCSyms
  LibOf <- MCLibOf
  Thread = {"t1", "t2"}
  App = App
  MaxCleanups = 1
INVARIANTS SuccessMeansReady
CHECK_DEADLOCK FALSE
