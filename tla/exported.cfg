SPECIFICATION OrderlySpec
CONSTANTS
  Soname <- MCSoname
  Sym <- MCSym
  Deps <- MCDeps
  Installs <- MCInstalls
  Editions <- MCEditions
  NULL = NULL
  Wrapper = Wrapper
  Exported <- MCSym
  Module <- MCModule
  Lib <- MCLib
  Libs <- MCLibs
  Required <- MCRequired
  Paths <- MCPaths
  Syms <- MCSyms
  LibOf <- MCLibOf
  Thread = {"main"}
  App = App
  MaxCleanups = 0
INVARIANT AvailableMeansCallable
CHECK_DEADLOCK FALSE
