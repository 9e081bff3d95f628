SPECIFICATION SerialSpec
CONSTANTS
  Soname <- MCSoname
  Sym <- MCSym
  Deps <- MCDeps
  Installs <- MCInstalls
  Editions <- MCEditions
  NULL = NULL
  Wrapper = Wrapper
  Exported = {}
  Module <- MCModule
  Lib <- MCLib
  Libs <- MCLibs
  Required <- MCRequired
  Paths <- MCPaths
  Syms <- MCSyms
  LibOf <- MCLibOf
  Thread = {"main"}
  App = App
  MaxCleanups = 0
  Wrapped <- MCWrapped
  Macros <- MCMacros
  Declares <- MCDeclares
INVARIANT EveryFunctionCanBeAsked
CHECK_DEADLOCK FALSE
