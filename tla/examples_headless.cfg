\* No server.
SPECIFICATION ExamplesSpec
CONSTANTS
  Soname <- MCSoname
  Sym <- MCSym
  Deps <- MCDeps
  Installs <- MCInstalls
  Editions <- MCEditions
  NULL = NULL
  Wrapper = Wrapper
  Exported <- MCSym
  Module <- MCModule
  Lib <- MCLib
  Libs <- MCLibs
  Required <- MCRequired
  Paths <- MCPaths
  Syms <- MCSyms
  LibOf <- MCLibOf
  Thread = {"main"}
  App = App
  MaxCleanups = 0
  Servers = {"none"}
  ERROR = ERROR
  Geometries = {"g", "h"}
  MaxScreens = 2
  MaxQueue = 3
INVARIANT CallsEndInLibraries
CHECK_DEADLOCK FALSE
