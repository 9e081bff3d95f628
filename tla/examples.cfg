\* A server that may be lost later.
SPECIFICATION ExamplesSpec
CONSTANTS
  Soname <- MCSoname
  Sym <- MCSym
  Deps <- MCDeps
  Installs <- MCInstalls
  Editions <- MCEditions
  NULL = NULL
  Wrapper = Wrapper
  Exported <- MCSym
  Module <- MCModule
  Lib <- MCLib
  Libs <- MCLibs
  Required <- MCRequired
  Paths <- MCPaths
  Syms <- MCSyms
  LibOf <- MCLibOf
  Thread = {"main"}
  App = App
  MaxCleanups = 0
  Servers = {"up"}
  ERROR = ERROR
  Geometries = {"g", "h"}
  MaxScreens = 2
  MaxQueue = 3
INVARIANTS
  CallsEndInLibraries WindowIsCompleted DisplaysAreClosed
  ReportsTheScreens FailureIsReported TellsOfTheSystem
PROPERTIES LinesAreAnswers KeyEndsProgram Terminates
CHECK_DEADLOCK FALSE
