------------------------------ MODULE Examples ------------------------------
(***************************************************************************)
(* The programs in example/, each in a process of its own with the same    *)
(* libraries and the same kind of X server: program says which of them the *)
(* process runs.                                                           *)
(***************************************************************************)
EXTENDS WranglerProperties

CONSTANTS
  Servers,     \* how the X server may be found: a subset of {"up", "none"}
  Geometries,  \* what a screen may be
  MaxScreens,  \* bound: screens at a time
  MaxQueue,    \* bound: events that wait
  ERROR        \* the line about a screen without a geometry

ASSUME ExamplesAssumption ==
  /\ Thread # {}
  /\ {"X11", "XCB", "XKBCommon"} \subseteq Module
  /\ NULL \notin {0, 1}
  /\ ERROR \notin Geometries
  /\ MaxScreens \in Nat /\ MaxQueue \in Nat

VARIABLES
  program,                                                   \* the one that is run
  server, active, screens, displays, selected, queue,        \* see XServer
  at, display, status, reported,                             \* see Client
  drawn,                                                     \* see ExampleX11
  num_screens, reply, iter, screen_index, outcome, lines, changed, \* see ExampleXcb
  has                                                        \* see ExampleXkbcommon

\* Screens matter to example_xcb.c only, events to example_x11.c only.
X11 == INSTANCE ExampleX11 WITH Geometries <- {"any"}, MaxScreens <- 1
Xcb == INSTANCE ExampleXcb WITH MaxQueue <- 0
Xkb == INSTANCE ExampleXkbcommon WITH Geometries <- {"any"}, MaxScreens <- 0, MaxQueue <- 0

xcbVars == <<num_screens, reply, iter, screen_index, outcome, lines, changed>>
examplesVars == <<program, X11!exampleVars, xcbVars, has>>

ExamplesInit ==
  /\ X11!LocalInit /\ Xcb!LocalInit /\ Xkb!LocalInit
  /\ \/ program = "example_x11" /\ X11!ClientInit
     \/ program = "example_xcb" /\ Xcb!ClientInit
     \/ program = "example_xkbcommon" /\ Xkb!ClientInit

RunsX11 == program = "example_x11" /\ UNCHANGED <<program, xcbVars, has>>
RunsXcb == program = "example_xcb" /\ UNCHANGED <<program, drawn, has>>
RunsXkb == program = "example_xkbcommon" /\ UNCHANGED <<program, drawn, xcbVars>>

\* A step of the program, and of the X server beside it.
Program ==
  \/ RunsX11 /\ X11!Program
  \/ RunsXcb /\ Xcb!Program
  \/ RunsXkb /\ Xkb!Program
Others ==
  \/ RunsX11 /\ X11!Others
  \/ RunsXcb /\ Xcb!Others

\* The operating system schedules the process.
ExamplesSpec ==
  ExamplesInit /\ [][Program \/ Others]_examplesVars /\ WF_examplesVars(Program)

-----------------------------------------------------------------------------
(* What the programs rely on in the libraries of the system.               *)

\* Function s of module m is in a library that m requires, in all its editions.
ReliedOn(m, s) ==
  /\ s \in SymsOf(m) /\ LibOf[s] \in Required
  /\ \A edition \in Editions, i \in 1..Len(Paths[LibOf[s]]) : s \in edition[Paths[LibOf[s]][i]]

\* A library that has the function asked for has function s too.
ComesWith(m, s, asked) ==
  /\ s \in SymsOf(m) /\ asked \in SymsOf(m) /\ LibOf[s] = LibOf[asked]
  /\ \A edition \in Editions, i \in 1..Len(Paths[LibOf[s]]) :
       asked \in edition[Paths[LibOf[s]][i]] => s \in edition[Paths[LibOf[s]][i]]

\* What is called unasked is there, and so is what comes with what is asked for.
LibrariesSuffice ==
  /\ \A l \in DOMAIN X11!Calls :
       IF l \in {"is_active", "query"} THEN ComesWith("X11", X11!Calls[l], "XineramaIsActive")
       ELSE ReliedOn("X11", X11!Calls[l])
  /\ \A l \in {"open", "connection", "close"} : ReliedOn("X11", Xcb!Calls[l])
  /\ ReliedOn("XCB", Xcb!Calls.parse)
  /\ \A l \in DOMAIN Xcb!Calls \ {"open", "connection", "close", "parse"} :
       ComesWith("XCB", Xcb!Calls[l], "xcb_xinerama_is_active")

\* The wrappers of the function that is asked for and of the one that is called
\* first are exported together: a build exports all wrappers or none.
ExportedTogether == "xcb_xinerama_is_active" \in Exported => Xcb!Calls.ask_active \in Exported

\* XKBCommon is one library, which it requires.
XkbcommonAlone ==
  /\ SlotsOf("XKBCommon") = {"xkbcommon"} /\ "xkbcommon" \in Required
  /\ "xkb_context_new" \in SymsOf("XKBCommon")

-----------------------------------------------------------------------------
\* Every call that a program makes, after Init and after asking HAS_SYMBOL as it
\* does, ends in a library that is mapped and on a display that is open.  The one
\* exception is the first call for Xinerama in a process that exports its wrappers,
\* as CMake builds the programs (CMakeLists.txt:3, 21 and 36), and has no library
\* for Xinerama: HAS_SYMBOL is true of it and the wrapper calls itself.
CallsEndInLibraries ==
  /\ program = "example_x11" => X11!CallsEndInLibraries
  /\ program = "example_xcb" => Xcb!CallsEndInLibraries

\* example_x11.c: while the program waits for events its window is complete, or
\* an event that makes it draw the window is waiting: nothing that was uncovered
\* is forgotten, from the moment the window is on the screen.
WindowIsCompleted == program = "example_x11" => X11!WindowIsCompleted

\* example_x11.c: a display is closed before the next one is opened, and when
\* the program ends by returning from main none is open.
DisplaysAreClosed == program = "example_x11" => X11!DisplaysAreClosed

\* example_xcb.c: when the screens stay as they were counted, what is printed is
\* all of them in their order.
ReportsTheScreens == program = "example_xcb" => Xcb!ReportsTheScreens

\* example_xcb.c: the program exits with a failure, after a text about it, when
\* Init of XCB failed, and otherwise only if the connection broke.
FailureIsReported == program = "example_xcb" => Xcb!FailureIsReported

\* example_xkbcommon.c: status, message and answer tell what the system has.
TellsOfTheSystem == program = "example_xkbcommon" => Xkb!TellsOfTheSystem

\* example_xcb.c: the line about a screen has the geometry that this screen has
\* in the answer to the query made for it, and is an error exactly when there is
\* no such screen any more, whatever became of the screens since they were counted.
LinesAreAnswers == Xcb!LinesAreAnswers

\* example_x11.c: a key that was pressed ends the program, through exit handlers,
\* however many other events come.
KeyEndsProgram == program = "example_x11" => X11!KeyEndsProgram

\* The other programs end, whatever happens to screens and connection meanwhile,
\* or come to a wrapper that calls itself, as CallsEndInLibraries says.
Terminates == program # "example_x11" => Xcb!Terminates
=============================================================================
