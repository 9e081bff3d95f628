----------------------------- MODULE ExampleXcb -----------------------------
(***************************************************************************)
(* example/example_xcb.c: main, testXinerama, xineramaIsActive,            *)
(* xineramaScreenCount and xineramaScreenGeometry.  The connection is that *)
(* of the display; its requests are answered as long as the server is      *)
(* there, and with NULL afterwards.                                        *)
(***************************************************************************)
EXTENDS Client

CONSTANT ERROR     \* the line about a screen without a geometry

VARIABLES
  num_screens,     \* the local of testXinerama
  reply,           \* what the query of one geometry was answered with
  iter,            \* screens of the reply that the iterator has passed
  screen_index,    \* the parameter of xineramaScreenGeometry, which it counts down
  outcome,         \* what it is to return: with the geometry, or ERROR
  lines,           \* what was printed, a line for each screen
  changed          \* the screens changed since they were counted

localVars == <<num_screens, reply, iter, screen_index, outcome>>
exampleVars == <<allVars, localVars, lines, changed>>

\* What is called at each label.
Calls ==
  [parse |-> "xcb_parse_display", open |-> "XOpenDisplay", connection |-> "XGetXCBConnection",
   ask_active |-> "xcb_xinerama_is_active_unchecked",
   active |-> "xcb_xinerama_is_active_reply",
   ask_count |-> "xcb_xinerama_query_screens_unchecked",
   count |-> "xcb_xinerama_query_screens_reply",
   ask_geometry |-> "xcb_xinerama_query_screens_unchecked",
   geometry |-> "xcb_xinerama_query_screens_reply",
   iterator |-> "xcb_xinerama_query_screens_screen_info_iterator",
   iterate |-> "xcb_xinerama_screen_info_next", close |-> "XCloseDisplay"]
OnDisplay == DOMAIN Calls \ {"parse", "open", "iterator", "iterate"}

LocalInit ==
  /\ num_screens = 0 /\ reply = <<>> /\ iter = 0 /\ screen_index = 0 /\ outcome = ERROR
  /\ lines = <<>> /\ changed = FALSE
ExampleInit == ClientInit /\ LocalInit

Calling(label) == At(label) /\ ~BadCall(Calls, OnDisplay)

\* The program goes on: nothing else changes, or only its locals.
GoesOn(label) == Goes(label) /\ UNCHANGED <<serverVars, display, changed>>
On(label) == GoesOn(label) /\ UNCHANGED <<localVars, lines>>
Leaves(code) == Ends(code) /\ UNCHANGED <<serverVars, display, localVars, lines, changed>>

-----------------------------------------------------------------------------
(* main                                                                    *)

CallsXcbInit == CallsInit("main", "XCB", "xcb_initialised") /\ UNCHANGED <<localVars, lines, changed>>

\* A mistake for ReportsFailure: main returns as if nothing was wrong.
ReportsAndReturns ==
  /\ At("xcb_initialised") /\ answer[Main]["XCB"] # "SUCCESS"
  /\ reported' = xewErrorString(answer[Main]["XCB"]) /\ status' = EXIT_SUCCESS
  /\ UNCHANGED <<vars, at, serverVars, display, localVars, lines, changed>>
ReportsFailure ==
  /\ At("xcb_initialised") /\ answer[Main]["XCB"] # "SUCCESS"
  /\ reported' = xewErrorString(answer[Main]["XCB"]) /\ status' = EXIT_FAILURE
  /\ UNCHANGED <<vars, at, serverVars, display, localVars, lines, changed>>
Initialised == At("xcb_initialised") /\ answer[Main]["XCB"] = "SUCCESS" /\ On("parse")
ParsesDisplay == Calling("parse") /\ On("has")

\* A mistake for AsksForXinerama: another library's function is asked for.
AsksForConnect ==
  /\ At("has")
  /\ IF HasSymbol("xcb_connect") THEN On("init_x11") ELSE Leaves(EXIT_SUCCESS)
AsksForXinerama ==
  /\ At("has")
  /\ IF HasSymbol("xcb_xinerama_is_active") THEN On("init_x11") ELSE Leaves(EXIT_SUCCESS)

-----------------------------------------------------------------------------
(* testXinerama                                                            *)

CallsX11Init ==
  CallsInit("init_x11", "X11", "x11_initialised") /\ UNCHANGED <<localVars, lines, changed>>
TestsX11 ==
  /\ At("x11_initialised")
  /\ IF answer[Main]["X11"] = "SUCCESS" THEN On("open") ELSE Leaves(EXIT_SUCCESS)
Opens == Calling("open") /\ OpensDisplay("connection") /\ UNCHANGED <<localVars, lines, changed>>
GetsConnection == Calling("connection") /\ On("ask_active")

\* xineramaIsActive; the display is left open where it is not.
AsksActive == Calling("ask_active") /\ On("active")
IsActive ==
  /\ Calling("active")
  /\ IF server = "up" /\ active THEN On("ask_count") ELSE Leaves(EXIT_SUCCESS)

\* xineramaScreenCount
AsksCount == Calling("ask_count") /\ On("count")
\* A mistake for Counts: the index of the last screen is taken for their number.
CountsOneLess ==
  /\ Calling("count")
  /\ num_screens' = IF server = "up" THEN Len(screens) - 1 ELSE 0
  /\ changed' = (server # "up")
  /\ Goes("for")
  /\ UNCHANGED <<serverVars, display, reply, iter, screen_index, outcome, lines>>
Counts ==
  /\ Calling("count")
  /\ num_screens' = IF server = "up" THEN Len(screens) ELSE 0
  /\ changed' = (server # "up")
  /\ Goes("for")
  /\ UNCHANGED <<serverVars, display, reply, iter, screen_index, outcome, lines>>

NextScreen ==
  /\ At("for")
  /\ On(IF Len(lines) < num_screens THEN "ask_geometry" ELSE "close")
Closes ==
  /\ Calling("close")
  /\ ClosesDisplay /\ Ends(EXIT_SUCCESS) /\ UNCHANGED <<localVars, lines, changed>>

\* A mistake for Prints: a screen without a geometry is tried again.
PrintsOrRetries ==
  /\ At("print")
  /\ lines' = IF outcome = ERROR THEN lines ELSE Append(lines, outcome)
  /\ GoesOn("for") /\ UNCHANGED localVars
Prints ==
  /\ At("print")
  /\ lines' = Append(lines, outcome)
  /\ GoesOn("for") /\ UNCHANGED localVars

-----------------------------------------------------------------------------
(* xineramaScreenGeometry                                                  *)

\* A mistake for AsksGeometry: the outcome of the last call is kept.
AsksGeometryAgain ==
  /\ Calling("ask_geometry")
  /\ screen_index' = Len(lines)
  /\ GoesOn("geometry") /\ UNCHANGED <<num_screens, reply, iter, outcome, lines>>
AsksGeometry ==
  /\ Calling("ask_geometry")
  /\ screen_index' = Len(lines) /\ outcome' = ERROR
  /\ GoesOn("geometry") /\ UNCHANGED <<num_screens, reply, iter, lines>>
GetsGeometry ==
  /\ Calling("geometry")
  /\ reply' = IF server = "up" THEN screens ELSE <<>>
  /\ GoesOn(IF server = "up" THEN "iterator" ELSE "print")
  /\ UNCHANGED <<num_screens, iter, screen_index, outcome, lines>>
StartsIterating ==
  /\ Calling("iterator")
  /\ iter' = 0
  /\ GoesOn(IF reply = <<>> THEN "print" ELSE "iterate")
  /\ UNCHANGED <<num_screens, reply, screen_index, outcome, lines>>

\* One turn of the loop: all of the screens are passed.
Iterates ==
  /\ Calling("iterate")
  /\ outcome' = IF screen_index = 0 THEN reply[iter + 1] ELSE outcome
  /\ screen_index' = screen_index - 1
  /\ iter' = iter + 1
  /\ GoesOn(IF iter' = Len(reply) THEN "print" ELSE "iterate")
  /\ UNCHANGED <<num_screens, reply, lines>>

-----------------------------------------------------------------------------
TestXinerama ==
  \/ CallsX11Init \/ TestsX11 \/ Opens \/ GetsConnection \/ AsksActive \/ IsActive
  \/ AsksCount \/ Counts \/ NextScreen \/ AsksGeometry \/ GetsGeometry \/ StartsIterating
  \/ Iterates \/ Prints \/ Closes
Program ==
  \/ CallsXcbInit \/ ReportsFailure \/ Initialised \/ ParsesDisplay \/ AsksForXinerama
  \/ TestXinerama
  \/ IOError({"close"}) /\ UNCHANGED <<localVars, lines, changed>>
  \/ WranglerStep /\ UNCHANGED <<localVars, lines, changed>>

Others ==
  /\ Surroundings
  /\ changed' = (changed \/ screens' # screens \/ server' # server)
  /\ UNCHANGED <<localVars, lines>>

ExampleSpec == ExampleInit /\ [][Program \/ Others]_exampleVars /\ WF_exampleVars(Program)

-----------------------------------------------------------------------------
\* Every call ends in a library that is mapped, and on a display that is open,
\* but for one: where the process exports its wrappers and has no
\* libxcb-xinerama, HAS_SYMBOL is true of xcb_xinerama_is_active, and the first
\* call for Xinerama does not come back (main, testXinerama and what it calls).
CallsEndInLibraries ==
  At(at) => (BadCall(Calls, OnDisplay) <=> at = "ask_active" /\ FoundItself(Calls.ask_active))

\* The line about a screen has the geometry that this screen has in the answer
\* to the query made for it, and is an error exactly when there is no such
\* screen any more, whatever became of the screens since they were counted
\* (xineramaScreenGeometry counts its parameter down while it iterates).
LinesAreAnswers ==
  [][lines' # lines =>
       lines' = Append(lines, IF Len(lines) < Len(reply) THEN reply[Len(lines) + 1]
                              ELSE ERROR)]_exampleVars

\* When the screens stay as they were counted, what is printed is all of them in
\* their order (testXinerama).
ReportsTheScreens ==
  at = "close" /\ ~changed => lines = screens

\* The program exits with a failure, after a text about it, when Init of XCB
\* failed, and only then as long as the connection holds: without the libraries
\* of Xinerama or of X11 it ends well (main).
FailureIsReported ==
  status # NULL =>
    /\ answer[Main]["XCB"] # "SUCCESS" => status = EXIT_FAILURE /\ reported \notin {NULL, "UNKNOWN"}
    /\ answer[Main]["XCB"] = "SUCCESS" /\ status = EXIT_FAILURE => server = "lost"

\* Whatever happens to screens and connection meanwhile, the program ends, unless
\* it comes to a wrapper that calls itself (CallsEndInLibraries says where).
Terminates == <>(phase = "ended" \/ Recurses(Calls))
=============================================================================
