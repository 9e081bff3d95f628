----------------------------- MODULE ExampleX11 -----------------------------
(***************************************************************************)
(* example/example_x11.c: main, testXinerama and openTestWindow.           *)
(***************************************************************************)
EXTENDS Client

VARIABLE
  drawn        \* the window shows what it should; an uncovered part does not

exampleVars == <<allVars, drawn>>

\* What is called at each label.
Calls ==
  [open_test |-> "XOpenDisplay", is_active |-> "XineramaIsActive",
   close_inactive |-> "XCloseDisplay", query |-> "XineramaQueryScreens", free |-> "XFree",
   close_test |-> "XCloseDisplay", open_window |-> "XOpenDisplay",
   create |-> "XCreateSimpleWindow", select |-> "XSelectInput", map |-> "XMapWindow",
   next |-> "XNextEvent", fill |-> "XFillRectangle", draw |-> "XDrawString",
   close_window |-> "XCloseDisplay"]
OnDisplay == DOMAIN Calls \ {"open_test", "open_window", "free"}

LocalInit == drawn = FALSE
ExampleInit == ClientInit /\ LocalInit

\* A call can be made at the label.
Calling(label) == At(label) /\ ~BadCall(Calls, OnDisplay)

\* The program goes on without the server being touched.
On(label) == Goes(label) /\ UNCHANGED <<serverVars, display, drawn>>

-----------------------------------------------------------------------------
(* main                                                                    *)

CallsX11Init == CallsInit("main", "X11", "initialised") /\ UNCHANGED drawn
TestsResult ==
  /\ At("initialised")
  /\ IF answer[Main]["X11"] = "SUCCESS" THEN On("has_xinerama")
     ELSE Ends(EXIT_SUCCESS) /\ UNCHANGED <<serverVars, display, drawn>>
\* A mistake for AsksForXinerama: the function is called unasked.
AsksForNothing == At("has_xinerama") /\ On("open_test")
AsksForXinerama ==
  /\ At("has_xinerama")
  /\ On(IF HasSymbol("XineramaIsActive") THEN "open_test" ELSE "open_window")

-----------------------------------------------------------------------------
(* testXinerama                                                            *)

OpensForTest == Calling("open_test") /\ OpensDisplay("is_active") /\ UNCHANGED drawn
IsActive ==
  /\ Calling("is_active") /\ server = "up"
  /\ On(IF active THEN "query" ELSE "close_inactive")
\* A mistake for ClosesInactive: it returns and leaves the display open.
ReturnsWhenInactive == Calling("close_inactive") /\ On("open_window")
ClosesInactive ==
  /\ Calling("close_inactive")
  /\ ClosesDisplay /\ Goes("open_window") /\ UNCHANGED drawn
QueriesScreens == Calling("query") /\ server = "up" /\ On("free")
FreesScreens == Calling("free") /\ On("close_test")
ClosesTest ==
  /\ Calling("close_test")
  /\ ClosesDisplay /\ Goes("open_window") /\ UNCHANGED drawn
TestXinerama ==
  OpensForTest \/ IsActive \/ ClosesInactive \/ QueriesScreens \/ FreesScreens \/ ClosesTest

-----------------------------------------------------------------------------
(* openTestWindow                                                          *)

OpensForWindow == Calling("open_window") /\ OpensDisplay("check") /\ UNCHANGED drawn
ChecksDisplay ==
  /\ At("check")
  /\ IF display = NULL THEN Ends(EXIT_FAILURE) /\ UNCHANGED <<serverVars, display, drawn>>
     ELSE On("create")
CreatesWindow == Calling("create") /\ On("select")
\* A mistake for SelectsInput: Expose is not in the mask.
SelectsNothing == Calling("select") /\ On("map")
SelectsInput ==
  /\ Calling("select")
  /\ selected' = TRUE
  /\ Goes("map") /\ UNCHANGED <<server, active, screens, displays, queue, display, drawn>>

\* The server exposes a window that becomes visible, if the client wants to know.
MapsWindow ==
  /\ Calling("map")
  /\ queue' = IF selected /\ server = "up" THEN Append(queue, "Expose") ELSE queue
  /\ Goes("next") /\ UNCHANGED <<server, active, screens, displays, selected, display, drawn>>

\* A mistake for NextEvent: nothing ends the loop.
NextEventIgnoresKeys ==
  /\ Calling("next") /\ queue # <<>>
  /\ queue' = Tail(queue)
  /\ Goes(IF Head(queue) = "Expose" THEN "fill" ELSE "next")
  /\ UNCHANGED <<server, active, screens, displays, selected, display, drawn>>
\* Waits for an event; what follows depends on its type.
NextEvent ==
  /\ Calling("next") /\ queue # <<>>
  /\ queue' = Tail(queue)
  /\ Goes(CASE Head(queue) = "Expose"   -> "fill"
            [] Head(queue) = "KeyPress" -> "close_window"
            [] OTHER                    -> "next")
  /\ UNCHANGED <<server, active, screens, displays, selected, display, drawn>>
Fills == Calling("fill") /\ On("draw")
Draws ==
  /\ Calling("draw")
  /\ drawn' = TRUE
  /\ Goes("next") /\ UNCHANGED <<serverVars, display>>
ClosesWindow ==
  /\ Calling("close_window")
  /\ ClosesDisplay /\ Ends(EXIT_SUCCESS) /\ UNCHANGED drawn
OpenTestWindow ==
  \/ OpensForWindow \/ ChecksDisplay \/ CreatesWindow \/ SelectsInput \/ MapsWindow
  \/ NextEvent \/ Fills \/ Draws \/ ClosesWindow

-----------------------------------------------------------------------------
Program ==
  \/ CallsX11Init \/ TestsResult \/ AsksForXinerama \/ TestXinerama \/ OpenTestWindow
  \/ IOError(OnDisplay) /\ UNCHANGED drawn
  \/ WranglerStep /\ UNCHANGED drawn

\* An event that uncovers the window leaves a part of it blank.
Others ==
  /\ Surroundings
  /\ drawn' = (drawn /\ ~(queue' # queue /\ queue'[Len(queue')] = "Expose"))

ExampleSpec == ExampleInit /\ [][Program \/ Others]_exampleVars /\ WF_exampleVars(Program)

-----------------------------------------------------------------------------
\* Every call ends in a library that is mapped, and on a display that is open,
\* but for one: where the process exports its wrappers and has no libXinerama,
\* HAS_SYMBOL is true of XineramaIsActive, and the first call of it does not come
\* back (main, testXinerama, openTestWindow).
CallsEndInLibraries ==
  At(at) => (BadCall(Calls, OnDisplay) <=> at = "is_active" /\ FoundItself(Calls.is_active))

\* While the program waits for events its window is complete, or an event that
\* makes it draw the window is waiting: nothing that was uncovered is forgotten,
\* from the moment the window is on the screen (openTestWindow selects events
\* before it maps the window and draws for each Expose).
WindowIsCompleted ==
  at = "next" /\ status = NULL /\ server = "up" => drawn \/ Waits("Expose")

\* A display is closed before the next one is opened, and when the program ends
\* by returning from main none is open (testXinerama, openTestWindow).
DisplaysAreClosed ==
  /\ \A c, d \in DOMAIN displays : Open(c) /\ Open(d) => c = d
  /\ status = EXIT_SUCCESS => ~Connected

\* A key that was pressed ends the program, through exit handlers that leave
\* nothing of X11 open, however many other events come (openTestWindow).
KeyEndsProgram == Waits("KeyPress") ~> phase = "ended"
=============================================================================
